------------------------- MODULE HandleMessageProofs -------------------------
(***************************************************************************)
(* What holds of the handlers for every chain, cache size, concurrency,    *)
(* and any number of failing statements and restarts: the types of the     *)
(* variables, and, when no two transactions share a hash, that a stored    *)
(* receipt originates from the transaction it descends from, that a block  *)
(* handled in strict mode is stored, and that the handlers implement       *)
(* ReceiptLedger.                                                          *)
(***************************************************************************)
EXTENDS HandleMessage, TLAPS

NameOrNone == Names \cup {NoName}

(* What a key of the cache is made of.                                     *)
LEMMA KeyParts ==
    /\ \A r \in Receipts : ReceiptId(r) \in Keys /\ ReceiptId(r)[2] = r
    /\ \A d \in DataReceipts : DataId(d) \in Keys /\ DataId(d)[2] = d
    /\ \A r \in Receipts : KeyOf(r) \in Keys /\ KeyOf(r)[2] = r
    /\ \A k \in Keys : k[2] \in Receipts
    /\ \A k \in Keys : k = ReceiptId(k[2]) \/ (k = DataId(k[2]) /\ k[2] \in DataReceipts)
BY DEF Keys, ReceiptId, DataId, KeyOf, Receipts

(* Constant parts of the chain the types rest on.                          *)
LEMMA ChainTypes ==
    /\ \A c \in Chunks : BlockOf[c] \in Blocks
    /\ \A c \in Chunks : TxsOf(c) \subseteq Txs /\ ReceiptsOf(c) \subseteq Receipts
    /\ \A c \in Chunks : ExecutedBy(c) \subseteq ActionReceipts
    /\ \A r \in Receipts : Root[r] \in Txs
    /\ \A b \in Blocks : b \in 1..LastBlock /\ b \in 0..LastBlock
    /\ \A t \in Txs, s \in 0..LastBlock : SuffixedName(t, s) \in Names
BY ChainShape DEF TxsOf, ReceiptsOf, ExecutedBy, Blocks, SuffixedName, Names, Hashes

(* The cache after a section under its lock is a part of what was put in.  *)
LEMMA CachePart ==
    ASSUME NEW f \in [Keys -> NameOrNone], CacheBecomes(f)
    PROVE  /\ cache' \in [Keys -> NameOrNone]
           /\ \A k \in Keys : cache'[k] = NoName \/ cache'[k] = f[k]
BY DEF CacheBecomes, NameOrNone

LEMMA OnBlockType ==
    ASSUME NEW S, NEW b \in Blocks, NEW f \in [Chunks -> S], NEW g \in [Chunks -> S]
    PROVE  OnBlock(b, f, g) \in [Chunks -> S]
BY DEF OnBlock

(* What the searches add to the parents found is a name.                   *)
LEMMA FoundType ==
    ASSUME TypeOK, NEW c \in Chunks, NEW hits \in SUBSET Receipts,
           NEW row, \A r \in hits : row[r] \in NameOrNone
    PROVE  FoundWith(c, hits, row) \in [Keys -> NameOrNone]
BY KeyParts DEF FoundWith, TypeOK, NameOrNone

LEMMA CacheTypes ==
    ASSUME TypeOK, NEW c \in Chunks
    PROVE  /\ WithTxs(c) \in [Keys -> NameOrNone]
           /\ WithOutputData(c) \in [Keys -> NameOrNone]
           /\ WithOutcomes(c) \in [Keys -> NameOrNone]
<1>1. WithTxs(c) \in [Keys -> NameOrNone]
  <2>1. \A k \in Keys : cache[k] \in NameOrNone
    BY DEF TypeOK, NameOrNone
  <2>2. \A t \in txTodo[c] : SuffixedName(t, suffix[BlockOf[c]]) \in NameOrNone
    BY ChainTypes DEF TypeOK, NameOrNone
  <2>3. \A t \in txTodo[c], r \in ActionReceipts, k \in Keys :
           Parent[r] = t /\ k = ReceiptId(r) => Parent[k[2]] = t
    BY DEF ReceiptId
  <2> QED BY <2>1, <2>2, <2>3 DEF WithTxs
<1>2. WithOutputData(c) \in [Keys -> NameOrNone]
  <2>1. \A k \in Keys : cache[k] \in NameOrNone /\ found[c][k] \in NameOrNone
    BY DEF TypeOK, NameOrNone
  <2>2. \A d \in DataReceipts : Parent[d] \in ActionReceipts
    BY ChainShape, ChainOrder DEF Receipts
  <2>3. \A d \in DataReceipts : ReceiptId(Parent[d]) \in Keys
    BY <2>2, KeyParts DEF Receipts
  <2>4. \A d \in DataReceipts : DataId(d)[2] = d
    BY KeyParts
  <2> QED BY <2>1, <2>3, <2>4 DEF WithOutputData
<1>3. WithOutcomes(c) \in [Keys -> NameOrNone]
  <2>1. \A k \in Keys : cache[k] \in NameOrNone
    BY DEF TypeOK, NameOrNone
  <2>2. \A r \in ExecutedBy(c) : ReceiptId(r) \in Keys
    BY KeyParts, ChainTypes DEF Receipts
  <2>3. \A p \in ActionReceipts : ReceiptId(p)[2] = p
    BY KeyParts DEF Receipts
  <2>4. NoName \in NameOrNone
    BY DEF NameOrNone
  <2> QED BY <2>1, <2>2, <2>3, <2>4 DEF WithOutcomes
<1> QED BY <1>1, <1>2, <1>3

-----------------------------------------------------------------------------
(* Types.                                                                  *)
LEMMA InitType == Init => TypeOK
<1> USE HandlerConstants, ChainShape DEF Init, TypeOK
<1>1. Init => pc \in [Blocks -> {"idle", "block", "chunks", "parents", "outcomes",
                                 "done", "lost"}]
  OBVIOUS
<1>2. NoNames \in [Keys -> Names \cup {NoName}]
  BY DEF NoNames
<1>3. FirstBlock \in 1..(LastBlock + 1)
  BY DEF Blocks
<1> QED BY <1>1, <1>2, <1>3

(* The steps of the handler of a block.                                    *)
LEMMA BlockStepType ==
    ASSUME TypeOK, NEW b \in Blocks, BlockStep(b) \/ BlockFails(b)
    PROVE  TypeOK'
<1> USE HandlerConstants, ChainShape
<1>1. CASE Start(b)
  <2>1. next' \in 1..(LastBlock + 1)
    BY <1>1 DEF Start, TypeOK, Blocks
  <2> QED BY <1>1, <2>1 DEF Start, TypeOK, db, txs, rcs, limits
<1>2. CASE StoreBlock(b)
  BY <1>2 DEF StoreBlock, TypeOK, db, txs, rcs, limits
<1>3. CASE StoreChunks(b)
  <2>1. suffix' \in [Blocks -> 0..LastBlock]
    BY <1>3 DEF StoreChunks, TypeOK
  <2>2. txPc' \in [Chunks -> {"off", "cache", "insert", "actions", "stored", "done"}]
    BY <1>3 DEF StoreChunks, TypeOK, OnBlock
  <2>3. txTodo' \in [Chunks -> SUBSET Txs]
    BY <1>3, ChainTypes DEF StoreChunks, TypeOK, OnBlock
  <2>4. rcPc' \in [Chunks -> {"off", "cache", "data", "outcomes", "txs", "publish",
                              "insert", "output", "details", "done"}]
    BY <1>3 DEF StoreChunks, TypeOK, OnBlock
  <2>5. looking' \in [Chunks -> SUBSET Receipts]
    BY <1>3, ChainTypes DEF StoreChunks, TypeOK, OnBlock
  <2>6. found' \in [Chunks -> [Keys -> Names \cup {NoName}]]
    <3>1. NoNames \in [Keys -> Names \cup {NoName}]
      BY DEF NoNames
    <3> QED BY <1>3, <3>1 DEF StoreChunks, TypeOK, OnBlock
  <2>7. retries' \in [Chunks -> 0..RetriesLeft]
    BY <1>3 DEF StoreChunks, TypeOK, OnBlock
  <2>8. pc' \in [Blocks -> {"idle", "block", "chunks", "parents", "outcomes",
                            "done", "lost"}]
    BY <1>3 DEF StoreChunks, TypeOK
  <2> QED BY <1>3, <2>1, <2>2, <2>3, <2>4, <2>5, <2>6, <2>7, <2>8
          DEF StoreChunks, TypeOK, db, limits
<1>4. CASE TxCollect(b)
  <2>1. suffix' \in [Blocks -> 0..LastBlock]
    BY <1>4, ChainTypes DEF TxCollect, TypeOK
  <2>2. txPc' \in [Chunks -> {"off", "cache", "insert", "actions", "stored", "done"}]
    BY <1>4 DEF TxCollect, TypeOK, OnBlock
  <2>3. txTodo' \in [Chunks -> SUBSET Txs]
    <3>1. \A c \in Chunks : Collided(c) \in SUBSET Txs
      BY ChainTypes DEF Collided
    <3>2. CASE \A c \in ChunksOf(b) : Collided(c) = {}
      BY <1>4, <3>2 DEF TxCollect, TypeOK
    <3>3. CASE ~ \A c \in ChunksOf(b) : Collided(c) = {}
      <4>1. [c \in Chunks |-> Collided(c)] \in [Chunks -> SUBSET Txs]
        BY <3>1
      <4>2. txTodo \in [Chunks -> SUBSET Txs]
        BY DEF TypeOK
      <4>3. txTodo' = OnBlock(b, txTodo, [c \in Chunks |-> Collided(c)])
        BY <1>4, <3>3 DEF TxCollect
      <4> QED BY <4>1, <4>2, <4>3, OnBlockType
    <3> QED BY <3>2, <3>3
  <2> QED BY <1>4, <2>1, <2>2, <2>3 DEF TxCollect, TypeOK, db, rcs, limits
<1>5. CASE ParentsStored(b)
  <2>1. outPc' \in [Chunks -> {"off", "cache", "insert", "produced", "done"}]
    BY <1>5 DEF ParentsStored, TypeOK, OnBlock
  <2> QED BY <1>5, <2>1 DEF ParentsStored, TypeOK, db, txs, rcs, limits
<1>6. CASE Finish(b)
  BY <1>6 DEF Finish, TypeOK, db, txs, rcs, limits
<1>7. CASE BlockFails(b)
  <2>1. faults' \in 0..MaxFaults
    BY <1>7 DEF BlockFails, Fault, TypeOK
  <2> QED BY <1>7, <2>1 DEF BlockFails, Fault, Err, TypeOK, db, txs, rcs, limits
<1> QED BY <1>1, <1>2, <1>3, <1>4, <1>5, <1>6, <1>7 DEF BlockStep

(* The steps of store_chunk_transactions.                                  *)
LEMMA TxStepType ==
    ASSUME TypeOK, NEW c \in Chunks, TxStep(c) \/ TxFails(c)
    PROVE  TypeOK'
<1> USE HandlerConstants, ChainShape
<1>1. CASE TxCache(c)
  <2>1. cache' \in [Keys -> Names \cup {NoName}]
    BY <1>1, CacheTypes, CachePart DEF TxCache, NameOrNone
  <2> QED BY <1>1, <2>1 DEF TxCache, TypeOK, db, rcs, limits
<1>2. CASE TxInsert(c)
  <2>1. txName' \in [Txs -> Names \cup {NoName}]
    BY <1>2, ChainTypes DEF TxInsert, TypeOK
  <2>2. txPc' \in [Chunks -> {"off", "cache", "insert", "actions", "stored", "done"}]
    BY <1>2 DEF TxInsert, TypeOK, After
  <2> QED BY <1>2, <2>1, <2>2 DEF TxInsert, TypeOK, rcs, limits
<1>3. CASE TxInsertActions(c)
  <2>1. txPc' \in [Chunks -> {"off", "cache", "insert", "actions", "stored", "done"}]
    BY <1>3 DEF TxInsertActions, TypeOK, After
  <2>2. txActions' \subseteq Txs
    BY <1>3 DEF TxInsertActions, TypeOK
  <2> QED BY <1>3, <2>1, <2>2 DEF TxInsertActions, TypeOK, rcs, limits
<1>4. CASE TxFails(c)
  <2>1. faults' \in 0..MaxFaults
    BY <1>4 DEF TxFails, Fault, TypeOK
  <2> QED BY <1>4, <2>1 DEF TxFails, Fault, Err, TypeOK, db, rcs, limits
<1> QED BY <1>1, <1>2, <1>3, <1>4 DEF TxStep

(* What a search adds and takes away keeps the types.                      *)
LEMMA SearchType ==
    ASSUME TypeOK, NEW c \in Chunks, NEW hits \in SUBSET Receipts, NEW row,
           \A r \in hits : row[r] \in NameOrNone,
           found' = [found EXCEPT ![c] = FoundWith(c, hits, row)],
           looking' = [looking EXCEPT ![c] = @ \ hits]
    PROVE  /\ found' \in [Chunks -> [Keys -> Names \cup {NoName}]]
           /\ looking' \in [Chunks -> SUBSET Receipts]
<1>1. FoundWith(c, hits, row) \in [Keys -> Names \cup {NoName}]
  BY FoundType DEF NameOrNone
<1>2. looking[c] \ hits \in SUBSET Receipts
  BY DEF TypeOK
<1> QED BY <1>1, <1>2 DEF TypeOK

(* The steps of store_chunk_receipts.                                      *)
LEMMA RcStepType ==
    ASSUME TypeOK, NEW c \in Chunks, RcStep(c) \/ RcFails(c)
    PROVE  TypeOK'
<1> USE HandlerConstants, ChainShape
<1>0. \A d \in DataReceipts \cup ActionReceipts :
         /\ Parent[d] \in Receipts => receiptRow[Parent[d]] \in NameOrNone
         /\ Parent[d] \in Txs => txName[Parent[d]] \in NameOrNone
  BY DEF TypeOK, NameOrNone
<1>1. CASE RcCache(c)
  <2> DEFINE hits == {r \in looking[c] : cache[KeyOf(r)] # NoName}
             fnd == [k \in Keys |-> IF k \in {KeyOf(r) : r \in hits} THEN cache[k]
                                                                   ELSE NoName]
  <2>1. fnd \in [Keys -> Names \cup {NoName}]
    BY DEF TypeOK
  <2>2. found' \in [Chunks -> [Keys -> Names \cup {NoName}]]
    BY <1>1, <2>1 DEF RcCache, TypeOK
  <2>3. cache' \in [Keys -> Names \cup {NoName}]
    BY <1>1 DEF RcCache, TypeOK
  <2>4. looking' \in [Chunks -> SUBSET Receipts]
    <3>1. looking[c] \ hits \in SUBSET Receipts
      BY DEF TypeOK
    <3> QED BY <1>1, <3>1 DEF RcCache, TypeOK
  <2>5. rcPc' \in [Chunks -> {"off", "cache", "data", "outcomes", "txs", "publish",
                              "insert", "output", "details", "done"}]
    BY <1>1 DEF RcCache, TypeOK, Unless
  <2> QED BY <1>1, <2>2, <2>3, <2>4, <2>5 DEF RcCache, TypeOK, db, txs, limits
<1>2. CASE RcQueryOutputData(c)
  <2> DEFINE hits == {d \in LookingFor(c, DataReceipts) :
                        Parent[d] \in outputRows /\ receiptRow[Parent[d]] # NoName}
             row == [d \in DataReceipts |-> receiptRow[Parent[d]]]
  <2>1. hits \in SUBSET Receipts /\ \A r \in hits : row[r] \in NameOrNone
    BY <1>0 DEF TypeOK, LookingFor, Receipts
  <2>2. /\ found' = [found EXCEPT ![c] = FoundWith(c, hits, row)]
        /\ looking' = [looking EXCEPT ![c] = @ \ hits]
    BY <1>2 DEF RcQueryOutputData
  <2>3. /\ found' \in [Chunks -> [Keys -> Names \cup {NoName}]]
        /\ looking' \in [Chunks -> SUBSET Receipts]
    <3> HIDE DEF hits, row
    <3> QED BY <2>1, <2>2, SearchType
  <2>4. rcPc' \in [Chunks -> {"off", "cache", "data", "outcomes", "txs", "publish",
                              "insert", "output", "details", "done"}]
    BY <1>2 DEF RcQueryOutputData, TypeOK, Unless
  <2> QED BY <1>2, <2>3, <2>4 DEF RcQueryOutputData, TypeOK, db, txs, limits
<1>3. CASE RcQueryOutcomes(c)
  <2> DEFINE hits == {r \in LookingFor(c, ActionReceipts) :
                        Parent[r] \in producedRows /\ receiptRow[Parent[r]] # NoName}
             row == [r \in ActionReceipts |-> receiptRow[Parent[r]]]
  <2>1. hits \in SUBSET Receipts /\ \A r \in hits : row[r] \in NameOrNone
    BY <1>0 DEF TypeOK, LookingFor, Receipts
  <2>2. /\ found' = [found EXCEPT ![c] = FoundWith(c, hits, row)]
        /\ looking' = [looking EXCEPT ![c] = @ \ hits]
    BY <1>3 DEF RcQueryOutcomes
  <2>3. /\ found' \in [Chunks -> [Keys -> Names \cup {NoName}]]
        /\ looking' \in [Chunks -> SUBSET Receipts]
    <3> HIDE DEF hits, row
    <3> QED BY <2>1, <2>2, SearchType
  <2>4. rcPc' \in [Chunks -> {"off", "cache", "data", "outcomes", "txs", "publish",
                              "insert", "output", "details", "done"}]
    BY <1>3 DEF RcQueryOutcomes, TypeOK, Unless
  <2> QED BY <1>3, <2>3, <2>4 DEF RcQueryOutcomes, TypeOK, db, txs, limits
<1>4. CASE RcQueryTxs(c)
  <2> DEFINE hits == {r \in LookingFor(c, ActionReceipts) :
                        Parent[r] \in Txs /\ txName[Parent[r]] # NoName}
             row == [r \in ActionReceipts |-> txName[Parent[r]]]
  <2>1. hits \in SUBSET Receipts /\ \A r \in hits : row[r] \in NameOrNone
    BY <1>0 DEF TypeOK, LookingFor, Receipts
  <2>2. /\ found' = [found EXCEPT ![c] = FoundWith(c, hits, row)]
        /\ looking' = [looking EXCEPT ![c] = @ \ hits]
    BY <1>4 DEF RcQueryTxs
  <2>3. /\ found' \in [Chunks -> [Keys -> Names \cup {NoName}]]
        /\ looking' \in [Chunks -> SUBSET Receipts]
    <3> HIDE DEF hits, row
    <3> QED BY <2>1, <2>2, SearchType
  <2>4. rcPc' \in [Chunks -> {"off", "cache", "data", "outcomes", "txs", "publish",
                              "insert", "output", "details", "done"}]
    BY <1>4 DEF RcQueryTxs, TypeOK, Unless
  <2>5. retries' \in [Chunks -> 0..RetriesLeft]
    <3>1. RetriesAfter(c) \in 0..RetriesLeft
      <4>1. retries[c] \in 0..RetriesLeft
        BY DEF TypeOK
      <4> QED BY <4>1 DEF RetriesAfter
    <3> QED BY <1>4, <3>1 DEF RcQueryTxs, TypeOK
  <2> QED BY <1>4, <2>3, <2>4, <2>5 DEF RcQueryTxs, TypeOK, db, txs, limits
<1>5. CASE RcPublish(c)
  <2>1. cache' \in [Keys -> Names \cup {NoName}]
    BY <1>5, CacheTypes, CachePart DEF RcPublish, NameOrNone
  <2> QED BY <1>5, <2>1 DEF RcPublish, TypeOK, db, txs, limits
<1>6. CASE RcInsert(c)
  <2>1. \A r \in Resolved(c) : KeyOf(r) \in Keys
    BY KeyParts, ChainTypes DEF Resolved
  <2>2. receiptRow' \in [Receipts -> Names \cup {NoName}]
    BY <1>6, <2>1 DEF RcInsert, TypeOK
  <2>3. rcPc' \in [Chunks -> {"off", "cache", "data", "outcomes", "txs", "publish",
                              "insert", "output", "details", "done"}]
    BY <1>6 DEF RcInsert, TypeOK, After
  <2> QED BY <1>6, <2>2, <2>3 DEF RcInsert, TypeOK, txs, limits
<1>7. CASE RcInsertOutputData(c)
  <2>1. rcPc' \in [Chunks -> {"off", "cache", "data", "outcomes", "txs", "publish",
                              "insert", "output", "details", "done"}]
    BY <1>7 DEF RcInsertOutputData, TypeOK, After
  <2> QED BY <1>7, <2>1 DEF RcInsertOutputData, TypeOK, txs, limits
<1>8. CASE RcInsertDetails(c)
  BY <1>8 DEF RcInsertDetails, TypeOK, db, txs, limits
<1>9. CASE RcGivesUp(c)
  BY <1>9 DEF RcGivesUp, Err, TypeOK, db, txs, limits
<1>10. CASE RcFails(c)
  <2>1. faults' \in 0..MaxFaults
    BY <1>10 DEF RcFails, Fault, TypeOK
  <2> QED BY <1>10, <2>1 DEF RcFails, Fault, Err, TypeOK, db, txs, limits
<1> QED BY <1>1, <1>2, <1>3, <1>4, <1>5, <1>6, <1>7, <1>8, <1>9, <1>10 DEF RcStep

(* The steps of store_execution_outcomes_for_chunk.                        *)
LEMMA OutStepType ==
    ASSUME TypeOK, NEW c \in Chunks, OutStep(c) \/ OutFails(c)
    PROVE  TypeOK'
<1> USE HandlerConstants, ChainShape
<1>1. CASE OutCache(c)
  <2>1. cache' \in [Keys -> Names \cup {NoName}]
    BY <1>1, CacheTypes, CachePart DEF OutCache, NameOrNone
  <2> QED BY <1>1, <2>1 DEF OutCache, TypeOK, db, txs, rcs, limits
<1>2. CASE OutInsert(c)
  <2>1. outPc' \in [Chunks -> {"off", "cache", "insert", "produced", "done"}]
    BY <1>2 DEF OutInsert, TypeOK, After
  <2> QED BY <1>2, <2>1, ChainTypes DEF OutInsert, TypeOK, txs, rcs, limits
<1>3. CASE OutInsertProduced(c)
  <2>1. outPc' \in [Chunks -> {"off", "cache", "insert", "produced", "done"}]
    BY <1>3 DEF OutInsertProduced, TypeOK, After
  <2> QED BY <1>3, <2>1, ChainTypes DEF OutInsertProduced, TypeOK, txs, rcs, limits
<1>4. CASE OutGivesUp(c)
  BY <1>4 DEF OutGivesUp, Err, TypeOK, db, txs, rcs, limits
<1>5. CASE OutFails(c)
  <2>1. faults' \in 0..MaxFaults
    BY <1>5 DEF OutFails, Fault, TypeOK
  <2> QED BY <1>5, <2>1 DEF OutFails, Fault, Err, TypeOK, db, txs, rcs, limits
<1> QED BY <1>1, <1>2, <1>3, <1>4, <1>5 DEF OutStep

LEMMA RestartType ==
    ASSUME TypeOK, NEW h \in Blocks, Restart(h)
    PROVE  TypeOK'
<1> USE HandlerConstants, ChainShape
<1>1. NoNames \in [Keys -> Names \cup {NoName}]
  BY DEF NoNames
<1>2. crashes' \in 0..MaxCrashes /\ next' \in 1..(LastBlock + 1)
  BY DEF Restart, TypeOK, Blocks
<1>3. pc' \in [Blocks -> {"idle", "block", "chunks", "parents", "outcomes",
                          "done", "lost"}]
  BY DEF Restart, TypeOK
<1> QED BY <1>1, <1>2, <1>3 DEF Restart, TypeOK, db

LEMMA TypeInductive == TypeOK /\ [Next]_vars => TypeOK'
<1> SUFFICES ASSUME TypeOK, [Next]_vars PROVE TypeOK'
  OBVIOUS
<1>1. CASE UNCHANGED vars
  BY <1>1 DEF vars, db, txs, rcs, limits, TypeOK
<1>2. CASE \E b \in Blocks : BlockStep(b) \/ BlockFails(b)
  BY <1>2, BlockStepType
<1>3. CASE \E c \in Chunks : ChunkStep(c) \/ TxFails(c) \/ RcFails(c) \/ OutFails(c)
  BY <1>3, TxStepType, RcStepType, OutStepType DEF ChunkStep
<1>4. CASE \E h \in Blocks : Restart(h)
  BY <1>4, RestartType
<1>5. CASE StreamEnds
  BY <1>1, <1>5 DEF StreamEnds
<1> QED BY <1>1, <1>2, <1>3, <1>4, <1>5 DEF Next

(* Types hold in every reachable state.                                    *)
THEOREM TypeCorrect == Spec => []TypeOK
BY InitType, TypeInductive, PTL DEF Spec

-----------------------------------------------------------------------------
(* Origins.  While no two transactions share a hash there is never a       *)
(* second pass, so all that the tables, the cache and the searches hold    *)
(* for a receipt is the plain name of the transaction it descends from,    *)
(* and a receipt is only stored after that transaction.                    *)
NoCollisions == \A t, u \in Txs : TxHash[t] = TxHash[u] => t = u

OwnName(t) == SuffixedName(t, 0)
OriginName(r) == OwnName(Root[r])

PassInv ==
    /\ \A b \in Blocks : suffix[b] = 0
    /\ \A c \in Chunks : txPc[c] # "off" => txTodo[c] = TxsOf(c)
    /\ \A c \in Chunks : txPc[c] \in {"actions", "stored", "done"} =>
                          \A t \in TxsOf(c) : txName[t] # NoName

MemoryInv ==
    /\ \A k \in Keys : cache[k] \in {NoName, OriginName(k[2])}
    /\ \A c \in Chunks, k \in Keys : found[c][k] \in {NoName, OriginName(k[2])}

TablesInv ==
    /\ \A t \in Txs : txName[t] \in {NoName, OwnName(t)}
    /\ \A r \in Receipts : receiptRow[r] \in {NoName, OriginName(r)}
    /\ \A r \in Receipts : receiptRow[r] # NoName => txName[Root[r]] # NoName

OriginInv == TypeOK /\ PassInv /\ MemoryInv /\ TablesInv

(* A receipt has the root of the receipt or transaction it comes from.     *)
LEMMA Roots ==
    /\ \A r \in Receipts : Parent[r] \in Txs => Root[r] = Parent[r]
    /\ \A r \in Receipts : Parent[r] \in ActionReceipts => Root[r] = Root[Parent[r]]
    /\ \A d \in DataReceipts : Parent[d] \in ActionReceipts
<1>1. \A r \in Receipts : Parent[r] \in Txs \/ Parent[r] \in ActionReceipts
  BY ChainShape
<1>2. Txs \cap ActionReceipts = {}
  BY ChainShape DEF Receipts
<1>3. \A d \in DataReceipts : d \in Receipts /\ d \notin ActionReceipts
  BY ChainShape DEF Receipts
<1> QED BY <1>1, <1>2, <1>3, RootsFollowParents, ChainOrder

(* A plain name in use is the name of its transaction.                     *)
LEMMA NameInUse ==
    ASSUME NoCollisions, TablesInv, NEW t \in Txs, OwnName(t) \in NamesInUse
    PROVE  txName[t] = OwnName(t) /\ txName[t] # NoName
<1>1. PICK u \in Txs : txName[u] = OwnName(t) /\ txName[u] # NoName
  BY DEF NamesInUse
<1>2. OwnName(u) = OwnName(t)
  BY <1>1 DEF TablesInv
<1>3. u = t
  BY <1>2 DEF NoCollisions, OwnName, SuffixedName
<1> QED BY <1>1, <1>3

LEMMA OwnNames ==
    \A t \in Txs : OwnName(t) \in Names /\ OwnName(t) # NoName
<1>1. 0 \in 0..LastBlock
  BY ChainShape
<1> QED BY <1>1, ChainTypes, ChainShape DEF OwnName

(* The sections under the lock of the cache only put in origins.           *)
LEMMA CacheOrigins ==
    ASSUME OriginInv, NEW c \in Chunks, NEW k \in Keys
    PROVE  /\ WithTxs(c)[k] \in {NoName, OriginName(k[2])}
           /\ WithOutputData(c)[k] \in {NoName, OriginName(k[2])}
           /\ WithOutcomes(c)[k] \in {NoName, OriginName(k[2])}
<1>0. cache[k] \in {NoName, OriginName(k[2])}
  BY DEF OriginInv, MemoryInv
<1>1. WithTxs(c)[k] \in {NoName, OriginName(k[2])}
  <2>1. CASE \E t \in txTodo[c], r \in ActionReceipts :
                Parent[r] = t /\ k = ReceiptId(r)
    <3>1. PICK r \in ActionReceipts : Parent[r] \in txTodo[c] /\ k = ReceiptId(r)
      BY <2>1
    <3>2. k[2] = r /\ Parent[r] \in Txs /\ r \in Receipts
      BY <3>1 DEF OriginInv, TypeOK, ReceiptId, Receipts
    <3>3. Root[r] = Parent[r]
      BY <3>2, Roots
    <3>4. suffix[BlockOf[c]] = 0
      BY ChainTypes DEF OriginInv, PassInv
    <3> QED BY <2>1, <3>2, <3>3, <3>4 DEF WithTxs, OriginName, OwnName
  <2>2. CASE ~ \E t \in txTodo[c], r \in ActionReceipts :
                  Parent[r] = t /\ k = ReceiptId(r)
    BY <1>0, <2>2 DEF WithTxs
  <2> QED BY <2>1, <2>2
<1>2. WithOutputData(c)[k] \in {NoName, OriginName(k[2])}
  <2> DEFINE announced == \E d \in DataReceipts :
                             /\ k = DataId(d)
                             /\ IncludedIn[Parent[d]] = c
                             /\ found[c][ReceiptId(Parent[d])] # NoName
  <2>1. CASE announced
    <3>1. PICK d \in DataReceipts : k = DataId(d)
      BY <2>1
    <3>2. k[2] = d /\ d \in Receipts /\ Parent[d] \in ActionReceipts
      BY <3>1, Roots DEF DataId, Receipts
    <3>3. Root[d] = Root[Parent[d]] /\ Parent[d] \in Receipts
      BY <3>2, Roots DEF Receipts
    <3>4. ReceiptId(Parent[d]) \in Keys /\ ReceiptId(Parent[d])[2] = Parent[d]
      BY <3>3, KeyParts
    <3>5. found[c][ReceiptId(Parent[d])] \in {NoName, OriginName(Parent[d])}
      BY <3>4 DEF OriginInv, MemoryInv
    <3>6. WithOutputData(c)[k] = found[c][ReceiptId(Parent[d])]
      BY <2>1, <3>2 DEF WithOutputData
    <3> QED BY <3>2, <3>3, <3>5, <3>6 DEF OriginName
  <2>2. CASE ~announced
    BY <1>0, <2>2 DEF WithOutputData
  <2> QED BY <2>1, <2>2
<1>3. WithOutcomes(c)[k] \in {NoName, OriginName(k[2])}
  <2> DEFINE passed == \E p \in ActionReceipts :
                          /\ k = ReceiptId(p)
                          /\ Parent[p] \in ExecutedBy(c)
                          /\ cache[ReceiptId(Parent[p])] # NoName
  <2>1. CASE passed
    <3>1. PICK p \in ActionReceipts : k = ReceiptId(p) /\ Parent[p] \in ExecutedBy(c)
      BY <2>1
    <3>2. k[2] = p /\ p \in Receipts /\ Parent[p] \in ActionReceipts
      BY <3>1, ChainTypes DEF ReceiptId, Receipts
    <3>3. Root[p] = Root[Parent[p]] /\ Parent[p] \in Receipts
      BY <3>2, Roots DEF Receipts
    <3>4. ReceiptId(Parent[p]) \in Keys /\ ReceiptId(Parent[p])[2] = Parent[p]
      BY <3>3, KeyParts
    <3>5. cache[ReceiptId(Parent[p])] \in {NoName, OriginName(Parent[p])}
      BY <3>4 DEF OriginInv, MemoryInv
    <3>6. WithOutcomes(c)[k] = cache[ReceiptId(Parent[p])]
      BY <2>1, <3>2 DEF WithOutcomes
    <3> QED BY <3>2, <3>3, <3>5, <3>6 DEF OriginName
  <2>2. CASE ~passed
    BY <1>0, <2>2 DEF WithOutcomes
  <2> QED BY <2>1, <2>2
<1> QED BY <1>1, <1>2, <1>3

(* The rows a search uses are origins, hence so is what it has found.      *)
LEMMA FoundOrigins ==
    ASSUME OriginInv, NEW c \in Chunks, NEW hits \in SUBSET Receipts, NEW row,
           \A r \in hits : row[r] \in {NoName, OriginName(r)},
           found' = [found EXCEPT ![c] = FoundWith(c, hits, row)],
           cache' = cache
    PROVE  MemoryInv'
<1>1. \A k \in Keys : FoundWith(c, hits, row)[k] \in {NoName, OriginName(k[2])}
  <2> SUFFICES ASSUME NEW k \in Keys
               PROVE  FoundWith(c, hits, row)[k] \in {NoName, OriginName(k[2])}
    OBVIOUS
  <2>1. CASE \E r \in hits : k = ReceiptId(r)
    <3>1. PICK r \in hits : k = ReceiptId(r)
      BY <2>1
    <3>2. k[2] = r
      BY <3>1, KeyParts
    <3> QED BY <2>1, <3>2 DEF FoundWith
  <2>2. CASE ~ \E r \in hits : k = ReceiptId(r)
    BY <2>2 DEF FoundWith, OriginInv, MemoryInv
  <2> QED BY <2>1, <2>2
<1> QED BY <1>1 DEF OriginInv, MemoryInv, TypeOK

LEMMA BlockStepOrigin ==
    ASSUME NoCollisions, OriginInv, TypeOK', NEW b \in Blocks,
           BlockStep(b) \/ BlockFails(b)
    PROVE  OriginInv'
<1> USE DEF OriginInv
<1>0. ASSUME UNCHANGED <<db, cache, txs, rcs>> PROVE OriginInv'
  BY <1>0 DEF db, txs, rcs, PassInv, MemoryInv, TablesInv
<1>1. CASE Start(b)
  BY <1>0, <1>1 DEF Start
<1>2. CASE StoreBlock(b)
  BY <1>0, <1>2 DEF StoreBlock
<1>3. CASE StoreChunks(b)
  <2>1. PassInv'
    <3>1. \A x \in Blocks : suffix'[x] = 0
      BY <1>3 DEF StoreChunks, PassInv, TypeOK
    <3>2. \A c \in Chunks : txPc'[c] # "off" => txTodo'[c] = TxsOf(c)
      BY <1>3 DEF StoreChunks, OnBlock, PassInv
    <3>3. \A c \in Chunks : txPc'[c] \in {"actions", "stored", "done"} =>
                                \A t \in TxsOf(c) : txName'[t] # NoName
      BY <1>3 DEF StoreChunks, OnBlock, PassInv, db
    <3> QED BY <3>1, <3>2, <3>3 DEF PassInv
  <2>2. MemoryInv'
    BY <1>3 DEF StoreChunks, OnBlock, MemoryInv, NoNames
  <2>3. TablesInv'
    BY <1>3 DEF StoreChunks, TablesInv, db
  <2> QED BY <2>1, <2>2, <2>3
<1>4. CASE TxCollect(b)
  <2>1. \A c \in ChunksOf(b) : Collided(c) = {}
    BY <1>4 DEF TxCollect, FirstPassOver, ChunksOf, Collided, PassInv
  <2>2. txPc' = OnBlock(b, txPc, [c \in Chunks |-> "done"])
        /\ UNCHANGED <<suffix, txTodo>>
    BY <1>4, <2>1 DEF TxCollect
  <2>3. UNCHANGED <<db, cache, rcs>>
    BY <1>4 DEF TxCollect
  <2>4. \A c \in ChunksOf(b) : txPc[c] = "stored"
    BY <1>4 DEF TxCollect, FirstPassOver
  <2>5. PassInv'
    BY <2>2, <2>3, <2>4 DEF PassInv, OnBlock, ChunksOf, db
  <2> QED BY <2>3, <2>5 DEF MemoryInv, TablesInv, db, rcs
<1>5. CASE ParentsStored(b)
  BY <1>0, <1>5 DEF ParentsStored
<1>6. CASE Finish(b)
  BY <1>0, <1>6 DEF Finish
<1>7. CASE BlockFails(b)
  BY <1>0, <1>7 DEF BlockFails
<1> QED BY <1>1, <1>2, <1>3, <1>4, <1>5, <1>6, <1>7 DEF BlockStep

LEMMA TxStepOrigin ==
    ASSUME NoCollisions, OriginInv, TypeOK', NEW c \in Chunks,
           TxStep(c) \/ TxFails(c)
    PROVE  OriginInv'
<1> USE DEF OriginInv
<1>1. CASE TxCache(c)
  <2>1. \A k \in Keys : cache'[k] \in {NoName, OriginName(k[2])}
    BY <1>1, CacheTypes, CachePart, CacheOrigins DEF TxCache
  <2>2. MemoryInv'
    BY <1>1, <2>1 DEF TxCache, MemoryInv, rcs
  <2>3. PassInv'
    BY <1>1 DEF TxCache, PassInv, TypeOK, db
  <2> QED BY <1>1, <2>2, <2>3 DEF TxCache, TablesInv, db
<1>2. CASE TxInsert(c)
  <2>1. suffix[BlockOf[c]] = 0 /\ txTodo[c] = TxsOf(c)
    BY <1>2, ChainTypes DEF TxInsert, PassInv
  <2>2. txName' = [t \in Txs |->
           IF t \in txTodo[c] /\ OwnName(t) \notin NamesInUse THEN OwnName(t)
                                                             ELSE txName[t]]
    BY <1>2, <2>1 DEF TxInsert, OwnName
  <2>3. \A t \in TxsOf(c) : txName'[t] # NoName
    <3> SUFFICES ASSUME NEW t \in TxsOf(c) PROVE txName'[t] # NoName
      OBVIOUS
    <3>1. t \in Txs
      BY ChainTypes
    <3> QED BY <2>1, <2>2, <3>1, OwnNames, NameInUse
  <2>4. \A t \in Txs : txName[t] # NoName => txName'[t] # NoName
    BY <2>2, OwnNames
  <2>5. \A x \in Chunks : txPc'[x] = txPc[x] \/ x = c
    BY <1>2 DEF TxInsert, TypeOK
  <2>6. PassInv'
    <3>1. \A x \in Chunks : txPc'[x] # "off" => txTodo'[x] = TxsOf(x)
      BY <1>2, <2>1, <2>5 DEF TxInsert, PassInv
    <3>2. \A x \in Chunks : txPc'[x] \in {"actions", "stored", "done"} =>
                                \A t \in TxsOf(x) : txName'[t] # NoName
      BY <2>3, <2>4, <2>5, ChainTypes DEF PassInv
    <3> QED BY <1>2, <3>1, <3>2 DEF TxInsert, PassInv
  <2>7. TablesInv'
    <3>1. \A t \in Txs : txName'[t] \in {NoName, OwnName(t)}
      BY <2>2 DEF TablesInv
    <3>2. receiptRow' = receiptRow
      BY <1>2 DEF TxInsert
    <3> QED BY <3>1, <3>2, <2>4, ChainTypes DEF TablesInv
  <2> QED BY <1>2, <2>6, <2>7 DEF TxInsert, MemoryInv, rcs
<1>3. CASE TxInsertActions(c)
  <2>1. \A x \in Chunks : txPc'[x] = txPc[x] \/ x = c
    BY <1>3 DEF TxInsertActions, TypeOK
  <2>2. PassInv'
    BY <1>3, <2>1 DEF TxInsertActions, PassInv
  <2> QED BY <1>3, <2>2 DEF TxInsertActions, MemoryInv, TablesInv, rcs
<1>4. CASE TxFails(c)
  <2>1. PassInv'
    BY <1>4 DEF TxFails, PassInv, TypeOK, db
  <2> QED BY <1>4, <2>1 DEF TxFails, MemoryInv, TablesInv, db, rcs
<1> QED BY <1>1, <1>2, <1>3, <1>4 DEF TxStep

LEMMA RcStepOrigin ==
    ASSUME NoCollisions, OriginInv, TypeOK', NEW c \in Chunks,
           RcStep(c) \/ RcFails(c)
    PROVE  OriginInv'
<1> USE DEF OriginInv
<1>0. ASSUME UNCHANGED <<db, txs>>, MemoryInv' PROVE OriginInv'
  BY <1>0 DEF db, txs, PassInv, TablesInv
<1>1. CASE RcCache(c)
  <2>1. MemoryInv'
    BY <1>1 DEF RcCache, MemoryInv, TypeOK
  <2> QED BY <1>0, <1>1, <2>1 DEF RcCache
<1>2. CASE RcQueryOutputData(c)
  <2> DEFINE hits == {d \in LookingFor(c, DataReceipts) :
                        Parent[d] \in outputRows /\ receiptRow[Parent[d]] # NoName}
             row == [d \in DataReceipts |-> receiptRow[Parent[d]]]
  <2>1. \A r \in hits : r \in DataReceipts
    BY DEF LookingFor
  <2>2. hits \in SUBSET Receipts /\ \A r \in hits : row[r] \in {NoName, OriginName(r)}
    BY <2>1, Roots DEF Receipts, TablesInv, OriginName
  <2>3. found' = [found EXCEPT ![c] = FoundWith(c, hits, row)] /\ cache' = cache
    BY <1>2 DEF RcQueryOutputData
  <2>4. MemoryInv'
    <3> HIDE DEF hits, row, OriginInv
    <3> QED BY <2>2, <2>3, FoundOrigins
  <2> QED BY <1>0, <1>2, <2>4 DEF RcQueryOutputData
<1>3. CASE RcQueryOutcomes(c)
  <2> DEFINE hits == {r \in LookingFor(c, ActionReceipts) :
                        Parent[r] \in producedRows /\ receiptRow[Parent[r]] # NoName}
             row == [r \in ActionReceipts |-> receiptRow[Parent[r]]]
  <2>1. \A r \in hits : r \in ActionReceipts /\ Parent[r] \in ActionReceipts
    BY DEF LookingFor, TypeOK
  <2>2. hits \in SUBSET Receipts /\ \A r \in hits : row[r] \in {NoName, OriginName(r)}
    BY <2>1, Roots DEF Receipts, TablesInv, OriginName
  <2>3. found' = [found EXCEPT ![c] = FoundWith(c, hits, row)] /\ cache' = cache
    BY <1>3 DEF RcQueryOutcomes
  <2>4. MemoryInv'
    <3> HIDE DEF hits, row, OriginInv
    <3> QED BY <2>2, <2>3, FoundOrigins
  <2> QED BY <1>0, <1>3, <2>4 DEF RcQueryOutcomes
<1>4. CASE RcQueryTxs(c)
  <2> DEFINE hits == {r \in LookingFor(c, ActionReceipts) :
                        Parent[r] \in Txs /\ txName[Parent[r]] # NoName}
             row == [r \in ActionReceipts |-> txName[Parent[r]]]
  <2>1. \A r \in hits : r \in ActionReceipts /\ Parent[r] \in Txs
    BY DEF LookingFor
  <2>2. hits \in SUBSET Receipts /\ \A r \in hits : row[r] \in {NoName, OriginName(r)}
    BY <2>1, Roots DEF Receipts, TablesInv, OriginName
  <2>3. found' = [found EXCEPT ![c] = FoundWith(c, hits, row)] /\ cache' = cache
    BY <1>4 DEF RcQueryTxs
  <2>4. MemoryInv'
    <3> HIDE DEF hits, row, OriginInv
    <3> QED BY <2>2, <2>3, FoundOrigins
  <2> QED BY <1>0, <1>4, <2>4 DEF RcQueryTxs
<1>5. CASE RcPublish(c)
  <2>1. \A k \in Keys : cache'[k] \in {NoName, OriginName(k[2])}
    BY <1>5, CacheTypes, CachePart, CacheOrigins DEF RcPublish
  <2>2. MemoryInv'
    BY <1>5, <2>1 DEF RcPublish, MemoryInv
  <2> QED BY <1>0, <1>5, <2>2 DEF RcPublish
<1>6. CASE RcInsert(c)
  <2>1. \A r \in Resolved(c) : /\ r \in Receipts
                               /\ found[c][KeyOf(r)] = OriginName(r)
                               /\ txName[Root[r]] # NoName
    <3> SUFFICES ASSUME NEW r \in Resolved(c)
                 PROVE  /\ r \in Receipts
                        /\ found[c][KeyOf(r)] = OriginName(r)
                        /\ txName[Root[r]] # NoName
      OBVIOUS
    <3>1. r \in Receipts
      BY ChainTypes DEF Resolved
    <3>2. found[c][KeyOf(r)] \in NamesInUse
      BY <1>6 DEF RcInsert
    <3>3. found[c][KeyOf(r)] \in {NoName, OriginName(r)}
      BY <3>1, KeyParts DEF MemoryInv
    <3>4. NoName \notin NamesInUse
      BY DEF NamesInUse
    <3>5. OwnName(Root[r]) \in NamesInUse /\ Root[r] \in Txs
      BY <3>1, <3>2, <3>3, <3>4, ChainTypes DEF OriginName
    <3> QED BY <3>1, <3>2, <3>3, <3>4, <3>5, NameInUse
  <2>2. \A r \in Receipts : receiptRow'[r] =
            IF r \in Resolved(c) /\ receiptRow[r] = NoName
            THEN found[c][KeyOf(r)] ELSE receiptRow[r]
    BY <1>6 DEF RcInsert
  <2>3. txName' = txName
    BY <1>6 DEF RcInsert
  <2>4. TablesInv'
    BY <2>1, <2>2, <2>3 DEF TablesInv
  <2>5. PassInv'
    BY <1>6 DEF RcInsert, PassInv, txs
  <2> QED BY <1>6, <2>4, <2>5 DEF RcInsert, MemoryInv
<1>7. CASE RcInsertOutputData(c)
  BY <1>7 DEF RcInsertOutputData, PassInv, MemoryInv, TablesInv, txs
<1>8. CASE RcInsertDetails(c)
  BY <1>0, <1>8 DEF RcInsertDetails, MemoryInv
<1>9. CASE RcGivesUp(c)
  BY <1>0, <1>9 DEF RcGivesUp, MemoryInv
<1>10. CASE RcFails(c)
  BY <1>0, <1>10 DEF RcFails, MemoryInv
<1> QED BY <1>1, <1>2, <1>3, <1>4, <1>5, <1>6, <1>7, <1>8, <1>9, <1>10 DEF RcStep

LEMMA OutStepOrigin ==
    ASSUME OriginInv, TypeOK', NEW c \in Chunks, OutStep(c) \/ OutFails(c)
    PROVE  OriginInv'
<1> USE DEF OriginInv
<1>1. CASE OutCache(c)
  <2>1. \A k \in Keys : cache'[k] \in {NoName, OriginName(k[2])}
    BY <1>1, CacheTypes, CachePart, CacheOrigins DEF OutCache
  <2>2. MemoryInv'
    BY <1>1, <2>1 DEF OutCache, MemoryInv, rcs
  <2> QED BY <1>1, <2>2 DEF OutCache, PassInv, TablesInv, db, txs
<1>2. CASE OutInsert(c)
  BY <1>2 DEF OutInsert, PassInv, MemoryInv, TablesInv, txs, rcs
<1>3. CASE OutInsertProduced(c)
  BY <1>3 DEF OutInsertProduced, PassInv, MemoryInv, TablesInv, txs, rcs
<1>4. CASE OutGivesUp(c)
  BY <1>4 DEF OutGivesUp, PassInv, MemoryInv, TablesInv, db, txs, rcs
<1>5. CASE OutFails(c)
  BY <1>5 DEF OutFails, PassInv, MemoryInv, TablesInv, db, txs, rcs
<1> QED BY <1>1, <1>2, <1>3, <1>4, <1>5 DEF OutStep

LEMMA OriginInductive ==
    ASSUME NoCollisions
    PROVE  /\ Init => OriginInv
           /\ OriginInv /\ [Next]_vars => OriginInv'
<1>1. Init => OriginInv
  <2>1. Init => PassInv
    BY DEF Init, PassInv
  <2>2. Init => MemoryInv
    BY DEF Init, MemoryInv, NoNames
  <2>3. Init => TablesInv
    BY DEF Init, TablesInv
  <2> QED BY <2>1, <2>2, <2>3, InitType DEF OriginInv
<1>2. OriginInv /\ [Next]_vars => OriginInv'
  <2> SUFFICES ASSUME OriginInv, [Next]_vars PROVE OriginInv'
    OBVIOUS
  <2>0. TypeOK'
    BY TypeInductive DEF OriginInv
  <2>1. CASE UNCHANGED vars
    BY <2>0, <2>1 DEF vars, db, txs, rcs, OriginInv, PassInv, MemoryInv, TablesInv
  <2>2. CASE \E b \in Blocks : BlockStep(b) \/ BlockFails(b)
    BY <2>0, <2>2, BlockStepOrigin
  <2>3. CASE \E c \in Chunks : ChunkStep(c) \/ TxFails(c) \/ RcFails(c) \/ OutFails(c)
    BY <2>0, <2>3, TxStepOrigin, RcStepOrigin, OutStepOrigin DEF ChunkStep
  <2>4. CASE \E h \in Blocks : Restart(h)
    BY <2>0, <2>4 DEF Restart, OriginInv, PassInv, MemoryInv, TablesInv, db, NoNames
  <2>5. CASE StreamEnds
    BY <2>1, <2>5 DEF StreamEnds
  <2> QED BY <2>1, <2>2, <2>3, <2>4, <2>5 DEF Next
<1> QED BY <1>1, <1>2

(* A stored receipt originates from the transaction it descends from.      *)
THEOREM OriginCorrect == NoCollisions => (Spec => []OriginIsRoot)
<1> SUFFICES ASSUME NoCollisions PROVE Spec => []OriginIsRoot
  OBVIOUS
<1>1. OriginInv => OriginIsRoot
  BY ChainTypes DEF OriginInv, TablesInv, OriginIsRoot, OriginName
<1> QED BY <1>1, OriginInductive, PTL DEF Spec
-----------------------------------------------------------------------------
(* Strict mode, with no two transactions under one hash: a block that was  *)
(* handled is stored as a whole, and the handlers implement ReceiptLedger. *)
(* The argument: no row is ever changed or deleted, so what a stage of a   *)
(* handler has stored stays, and the strict search leaves no action        *)
(* receipt of the chunk without a parent before it goes on to the insert.  *)
ActionsOf(c) == ReceiptsOf(c) \cap ActionReceipts

NamesIn(c)    == \A t \in TxsOf(c) : txName[t] # NoName
TxActionsIn(c) == TxsOf(c) \subseteq txActions
RowsIn(c)     == \A r \in ActionsOf(c) : receiptRow[r] # NoName
OutputIn(c)   == \A r \in ActionsOf(c) : OutputData(r) # {} => r \in outputRows
OutcomesIn(c) == ExecutedBy(c) \subseteq outcomeRows
ProducedIn(c) == \A r \in ExecutedBy(c) : Produced(r) # {} => r \in producedRows

(* What the search of a chunk still looks for or has found.                *)
SearchInv ==
    \A c \in Chunks :
        /\ rcPc[c] = "cache" => looking[c] = ReceiptsOf(c)
        /\ rcPc[c] # "off" =>
              \A r \in ActionsOf(c) : r \in looking[c] \/ found[c][ReceiptId(r)] # NoName
        /\ rcPc[c] \in {"publish", "insert", "output", "details", "done"} =>
              looking[c] = {}

RcInv ==
    \A c \in Chunks :
        /\ rcPc[c] \in {"output", "details", "done"} => RowsIn(c)
        /\ rcPc[c] \in {"details", "done"} => OutputIn(c)

TxInv == \A c \in Chunks : txPc[c] \in {"stored", "done"} => TxActionsIn(c)

OutInv ==
    \A c \in Chunks : /\ outPc[c] \in {"produced", "done"} => OutcomesIn(c)
                      /\ outPc[c] = "done" => ProducedIn(c)

HandledInv ==
    \A b \in Blocks, c \in Chunks :
        BlockOf[c] = b =>
            /\ pc[b] \in {"outcomes", "done"} =>
                  NamesIn(c) /\ TxActionsIn(c) /\ RowsIn(c) /\ OutputIn(c)
            /\ pc[b] = "done" => OutcomesIn(c) /\ ProducedIn(c)

(* The blocks the stream has not sent yet have no handler.                 *)
QueueInv == \A b \in Blocks : b >= next => pc[b] = "idle"

StoredInv == SearchInv /\ RcInv /\ TxInv /\ OutInv /\ HandledInv /\ QueueInv

-----------------------------------------------------------------------------
(* Rows stay as they are.                                                  *)
RowsStay ==
    /\ \A t \in Txs : txName[t] # NoName => txName'[t] = txName[t]
    /\ \A r \in Receipts : receiptRow[r] # NoName => receiptRow'[r] = receiptRow[r]
    /\ txActions \subseteq txActions'
    /\ outputRows \subseteq outputRows'
    /\ outcomeRows \subseteq outcomeRows'
    /\ producedRows \subseteq producedRows'

LEMMA RowsAlwaysStay ==
    ASSUME NoCollisions, OriginInv, [Next]_vars
    PROVE  RowsStay
<1>0. ASSUME UNCHANGED db PROVE RowsStay
  BY <1>0 DEF db, RowsStay
<1>1. CASE UNCHANGED vars
  BY <1>0, <1>1 DEF vars
<1>2. ASSUME NEW b \in Blocks, BlockStep(b) \/ BlockFails(b) PROVE RowsStay
  BY <1>0, <1>2 DEF BlockStep, BlockFails, Start, StoreBlock, StoreChunks,
                    TxCollect, ParentsStored, Finish
<1>3. ASSUME NEW c \in Chunks, TxInsert(c) PROVE RowsStay
  <2>1. suffix[BlockOf[c]] = 0
    BY ChainTypes DEF OriginInv, PassInv
  <2>2. \A t \in Txs : txName[t] # NoName => txName'[t] = txName[t]
    BY <1>3, <2>1 DEF TxInsert, OriginInv, TablesInv, OwnName
  <2> QED BY <1>3, <2>2 DEF TxInsert, RowsStay
<1>4. ASSUME NEW c \in Chunks, TxInsertActions(c) PROVE RowsStay
  BY <1>4 DEF TxInsertActions, RowsStay
<1>5. ASSUME NEW c \in Chunks, RcInsert(c) PROVE RowsStay
  BY <1>5 DEF RcInsert, RowsStay
<1>6. ASSUME NEW c \in Chunks, RcInsertOutputData(c) PROVE RowsStay
  BY <1>6 DEF RcInsertOutputData, RowsStay
<1>7. ASSUME NEW c \in Chunks, OutInsert(c) PROVE RowsStay
  BY <1>7 DEF OutInsert, RowsStay
<1>8. ASSUME NEW c \in Chunks, OutInsertProduced(c) PROVE RowsStay
  BY <1>8 DEF OutInsertProduced, RowsStay
<1>9. ASSUME NEW c \in Chunks,
             \/ TxCache(c) \/ TxFails(c)
             \/ RcCache(c) \/ RcQueryOutputData(c) \/ RcQueryOutcomes(c)
             \/ RcQueryTxs(c) \/ RcPublish(c) \/ RcInsertDetails(c)
             \/ RcGivesUp(c) \/ RcFails(c)
             \/ OutCache(c) \/ OutGivesUp(c) \/ OutFails(c)
      PROVE  RowsStay
  BY <1>0, <1>9 DEF TxCache, TxFails, RcCache, RcQueryOutputData, RcQueryOutcomes,
                    RcQueryTxs, RcPublish, RcInsertDetails, RcGivesUp, RcFails,
                    OutCache, OutGivesUp, OutFails
<1>10. ASSUME NEW h \in Blocks, Restart(h) PROVE RowsStay
  BY <1>0, <1>10 DEF Restart
<1>11. CASE StreamEnds
  BY <1>1, <1>11 DEF StreamEnds
<1> QED BY <1>1, <1>2, <1>3, <1>4, <1>5, <1>6, <1>7, <1>8, <1>9, <1>10, <1>11
        DEF Next, ChunkStep, TxStep, RcStep, OutStep

(* What is in the tables stays in the tables.                              *)
LEMMA StaysIn ==
    ASSUME RowsStay, NEW c \in Chunks
    PROVE  /\ NamesIn(c) => NamesIn(c)'
           /\ TxActionsIn(c) => TxActionsIn(c)'
           /\ RowsIn(c) => RowsIn(c)'
           /\ OutputIn(c) => OutputIn(c)'
           /\ OutcomesIn(c) => OutcomesIn(c)'
           /\ ProducedIn(c) => ProducedIn(c)'
<1>1. TxsOf(c) \subseteq Txs /\ ActionsOf(c) \subseteq Receipts
  BY ChainTypes DEF ActionsOf
<1> QED BY <1>1 DEF RowsStay, NamesIn, TxActionsIn, RowsIn, OutputIn, OutcomesIn,
                    ProducedIn

-----------------------------------------------------------------------------
(* The strict search.                                                      *)

(* A query finds a name for each of its hits, and only a query that hits   *)
(* all that is looked for ends the search.                                 *)
LEMMA QuerySearch ==
    ASSUME OriginInv, SearchInv, NEW c \in Chunks, rcPc[c] # "off", rcPc[c] # "cache",
           NEW hits \in SUBSET looking[c], NEW row,
           \A r \in hits : row[r] # NoName,
           found' = [found EXCEPT ![c] = FoundWith(c, hits, row)],
           looking' = [looking EXCEPT ![c] = @ \ hits],
           NEW stage, stage \in {"data", "outcomes", "txs"},
           rcPc' = [rcPc EXCEPT ![c] = Unless(c, hits, stage)]
    PROVE  SearchInv'
<1>1. hits \subseteq Receipts /\ ActionsOf(c) \subseteq Receipts
  BY ChainTypes DEF OriginInv, TypeOK, ActionsOf
<1>2. \A r \in ActionsOf(c) : r \in looking'[c] \/ found'[c][ReceiptId(r)] # NoName
  <2> SUFFICES ASSUME NEW r \in ActionsOf(c), r \notin looking'[c]
               PROVE  found'[c][ReceiptId(r)] # NoName
    OBVIOUS
  <2>1. ReceiptId(r) \in Keys /\ ReceiptId(r)[2] = r
    BY <1>1, KeyParts
  <2>2. found'[c] = FoundWith(c, hits, row) /\ looking'[c] = looking[c] \ hits
    BY DEF OriginInv, TypeOK
  <2>3. CASE r \in hits
    BY <2>1, <2>2, <2>3 DEF FoundWith
  <2>4. CASE r \notin hits
    <3>1. found[c][ReceiptId(r)] # NoName
      BY <2>2, <2>4 DEF SearchInv
    <3>2. \A q \in hits : ReceiptId(r) # ReceiptId(q)
      BY <2>4 DEF ReceiptId
    <3> QED BY <2>1, <2>2, <3>1, <3>2 DEF FoundWith
  <2> QED BY <2>3, <2>4
<1>3. /\ rcPc'[c] = Unless(c, hits, stage)
      /\ looking'[c] = looking[c] \ hits
  BY DEF OriginInv, TypeOK
<1>4. /\ rcPc'[c] # "cache"
      /\ rcPc'[c] \in {"publish", "insert", "output", "details", "done"} =>
            looking'[c] = {}
  BY <1>3 DEF Unless
<1>5. \A x \in Chunks : x # c => /\ rcPc'[x] = rcPc[x]
                                 /\ looking'[x] = looking[x]
                                 /\ found'[x] = found[x]
  BY DEF OriginInv, TypeOK
<1> QED BY <1>2, <1>4, <1>5 DEF SearchInv, ActionsOf

LEMMA SearchInductive ==
    ASSUME StrictMode, OriginInv, SearchInv, [Next]_vars
    PROVE  SearchInv'
<1>0. ASSUME UNCHANGED rcs PROVE SearchInv'
  BY <1>0 DEF rcs, SearchInv
<1>1. CASE UNCHANGED vars
  BY <1>0, <1>1 DEF vars
<1>2. ASSUME NEW b \in Blocks, BlockStep(b) \/ BlockFails(b) PROVE SearchInv'
  <2>1. CASE StoreChunks(b)
    <3>1. \A c \in Chunks : \A r \in ActionsOf(c) : r \in ReceiptsOf(c)
      BY DEF ActionsOf
    <3> QED BY <2>1, <3>1 DEF StoreChunks, OnBlock, SearchInv
  <2>2. CASE ~StoreChunks(b)
    BY <1>0, <1>2, <2>2 DEF BlockStep, BlockFails, Start, StoreBlock, TxCollect,
                            ParentsStored, Finish
  <2> QED BY <2>1, <2>2
<1>3. ASSUME NEW c \in Chunks, TxStep(c) \/ TxFails(c) \/ OutStep(c) \/ OutFails(c)
      PROVE  SearchInv'
  BY <1>0, <1>3 DEF TxStep, TxCache, TxInsert, TxInsertActions, TxFails, OutStep,
                    OutCache, OutInsert, OutInsertProduced, OutGivesUp, OutFails
<1>4. ASSUME NEW c \in Chunks, RcCache(c) PROVE SearchInv'
  <2> DEFINE hits == {r \in looking[c] : cache[KeyOf(r)] # NoName}
  <2>1. looking[c] = ReceiptsOf(c)
    BY <1>4 DEF RcCache, SearchInv
  <2>2. /\ looking'[c] = looking[c] \ hits
        /\ rcPc'[c] = Unless(c, hits, "data")
        /\ \A k \in Keys : found'[c][k] =
              IF k \in {KeyOf(r) : r \in hits} THEN cache[k] ELSE NoName
    BY <1>4 DEF RcCache, OriginInv, TypeOK
  <2>3. \A r \in ActionsOf(c) : r \in looking'[c] \/ found'[c][ReceiptId(r)] # NoName
    <3> SUFFICES ASSUME NEW r \in ActionsOf(c), r \notin looking'[c]
                 PROVE  found'[c][ReceiptId(r)] # NoName
      OBVIOUS
    <3>1. r \in hits /\ KeyOf(r) = ReceiptId(r)
      BY <2>1, <2>2 DEF ActionsOf, KeyOf
    <3>2. ReceiptId(r) \in Keys
      BY KeyParts, ChainTypes DEF ActionsOf
    <3> QED BY <2>2, <3>1, <3>2
  <2>4. /\ rcPc'[c] # "cache"
        /\ rcPc'[c] \in {"publish", "insert", "output", "details", "done"} =>
              looking'[c] = {}
    BY <2>2 DEF Unless
  <2>5. \A x \in Chunks : x # c => /\ rcPc'[x] = rcPc[x]
                                   /\ looking'[x] = looking[x]
                                   /\ found'[x] = found[x]
    BY <1>4 DEF RcCache, OriginInv, TypeOK
  <2> QED BY <2>3, <2>4, <2>5 DEF SearchInv, ActionsOf
<1>5. ASSUME NEW c \in Chunks, RcQueryOutputData(c) PROVE SearchInv'
  <2> DEFINE hits == {d \in LookingFor(c, DataReceipts) :
                        Parent[d] \in outputRows /\ receiptRow[Parent[d]] # NoName}
             row == [d \in DataReceipts |-> receiptRow[Parent[d]]]
  <2>1. hits \in SUBSET looking[c] /\ \A r \in hits : row[r] # NoName
    BY DEF LookingFor
  <2>2. /\ rcPc[c] # "off" /\ rcPc[c] # "cache"
        /\ found' = [found EXCEPT ![c] = FoundWith(c, hits, row)]
        /\ looking' = [looking EXCEPT ![c] = @ \ hits]
        /\ rcPc' = [rcPc EXCEPT ![c] = Unless(c, hits, "outcomes")]
    BY <1>5 DEF RcQueryOutputData
  <2> HIDE DEF hits, row
  <2> QED BY <2>1, <2>2, QuerySearch
<1>6. ASSUME NEW c \in Chunks, RcQueryOutcomes(c) PROVE SearchInv'
  <2> DEFINE hits == {r \in LookingFor(c, ActionReceipts) :
                        Parent[r] \in producedRows /\ receiptRow[Parent[r]] # NoName}
             row == [r \in ActionReceipts |-> receiptRow[Parent[r]]]
  <2>1. hits \in SUBSET looking[c] /\ \A r \in hits : row[r] # NoName
    BY DEF LookingFor
  <2>2. /\ rcPc[c] # "off" /\ rcPc[c] # "cache"
        /\ found' = [found EXCEPT ![c] = FoundWith(c, hits, row)]
        /\ looking' = [looking EXCEPT ![c] = @ \ hits]
        /\ rcPc' = [rcPc EXCEPT ![c] = Unless(c, hits, "txs")]
    BY <1>6 DEF RcQueryOutcomes
  <2> HIDE DEF hits, row
  <2> QED BY <2>1, <2>2, QuerySearch
<1>7. ASSUME NEW c \in Chunks, RcQueryTxs(c) PROVE SearchInv'
  <2> DEFINE hits == {r \in LookingFor(c, ActionReceipts) :
                        Parent[r] \in Txs /\ txName[Parent[r]] # NoName}
             row == [r \in ActionReceipts |-> txName[Parent[r]]]
  <2>1. hits \in SUBSET looking[c] /\ \A r \in hits : row[r] # NoName
    BY DEF LookingFor
  <2>2. /\ rcPc[c] # "off" /\ rcPc[c] # "cache"
        /\ found' = [found EXCEPT ![c] = FoundWith(c, hits, row)]
        /\ looking' = [looking EXCEPT ![c] = @ \ hits]
        /\ rcPc' = [rcPc EXCEPT ![c] = Unless(c, hits, "data")]
    BY <1>7 DEF RcQueryTxs, GoOn
  <2> HIDE DEF hits, row
  <2> QED BY <2>1, <2>2, QuerySearch
<1>8. ASSUME NEW c \in Chunks,
             RcPublish(c) \/ RcInsert(c) \/ RcInsertOutputData(c) \/ RcInsertDetails(c)
      PROVE  SearchInv'
  <2>1. /\ looking' = looking /\ found' = found
        /\ \A x \in Chunks : x # c => rcPc'[x] = rcPc[x]
        /\ rcPc'[c] # "cache"
        /\ rcPc[c] \in {"publish", "insert", "output", "details", "done"}
    BY <1>8 DEF RcPublish, RcInsert, RcInsertOutputData, RcInsertDetails, After,
                OriginInv, TypeOK
  <2> QED BY <2>1 DEF SearchInv
<1>9. ASSUME NEW c \in Chunks, RcGivesUp(c) \/ RcFails(c) PROVE SearchInv'
  BY <1>9 DEF RcGivesUp, RcFails, SearchInv, OriginInv, TypeOK
<1>10. ASSUME NEW h \in Blocks, Restart(h) PROVE SearchInv'
  BY <1>10 DEF Restart, SearchInv
<1>11. CASE StreamEnds
  BY <1>1, <1>11 DEF StreamEnds
<1> QED BY <1>1, <1>2, <1>3, <1>4, <1>5, <1>6, <1>7, <1>8, <1>9, <1>10, <1>11
        DEF Next, ChunkStep, RcStep

-----------------------------------------------------------------------------
(* What the stages have stored.                                            *)
LEMMA RcInductive ==
    ASSUME OriginInv, SearchInv, RcInv, RowsStay, [Next]_vars
    PROVE  RcInv'
<1>0. ASSUME \A x \in Chunks : rcPc'[x] \in {rcPc[x], "off", "cache", "data", "outcomes",
                                            "txs", "publish", "insert"}
      PROVE  RcInv'
  BY <1>0, StaysIn DEF RcInv
<1>1. CASE UNCHANGED rcPc
  BY <1>0, <1>1
<1>2. ASSUME NEW b \in Blocks, BlockStep(b) \/ BlockFails(b) PROVE RcInv'
  <2>1. CASE StoreChunks(b)
    <3>1. \A x \in Chunks : ReceiptsOf(x) = {} => RowsIn(x)' /\ OutputIn(x)'
      BY DEF RowsIn, OutputIn, ActionsOf
    <3>2. \A x \in Chunks : rcPc'[x] \in {rcPc[x], "cache"} \/ ReceiptsOf(x) = {}
      BY <2>1 DEF StoreChunks, OnBlock
    <3> QED BY <3>1, <3>2, StaysIn DEF RcInv
  <2>2. CASE ~StoreChunks(b)
    BY <1>1, <1>2, <2>2 DEF BlockStep, BlockFails, Start, StoreBlock, TxCollect,
                            ParentsStored, Finish, rcs
  <2> QED BY <2>1, <2>2
<1>3. ASSUME NEW c \in Chunks, TxStep(c) \/ TxFails(c) \/ OutStep(c) \/ OutFails(c)
      PROVE  RcInv'
  BY <1>1, <1>3 DEF TxStep, TxCache, TxInsert, TxInsertActions, TxFails, OutStep,
                    OutCache, OutInsert, OutInsertProduced, OutGivesUp, OutFails, rcs
<1>4. ASSUME NEW c \in Chunks,
             \/ RcCache(c) \/ RcQueryOutputData(c) \/ RcQueryOutcomes(c)
             \/ RcQueryTxs(c) \/ RcPublish(c) \/ RcGivesUp(c) \/ RcFails(c)
      PROVE  RcInv'
  <2>1. \A x \in Chunks : rcPc'[x] \in {rcPc[x], "off", "cache", "data", "outcomes",
                                       "txs", "publish", "insert"}
    BY <1>4 DEF RcCache, RcQueryOutputData, RcQueryOutcomes, RcQueryTxs, RcPublish,
                RcGivesUp, RcFails, Unless, OriginInv, TypeOK
  <2> QED BY <1>0, <2>1
<1>5. ASSUME NEW c \in Chunks, RcInsert(c) PROVE RcInv'
  <2>1. rcPc[c] = "insert" /\ looking[c] = {}
    BY <1>5 DEF RcInsert, SearchInv
  <2>2. RowsIn(c)'
    <3> SUFFICES ASSUME NEW r \in ActionsOf(c) PROVE receiptRow'[r] # NoName
      BY DEF RowsIn
    <3>1. r \in ReceiptsOf(c) /\ r \in Receipts /\ KeyOf(r) = ReceiptId(r)
      BY ChainTypes DEF ActionsOf, KeyOf
    <3>2. found[c][KeyOf(r)] # NoName
      BY <2>1, <3>1 DEF SearchInv
    <3>3. r \in Resolved(c)
      BY <3>1, <3>2 DEF Resolved, Skipped
    <3> QED BY <1>5, <3>1, <3>2, <3>3 DEF RcInsert
  <2>3. \A x \in Chunks : IF x = c THEN rcPc'[x] \in {"off", "output"}
                                   ELSE rcPc'[x] = rcPc[x]
    BY <1>5 DEF RcInsert, After, OriginInv, TypeOK
  <2> QED BY <2>2, <2>3, StaysIn DEF RcInv
<1>6. ASSUME NEW c \in Chunks, RcInsertOutputData(c) PROVE RcInv'
  <2>1. rcPc[c] = "output" /\ looking[c] = {} /\ RowsIn(c)
    BY <1>6 DEF RcInsertOutputData, SearchInv, RcInv
  <2>2. OutputIn(c)'
    <3> SUFFICES ASSUME NEW r \in ActionsOf(c), OutputData(r) # {} PROVE r \in outputRows'
      BY DEF OutputIn
    <3>1. r \in ReceiptsOf(c) /\ r \in ActionReceipts /\ KeyOf(r) = ReceiptId(r)
      BY DEF ActionsOf, KeyOf
    <3>2. found[c][KeyOf(r)] # NoName
      BY <2>1, <3>1 DEF SearchInv
    <3>3. r \in Resolved(c)
      BY <3>1, <3>2 DEF Resolved, Skipped
    <3> QED BY <1>6, <3>1, <3>3 DEF RcInsertOutputData
  <2>3. \A x \in Chunks : IF x = c THEN rcPc'[x] \in {"off", "details"}
                                   ELSE rcPc'[x] = rcPc[x]
    BY <1>6 DEF RcInsertOutputData, After, OriginInv, TypeOK
  <2> QED BY <2>1, <2>2, <2>3, StaysIn DEF RcInv
<1>7. ASSUME NEW c \in Chunks, RcInsertDetails(c) PROVE RcInv'
  <2>1. \A x \in Chunks : IF x = c THEN rcPc[x] = "details" ELSE rcPc'[x] = rcPc[x]
    BY <1>7 DEF RcInsertDetails, OriginInv, TypeOK
  <2> QED BY <2>1, StaysIn DEF RcInv
<1>8. ASSUME NEW h \in Blocks, Restart(h) PROVE RcInv'
  BY <1>8 DEF Restart, RcInv
<1>9. CASE UNCHANGED vars \/ StreamEnds
  BY <1>1, <1>9 DEF StreamEnds, vars, rcs
<1> QED BY <1>2, <1>3, <1>4, <1>5, <1>6, <1>7, <1>8, <1>9 DEF Next, ChunkStep, RcStep

LEMMA TxInductive ==
    ASSUME NoCollisions, OriginInv, TxInv, RowsStay, [Next]_vars
    PROVE  TxInv'
<1>0. ASSUME \A x \in Chunks : txPc'[x] \in {txPc[x], "off", "cache", "insert", "actions"}
      PROVE  TxInv'
  BY <1>0, StaysIn DEF TxInv
<1>1. CASE UNCHANGED txPc
  BY <1>0, <1>1
<1>2. ASSUME NEW b \in Blocks, BlockStep(b) \/ BlockFails(b) PROVE TxInv'
  <2>1. CASE StoreChunks(b)
    BY <1>0, <2>1 DEF StoreChunks, OnBlock
  <2>2. CASE TxCollect(b)
    <3>1. \A c \in ChunksOf(b) : txPc[c] = "stored"
      BY <2>2 DEF TxCollect, FirstPassOver
    <3>2. \A x \in Chunks : txPc'[x] \in {txPc[x], "cache"} \/ txPc[x] = "stored"
      BY <2>2, <3>1 DEF TxCollect, OnBlock, ChunksOf
    <3> QED BY <3>2, StaysIn DEF TxInv
  <2>3. CASE ~StoreChunks(b) /\ ~TxCollect(b)
    BY <1>1, <1>2, <2>3 DEF BlockStep, BlockFails, Start, StoreBlock,
                            ParentsStored, Finish, txs
  <2> QED BY <2>1, <2>2, <2>3
<1>3. ASSUME NEW c \in Chunks, TxCache(c) \/ TxInsert(c) \/ TxFails(c) PROVE TxInv'
  <2>1. \A x \in Chunks : txPc'[x] \in {txPc[x], "off", "cache", "insert", "actions"}
    BY <1>3 DEF TxCache, TxInsert, TxFails, After, OriginInv, TypeOK
  <2> QED BY <1>0, <2>1
<1>4. ASSUME NEW c \in Chunks, TxInsertActions(c) PROVE TxInv'
  <2>1. txTodo[c] = TxsOf(c)
    BY <1>4 DEF TxInsertActions, OriginInv, PassInv
  <2>2. TxActionsIn(c)'
    <3> SUFFICES ASSUME NEW t \in TxsOf(c) PROVE t \in txActions'
      BY DEF TxActionsIn
    <3>1. \A u \in txActions : TxHash[u] = TxHash[t] => u = t
      BY ChainTypes DEF NoCollisions, OriginInv, TypeOK
    <3> QED BY <1>4, <2>1, <3>1 DEF TxInsertActions
  <2>3. \A x \in Chunks : x # c => txPc'[x] = txPc[x]
    BY <1>4 DEF TxInsertActions, OriginInv, TypeOK
  <2> QED BY <2>2, <2>3, StaysIn DEF TxInv
<1>5. ASSUME NEW c \in Chunks, RcStep(c) \/ RcFails(c) \/ OutStep(c) \/ OutFails(c)
      PROVE  TxInv'
  BY <1>1, <1>5 DEF RcStep, RcCache, RcQueryOutputData, RcQueryOutcomes, RcQueryTxs,
                    RcPublish, RcInsert, RcInsertOutputData, RcInsertDetails, RcGivesUp,
                    RcFails, OutStep, OutCache, OutInsert, OutInsertProduced, OutGivesUp,
                    OutFails, txs
<1>6. ASSUME NEW h \in Blocks, Restart(h) PROVE TxInv'
  BY <1>6 DEF Restart, TxInv
<1>7. CASE UNCHANGED vars \/ StreamEnds
  BY <1>1, <1>7 DEF StreamEnds, vars, txs
<1> QED BY <1>2, <1>3, <1>4, <1>5, <1>6, <1>7 DEF Next, ChunkStep, TxStep

LEMMA OutInductive ==
    ASSUME OriginInv, OutInv, RowsStay, [Next]_vars
    PROVE  OutInv'
<1>0. ASSUME \A x \in Chunks : outPc'[x] \in {outPc[x], "off", "cache", "insert"}
      PROVE  OutInv'
  BY <1>0, StaysIn DEF OutInv
<1>1. CASE UNCHANGED outPc
  BY <1>0, <1>1
<1>2. ASSUME NEW b \in Blocks, BlockStep(b) \/ BlockFails(b) PROVE OutInv'
  <2>1. CASE ParentsStored(b)
    BY <1>0, <2>1 DEF ParentsStored, OnBlock
  <2>2. CASE ~ParentsStored(b)
    BY <1>1, <1>2, <2>2 DEF BlockStep, BlockFails, Start, StoreBlock, StoreChunks,
                            TxCollect, Finish
  <2> QED BY <2>1, <2>2
<1>3. ASSUME NEW c \in Chunks, OutCache(c) \/ OutGivesUp(c) \/ OutFails(c) PROVE OutInv'
  <2>1. \A x \in Chunks : outPc'[x] \in {outPc[x], "off", "cache", "insert"}
    BY <1>3 DEF OutCache, OutGivesUp, OutFails, OriginInv, TypeOK
  <2> QED BY <1>0, <2>1
<1>4. ASSUME NEW c \in Chunks, OutInsert(c) PROVE OutInv'
  <2>1. OutcomesIn(c)'
    BY <1>4 DEF OutInsert, OutcomesIn
  <2>2. \A x \in Chunks : IF x = c THEN outPc'[x] \in {"off", "produced"}
                                   ELSE outPc'[x] = outPc[x]
    BY <1>4 DEF OutInsert, After, OriginInv, TypeOK
  <2> QED BY <2>1, <2>2, StaysIn DEF OutInv
<1>5. ASSUME NEW c \in Chunks, OutInsertProduced(c) PROVE OutInv'
  <2>1. OutcomesIn(c) /\ ProducedIn(c)'
    BY <1>5 DEF OutInsertProduced, OutInv, ProducedIn
  <2>2. \A x \in Chunks : x # c => outPc'[x] = outPc[x]
    BY <1>5 DEF OutInsertProduced, OriginInv, TypeOK
  <2> QED BY <2>1, <2>2, StaysIn DEF OutInv
<1>6. ASSUME NEW c \in Chunks, TxStep(c) \/ TxFails(c) \/ RcStep(c) \/ RcFails(c)
      PROVE  OutInv'
  BY <1>1, <1>6 DEF RcStep, RcCache, RcQueryOutputData, RcQueryOutcomes, RcQueryTxs,
                    RcPublish, RcInsert, RcInsertOutputData, RcInsertDetails, RcGivesUp,
                    RcFails, TxStep, TxCache, TxInsert, TxInsertActions, TxFails
<1>7. ASSUME NEW h \in Blocks, Restart(h) PROVE OutInv'
  BY <1>7 DEF Restart, OutInv
<1>8. CASE UNCHANGED vars \/ StreamEnds
  BY <1>1, <1>8 DEF StreamEnds, vars
<1> QED BY <1>2, <1>3, <1>4, <1>5, <1>6, <1>7, <1>8 DEF Next, ChunkStep, OutStep

(* A handler goes on when all chunks of its block have been through the    *)
(* stage; a restart only forgets that a block was handled.                 *)
LEMMA HandledInductive ==
    ASSUME OriginInv, RcInv, TxInv, OutInv, HandledInv, RowsStay, [Next]_vars
    PROVE  HandledInv'
<1>0. ASSUME \A x \in Blocks : pc'[x] \in {pc[x], "idle", "block", "chunks", "parents",
                                          "lost"}
      PROVE  HandledInv'
  BY <1>0, StaysIn DEF HandledInv
<1>1. CASE UNCHANGED pc
  BY <1>0, <1>1
<1>2. ASSUME NEW b \in Blocks, ParentsStored(b) PROVE HandledInv'
  <2>1. \A c \in Chunks : BlockOf[c] = b => txPc[c] = "done" /\ rcPc[c] = "done"
    BY <1>2 DEF ParentsStored, ChunksOf
  <2>2. \A c \in Chunks : BlockOf[c] = b =>
           NamesIn(c) /\ TxActionsIn(c) /\ RowsIn(c) /\ OutputIn(c)
    BY <2>1 DEF OriginInv, PassInv, NamesIn, TxInv, RcInv
  <2>3. \A x \in Blocks : IF x = b THEN pc'[x] = "outcomes" ELSE pc'[x] = pc[x]
    BY <1>2 DEF ParentsStored, OriginInv, TypeOK
  <2> QED BY <2>2, <2>3, StaysIn DEF HandledInv
<1>3. ASSUME NEW b \in Blocks, Finish(b) PROVE HandledInv'
  <2>1. \A c \in Chunks : BlockOf[c] = b => OutcomesIn(c) /\ ProducedIn(c)
    BY <1>3 DEF Finish, ChunksOf, OutInv
  <2>2. pc[b] = "outcomes" /\ \A x \in Blocks : x # b => pc'[x] = pc[x]
    BY <1>3 DEF Finish, OriginInv, TypeOK
  <2> QED BY <2>1, <2>2, StaysIn DEF HandledInv
<1>4. ASSUME NEW b \in Blocks,
             Start(b) \/ StoreBlock(b) \/ StoreChunks(b) \/ TxCollect(b) \/ BlockFails(b)
      PROVE  HandledInv'
  <2>1. \A x \in Blocks : pc'[x] \in {pc[x], "block", "chunks", "parents", "lost"}
    BY <1>4 DEF Start, StoreBlock, StoreChunks, TxCollect, BlockFails, Err,
                OriginInv, TypeOK
  <2> QED BY <1>0, <2>1
<1>5. ASSUME NEW c \in Chunks,
             TxFails(c) \/ RcFails(c) \/ OutFails(c) \/ RcGivesUp(c) \/ OutGivesUp(c)
      PROVE  HandledInv'
  <2>1. \A x \in Blocks : pc'[x] \in {pc[x], "lost"}
    BY <1>5 DEF TxFails, RcFails, OutFails, RcGivesUp, OutGivesUp, Err, OriginInv, TypeOK
  <2> QED BY <1>0, <2>1
<1>6. ASSUME NEW c \in Chunks,
             \/ TxStep(c) \/ OutCache(c) \/ OutInsert(c) \/ OutInsertProduced(c)
             \/ RcCache(c) \/ RcQueryOutputData(c) \/ RcQueryOutcomes(c) \/ RcQueryTxs(c)
             \/ RcPublish(c) \/ RcInsert(c) \/ RcInsertOutputData(c) \/ RcInsertDetails(c)
      PROVE  HandledInv'
  BY <1>1, <1>6 DEF TxStep, TxCache, TxInsert, TxInsertActions, OutCache, OutInsert,
                    OutInsertProduced, RcCache, RcQueryOutputData, RcQueryOutcomes,
                    RcQueryTxs, RcPublish, RcInsert, RcInsertOutputData, RcInsertDetails
<1>7. ASSUME NEW h \in Blocks, Restart(h) PROVE HandledInv'
  <2>1. \A x \in Blocks : pc'[x] \in {"idle", "lost"} \/ pc'[x] = pc[x]
    BY <1>7 DEF Restart
  <2> QED BY <1>0, <2>1
<1>8. CASE UNCHANGED vars \/ StreamEnds
  BY <1>1, <1>8 DEF StreamEnds, vars
<1> QED BY <1>2, <1>3, <1>4, <1>5, <1>6, <1>7, <1>8
        DEF Next, BlockStep, ChunkStep, RcStep, OutStep

LEMMA QueueInductive ==
    ASSUME OriginInv, QueueInv, [Next]_vars
    PROVE  QueueInv'
<1>0. ASSUME next' = next,
             \A x \in Blocks : pc'[x] = pc[x] \/ pc[x] # "idle"
      PROVE  QueueInv'
  BY <1>0 DEF QueueInv
<1>1. CASE UNCHANGED vars \/ StreamEnds
  BY <1>1, <1>0 DEF StreamEnds, vars
<1>2. ASSUME NEW b \in Blocks, Start(b) PROVE QueueInv'
  <2>1. next' = next + 1 /\ next \in Nat /\ \A x \in Blocks : x \in Nat
    BY <1>2 DEF Start, OriginInv, TypeOK, Blocks
  <2>2. b = next /\ \A x \in Blocks : x # b => pc'[x] = pc[x]
    BY <1>2 DEF Start, OriginInv, TypeOK
  <2>3. \A x \in Blocks : x >= next + 1 => x # b /\ x >= next
    BY <2>1, <2>2
  <2> QED BY <2>1, <2>2, <2>3 DEF QueueInv
<1>3. ASSUME NEW b \in Blocks,
             \/ StoreBlock(b) \/ StoreChunks(b) \/ TxCollect(b) \/ ParentsStored(b)
             \/ Finish(b) \/ BlockFails(b)
      PROVE  QueueInv'
  <2>1. next' = next /\ \A x \in Blocks : pc'[x] = pc[x] \/ pc[x] # "idle"
    BY <1>3 DEF StoreBlock, StoreChunks, TxCollect, ParentsStored, Finish, BlockFails,
                FirstPassOver, Err, OriginInv, TypeOK
  <2> QED BY <1>0, <2>1
<1>4. ASSUME NEW c \in Chunks,
             TxFails(c) \/ RcFails(c) \/ OutFails(c) \/ RcGivesUp(c) \/ OutGivesUp(c)
      PROVE  QueueInv'
  <2>1. next' = next /\ pc[BlockOf[c]] # "idle"
    BY <1>4 DEF TxFails, RcFails, OutFails, RcGivesUp, OutGivesUp, Live, Running
  <2>2. \A x \in Blocks : x # BlockOf[c] => pc'[x] = pc[x]
    BY <1>4 DEF TxFails, RcFails, OutFails, RcGivesUp, OutGivesUp, Err, OriginInv, TypeOK
  <2> QED BY <1>0, <2>1, <2>2
<1>5. ASSUME NEW c \in Chunks,
             \/ TxStep(c) \/ OutCache(c) \/ OutInsert(c) \/ OutInsertProduced(c)
             \/ RcCache(c) \/ RcQueryOutputData(c) \/ RcQueryOutcomes(c) \/ RcQueryTxs(c)
             \/ RcPublish(c) \/ RcInsert(c) \/ RcInsertOutputData(c) \/ RcInsertDetails(c)
      PROVE  QueueInv'
  <2>1. UNCHANGED <<next, pc>>
    BY <1>5 DEF TxStep, TxCache, TxInsert, TxInsertActions, OutCache, OutInsert,
                OutInsertProduced, RcCache, RcQueryOutputData, RcQueryOutcomes,
                RcQueryTxs, RcPublish, RcInsert, RcInsertOutputData, RcInsertDetails
  <2> QED BY <1>0, <2>1
<1>6. ASSUME NEW h \in Blocks, Restart(h) PROVE QueueInv'
  BY <1>6 DEF Restart, QueueInv
<1> QED BY <1>1, <1>2, <1>3, <1>4, <1>5, <1>6
        DEF Next, BlockStep, ChunkStep, RcStep, OutStep

-----------------------------------------------------------------------------
StrictInv == OriginInv /\ StoredInv

LEMMA StrictInductive ==
    ASSUME NoCollisions, StrictMode
    PROVE  /\ Init => StrictInv
           /\ StrictInv /\ [Next]_vars => StrictInv'
<1>1. Init => StoredInv
  <2>1. Init => SearchInv /\ RcInv /\ TxInv /\ OutInv /\ HandledInv
    BY DEF Init, SearchInv, RcInv, TxInv, OutInv, HandledInv
  <2>2. Init => QueueInv
    BY HandlerConstants DEF Init, QueueInv, Blocks
  <2> QED BY <2>1, <2>2 DEF StoredInv
<1>2. StrictInv /\ [Next]_vars => StrictInv'
  <2> SUFFICES ASSUME OriginInv, StoredInv, [Next]_vars PROVE OriginInv' /\ StoredInv'
    BY DEF StrictInv
  <2>1. RowsStay
    BY RowsAlwaysStay
  <2> QED BY <2>1, OriginInductive, SearchInductive, RcInductive, TxInductive,
             OutInductive, HandledInductive, QueueInductive DEF StoredInv
<1> QED BY <1>1, <1>2, OriginInductive DEF StrictInv

(* A block that a strict handler reported as handled is in the database.   *)
THEOREM StrictStores ==
    NoCollisions /\ StrictMode => (Spec => []StrictBlockIsStored)
<1> SUFFICES ASSUME NoCollisions, StrictMode PROVE Spec => []StrictBlockIsStored
  OBVIOUS
<1>1. StrictInv => StrictBlockIsStored
  <2> SUFFICES ASSUME HandledInv, NEW b \in Blocks, pc[b] = "done", NEW c \in ChunksOf(b)
               PROVE  /\ NamesIn(c) /\ TxActionsIn(c) /\ RowsIn(c) /\ OutputIn(c)
                      /\ OutcomesIn(c) /\ ProducedIn(c)
    BY DEF StrictInv, StoredInv, StrictBlockIsStored, NamesIn, TxActionsIn, RowsIn,
           OutputIn, OutcomesIn, ProducedIn, ActionsOf
  <2> QED BY DEF HandledInv, ChunksOf
<1> QED BY <1>1, StrictInductive, PTL DEF Spec

-----------------------------------------------------------------------------
(* The handlers implement ReceiptLedger: the statement that saves receipts *)
(* is its Record, the end of a handler its Handle, a restart its StartOver *)
(* and everything else leaves the ledger as it is.                         *)
LedgerView ==
    [r \in Receipts |-> IF receiptRow[r] = NoName THEN NoName ELSE Root[r]]

SameView == [r \in Receipts |-> Origin(r)] = LedgerView

LEMMA OriginValue ==
    ASSUME NoCollisions
    PROVE  OriginInv => SameView
<1> SUFFICES ASSUME OriginInv, NEW r \in Receipts
             PROVE  Origin(r) = IF receiptRow[r] = NoName THEN NoName ELSE Root[r]
  BY DEF LedgerView, SameView
<1>1. CASE receiptRow[r] = NoName
  BY <1>1 DEF Origin
<1>2. CASE receiptRow[r] # NoName
  <2>1. Root[r] \in Txs /\ txName[Root[r]] = receiptRow[r]
    BY <1>2, ChainTypes DEF OriginInv, TablesInv, OriginName
  <2>2. \A t \in Txs : txName[t] = receiptRow[r] => t = Root[r]
    BY <1>2, <2>1 DEF OriginInv, TablesInv, OriginName, OwnName, SuffixedName, NoCollisions
  <2> QED BY <1>2, <2>1, <2>2 DEF Origin
<1> QED BY <1>1, <1>2

handledBlocks == {b \in Blocks : pc[b] = "done"}

(* A step of the handlers, seen in the view of the ledger.                 *)
RecordStep == \E s \in SUBSET Receipts :
    /\ \A r \in s : LedgerView[r] = NoName
    /\ LedgerView' = [r \in Receipts |-> IF r \in s THEN Root[r] ELSE LedgerView[r]]
    /\ UNCHANGED handledBlocks

HandleStep(b) ==
    /\ \A r \in Required[b] : LedgerView[r] = Root[r]
    /\ handledBlocks' = handledBlocks \cup {b}
    /\ UNCHANGED LedgerView

StartOverStep(h) ==
    /\ handledBlocks' = {b \in handledBlocks : b < h}
    /\ UNCHANGED LedgerView

LEMMA ViewStep ==
    ASSUME NoCollisions, StrictInv, [Next]_vars
    PROVE  \/ RecordStep
           \/ \E b \in Blocks : HandleStep(b) \/ StartOverStep(b)
           \/ UNCHANGED <<LedgerView, handledBlocks>>
<1> USE DEF StrictInv
<1>0. ASSUME UNCHANGED receiptRow,
             \A x \in Blocks : pc[x] # "done" => pc'[x] # "done",
             \A x \in Blocks : pc[x] = "done" => pc'[x] = "done"
      PROVE  UNCHANGED <<LedgerView, handledBlocks>>
  BY <1>0 DEF LedgerView, handledBlocks
<1>1. CASE UNCHANGED vars \/ StreamEnds
  BY <1>1, <1>0 DEF StreamEnds, vars, db
<1>2. ASSUME NEW b \in Blocks,
             \/ Start(b) \/ StoreBlock(b) \/ StoreChunks(b) \/ TxCollect(b)
             \/ ParentsStored(b) \/ BlockFails(b)
      PROVE  UNCHANGED <<LedgerView, handledBlocks>>
  <2>1. UNCHANGED receiptRow
    BY <1>2 DEF Start, StoreBlock, StoreChunks, TxCollect, ParentsStored, BlockFails, db
  <2>2. /\ pc'[b] # "done" /\ pc[b] # "done"
        /\ \A x \in Blocks : x # b => pc'[x] = pc[x]
    <3>1. CASE Start(b)
      <4>1. b >= next /\ b = next
        BY <3>1 DEF Start, Blocks
      <4> QED BY <3>1, <4>1 DEF Start, StoredInv, QueueInv, OriginInv, TypeOK
    <3>2. CASE ~Start(b)
      BY <1>2, <3>2 DEF StoreBlock, StoreChunks, TxCollect, ParentsStored, BlockFails,
                        FirstPassOver, Err, OriginInv, TypeOK
    <3> QED BY <3>1, <3>2
  <2>3. \A x \in Blocks : pc'[x] = "done" <=> pc[x] = "done"
    BY <2>2
  <2> QED BY <1>0, <2>1, <2>3
<1>3. ASSUME NEW b \in Blocks, Finish(b) PROVE HandleStep(b)
  <2>1. \A r \in Required[b] : r \in Receipts /\ receiptRow[r] # NoName
    <3> SUFFICES ASSUME NEW r \in ActionReceipts, BlockOf[IncludedIn[r]] = b
                 PROVE  r \in Receipts /\ receiptRow[r] # NoName
      BY DEF Required
    <3>1. r \in Receipts /\ IncludedIn[r] \in Chunks
      BY ChainShape DEF Receipts
    <3>2. r \in ActionsOf(IncludedIn[r])
      BY <3>1 DEF ActionsOf, ReceiptsOf
    <3>3. RowsIn(IncludedIn[r])
      BY <1>3, <3>1 DEF Finish, StoredInv, HandledInv
    <3> QED BY <3>1, <3>2, <3>3 DEF RowsIn
  <2>2. handledBlocks' = handledBlocks \cup {b}
    <3>1. \A x \in Blocks : pc'[x] = "done" <=> pc[x] = "done" \/ x = b
      BY <1>3 DEF Finish, OriginInv, TypeOK
    <3> QED BY <3>1 DEF handledBlocks
  <2>3. UNCHANGED LedgerView
    BY <1>3 DEF Finish, LedgerView, db
  <2> QED BY <2>1, <2>2, <2>3 DEF HandleStep, LedgerView
<1>4. ASSUME NEW c \in Chunks, RcInsert(c) PROVE RecordStep
  <2> DEFINE s == {r \in Receipts : receiptRow[r] = NoName /\ receiptRow'[r] # NoName}
  <2>1. \A r \in Receipts : receiptRow[r] # NoName => receiptRow'[r] # NoName
    BY <1>4 DEF RcInsert
  <2>2. LedgerView' = [r \in Receipts |-> IF r \in s THEN Root[r] ELSE LedgerView[r]]
    BY <2>1 DEF LedgerView
  <2>3. \A r \in s : LedgerView[r] = NoName
    BY DEF LedgerView
  <2>4. UNCHANGED handledBlocks
    BY <1>4 DEF RcInsert, handledBlocks
  <2> QED BY <2>2, <2>3, <2>4 DEF RecordStep
<1>5. ASSUME NEW c \in Chunks,
             TxFails(c) \/ RcFails(c) \/ OutFails(c) \/ RcGivesUp(c) \/ OutGivesUp(c)
      PROVE  UNCHANGED <<LedgerView, handledBlocks>>
  <2>1. UNCHANGED receiptRow
    BY <1>5 DEF TxFails, RcFails, OutFails, RcGivesUp, OutGivesUp, db
  <2>2. BlockOf[c] \in Blocks /\ pc[BlockOf[c]] # "done"
    BY <1>5, ChainTypes DEF TxFails, RcFails, OutFails, RcGivesUp, OutGivesUp, Live, Running
  <2>3. \A x \in Blocks : IF x = BlockOf[c] THEN pc'[x] = "lost" ELSE pc'[x] = pc[x]
    BY <1>5 DEF TxFails, RcFails, OutFails, RcGivesUp, OutGivesUp, Err, OriginInv, TypeOK
  <2> QED BY <1>0, <2>1, <2>2, <2>3
<1>6. ASSUME NEW c \in Chunks,
             \/ TxStep(c) \/ OutCache(c) \/ OutInsert(c) \/ OutInsertProduced(c)
             \/ RcCache(c) \/ RcQueryOutputData(c) \/ RcQueryOutcomes(c) \/ RcQueryTxs(c)
             \/ RcPublish(c) \/ RcInsertOutputData(c) \/ RcInsertDetails(c)
      PROVE  UNCHANGED <<LedgerView, handledBlocks>>
  <2>1. UNCHANGED <<receiptRow, pc>>
    BY <1>6 DEF TxStep, TxCache, TxInsert, TxInsertActions, OutCache, OutInsert,
                OutInsertProduced, RcCache, RcQueryOutputData, RcQueryOutcomes,
                RcQueryTxs, RcPublish, RcInsertOutputData, RcInsertDetails, db
  <2> QED BY <1>0, <2>1
<1>7. ASSUME NEW h \in Blocks, Restart(h) PROVE StartOverStep(h)
  <2>1. \A b \in Blocks : pc'[b] = "done" <=> pc[b] = "done" /\ b < h
    BY <1>7 DEF Restart, Blocks
  <2>2. handledBlocks' = {b \in handledBlocks : b < h}
    BY <2>1 DEF handledBlocks
  <2>3. UNCHANGED LedgerView
    BY <1>7 DEF Restart, LedgerView, db
  <2> QED BY <2>2, <2>3 DEF StartOverStep
<1> QED
  <2>1. CASE \E b \in Blocks : BlockStep(b) \/ BlockFails(b)
    BY <1>2, <1>3, <2>1 DEF BlockStep
  <2>2. CASE \E c \in Chunks : ChunkStep(c) \/ TxFails(c) \/ RcFails(c) \/ OutFails(c)
    BY <1>4, <1>5, <1>6, <2>2 DEF ChunkStep, RcStep, OutStep
  <2>3. CASE \E h \in Blocks : Restart(h)
    BY <1>7, <2>3
  <2> QED BY <1>1, <2>1, <2>2, <2>3 DEF Next

(* In strict mode the handlers implement the ledger.                       *)
THEOREM StrictImplements ==
    NoCollisions /\ StrictMode => (Spec => ImplementsLedger)
<1> SUFFICES ASSUME NoCollisions, StrictMode PROVE Spec => ImplementsLedger
  OBVIOUS
<1>1. Init => Ledger!Init
  BY DEF Init, Ledger!Init, Origin
<1>2. StrictInv => SameView
  BY OriginValue DEF StrictInv
<1>3. StrictInv /\ SameView /\ SameView' /\ [Next]_vars => [Ledger!Next]_(Ledger!vars)
  <2> SUFFICES ASSUME StrictInv, SameView, SameView', [Next]_vars
               PROVE  [Ledger!Next]_(Ledger!vars)
    OBVIOUS
  <2>1. [r \in Receipts |-> Origin(r)] = LedgerView
    BY DEF SameView
  <2>2. [r \in Receipts |-> Origin(r)]' = LedgerView'
    BY DEF SameView
  <2>3. CASE RecordStep
    BY <2>1, <2>2, <2>3 DEF RecordStep, handledBlocks, Ledger!Next, Ledger!Record
  <2>4. ASSUME NEW b \in Blocks, HandleStep(b) PROVE Ledger!Handle(b)
    BY <2>1, <2>2, <2>4 DEF HandleStep, handledBlocks, Ledger!Handle
  <2>5. ASSUME NEW b \in Blocks, StartOverStep(b) PROVE Ledger!StartOver(b)
    BY <2>1, <2>2, <2>5 DEF StartOverStep, handledBlocks, Ledger!StartOver
  <2>6. CASE UNCHANGED <<LedgerView, handledBlocks>>
    BY <2>1, <2>2, <2>6 DEF handledBlocks, Ledger!vars
  <2> QED BY <2>3, <2>4, <2>5, <2>6, ViewStep DEF Ledger!Next
<1> QED BY <1>1, <1>2, <1>3, StrictInductive, PTL DEF Spec, ImplementsLedger, Ledger!Spec
=============================================================================
