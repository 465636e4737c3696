----------------------------- MODULE AssetEvents -----------------------------
(***************************************************************************)
(* store_events (src/src/db_adapters/assets/): the token events in the     *)
(* logs of a block's execution outcomes, one future per shard and          *)
(* standard, each of which inserts its rows in batches, one after the      *)
(* other.  An INSERT is all or nothing; the handler of its errors takes a  *)
(* violated primary key as "already written" and skips the batch.          *)
(*                                                                         *)
(* Rows of different blocks never meet in a constraint, so one block is    *)
(* enough.  It may be handled several times, and by several indexers.      *)
(***************************************************************************)
EXTENDS BlockMessage, FiniteSets
Ext == INSTANCE SequencesExt

CONSTANT BatchSize  \* CHUNK_SIZE_FOR_BATCH_INSERT

ASSUME EventConstants == BatchSize \in Nat \ {0}

Standards == {"nep141", "nep171"}
Futures   == Shards \X Standards

VARIABLES
    composed,   \* the rows a future composes of the message, as a list
    eventRows,  \* the two tables of events
    nextBatch,  \* the batch a future of an indexer sends next
    lastBatch   \* the last batch it will send

eventVars == <<eventRows, nextBatch, lastBatch>>

-----------------------------------------------------------------------------
(* extract_events: the logs that are events, in the order of execution,    *)
(* whether their receipt succeeded or not.                                 *)
LogsOf(outcome) ==
    [i \in DOMAIN outcome.logs |-> [receipt |-> outcome.receipt,
                                    standard |-> outcome.logs[i].standard,
                                    data |-> outcome.logs[i].data]]

EventsOf(m, f) ==
    SelectSeq(Ext!FlattenSeq([i \in DOMAIN Messages[m].outcomes[f[1]] |->
                              LogsOf(Messages[m].outcomes[f[1]][i])]),
              LAMBDA event : event.standard = f[2])

(* An event carries a list of data; a row of the FT table is one of them,  *)
(* one of the NFT table is one token id of one of them.                    *)
EntriesOf(event) ==
    LET entries == IF event.standard = "nep141" THEN event.data ELSE Ext!FlattenSeq(event.data)
    IN  [i \in DOMAIN entries |-> [receipt |-> event.receipt, entry |-> entries[i]]]

Entries(m, f) ==
    Ext!FlattenSeq([i \in DOMAIN EventsOf(m, f) |-> EntriesOf(EventsOf(m, f)[i])])

(* The events of a shard are a list; a receipt is executed on one shard.   *)
ASSUME EntriesOfShards ==
    \A m \in DOMAIN Messages : \A f, g \in Futures :
        /\ Len(Entries(m, f)) \in Nat
        /\ DOMAIN Entries(m, f) = 1..Len(Entries(m, f))
        /\ f[1] # g[1] => \A k \in DOMAIN Entries(m, f), j \in DOMAIN Entries(m, g) :
              Entries(m, f)[k].receipt # Entries(m, g)[j].receipt

(* Bug: the numbering begins again with every receipt.                     *)
IndexInReceipt(entries, k) ==
    Cardinality({j \in 1..(k - 1) : entries[j].receipt = entries[k].receipt})

(* The length of the list so far.                                          *)
Index(entries, k) == k - 1

(* compose_ft_db_events, compose_nft_db_events                             *)
Compose(m, f) ==
    LET entries == Entries(m, f)
    IN  [k \in DOMAIN entries |->
            [receipt |-> entries[k].receipt, shard |-> f[1], index |-> Index(entries, k),
             entry |-> entries[k].entry]]

Positions(f) == 1..Len(composed[f])
AllRows(f)   == {composed[f][k] : k \in Positions(f)}
BatchOf(k)   == (k - 1) \div BatchSize + 1
Batch(f, b)  == {composed[f][k] : k \in {j \in Positions(f) : BatchOf(j) = b}}
Batches(f)   == IF composed[f] = <<>> THEN 0 ELSE BatchOf(Len(composed[f]))

-----------------------------------------------------------------------------
(* The constraints: the primary key is the whole row, UNIQUE is receipt    *)
(* and index.  The first row that violates one decides the error.          *)
SameKey(r, x) == r.receipt = x.receipt /\ r.index = x.index
Clashes(batch, rows) == {r \in batch : \E x \in rows : SameKey(r, x)}

FirstClash(batch, rows) ==
    LET clashes == Clashes(batch, rows)
    IN  {r \in clashes : \A x \in clashes : r.index <= x.index}

(* Bug: a violated primary key is an error like any other.                 *)
NeverDuplicate(batch, rows) == FALSE

IsDuplicate(batch, rows) == FirstClash(batch, rows) \cap rows # {}

(* The foreign key: no event of a receipt that was skipped.                *)
Storable(batch, rows) ==
    /\ Clashes(batch, rows) = {}
    /\ \A r \in batch : r.receipt \notin Message.skipped

Table(f)    == eventRows[f[2]]
Current(i, f) == Batch(f, nextBatch[i][f])
HasBatch(i, f) == nextBatch[i][f] <= lastBatch[i][f]

Added(f, batch) == eventRows' = [eventRows EXCEPT ![f[2]] = @ \cup batch]

StoreBatch(i, f) ==
    /\ HasBatch(i, f)
    /\ \/ /\ Storable(Current(i, f), Table(f))
          /\ Added(f, Current(i, f))
       \/ /\ IsDuplicate(Current(i, f), Table(f))
          /\ UNCHANGED eventRows
    /\ nextBatch' = [nextBatch EXCEPT ![i][f] = @ + 1]
    /\ UNCHANGED lastBatch

(* The batch is stored but the answer is an error: it is sent again.       *)
AnswerLost(i, f) ==
    /\ HasBatch(i, f)
    /\ Storable(Current(i, f), Table(f))
    /\ Added(f, Current(i, f))
    /\ UNCHANGED <<nextBatch, lastBatch>>

(* All attempts end in an error that is not a duplicate.                   *)
Refused(i, f) ==
    /\ HasBatch(i, f)
    /\ ~Storable(Current(i, f), Table(f))
    /\ ~IsDuplicate(Current(i, f), Table(f))

StartEvents(i) ==
    /\ nextBatch' = [nextBatch EXCEPT ![i] = [f \in Futures |-> 1]]
    /\ lastBatch' = [lastBatch EXCEPT ![i] = [f \in Futures |-> Batches(f)]]

(* The futures are dropped; each may have sent a statement.                *)
DropEvents(i) ==
    /\ \E sent \in SUBSET {f \in Futures : HasBatch(i, f)} :
          lastBatch' = [lastBatch EXCEPT ![i] = [f \in Futures |->
                            IF f \in sent THEN nextBatch[i][f] ELSE nextBatch[i][f] - 1]]
    /\ UNCHANGED <<eventRows, nextBatch>>

EventsIdle(i) == \A f \in Futures : ~HasBatch(i, f)

EventsInit ==
    /\ message \in DOMAIN Messages
    /\ composed = [f \in Futures |-> Compose(message, f)]
    /\ eventRows = [t \in Standards |-> {}]
    /\ nextBatch = [i \in Indexers |-> [f \in Futures |-> 1]]
    /\ lastBatch = [i \in Indexers |-> [f \in Futures |-> 0]]
=============================================================================
