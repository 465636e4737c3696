---------------------------- MODULE EventProofs ------------------------------
(***************************************************************************)
(* What holds of the token events and the account changes of a block for    *)
(* every message, batch size, number of indexers and of runs, faults and    *)
(* crashes.  A table of events always holds whole batches, and so a         *)
(* violated primary key means what the code takes it for.                   *)
(***************************************************************************)
EXTENDS EventTables, FiniteSetTheorems, TLAPS

-----------------------------------------------------------------------------
(* The first position of a batch.                                          *)
First(b) == (b - 1) * BatchSize + 1

(* A position lies behind the first one of its batch.                      *)
LEMMA BatchFacts ==
    ASSUME NEW k \in Nat \ {0}
    PROVE  /\ BatchOf(k) \in Nat \ {0}
           /\ First(BatchOf(k)) \in 1..k
           /\ BatchOf(First(BatchOf(k))) = BatchOf(k)
<1> DEFINE q == (k - 1) \div BatchSize
           p == q * BatchSize
<1>1. BatchSize \in Nat \ {0} /\ k - 1 \in Nat
  BY EventConstants
<1>2. q \in Nat /\ BatchSize * q <= k - 1
  BY <1>1, SMT
<1>3. BatchOf(k) = q + 1
  BY DEF BatchOf
<1> HIDE DEF q
<1>4. p \in Nat /\ p <= k - 1
  BY <1>1, <1>2, SMT
<1>5. p \div BatchSize = q
  <2> DEFINE x == p \div BatchSize
  <2>1. x \in Nat /\ BatchSize * x <= p /\ p < BatchSize * x + BatchSize
    BY <1>1, <1>4, SMT
  <2> HIDE DEF x
  <2>2. CASE x + 1 <= q
    <3>1. q - x - 1 \in Nat /\ BatchSize * (q - x - 1) \in Nat
      BY <1>1, <1>2, <2>1, <2>2, SMT
    <3>2. p - BatchSize * x - BatchSize = BatchSize * (q - x - 1)
      BY <1>1, <1>2, <2>1, SMT
    <3>3. BatchSize * x \in Nat
      BY <1>1, <2>1, SMT
    <3> HIDE DEF p
    <3> QED
      BY <1>1, <1>4, <2>1, <3>1, <3>2, <3>3
  <2>3. CASE q + 1 <= x
    <3>1. x - q - 1 \in Nat /\ BatchSize * (x - q - 1) \in Nat
      BY <1>1, <1>2, <2>1, <2>3, SMT
    <3>2. BatchSize * x - p - BatchSize = BatchSize * (x - q - 1)
      BY <1>1, <1>2, <2>1, SMT
    <3>3. BatchSize * x \in Nat
      BY <1>1, <2>1, SMT
    <3> HIDE DEF p
    <3> QED
      BY <1>1, <1>4, <2>1, <3>1, <3>2, <3>3
  <2> QED
    BY <1>2, <2>1, <2>2, <2>3 DEF x
<1>6. First(BatchOf(k)) = p + 1
  BY <1>2, <1>3 DEF First
<1>7. BatchOf(p + 1) = p \div BatchSize + 1
  BY <1>4 DEF BatchOf
<1> HIDE DEF p
<1> QED
  BY <1>1, <1>2, <1>3, <1>4, <1>5, <1>6, <1>7
-----------------------------------------------------------------------------
(* What the futures compose never changes: the row at position k carries   *)
(* the index k - 1 and its shard, and no other shard has its receipt.      *)
ComposedOnce ==
    /\ message \in DOMAIN Messages
    /\ composed = [f \in Futures |-> Compose(message, f)]

LEMMA ComposedFacts ==
    ASSUME ComposedOnce
    PROVE  /\ \A f \in Futures : Positions(f) \subseteq Nat \ {0}
           /\ \A f \in Futures : \A j \in Nat, k \in Positions(f) :
                 j \in 1..k => j \in Positions(f)
           /\ \A f \in Futures : \A k \in Positions(f) :
                 composed[f][k].index = k - 1 /\ composed[f][k].shard = f[1]
           /\ \A f, g \in Futures : \A k \in Positions(f), j \in Positions(g) :
                 composed[f][k].receipt = composed[g][j].receipt => f[1] = g[1]
<1>1. ASSUME NEW f \in Futures
      PROVE  /\ Len(Entries(message, f)) \in Nat
             /\ Positions(f) = 1..Len(Entries(message, f))
             /\ DOMAIN Entries(message, f) = 1..Len(Entries(message, f))
             /\ \A k \in Positions(f) :
                   /\ composed[f][k].index = k - 1
                   /\ composed[f][k].shard = f[1]
                   /\ composed[f][k].receipt = Entries(message, f)[k].receipt
  <2> DEFINE n == Len(Entries(message, f))
  <2>1. n \in Nat /\ DOMAIN Entries(message, f) = 1..n
    BY EntriesOfShards DEF ComposedOnce
  <2>2. composed[f] = [k \in 1..n |->
            [receipt |-> Entries(message, f)[k].receipt, shard |-> f[1], index |-> k - 1,
             entry |-> Entries(message, f)[k].entry]]
    BY <2>1 DEF ComposedOnce, Compose, Index
  <2> HIDE DEF n
  <2>3. Positions(f) = 1..n
    BY <2>1, <2>2 DEF Positions
  <2> QED
    BY <2>1, <2>2, <2>3 DEF n
<1>2. ASSUME NEW f \in Futures, NEW g \in Futures, NEW k \in Positions(f), NEW j \in Positions(g),
             composed[f][k].receipt = composed[g][j].receipt
      PROVE  f[1] = g[1]
  <2>1. Entries(message, f)[k].receipt = Entries(message, g)[j].receipt
    BY <1>1, <1>2
  <2>2. k \in DOMAIN Entries(message, f) /\ j \in DOMAIN Entries(message, g)
    BY <1>1
  <2> QED
    BY <2>1, <2>2, EntriesOfShards DEF ComposedOnce
<1> QED
  BY <1>1, <1>2

(* Two rows of a table with the same key are one, at one position.         *)
LEMMA SamePosition ==
    ASSUME ComposedOnce, NEW f \in Futures, NEW g \in Futures, f[2] = g[2],
           NEW k \in Positions(f), NEW j \in Positions(g)
    PROVE  /\ SameKey(composed[f][k], composed[g][j]) => f = g /\ k = j
           /\ composed[f][k] = composed[g][j] => f = g /\ k = j
<1>1. f[1] = g[1] => f = g
  <2>1. f = <<f[1], f[2]>> /\ g = <<g[1], g[2]>>
    BY DEF Futures
  <2> QED
    BY <2>1, Zenon
<1>2. /\ composed[f][k].index = k - 1 /\ composed[g][j].index = j - 1
      /\ k \in Nat /\ j \in Nat
      /\ composed[f][k].receipt = composed[g][j].receipt => f[1] = g[1]
  BY ComposedFacts
<1>3. SameKey(composed[f][k], composed[g][j]) => f = g /\ k = j
  BY <1>1, <1>2 DEF SameKey
<1> QED
  BY <1>3 DEF SameKey

(* So no two batches of a table share a row.                               *)
LEMMA BatchesApart ==
    ASSUME ComposedOnce, NEW f \in Futures, NEW g \in Futures, f[2] = g[2],
           NEW b, NEW c, NEW r \in Batch(f, b), r \in Batch(g, c)
    PROVE  f = g /\ b = c
<1>1. PICK k \in Positions(f) : BatchOf(k) = b /\ r = composed[f][k]
  BY DEF Batch
<1>2. PICK j \in Positions(g) : BatchOf(j) = c /\ r = composed[g][j]
  BY DEF Batch
<1>3. composed[f][k] = composed[g][j]
  BY <1>1, <1>2, Zenon
<1>4. f = g /\ k = j
  BY <1>3, SamePosition
<1> QED
  BY <1>1, <1>2, <1>4
-----------------------------------------------------------------------------
(* The invariant: a table holds whole batches, and nothing else.           *)
TableNames == eventRows = [t \in Standards |-> eventRows[t]]

WholeBatches ==
    \A f \in Futures : \A b \in Nat :
        Batch(f, b) \subseteq Table(f) \/ Batch(f, b) \cap Table(f) = {}

RowsOfBatches ==
    \A f \in Futures : \A r \in Table(f) :
        \E g \in Futures : g[2] = f[2] /\ r \in AllRows(g)

(* The batch a future sends next has a number.                             *)
NextBatches ==
    /\ nextBatch = [i \in Indexers |-> [f \in Futures |-> nextBatch[i][f]]]
    /\ \A i \in Indexers, f \in Futures : nextBatch[i][f] \in Nat \ {0}

EventInv == ComposedOnce /\ TableNames /\ WholeBatches /\ RowsOfBatches /\ NextBatches

(* What is not written to stays as it is.                                  *)
LEMMA TablesUntouched ==
    ASSUME EventInv, UNCHANGED <<composed, eventRows>>
    PROVE  TableNames' /\ WholeBatches' /\ RowsOfBatches'
<1>1. /\ \A f \in Futures : Table(f)' = Table(f)
      /\ \A f \in Futures : AllRows(f)' = AllRows(f)
      /\ \A f \in Futures : \A b \in Nat : Batch(f, b)' = Batch(f, b)
  BY DEF Table, AllRows, Batch, Positions
<1>2. TableNames'
  BY DEF EventInv, TableNames
<1>3. WholeBatches'
  BY <1>1 DEF EventInv, WholeBatches
<1>4. RowsOfBatches'
  BY <1>1 DEF EventInv, RowsOfBatches
<1> QED
  BY <1>2, <1>3, <1>4

(* Another whole batch does no harm.                                       *)
LEMMA OneMoreBatch ==
    ASSUME EventInv, NEW f \in Futures, NEW b \in Nat, Added(f, Batch(f, b)),
           UNCHANGED composed
    PROVE  TableNames' /\ WholeBatches' /\ RowsOfBatches'
<1> USE DEF EventInv
<1>1. \A g \in Futures : g[2] \in Standards
  BY DEF Futures
<1>2. /\ eventRows' = [t \in Standards |->
            IF t = f[2] THEN eventRows[t] \cup Batch(f, b) ELSE eventRows[t]]
  BY <1>1 DEF Added, TableNames
<1>3. \A g \in Futures :
          Table(g)' = IF g[2] = f[2] THEN Table(g) \cup Batch(f, b) ELSE Table(g)
  BY <1>1, <1>2 DEF Table
<1>4. \A g \in Futures : \A c \in Nat : Batch(g, c)' = Batch(g, c)
  BY DEF Batch, Positions
<1>5. \A g \in Futures : AllRows(g)' = AllRows(g)
  BY DEF AllRows, Positions
<1>6. TableNames'
  BY <1>2 DEF TableNames
<1>7. WholeBatches'
  <2>1. ASSUME NEW g \in Futures, NEW c \in Nat
        PROVE  Batch(g, c) \subseteq Table(g)' \/ Batch(g, c) \cap Table(g)' = {}
    <3>1. CASE g[2] # f[2]
      BY <1>3, <3>1 DEF WholeBatches
    <3>2. CASE g[2] = f[2] /\ Batch(g, c) \cap Batch(f, b) = {}
      BY <1>3, <3>2 DEF WholeBatches
    <3>3. CASE g[2] = f[2] /\ Batch(g, c) \cap Batch(f, b) # {}
      <4>1. g = f /\ c = b
        BY <3>3, BatchesApart
      <4> QED
        BY <1>3, <4>1
    <3> QED
      BY <3>1, <3>2, <3>3
  <2> QED
    BY <1>4, <2>1 DEF WholeBatches
<1>8. RowsOfBatches'
  <2>1. Batch(f, b) \subseteq AllRows(f)
    BY DEF Batch, AllRows
  <2>2. ASSUME NEW g \in Futures, NEW r \in Table(g)'
        PROVE  \E h \in Futures : h[2] = g[2] /\ r \in AllRows(h)
    <3>1. CASE r \in Table(g)
      BY <3>1 DEF RowsOfBatches
    <3>2. CASE r \notin Table(g)
      BY <1>3, <2>1, <2>2, <3>2
    <3> QED
      BY <3>1, <3>2
  <2> QED
    BY <1>5, <2>2 DEF RowsOfBatches
<1> QED
  BY <1>6, <1>7, <1>8

(* A row that clashes is the same row, and with it the whole batch is in   *)
(* the table: its first row is the one the error names.                    *)
LEMMA ClashIsDuplicate ==
    ASSUME EventInv, NEW f \in Futures, NEW b \in Nat,
           Clashes(Batch(f, b), Table(f)) # {}
    PROVE  IsDuplicate(Batch(f, b), Table(f))
<1> USE DEF EventInv
<1>1. PICK c \in Batch(f, b), x \in Table(f) : SameKey(c, x)
  BY DEF Clashes
<1>2. PICK k \in Positions(f) : BatchOf(k) = b /\ c = composed[f][k]
  BY DEF Batch
<1>3. PICK g \in Futures : g[2] = f[2] /\ x \in AllRows(g)
  BY DEF RowsOfBatches
<1>4. PICK j \in Positions(g) : x = composed[g][j]
  BY <1>3 DEF AllRows
<1>5. c = x
  BY <1>1, <1>2, <1>3, <1>4, SamePosition
<1>6. Batch(f, b) \subseteq Table(f)
  BY <1>1, <1>5 DEF WholeBatches
<1>7. k \in Nat \ {0}
  BY ComposedFacts
<1>8. /\ First(b) \in 1..k /\ First(b) \in Nat
      /\ BatchOf(First(b)) = b
      /\ First(b) \in Positions(f)
  <2>1. First(b) \in 1..k /\ BatchOf(First(b)) = b
    BY <1>2, <1>7, BatchFacts
  <2> QED
    BY <2>1, <1>7, ComposedFacts
<1> DEFINE first == composed[f][First(b)]
<1>9. first \in Batch(f, b)
  BY <1>8 DEF Batch
<1>10. ASSUME NEW y \in Batch(f, b) PROVE first.index <= y.index
  <2>1. PICK i \in Positions(f) : BatchOf(i) = b /\ y = composed[f][i]
    BY <1>10 DEF Batch
  <2>2. i \in Nat \ {0}
    BY ComposedFacts
  <2>3. First(b) \in 1..i
    BY <2>1, <2>2, BatchFacts
  <2>4. first.index = First(b) - 1 /\ y.index = i - 1
    BY <1>8, <2>1, ComposedFacts
  <2> QED
    BY <1>8, <2>2, <2>3, <2>4
<1> HIDE DEF first
<1>11. \A y \in Clashes(Batch(f, b), Table(f)) : y \in Batch(f, b)
  BY DEF Clashes
<1>12. first \in Clashes(Batch(f, b), Table(f))
  BY <1>6, <1>9 DEF Clashes, SameKey
<1>13. first \in FirstClash(Batch(f, b), Table(f))
  BY <1>10, <1>11, <1>12 DEF FirstClash
<1> QED
  BY <1>6, <1>9, <1>13 DEF IsDuplicate
-----------------------------------------------------------------------------
(* The invariant holds at the start ...                                    *)
LEMMA EventInit == Init => EventInv
<1> SUFFICES ASSUME Init PROVE EventInv
  OBVIOUS
<1>1. ComposedOnce
  BY DEF Init, EventsInit, ComposedOnce
<1>2. eventRows = [t \in Standards |-> {}]
  BY DEF Init, EventsInit
<1>3. \A f \in Futures : Table(f) = {}
  BY <1>2 DEF Table, Futures
<1>4. TableNames /\ WholeBatches /\ RowsOfBatches
  BY <1>2, <1>3 DEF TableNames, WholeBatches, RowsOfBatches
<1>5. NextBatches
  BY DEF Init, EventsInit, NextBatches
<1> QED
  BY <1>1, <1>4, <1>5 DEF EventInv

(* ... and is kept by every step.                                          *)
LEMMA EventSteps == EventInv /\ [Next]_vars => EventInv'
<1> SUFFICES ASSUME EventInv, [Next]_vars PROVE EventInv'
  OBVIOUS
<1>1. UNCHANGED <<message, composed>>
  BY DEF Next, Start, StoreEvents, StoreAccountChanges, Finish, GiveUp, Fail, Lose,
         AllEnded, block, vars
<1>2. ComposedOnce'
  BY <1>1 DEF EventInv, ComposedOnce
<1>3. CASE UNCHANGED <<eventRows, nextBatch>>
  <2>1. NextBatches'
    BY <1>3 DEF EventInv, NextBatches
  <2> QED
    BY <1>1, <1>2, <1>3, <2>1, TablesUntouched DEF EventInv
<1>4. ASSUME NEW i \in Indexers, Start(i) PROVE EventInv'
  <2>1. eventRows' = eventRows
        /\ nextBatch' = [nextBatch EXCEPT ![i] = [f \in Futures |-> 1]]
    BY <1>4 DEF Start, StartEvents
  <2>2. NextBatches'
    <3>1. \A j \in Indexers, f \in Futures :
              nextBatch'[j][f] = IF j = i THEN 1 ELSE nextBatch[j][f]
      BY <2>1 DEF EventInv, NextBatches
    <3>2. nextBatch' = [j \in Indexers |->
              IF j = i THEN [f \in Futures |-> 1] ELSE nextBatch[j]]
      BY <2>1 DEF EventInv, NextBatches
    <3>3. nextBatch' = [j \in Indexers |-> [f \in Futures |-> nextBatch'[j][f]]]
      BY <3>1, <3>2 DEF EventInv, NextBatches
    <3> QED
      BY <3>1, <3>3 DEF EventInv, NextBatches
  <2>3. TableNames' /\ WholeBatches' /\ RowsOfBatches'
    BY <1>1, <2>1, TablesUntouched
  <2> QED
    BY <1>2, <2>2, <2>3 DEF EventInv
<1>5. ASSUME NEW i \in Indexers, NEW f \in Futures, StoreBatch(i, f) \/ AnswerLost(i, f)
      PROVE  EventInv'
  <2>1. nextBatch[i][f] \in Nat
    BY DEF EventInv, NextBatches
  <2>2. NextBatches'
    <3>1. CASE nextBatch' = nextBatch
      BY <3>1 DEF EventInv, NextBatches
    <3>2. CASE nextBatch' = [nextBatch EXCEPT ![i][f] = @ + 1]
      BY <2>1, <3>2 DEF EventInv, NextBatches
    <3> QED
      BY <1>5, <3>1, <3>2 DEF StoreBatch, AnswerLost
  <2>3. eventRows' = eventRows \/ Added(f, Batch(f, nextBatch[i][f]))
    BY <1>5 DEF StoreBatch, AnswerLost, Current
  <2>4. TableNames' /\ WholeBatches' /\ RowsOfBatches'
    <3>1. CASE eventRows' = eventRows
      BY <1>1, <3>1, TablesUntouched
    <3>2. CASE Added(f, Batch(f, nextBatch[i][f]))
      BY <1>1, <2>1, <3>2, OneMoreBatch
    <3> QED
      BY <2>3, <3>1, <3>2
  <2> QED
    BY <1>2, <2>2, <2>4 DEF EventInv
<1>6. \/ UNCHANGED <<eventRows, nextBatch>>
      \/ \E i \in Indexers : Start(i)
      \/ \E i \in Indexers, f \in Futures : StoreBatch(i, f) \/ AnswerLost(i, f)
  BY DEF Next, StoreEvents, StoreAccountChanges, Finish, GiveUp, Fail, Lose, DropEvents,
         AllEnded, eventVars, vars
<1> QED
  BY <1>3, <1>4, <1>5, <1>6

(* A table always holds whole batches.                                     *)
LEMMA EventInvariant == Spec => []EventInv
BY EventInit, EventSteps, PTL DEF Spec

(* A batch is refused only for an event of a skipped receipt: whatever was  *)
(* written before, by this indexer or by another, is skipped as written.   *)
THEOREM RefusedForSkipped == Spec => []OnlySkippedRefused
<1>1. EventInv => OnlySkippedRefused
  <2> SUFFICES ASSUME EventInv, NEW i \in Indexers, NEW f \in Futures, Refused(i, f)
               PROVE  \E r \in Current(i, f) : r.receipt \in Message.skipped
    BY DEF OnlySkippedRefused
  <2>1. nextBatch[i][f] \in Nat
    BY DEF EventInv, NextBatches
  <2>2. Clashes(Current(i, f), Table(f)) = {}
    BY <2>1, ClashIsDuplicate DEF Refused, Current
  <2> QED
    BY <2>2 DEF Refused, Storable
<1> QED
  BY <1>1, EventInvariant, PTL
-----------------------------------------------------------------------------
(* An indexer that is at work, or that reports the block as handled, has    *)
(* all the batches behind it in the table; the last one is that of the     *)
(* last row.                                                               *)
AtWork(i) == pc[i] \in {"running", "done"}

BehindStored ==
    \A i \in Indexers : AtWork(i) =>
        \A f \in Futures : \A b \in Nat : b < nextBatch[i][f] => Batch(f, b) \subseteq Table(f)

LastBatches ==
    /\ pc = [i \in Indexers |-> pc[i]]
    /\ lastBatch = [i \in Indexers |-> [f \in Futures |-> lastBatch[i][f]]]
    /\ \A i \in Indexers : AtWork(i) => \A f \in Futures : lastBatch[i][f] = Batches(f)

NoneLeft == \A i \in Indexers : pc[i] = "done" => EventsIdle(i)

HandlerInv == EventInv /\ BehindStored /\ LastBatches /\ NoneLeft

(* Later rows are in later batches.                                        *)
LEMMA BatchesInOrder ==
    ASSUME NEW j \in Nat \ {0}, NEW k \in Nat \ {0}, j <= k
    PROVE  BatchOf(j) <= BatchOf(k)
<1> DEFINE p == (j - 1) \div BatchSize
           q == (k - 1) \div BatchSize
<1>1. BatchSize \in Nat \ {0} /\ j - 1 \in Nat /\ k - 1 \in Nat
  BY EventConstants
<1>2. /\ p \in Nat /\ BatchSize * p <= j - 1
      /\ q \in Nat /\ k - 1 < BatchSize * q + BatchSize
  BY <1>1, SMT
<1>3. BatchOf(j) = p + 1 /\ BatchOf(k) = q + 1
  BY DEF BatchOf
<1> HIDE DEF p, q
<1>4. CASE q < p
  <2>1. p - q - 1 \in Nat /\ BatchSize * (p - q - 1) \in Nat
    BY <1>1, <1>2, <1>4, SMT
  <2>2. BatchSize * p - BatchSize * q - BatchSize = BatchSize * (p - q - 1)
    BY <1>1, <1>2, SMT
  <2>3. BatchSize * p \in Nat /\ BatchSize * q \in Nat
    BY <1>1, <1>2, SMT
  <2> QED
    BY <1>1, <1>2, <2>1, <2>2, <2>3
<1> QED
  BY <1>2, <1>3, <1>4

(* What a future composes is as long as what it found in the logs.         *)
LEMMA ComposedLength ==
    ASSUME ComposedOnce, NEW f \in Futures
    PROVE  Len(composed[f]) \in Nat
<1>1. Len(Entries(message, f)) \in Nat /\ DOMAIN Entries(message, f) = 1..Len(Entries(message, f))
  BY EntriesOfShards DEF ComposedOnce
<1>2. composed[f] = [j \in 1..Len(Entries(message, f)) |->
          [receipt |-> Entries(message, f)[j].receipt, shard |-> f[1], index |-> j - 1,
           entry |-> Entries(message, f)[j].entry]]
  BY <1>1 DEF ComposedOnce, Compose, Index
<1> QED
  BY <1>1, <1>2

(* Every row is in one of the batches a future sends.                      *)
LEMMA RowsInBatches ==
    ASSUME ComposedOnce, NEW f \in Futures, NEW k \in Positions(f)
    PROVE  BatchOf(k) \in Nat /\ BatchOf(k) <= Batches(f)
<1>1. Positions(f) = 1..Len(composed[f]) /\ k \in Nat \ {0}
  BY ComposedFacts DEF Positions
<1>2. BatchOf(k) \in Nat
  BY <1>1, BatchFacts
<1>3. Len(composed[f]) \in Nat /\ composed[f] # <<>>
  BY <1>1, ComposedLength
<1>4. k <= Len(composed[f]) /\ Len(composed[f]) \in Nat \ {0}
  BY <1>1, <1>3
<1> QED
  BY <1>1, <1>2, <1>3, <1>4, BatchesInOrder DEF Batches

(* When all batches of a future are stored, its rows are those of the      *)
(* shard in the table, one for each position.                              *)
LEMMA AllBatchesInOrder ==
    ASSUME EventInv, NEW f \in Futures,
           \A b \in Nat : b <= Batches(f) => Batch(f, b) \subseteq Table(f)
    PROVE  InOrder(f)
<1> USE DEF EventInv
<1> DEFINE n == Len(Entries(message, f))
<1>1. n \in Nat /\ DOMAIN Entries(message, f) = 1..n
  BY EntriesOfShards DEF ComposedOnce
<1>2. composed[f] = [k \in 1..n |->
          [receipt |-> Entries(message, f)[k].receipt, shard |-> f[1], index |-> k - 1,
           entry |-> Entries(message, f)[k].entry]]
  BY <1>1 DEF ComposedOnce, Compose, Index
<1> HIDE DEF n
<1>3. Positions(f) = 1..n
  BY <1>1, <1>2 DEF Positions
<1>4. AllRows(f) \subseteq RowsOfShard(f)
  <2>1. ASSUME NEW k \in Positions(f) PROVE composed[f][k] \in RowsOfShard(f)
    <3>1. composed[f][k] \in Batch(f, BatchOf(k))
      BY DEF Batch
    <3>2. composed[f][k] \in Table(f)
      BY <3>1, RowsInBatches
    <3> QED
      BY <3>2, ComposedFacts DEF RowsOfShard
  <2> QED
    BY <2>1 DEF AllRows
<1>5. RowsOfShard(f) \subseteq AllRows(f)
  <2>1. ASSUME NEW r \in RowsOfShard(f) PROVE r \in AllRows(f)
    <3>1. r \in Table(f) /\ r.shard = f[1]
      BY DEF RowsOfShard
    <3>2. PICK g \in Futures : g[2] = f[2] /\ r \in AllRows(g)
      BY <3>1 DEF RowsOfBatches
    <3>3. PICK j \in Positions(g) : r = composed[g][j]
      BY <3>2 DEF AllRows
    <3>4. r.shard = g[1]
      BY <3>3, ComposedFacts
    <3>5. f = <<f[1], f[2]>> /\ g = <<g[1], g[2]>>
      BY DEF Futures
    <3> QED
      BY <3>1, <3>2, <3>4, <3>5, Zenon
  <2> QED
    BY <2>1
<1>6. Cardinality(RowsOfShard(f)) = n
  <2> DEFINE row == [k \in 1..n |-> composed[f][k]]
  <2>1. RowsOfShard(f) = {row[k] : k \in 1..n}
    BY <1>3, <1>4, <1>5 DEF AllRows
  <2>2. \A k, j \in 1..n : row[k] = row[j] => k = j
    <3>1. \A k \in 1..n : row[k].index = k - 1
      BY <1>3, ComposedFacts
    <3> HIDE DEF row
    <3>2. ASSUME NEW k \in 1..n, NEW j \in 1..n, row[k] = row[j] PROVE k = j
      <4>1. k - 1 = j - 1
        BY <3>1, <3>2
      <4> QED
        BY <4>1
    <3> QED
      BY <3>2
  <2>3. row \in [1..n -> RowsOfShard(f)]
    BY <2>1
  <2>4. row \in Bijection(1..n, RowsOfShard(f))
    <3> HIDE DEF row
    <3> QED
      BY <2>1, <2>2, <2>3 DEF Bijection, Injection, Surjection, IsInjective
  <2>5. ExistsBijection(1..n, RowsOfShard(f))
    BY <2>4 DEF ExistsBijection
  <2> QED
    BY <1>1, <2>5, FS_CountingElements
<1>7. ASSUME NEW k \in DOMAIN Entries(message, f)
      PROVE  \E r \in RowsOfShard(f) :
                r.index = k - 1 /\ r.receipt = Entries(message, f)[k].receipt
                /\ r.entry = Entries(message, f)[k].entry
  <2>1. composed[f][k] \in RowsOfShard(f)
    BY <1>1, <1>3, <1>4, <1>7 DEF AllRows
  <2> QED
    BY <1>1, <1>2, <2>1
<1> QED
  BY <1>6, <1>7 DEF InOrder, n
LEMMA HandlerInit == Init => HandlerInv
<1> SUFFICES ASSUME Init PROVE HandlerInv
  OBVIOUS
<1>1. EventInv
  BY EventInit
<1>2. /\ pc = [i \in Indexers |-> "idle"]
      /\ lastBatch = [i \in Indexers |-> [f \in Futures |-> 0]]
  BY DEF Init, EventsInit
<1>3. \A i \in Indexers : ~AtWork(i) /\ pc[i] # "done"
  BY <1>2 DEF AtWork
<1> QED
  BY <1>1, <1>2, <1>3 DEF HandlerInv, BehindStored, LastBatches, NoneLeft

(* A table only grows, and what a batch is does not change.                *)
LEMMA TablesGrow ==
    ASSUME EventInv, [Next]_vars
    PROVE  /\ \A f \in Futures : Table(f) \subseteq Table(f)'
           /\ \A f \in Futures : \A b \in Nat : Batch(f, b)' = Batch(f, b)
           /\ \A f \in Futures : Batches(f)' = Batches(f)
<1>1. UNCHANGED <<message, composed>>
  BY DEF Next, Start, StoreEvents, StoreAccountChanges, Finish, GiveUp, Fail, Lose,
         AllEnded, block, vars
<1>2. UNCHANGED eventRows \/ \E f \in Futures : \E batch : Added(f, batch)
  <2>1. ASSUME NEW i \in Indexers, StoreEvents(i)
        PROVE  UNCHANGED eventRows \/ \E f \in Futures : \E batch : Added(f, batch)
    BY <2>1 DEF StoreEvents, StoreBatch, AnswerLost
  <2> QED
    BY <2>1 DEF Next, Start, StoreAccountChanges, Finish, GiveUp, Fail, Lose, DropEvents,
                AllEnded, eventVars, vars
<1>3. \A f \in Futures : Table(f) \subseteq Table(f)'
  <2>1. ASSUME NEW f \in Futures, NEW batch, Added(f, batch), NEW g \in Futures
        PROVE  Table(g) \subseteq Table(g)'
    <3>1. f[2] \in Standards /\ g[2] \in Standards
      BY DEF Futures
    <3>2. eventRows' = [t \in Standards |->
              IF t = f[2] THEN eventRows[t] \cup batch ELSE eventRows[t]]
      BY <2>1, <3>1 DEF Added, EventInv, TableNames
    <3> QED
      BY <3>1, <3>2 DEF Table
  <2> QED
    BY <1>2, <2>1 DEF Table
<1> QED
  BY <1>1, <1>3 DEF Batch, Batches, Positions

(* A batch that is sent, or that is skipped as a duplicate, is in the table. *)
LEMMA SentIsStored ==
    ASSUME EventInv, NEW i \in Indexers, NEW f \in Futures, StoreBatch(i, f)
    PROVE  Current(i, f) \subseteq Table(f)'
<1>1. f[2] \in Standards /\ nextBatch[i][f] \in Nat
  BY DEF Futures, EventInv, NextBatches
<1>2. CASE Added(f, Current(i, f))
  <2>1. eventRows' = [t \in Standards |->
            IF t = f[2] THEN eventRows[t] \cup Current(i, f) ELSE eventRows[t]]
    BY <1>1, <1>2 DEF Added, EventInv, TableNames
  <2> QED
    BY <1>1, <2>1 DEF Table
<1>3. CASE IsDuplicate(Current(i, f), Table(f)) /\ UNCHANGED eventRows
  <2>1. Current(i, f) \cap Table(f) # {}
    BY <1>3 DEF IsDuplicate, FirstClash, Clashes
  <2>2. Current(i, f) \subseteq Table(f)
    BY <1>1, <2>1 DEF Current, EventInv, WholeBatches
  <2> QED
    BY <1>3, <2>2 DEF Table
<1> QED
  BY <1>2, <1>3 DEF StoreBatch

LEMMA HandlerSteps == HandlerInv /\ [Next]_vars => HandlerInv'
<1> SUFFICES ASSUME HandlerInv, [Next]_vars PROVE HandlerInv'
  OBVIOUS
<1> USE DEF HandlerInv
<1>1. EventInv'
  BY EventSteps
<1>2. /\ \A f \in Futures : Table(f) \subseteq Table(f)'
      /\ \A f \in Futures : \A b \in Nat : Batch(f, b)' = Batch(f, b)
      /\ \A f \in Futures : Batches(f)' = Batches(f)
  BY TablesGrow
<1>3. CASE UNCHANGED <<pc, nextBatch, lastBatch>>
  <2>1. BehindStored'
    BY <1>2, <1>3 DEF BehindStored, AtWork
  <2>2. LastBatches'
    BY <1>2, <1>3 DEF LastBatches, AtWork
  <2>3. NoneLeft'
    BY <1>3 DEF NoneLeft, EventsIdle, HasBatch
  <2> QED
    BY <1>1, <2>1, <2>2, <2>3
<1>4. ASSUME NEW i \in Indexers, Start(i) PROVE HandlerInv'
  <2>1. /\ nextBatch' = [nextBatch EXCEPT ![i] = [f \in Futures |-> 1]]
        /\ lastBatch' = [lastBatch EXCEPT ![i] = [f \in Futures |-> Batches(f)]]
        /\ pc' = [pc EXCEPT ![i] = "running"]
    BY <1>4 DEF Start, StartEvents
  <2>2. \A j \in Indexers : \A f \in Futures :
            /\ nextBatch'[j][f] = IF j = i THEN 1 ELSE nextBatch[j][f]
            /\ lastBatch'[j][f] = IF j = i THEN Batches(f) ELSE lastBatch[j][f]
            /\ pc'[j] = IF j = i THEN "running" ELSE pc[j]
    BY <2>1 DEF LastBatches, EventInv, NextBatches
  <2>3. ASSUME NEW f \in Futures PROVE Batch(f, 0) = {}
    <3>1. \A k \in Positions(f) : BatchOf(k) # 0
      BY ComposedFacts, BatchFacts DEF EventInv
    <3> QED
      BY <3>1 DEF Batch
  <2>4. BehindStored'
    <3>1. ASSUME NEW j \in Indexers, AtWork(j)', NEW f \in Futures, NEW b \in Nat,
                 b < nextBatch'[j][f]
          PROVE  Batch(f, b) \subseteq Table(f)
      <4>1. CASE j = i
        <5>1. b = 0
          BY <2>2, <3>1, <4>1
        <5> QED
          BY <2>3, <5>1
      <4>2. CASE j # i
        <5>1. nextBatch'[j][f] = nextBatch[j][f]
          BY <2>2, <4>2
        <5>2. pc[j] = pc'[j]
          BY <2>1, <4>2 DEF LastBatches
        <5> QED
          BY <3>1, <5>1, <5>2 DEF BehindStored, AtWork
      <4> QED
        BY <4>1, <4>2
    <3> QED
      BY <1>2, <3>1 DEF BehindStored
  <2>5. LastBatches'
    <3>1. pc' = [j \in Indexers |-> pc'[j]]
      BY <2>1 DEF LastBatches
    <3>2. lastBatch' = [j \in Indexers |->
              IF j = i THEN [f \in Futures |-> Batches(f)] ELSE lastBatch[j]]
      BY <2>1 DEF LastBatches
    <3>3. lastBatch' = [j \in Indexers |-> [f \in Futures |-> lastBatch'[j][f]]]
      BY <3>2 DEF LastBatches
    <3>4. ASSUME NEW j \in Indexers, AtWork(j)', NEW f \in Futures
          PROVE  lastBatch'[j][f] = Batches(f)
      <4>1. CASE j = i
        BY <2>2, <4>1
      <4>2. CASE j # i
        <5>1. pc[j] = pc'[j]
          BY <2>1, <4>2 DEF LastBatches
        <5> QED
          BY <2>2, <3>4, <4>2, <5>1 DEF LastBatches, AtWork
      <4> QED
        BY <4>1, <4>2
    <3> QED
      BY <1>2, <3>1, <3>3, <3>4 DEF LastBatches
  <2>6. NoneLeft'
    <3>1. ASSUME NEW j \in Indexers, pc'[j] = "done", NEW f \in Futures
          PROVE  ~(nextBatch'[j][f] <= lastBatch'[j][f])
      <4>1. j # i
        BY <2>1, <3>1 DEF LastBatches
      <4>2. pc[j] = "done"
        BY <2>1, <3>1, <4>1 DEF LastBatches
      <4>3. ~(nextBatch[j][f] <= lastBatch[j][f])
        BY <4>2 DEF NoneLeft, EventsIdle, HasBatch
      <4> QED
        BY <2>2, <4>1, <4>3
    <3> QED
      BY <3>1 DEF NoneLeft, EventsIdle, HasBatch
  <2> QED
    BY <1>1, <2>4, <2>5, <2>6
<1>5. ASSUME NEW i \in Indexers, NEW f \in Futures, StoreBatch(i, f), UNCHANGED pc
      PROVE  HandlerInv'
  <2>1. nextBatch' = [nextBatch EXCEPT ![i][f] = @ + 1] /\ lastBatch' = lastBatch
    BY <1>5 DEF StoreBatch
  <2>2. \A j \in Indexers : \A g \in Futures :
            /\ nextBatch[j][g] \in Nat
            /\ nextBatch'[j][g] = IF j = i /\ g = f THEN nextBatch[j][g] + 1
                                                  ELSE nextBatch[j][g]
    <3>1. \A j \in Indexers : \A g \in Futures : nextBatch[j][g] \in Nat
      BY DEF EventInv, NextBatches
    <3>2. nextBatch' = [j \in Indexers |-> IF j = i
              THEN [g \in Futures |-> IF g = f THEN nextBatch[i][f] + 1 ELSE nextBatch[i][g]]
              ELSE nextBatch[j]]
      BY <2>1 DEF EventInv, NextBatches
    <3> QED
      BY <3>1, <3>2
  <2>3. Batch(f, nextBatch[i][f]) \subseteq Table(f)'
    BY <1>5, SentIsStored DEF Current
  <2>4. BehindStored'
    <3>1. ASSUME NEW j \in Indexers, AtWork(j), NEW g \in Futures, NEW b \in Nat,
                 b < nextBatch'[j][g]
          PROVE  Batch(g, b) \subseteq Table(g)'
      <4>1. CASE b < nextBatch[j][g]
        BY <1>2, <3>1, <4>1 DEF BehindStored
      <4>2. CASE ~(b < nextBatch[j][g])
        <5>1. j = i /\ g = f /\ b = nextBatch[i][f]
          BY <2>2, <3>1, <4>2
        <5> QED
          BY <2>3, <5>1
      <4> QED
        BY <4>1, <4>2
    <3> QED
      BY <1>2, <1>5, <3>1 DEF BehindStored, AtWork
  <2>5. LastBatches'
    BY <1>2, <1>5, <2>1 DEF LastBatches, AtWork
  <2>6. NoneLeft'
    <3>1. ASSUME NEW j \in Indexers, pc[j] = "done", NEW g \in Futures
          PROVE  ~(nextBatch'[j][g] <= lastBatch[j][g])
      <4>1. ~(nextBatch[j][g] <= lastBatch[j][g])
        BY <3>1 DEF NoneLeft, EventsIdle, HasBatch
      <4>2. j = i => g # f
        BY <1>5, <4>1 DEF StoreBatch, HasBatch
      <4> QED
        BY <2>2, <4>1, <4>2
    <3> QED
      BY <1>5, <2>1, <3>1 DEF NoneLeft, EventsIdle, HasBatch
  <2> QED
    BY <1>1, <2>4, <2>5, <2>6
<1>6. ASSUME NEW i \in Indexers, Finish(i) PROVE HandlerInv'
  <2>1. pc[i] = "running" /\ pc' = [pc EXCEPT ![i] = "done"] /\ EventsIdle(i)
        /\ UNCHANGED <<nextBatch, lastBatch>>
    BY <1>6 DEF Finish, Running, eventVars
  <2>2. \A j \in Indexers : pc'[j] = IF j = i THEN "done" ELSE pc[j]
    BY <2>1 DEF LastBatches
  <2>3. \A j \in Indexers : AtWork(j)' => AtWork(j)
    BY <2>1, <2>2 DEF AtWork
  <2>4. BehindStored'
    BY <1>2, <2>1, <2>3 DEF BehindStored
  <2>5. LastBatches'
    BY <1>2, <2>1, <2>3 DEF LastBatches
  <2>6. NoneLeft'
    BY <2>1, <2>2 DEF NoneLeft, EventsIdle, HasBatch
  <2> QED
    BY <1>1, <2>4, <2>5, <2>6
<1>7. ASSUME NEW i \in Indexers, Lose(i) PROVE HandlerInv'
  <2>1. /\ pc' = [pc EXCEPT ![i] = "lost"] /\ nextBatch' = nextBatch
        /\ \E sent \in SUBSET {f \in Futures : HasBatch(i, f)} :
              lastBatch' = [lastBatch EXCEPT ![i] = [f \in Futures |->
                  IF f \in sent THEN nextBatch[i][f] ELSE nextBatch[i][f] - 1]]
    BY <1>7 DEF Lose, DropEvents
  <2>2. \A j \in Indexers : pc'[j] = IF j = i THEN "lost" ELSE pc[j]
    BY <2>1 DEF LastBatches
  <2>3. \A j \in Indexers : AtWork(j)' => AtWork(j) /\ j # i
    BY <2>1, <2>2 DEF AtWork
  <2>4. \A j \in Indexers : j # i => lastBatch'[j] = lastBatch[j]
    BY <2>1 DEF LastBatches
  <2>5. lastBatch' = [j \in Indexers |-> [f \in Futures |-> lastBatch'[j][f]]]
    <3>1. PICK sent \in SUBSET {f \in Futures : HasBatch(i, f)} :
              lastBatch' = [lastBatch EXCEPT ![i] = [f \in Futures |->
                  IF f \in sent THEN nextBatch[i][f] ELSE nextBatch[i][f] - 1]]
      BY <2>1
    <3>2. lastBatch' = [j \in Indexers |-> IF j = i THEN [f \in Futures |->
                  IF f \in sent THEN nextBatch[i][f] ELSE nextBatch[i][f] - 1]
                  ELSE lastBatch[j]]
      BY <3>1 DEF LastBatches
    <3> QED
      BY <3>2 DEF LastBatches
  <2>6. BehindStored'
    BY <1>2, <2>1, <2>3 DEF BehindStored
  <2>7. LastBatches'
    <3>1. pc' = [j \in Indexers |-> pc'[j]]
      BY <2>1 DEF LastBatches
    <3> QED
      BY <1>2, <2>3, <2>4, <2>5, <3>1 DEF LastBatches
  <2>8. NoneLeft'
    <3>1. \A j \in Indexers : pc'[j] = "done" => pc[j] = "done" /\ j # i
      BY <2>2
    <3> QED
      BY <2>1, <2>4, <3>1 DEF NoneLeft, EventsIdle, HasBatch
  <2> QED
    BY <1>1, <2>6, <2>7, <2>8
<1>8. \/ UNCHANGED <<pc, nextBatch, lastBatch>>
      \/ \E i \in Indexers : Start(i) \/ Finish(i) \/ Lose(i)
      \/ UNCHANGED pc /\ \E i \in Indexers, f \in Futures : StoreBatch(i, f)
  <2>1. ASSUME NEW i \in Indexers, StoreEvents(i)
        PROVE  \/ UNCHANGED <<pc, nextBatch, lastBatch>>
               \/ UNCHANGED pc /\ \E f \in Futures : StoreBatch(i, f)
    BY <2>1 DEF StoreEvents, AnswerLost
  <2> QED
    BY <2>1 DEF Next, StoreAccountChanges, GiveUp, Fail, AllEnded, eventVars, vars
<1> QED
  BY <1>3, <1>4, <1>5, <1>6, <1>7, <1>8

(* An indexer that reports the block as handled leaves every event of it in *)
(* the tables, once and in order, whoever else wrote the same block.        *)
THEOREM EventsStored == Spec => []EventsOfBlock
<1>1. Spec => []HandlerInv
  BY HandlerInit, HandlerSteps, PTL DEF Spec
<1>2. HandlerInv => EventsOfBlock
  <2> SUFFICES ASSUME HandlerInv, NEW i \in Indexers, pc[i] = "done", NEW f \in Futures
               PROVE  InOrder(f)
    BY DEF EventsOfBlock
  <2>1. AtWork(i) /\ nextBatch[i][f] \in Nat /\ EventInv
    BY DEF AtWork, HandlerInv, EventInv, NextBatches
  <2>2. ~(nextBatch[i][f] <= Batches(f))
    BY <2>1 DEF HandlerInv, NoneLeft, EventsIdle, HasBatch, LastBatches
  <2>3. Batches(f) \in Int
    <3>1. CASE composed[f] = <<>>
      BY <3>1 DEF Batches
    <3>2. CASE composed[f] # <<>>
      <4>1. Len(composed[f]) \in Nat
        BY ComposedLength, <2>1 DEF EventInv
      <4> QED
        BY <3>2, <4>1, EventConstants DEF Batches, BatchOf
    <3> QED
      BY <3>1, <3>2
  <2>4. \A b \in Nat : b <= Batches(f) => Batch(f, b) \subseteq Table(f)
    BY <2>1, <2>2, <2>3 DEF HandlerInv, BehindStored
  <2> QED
    BY <2>1, <2>4, AllBatchesInOrder
<1> QED
  BY <1>1, <1>2, PTL
-----------------------------------------------------------------------------
(* The account changes of the message by shard and position, and their     *)
(* rows.                                                                   *)
AllChanges == UNION {{s} \X AccountChangesOf(s) : s \in Shards}
RowOf(s, k) == ChangeRow(Changes(message, s)[k], k - 1)
RowsOf(s)  == {RowOf(s, k) : k \in AccountChangesOf(s)}

(* What the statement of a shard inserts; and what one change differs in   *)
(* from the others.                                                        *)
LEMMA ChangesApart ==
    ASSUME message \in DOMAIN Messages, NEW s \in Shards
    PROVE  /\ AccountChangesOf(s) \subseteq 1..Len(Changes(message, s))
           /\ Len(Changes(message, s)) \in Nat
           /\ DOMAIN ShardRows(s) = AccountChangesOf(s)
           /\ \A k \in AccountChangesOf(s) : ShardRows(s)[k] = RowOf(s, k)
           /\ \A t \in Shards : \A k \in AccountChangesOf(s), j \in AccountChangesOf(t) :
                 SameChange(RowOf(s, k), RowOf(t, j)) => s = t /\ k = j
<1>1. /\ Len(Changes(message, s)) \in Nat
      /\ DOMAIN Changes(message, s) = 1..Len(Changes(message, s))
  BY ChangesToldApart
<1>2. AccountChangesOf(s) \subseteq 1..Len(Changes(message, s))
  BY <1>1 DEF AccountChangesOf, AccountPositions
<1>3. /\ DOMAIN ShardRows(s) = AccountChangesOf(s)
      /\ \A k \in AccountChangesOf(s) : ShardRows(s)[k] = RowOf(s, k)
  BY <1>1, <1>2 DEF ShardRows, AccountChangesOf, RowOf, AccountPositions
<1>4. ASSUME NEW t \in Shards, NEW k \in AccountChangesOf(s), NEW j \in AccountChangesOf(t),
             SameChange(RowOf(s, k), RowOf(t, j))
      PROVE  s = t /\ k = j
  <2> DEFINE x == Changes(message, s)[k]
             y == Changes(message, t)[j]
  <2>1. NamesCause(x) /\ NamesCause(y)
    BY <1>4, ChangesToldApart DEF AccountChangesOf
  <2>2. SameCause(x, y) => s = t /\ k = j
    BY <1>4, ChangesToldApart DEF AccountChangesOf
  <2> HIDE DEF x, y
  <2>3. SameChange(ChangeRow(x, k - 1), ChangeRow(y, j - 1))
    BY <1>4 DEF RowOf, x, y
  <2>4. x.account = y.account /\ x.reason = y.reason /\ CausedBy(x) = CausedBy(y)
    <3>1. [ChangeRow(x, k - 1) EXCEPT !.index = 0] = [ChangeRow(y, j - 1) EXCEPT !.index = 0]
      BY <2>3 DEF SameChange
    <3>2. \A e, n : LET r == [ChangeRow(e, n) EXCEPT !.index = 0]
                    IN  r.account = e.account /\ r.reason = e.reason /\ r.causedBy = CausedBy(e)
      BY DEF ChangeRow
    <3> QED
      BY <3>1, <3>2
  <2>5. x.cause = y.cause
    <3>1. /\ CausedBy(x).transaction = CausedBy(y).transaction
          /\ CausedBy(x).receipt = CausedBy(y).receipt
      BY <2>4
    <3>2. "TransactionProcessing" \notin ReceiptCauses
      BY DEF ReceiptCauses
    <3> QED
      BY <2>1, <2>4, <3>1, <3>2 DEF CausedBy, NamesCause
  <2> QED
    BY <2>2, <2>4, <2>5 DEF SameCause
<1> QED
  BY <1>1, <1>2, <1>3, <1>4

(* The invariant: the table has rows of the message only, and all rows of   *)
(* the shards whose statement an indexer at work has sent.                 *)
ChangeInv ==
    /\ message \in DOMAIN Messages
    /\ pc = [i \in Indexers |-> pc[i]]
    /\ changeTask = [i \in Indexers |-> changeTask[i]]
    /\ changeRows \subseteq UNION {RowsOf(s) : s \in Shards}
    /\ StrictMode => \A i \in Indexers : AtWork(i) =>
          \A s \in Shards : s \notin changeTask[i] => RowsOf(s) \subseteq changeRows
    /\ \A i \in Indexers : pc[i] = "done" => changeTask[i] = {}

(* A statement leaves all rows of its shard in the table.                  *)
LEMMA AllRowsInserted ==
    ASSUME ChangeInv, NEW s \in Shards
    PROVE  InsertedChanges(changeRows, ShardRows(s)) = changeRows \cup RowsOf(s)
<1> USE DEF ChangeInv
<1>1. InsertedChanges(changeRows, ShardRows(s)) \subseteq changeRows \cup RowsOf(s)
  BY ChangesApart DEF InsertedChanges, RowsOf
<1>2. ASSUME NEW k \in AccountChangesOf(s), RowOf(s, k) \notin changeRows
      PROVE  RowOf(s, k) \in InsertedChanges(changeRows, ShardRows(s))
  <2>1. ASSUME NEW x \in changeRows PROVE ~SameChange(RowOf(s, k), x)
    <3>1. PICK t \in Shards : x \in RowsOf(t)
      BY <2>1
    <3>2. PICK j \in AccountChangesOf(t) : x = RowOf(t, j)
      BY <3>1 DEF RowsOf
    <3>3. SameChange(RowOf(s, k), RowOf(t, j)) => s = t /\ k = j
      BY ChangesApart
    <3> QED
      BY <1>2, <2>1, <3>2, <3>3
  <2>2. ASSUME NEW j \in DOMAIN ShardRows(s), j < k
        PROVE  ~SameChange(ShardRows(s)[k], ShardRows(s)[j])
    <3>1. j \in AccountChangesOf(s) /\ j # k
      BY <2>2, ChangesApart
    <3> QED
      BY <3>1, ChangesApart
  <2>3. k \in DOMAIN ShardRows(s) /\ ShardRows(s)[k] = RowOf(s, k)
    BY ChangesApart
  <2> QED
    BY <2>1, <2>2, <2>3 DEF InsertedChanges
<1>3. changeRows \subseteq InsertedChanges(changeRows, ShardRows(s))
  BY DEF InsertedChanges
<1> QED
  BY <1>1, <1>2, <1>3 DEF RowsOf

LEMMA ChangeInit == Init => ChangeInv
<1> SUFFICES ASSUME Init PROVE ChangeInv
  OBVIOUS
<1>1. \A i \in Indexers : ~AtWork(i) /\ pc[i] # "done"
  BY DEF Init, AtWork
<1> QED
  BY <1>1 DEF Init, EventsInit, ChangesInit, ChangeInv

LEMMA ChangeSteps == ChangeInv /\ [Next]_vars => ChangeInv'
<1> SUFFICES ASSUME ChangeInv, [Next]_vars PROVE ChangeInv'
  OBVIOUS
<1> USE DEF ChangeInv
<1>1. UNCHANGED message
  BY DEF Next, Start, StoreEvents, StoreAccountChanges, Finish, GiveUp, Fail, Lose,
         AllEnded, block, vars
<1>2. \A s \in Shards : AccountChangesOf(s)' = AccountChangesOf(s) /\ RowsOf(s)' = RowsOf(s)
  BY <1>1 DEF RowsOf, RowOf, AccountChangesOf
<1>3. CASE UNCHANGED <<pc, changeVars>>
  BY <1>1, <1>2, <1>3 DEF changeVars, AtWork
<1>4. ASSUME NEW i \in Indexers, Start(i) PROVE ChangeInv'
  <2>1. /\ pc' = [pc EXCEPT ![i] = "running"] /\ changeRows' = changeRows
        /\ StrictMode => changeTask' =
              [changeTask EXCEPT ![i] = {s \in Shards : Changes(message, s) # <<>>}]
        /\ ~StrictMode => changeTask' = changeTask
    BY <1>4 DEF Start, StartChanges
  <2>2. \A s \in Shards : Changes(message, s) = <<>> => RowsOf(s) = {}
    BY DEF RowsOf, AccountChangesOf, AccountPositions
  <2>3. \A j \in Indexers : pc'[j] = IF j = i THEN "running" ELSE pc[j]
    BY <2>1
  <2>4. pc' = [j \in Indexers |-> pc'[j]] /\ changeTask' = [j \in Indexers |-> changeTask'[j]]
    BY <2>1
  <2>5. \A j \in Indexers : j # i => changeTask'[j] = changeTask[j]
    BY <2>1
  <2>6. StrictMode => \A s \in Shards : s \notin changeTask'[i] => RowsOf(s) \subseteq changeRows
    BY <2>1, <2>2
  <2>7. StrictMode => \A j \in Indexers : AtWork(j)' =>
          \A s \in Shards : s \notin changeTask'[j] => RowsOf(s) \subseteq changeRows
    <3>1. \A j \in Indexers : j # i /\ AtWork(j)' => AtWork(j)
      BY <2>3 DEF AtWork
    <3> QED
      BY <2>5, <2>6, <3>1
  <2>8. \A j \in Indexers : pc'[j] = "done" => changeTask'[j] = {}
    BY <2>3, <2>5
  <2> QED
    BY <1>1, <1>2, <2>1, <2>4, <2>7, <2>8
<1>5. ASSUME NEW i \in Indexers, NEW t \in Shards, StoreChanges(i, t), UNCHANGED pc
      PROVE  ChangeInv'
  <2>1. /\ changeRows' = changeRows \cup RowsOf(t)
        /\ changeTask' = [changeTask EXCEPT ![i] = @ \ {t}]
        /\ t \in changeTask[i]
    BY <1>5, AllRowsInserted DEF StoreChanges
  <2>2. \A j \in Indexers : changeTask'[j] = IF j = i THEN changeTask[i] \ {t} ELSE changeTask[j]
    BY <2>1
  <2>3. changeTask' = [j \in Indexers |-> changeTask'[j]]
    BY <2>1
  <2>4. ASSUME StrictMode, NEW j \in Indexers, AtWork(j), NEW s \in Shards, s \notin changeTask'[j]
        PROVE  RowsOf(s) \subseteq changeRows'
    <3>1. s = t \/ s \notin changeTask[j]
      BY <2>2, <2>4
    <3> QED
      BY <2>1, <2>4, <3>1
  <2> QED
    BY <1>1, <1>2, <1>5, <2>1, <2>2, <2>3, <2>4 DEF AtWork
<1>6. ASSUME NEW i \in Indexers, Finish(i) PROVE ChangeInv'
  <2>1. /\ pc[i] = "running" /\ pc' = [pc EXCEPT ![i] = "done"]
        /\ changeTask[i] = {} /\ UNCHANGED <<changeRows, changeTask>>
    BY <1>6 DEF Finish, Running, ChangesIdle, changeVars
  <2>2. \A j \in Indexers : pc'[j] = IF j = i THEN "done" ELSE pc[j]
    BY <2>1
  <2>3. \A j \in Indexers : AtWork(j)' => AtWork(j)
    BY <2>1, <2>2 DEF AtWork
  <2>4. pc' = [j \in Indexers |-> pc'[j]]
    BY <2>1
  <2>5. \A j \in Indexers : pc'[j] = "done" => changeTask'[j] = {}
    BY <2>1, <2>2
  <2> QED
    BY <1>1, <1>2, <2>1, <2>3, <2>4, <2>5
<1>7. ASSUME NEW i \in Indexers, Lose(i) PROVE ChangeInv'
  <2>1. /\ pc' = [pc EXCEPT ![i] = "lost"] /\ changeRows' = changeRows
        /\ \E sent : changeTask' = [changeTask EXCEPT ![i] = sent]
    BY <1>7 DEF Lose, DropChanges
  <2>2. \A j \in Indexers : pc'[j] = IF j = i THEN "lost" ELSE pc[j]
    BY <2>1
  <2>3. \A j \in Indexers : j # i => changeTask'[j] = changeTask[j]
    BY <2>1
  <2>4. pc' = [j \in Indexers |-> pc'[j]] /\ changeTask' = [j \in Indexers |-> changeTask'[j]]
    BY <2>1
  <2>5. \A j \in Indexers : AtWork(j)' => j # i /\ AtWork(j)
    BY <2>2 DEF AtWork
  <2>6. \A j \in Indexers : pc'[j] = "done" => changeTask'[j] = {}
    BY <2>2, <2>3
  <2> QED
    BY <1>1, <1>2, <2>1, <2>3, <2>4, <2>5, <2>6
<1>8. \/ UNCHANGED <<pc, changeVars>>
      \/ \E i \in Indexers : Start(i) \/ Finish(i) \/ Lose(i)
      \/ UNCHANGED pc /\ \E i \in Indexers, s \in Shards : StoreChanges(i, s)
  BY DEF Next, StoreEvents, StoreAccountChanges, GiveUp, Fail, AllEnded, vars
<1> QED
  BY <1>3, <1>4, <1>5, <1>6, <1>7, <1>8

(* An indexer that reports the block as handled leaves every change of an  *)
(* account in the table, none twice, whoever else wrote the same block.    *)
THEOREM ChangesStored == Spec => []ChangesOfBlock
<1>1. Spec => []ChangeInv
  BY ChangeInit, ChangeSteps, PTL DEF Spec
<1>2. ChangeInv => ChangesOfBlock
  <2> SUFFICES ASSUME ChangeInv, StrictMode, NEW i \in Indexers, pc[i] = "done"
               PROVE  /\ Cardinality(changeRows) = Cardinality(AllChanges)
                      /\ \A s \in Shards : \A k \in AccountChangesOf(s) : \E r \in changeRows :
                            /\ r.index = k - 1
                            /\ r.account = Changes(message, s)[k].account
                            /\ r.reason = Changes(message, s)[k].reason
    BY DEF ChangesOfBlock, AllChanges
  <2> USE DEF ChangeInv
  <2>1. \A s \in Shards : RowsOf(s) \subseteq changeRows
    BY DEF AtWork
  <2>2. ASSUME NEW s \in Shards, NEW k \in AccountChangesOf(s)
        PROVE  \E r \in changeRows : /\ r.index = k - 1
                                     /\ r.account = Changes(message, s)[k].account
                                     /\ r.reason = Changes(message, s)[k].reason
    <3>1. RowOf(s, k) \in changeRows
      BY <2>1 DEF RowsOf
    <3> QED
      BY <3>1 DEF RowOf, ChangeRow
  <2> DEFINE row == [p \in AllChanges |-> RowOf(p[1], p[2])]
  <2>3. \A p \in AllChanges :
            p = <<p[1], p[2]>> /\ p[1] \in Shards /\ p[2] \in AccountChangesOf(p[1])
    BY DEF AllChanges
  <2>4. \A s \in Shards : \A k \in AccountChangesOf(s) : <<s, k>> \in AllChanges
    BY DEF AllChanges
  <2>5. row \in [AllChanges -> changeRows]
    BY <2>1, <2>3 DEF RowsOf
  <2>6. ASSUME NEW p \in AllChanges, NEW q \in AllChanges, row[p] = row[q] PROVE p = q
    <3>1. RowOf(p[1], p[2]) = RowOf(q[1], q[2])
      BY <2>6
    <3>2. SameChange(RowOf(p[1], p[2]), RowOf(q[1], q[2]))
      BY <3>1 DEF SameChange
    <3>3. p[1] = q[1] /\ p[2] = q[2]
      BY <2>3, <3>2, ChangesApart
    <3>4. p = <<p[1], p[2]>> /\ q = <<q[1], q[2]>>
      BY <2>3
    <3> QED
      BY <3>3, <3>4, Zenon
  <2>7. ASSUME NEW r \in changeRows PROVE \E p \in AllChanges : row[p] = r
    <3>1. PICK s \in Shards : r \in RowsOf(s)
      BY <2>7
    <3>2. PICK k \in AccountChangesOf(s) : r = RowOf(s, k)
      BY <3>1 DEF RowsOf
    <3>3. <<s, k>> \in AllChanges
      BY <2>4
    <3>4. row[<<s, k>>] = RowOf(s, k)
      BY <3>3
    <3> QED
      BY <3>2, <3>3, <3>4
  <2>8. IsFiniteSet(AllChanges)
    <3>1. ASSUME NEW s \in Shards PROVE IsFiniteSet({s} \X AccountChangesOf(s))
      <4>1. /\ AccountChangesOf(s) \subseteq 1..Len(Changes(message, s))
            /\ Len(Changes(message, s)) \in Nat
        BY ChangesApart
      <4>2. IsFiniteSet(1..Len(Changes(message, s)))
        <5> DEFINE n == Len(Changes(message, s))
        <5> HIDE DEF n
        <5>1. n \in Int /\ 1 \in Int
          BY <4>1 DEF n
        <5>2. IsFiniteSet(1..n)
          BY <5>1, FS_Interval
        <5> QED
          BY <5>2 DEF n
      <4>3. IsFiniteSet(AccountChangesOf(s)) /\ IsFiniteSet({s})
        BY <4>1, <4>2, FS_Subset, FS_Singleton
      <4> DEFINE A == {s}
                 B == AccountChangesOf(s)
      <4> HIDE DEF A, B
      <4>4. IsFiniteSet(A) /\ IsFiniteSet(B)
        BY <4>3 DEF A, B
      <4>5. IsFiniteSet(A \X B)
        BY <4>4, FS_Product
      <4> QED
        BY <4>5 DEF A, B
    <3> DEFINE parts == {{s} \X AccountChangesOf(s) : s \in Shards}
               part == [s \in Shards |-> {s} \X AccountChangesOf(s)]
    <3>2. IsFiniteSet(parts)
      <4>1. part \in Surjection(Shards, parts)
        BY DEF Surjection
      <4> QED
        BY <4>1, ChangesToldApart, FS_Surjection
    <3>3. \A T \in parts : IsFiniteSet(T)
      BY <3>1
    <3> HIDE DEF parts
    <3>4. IsFiniteSet(UNION parts)
      BY <3>2, <3>3, FS_UNION
    <3> QED
      BY <3>4 DEF AllChanges, parts
  <2>9. Cardinality(changeRows) = Cardinality(AllChanges)
    <3> HIDE DEF row
    <3>1. row \in Bijection(AllChanges, changeRows)
      BY <2>5, <2>6, <2>7 DEF Bijection, Injection, Surjection, IsInjective
    <3>2. ExistsBijection(AllChanges, changeRows)
      BY <3>1 DEF ExistsBijection
    <3> QED
      BY <2>8, <3>2, FS_Bijection
  <2> QED
    BY <2>2, <2>9
<1> QED
  BY <1>1, <1>2, PTL
=============================================================================
