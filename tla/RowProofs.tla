------------------------------ MODULE RowProofs ------------------------------
(***************************************************************************)
(* What the tables say once all blocks are handled, one block at a time,   *)
(* for every chain and genesis, whatever fails and is handled again.       *)
(* The argument is about one row. A row is of the genesis or was written   *)
(* by a block (WrittenIn); as long as the blocks 1..h are done, no block   *)
(* between that one and h has anything to say of it (IsLast); so it says   *)
(* of the account or key what the chain says at h, since the blocks in     *)
(* between change nothing. While a block runs, each statement it has sent  *)
(* has done its part (Handled), so that when all are sent the block has    *)
(* the last word.                                                          *)
(***************************************************************************)
EXTENDS TablesProofs

(* Progress of the blocks, one at a time.                                  *)
Done(p, h) == \A x \in 1..h : p[x] = "done"

(* One block runs at most, the last one started. Without faults every      *)
(* block before it is done. Only a block that runs, or was given up, has   *)
(* statements left to send.                                                *)
OneAtATime ==
    \A h \in Blocks :
        /\ Running(h) => h = next - 1
        /\ h >= next => pc[h] = "idle"
        /\ h < next /\ faults = 0 => pc[h] \in {"running", "done"}
        /\ accountTask[h] # NoAccountTask \/ keyTask[h] # NoKeyTask =>
              pc[h] \in {"running", "lost"}

(* There are no blocks before the genesis is in the tables.                *)
GenesisFirst == chain # <<>> => AllAccounts /\ AllKeys
-----------------------------------------------------------------------------
(* Accounts.                                                               *)

(* A row is of the genesis, or a block wrote it.                           *)
WrittenIn(c, a, row) ==
    \/ a \in Genesis /\ row = GenesisRow
    \/ /\ row.height \in 1..Len(c)
       /\ ModelsIn(c, row.height)[a] # NoRow
       /\ row.deleted = ModelsIn(c, row.height)[a].deleted

(* Block y has nothing to say of a row that an earlier block wrote.        *)
Quiet(c, a, row, y) ==
    \/ ModelsIn(c, y)[a] = NoRow
    \/ KeepsRow(a, ModelsIn(c, y)[a], row)

(* A row is the last word of the blocks 1..h: if the account exists there  *)
(* is a row, and no block after that of the row has anything to say.       *)
IsLast(c, a, row, h) ==
    /\ WorldIn(c, h).accounts[a] # NoRow => row # NoRow
    /\ row # NoRow => \A y \in 1..h : row.height < y => Quiet(c, a, row, y)

(* The statements of block h that have been executed have left the row in  *)
(* the state of the block or a later one.                                  *)
Handled(c, a, row, h, t) ==
    /\ a \in CreateIn(c, h) /\ ~t.insert => row # NoRow
    /\ a \in CreateIn(c, h) /\ a \notin t.update =>
          row # NoRow /\ (row.height >= h \/ KeepsRow(a, ModelsIn(c, h)[a], row))
    /\ a \in DeleteIn(c, h) /\ a \notin t.delete =>
          row = NoRow \/ row.height >= h

(* A row says what the chain says at its height.                           *)
Exact(c, a, row) == row # NoRow => Says(row, WorldIn(c, row.height).accounts[a])

(* Block g brings the account into being.                                  *)
CreatesAt(c, g, a) == g \in 1..Len(c) /\ CreatesIn(WorldIn(c, g - 1), c[g], Len(c[g]), a)

(* Some block transfers to the account and deletes it as well.             *)
Amid(c, a) ==
    \E h \in 1..Len(c) : Acts(c[h], Len(c[h]), a, "Transfer")
                         /\ Acts(c[h], Len(c[h]), a, "DeleteAccount")

(* The creator of an account brought it into being.                        *)
Creator(c, a, row) ==
    row # NoRow /\ row.created # NoReceipt => CreatesAt(c, row.created[1], a)

(* The invariant of one account. The last word is that of the blocks       *)
(* before the first one that is not done; what the running block has sent  *)
(* is handled if it is the first.                                          *)
AccountInv(a) ==
    /\ accountRows[a] # NoRow => WrittenIn(chain, a, accountRows[a])
    /\ chain # <<>> => \A h \in 0..Len(chain) :
          Done(pc, h) => IsLast(chain, a, accountRows[a], h)
    /\ \A h \in 1..Len(chain) :
          Running(h) /\ Done(pc, h - 1) => Handled(chain, a, accountRows[a], h, accountTask[h])
    /\ faults = 0 /\ a \notin Implicit => Exact(chain, a, accountRows[a])
    /\ faults = 0 /\ a \in Implicit /\ ~Amid(chain, a) => Creator(chain, a, accountRows[a])
-----------------------------------------------------------------------------
(* Access keys.                                                            *)

(* A row is of the genesis, or a block wrote it: for what it tells of the  *)
(* key, or for what it tells of the owner.                                 *)
KeyWrittenIn(c, k, row) ==
    \/ k \in GenesisKeys /\ row = GenesisRow
    \/ /\ row.height \in 1..Len(c)
       /\ \/ /\ KeysIn(c, row.height).keys[k] # NoRow
             /\ row.deleted = KeysIn(c, row.height).keys[k].deleted
          \/ /\ KeysIn(c, row.height).owners[k[2]] # NoReceipt
             /\ row.deleted = KeysIn(c, row.height).owners[k[2]]

(* Block y has nothing to say of a row that an earlier block wrote.        *)
KeyQuiet(c, k, row, y) ==
    /\ KeysIn(c, y).keys[k] = NoRow
    /\ KeysIn(c, y).owners[k[2]] # NoReceipt => ~Alive(row)

(* The blocks tell the state of the key: its account has a name, and no    *)
(* block deletes the account and touches a key of it.                      *)
Told(c, k) == k[2] \notin Hex /\ \A h \in 1..Len(c) : ~Disturbs(c[h], k[2])

(* A row is the last word of the blocks 1..h.                              *)
IsLastKey(c, k, row, h) ==
    /\ Told(c, k) => (WorldIn(c, h).keys[k] # NoRow => row # NoRow)
    /\ row # NoRow => \A y \in 1..h : row.height < y => KeyQuiet(c, k, row, y)

(* The statements of block h that have been executed have left the row in  *)
(* the state of the block or a later one.                                  *)
KeyHandled(c, k, row, h, t) ==
    /\ k \in AddIn(c, h) /\ ~t.insert => row # NoRow
    /\ k \in AddIn(c, h) /\ k \notin t.add => row # NoRow /\ row.height >= h
    /\ k \in EndIn(c, h) /\ k \notin t.update => row = NoRow \/ row.height >= h
    /\ k[2] \in OwnersIn(c, h) /\ k[2] \notin t.owners =>
          row = NoRow \/ row.height >= h \/ ~Alive(row)

(* A row says what the chain says at its height.                           *)
KeyExact(c, k, row) == row # NoRow => Says(row, WorldIn(c, row.height).keys[k])

(* The invariant of one key.                                               *)
KeyInv(k) ==
    /\ keyRows[k] # NoRow => KeyWrittenIn(chain, k, keyRows[k])
    /\ chain # <<>> => \A h \in 0..Len(chain) :
          Done(pc, h) => IsLastKey(chain, k, keyRows[k], h)
    /\ \A h \in 1..Len(chain) :
          Running(h) /\ Done(pc, h - 1) => KeyHandled(chain, k, keyRows[k], h, keyTask[h])
    /\ faults = 0 /\ Told(chain, k) => KeyExact(chain, k, keyRows[k])

(* For all accounts, and for all keys.                                     *)
AccountsInv == \A a \in Accounts : AccountInv(a)
KeysInv == \A k \in AccessKeys : KeyInv(k)
-----------------------------------------------------------------------------
(* With one block at a time nothing runs when a block starts.              *)
LEMMA NoneRuns ==
    ASSUME Concurrency = 1, NEW h, Start(h)
    PROVE  \A x \in Blocks : ~Running(x)
<1> DEFINE R == {x \in Blocks : Running(x)}
<1>1. IsFiniteSet(R)
  <2>1. IsFiniteSet(Blocks)
    BY FS_Interval, StateConstants DEF Blocks
  <2> QED
    BY <2>1, FS_Subset
<1>2. Cardinality(R) < 1 /\ Cardinality(R) \in Nat
  BY <1>1, FS_CardinalityType DEF Start
<1>3. Cardinality(R) = 0
  BY <1>2
<1>4. R = {}
  BY <1>1, <1>3, FS_EmptySet
<1> QED
  BY <1>4

(* Every step leaves the order of the blocks as it is.                     *)
LEMMA OneAtATimeStep ==
    ASSUME Concurrency = 1, Base, OneAtATime, [Next]_vars
    PROVE  OneAtATime'
<1>1. /\ \A x \in Blocks : x \in Nat /\ x > 0
      /\ next \in Nat /\ faults \in Nat
      /\ accountTask = [x \in Blocks |-> accountTask[x]]
      /\ keyTask = [x \in Blocks |-> keyTask[x]]
      /\ pc = [x \in Blocks |-> pc[x]]
  <2>1. Len(chain) \in Nat
    BY ChainFacts DEF Base, Sound
  <2> QED
    BY <2>1, StateConstants, TablesConstants DEF Blocks, Base, Sound, TasksFit, Positions
<1>2. CASE UNCHANGED <<accountTask, keyTask, next, pc, faults>>
  BY <1>2 DEF OneAtATime, Running
<1>3. ASSUME NEW h \in Blocks, Start(h)
      PROVE  OneAtATime'
  <2>1. /\ \A x \in Blocks : pc'[x] = IF x = h THEN "running" ELSE pc[x]
        /\ \A x \in Blocks : x # h => accountTask'[x] = accountTask[x] /\ keyTask'[x] = keyTask[x]
        /\ h = next /\ next' = next + 1 /\ faults' = faults
    BY <1>1, <1>3 DEF Start
  <2>2. \A x \in Blocks : pc[x] # "running"
    BY <1>3, NoneRuns DEF Running
  <2> QED
    BY <1>1, <2>1, <2>2 DEF OneAtATime, Running
<1>4. ASSUME NEW h \in Blocks, StoreAccounts(h)
      PROVE  OneAtATime'
  <2>1. /\ accountTask[h] # NoAccountTask
        /\ accountTask' = [accountTask EXCEPT ![h] = accountTask'[h]]
    BY <1>4, AccountStatementWrites DEF StoreAccounts, Base
  <2>2. UNCHANGED <<keyTask, next, pc, faults>>
    BY <1>4 DEF StoreAccounts
  <2>3. \A x \in Blocks : x # h => accountTask'[x] = accountTask[x]
    BY <1>1, <2>1
  <2> QED
    BY <2>1, <2>2, <2>3 DEF OneAtATime, Running
<1>5. ASSUME NEW h \in Blocks, StoreKeys(h)
      PROVE  OneAtATime'
  <2>1. keyTask[h] # NoKeyTask /\ keyTask' = [keyTask EXCEPT ![h] = keyTask'[h]]
    BY <1>5, KeyStatementWrites DEF StoreKeys, Base
  <2>2. UNCHANGED <<accountTask, next, pc, faults>>
    BY <1>5 DEF StoreKeys
  <2>3. \A x \in Blocks : x # h => keyTask'[x] = keyTask[x]
    BY <1>1, <2>1
  <2> QED
    BY <2>1, <2>2, <2>3 DEF OneAtATime, Running
<1>6. ASSUME NEW h \in Blocks, Finish(h)
      PROVE  OneAtATime'
  <2>1. /\ \A x \in Blocks : pc'[x] = IF x = h THEN "done" ELSE pc[x]
        /\ pc[h] = "running" /\ accountTask[h] = NoAccountTask /\ keyTask[h] = NoKeyTask
        /\ UNCHANGED <<accountTask, keyTask, next, faults>>
    BY <1>1, <1>6 DEF Finish, Running
  <2> QED
    BY <1>1, <2>1 DEF OneAtATime, Running
<1>7. ASSUME NEW h \in Blocks, Fail(h)
      PROVE  OneAtATime'
  <2>1. /\ \A x \in Blocks : pc'[x] = IF x = h THEN "lost" ELSE pc[x]
        /\ pc[h] = "running" /\ next' = next /\ faults' = faults + 1
        /\ \A x \in Blocks : x # h => accountTask'[x] = accountTask[x] /\ keyTask'[x] = keyTask[x]
    BY <1>1, <1>7 DEF Fail, Running
  <2> QED
    BY <1>1, <2>1 DEF OneAtATime, Running
<1>8. ASSUME NEW h \in Blocks, Restart(h)
      PROVE  OneAtATime'
  <2>1. /\ h \in Nat /\ h <= next /\ next' = h
        /\ \A x \in Blocks : /\ pc'[x] = IF x >= h THEN "idle"
                                         ELSE IF pc[x] = "done" THEN "done" ELSE "lost"
                             /\ accountTask'[x] = NoAccountTask /\ keyTask'[x] = NoKeyTask
        /\ faults' = IF LeavesBehind(h) THEN faults + 1 ELSE faults
    BY <1>1, <1>8 DEF Restart
  <2>2. ASSUME NEW x \in Blocks, x < next', faults' = 0
        PROVE  pc'[x] = "done"
    <3>1. ~LeavesBehind(h) /\ faults = 0 /\ x \in 1..(h - 1)
      BY <1>1, <2>1, <2>2
    <3>2. pc[x] # "running" /\ x < next
      BY <1>1, <2>1, <3>1 DEF LeavesBehind, Running
    <3> QED
      BY <1>1, <2>1, <2>2, <3>1, <3>2 DEF OneAtATime, Running
  <2>3. ASSUME NEW x \in Blocks
        PROVE  pc'[x] # "running" /\ (x >= next' => pc'[x] = "idle")
    BY <2>1
  <2> QED
    BY <2>1, <2>2, <2>3 DEF OneAtATime, Running
<1>9. StoreGenesis \/ NewBlock \/ StreamEnds \/ UNCHANGED vars =>
         UNCHANGED <<accountTask, keyTask, next, pc, faults>>
  BY DEF StoreGenesis, NewBlock, StreamEnds, vars
<1> QED
  BY <1>2, <1>3, <1>4, <1>5, <1>6, <1>7, <1>8, <1>9 DEF Next

(* Rows of the genesis stay.                                               *)
LEMMA GenesisFirstStep ==
    ASSUME TablesOfRows, GenesisProgress, GenesisFirst, [Next]_vars
    PROVE  GenesisFirst'
<1>1. /\ AllAccounts => AllAccounts'
      /\ AllKeys => AllKeys'
  <2>1. Genesis \subseteq Accounts /\ GenesisKeys \subseteq AccessKeys
    BY StateConstants DEF AccessKeys
  <2> QED
    BY <2>1, StoredStays DEF AllAccounts, AllKeys
<1>2. NewBlock => AllAccounts /\ AllKeys
  BY DEF NewBlock, GenesisProgress
<1>3. ~NewBlock => chain' = chain
  BY DEF Next, StoreGenesis, Start, StoreAccounts, StoreKeys, Finish, Fail, Restart,
         StreamEnds, vars
<1> QED
  BY <1>1, <1>2, <1>3 DEF GenesisFirst
-----------------------------------------------------------------------------
(* What a block tells of an account.                                       *)
LEMMA AccountTold ==
    ASSUME NEW c, LegalChain(c), NEW h \in 1..Len(c), NEW a \in Accounts
    PROVE  /\ Tells(WorldIn(c, h - 1).accounts[a], WorldIn(c, h).accounts[a],
                    ModelsIn(c, h)[a], a)
           /\ ModelsIn(c, h)[a] \in Entries
           /\ h \in 0..Len(c) /\ h - 1 \in 0..Len(c) /\ h \in Nat
BY BlockOfChain, ChainFacts

(* The row of the last block that wrote to it.                             *)
LEMMA WrittenAsChain ==
    ASSUME NEW c, LegalChain(c), NEW a \in Accounts, NEW row \in Rows, WrittenIn(c, a, row)
    PROVE  /\ row.height \in 0..Len(c)
           /\ Alive(row) <=> Alive(WorldIn(c, row.height).accounts[a])
<1>1. row # NoRow
  BY NoRowIsNoRow
<1>2. CASE a \in Genesis /\ row = GenesisRow
  <2>1. row.height = 0 /\ row.deleted = NoReceipt /\ 0 \in 0..Len(c)
    BY <1>2, ChainFacts DEF GenesisRow
  <2>2. WorldIn(c, 0).accounts[a] = Fresh(NoReceipt)
    BY <1>2, ChainFacts DEF GenesisWorld
  <2>3. Alive(WorldIn(c, 0).accounts[a])
    BY <2>2, EntryFacts DEF ReceiptIds
  <2> QED
    BY <1>1, <2>1, <2>3 DEF Alive
<1>3. CASE /\ row.height \in 1..Len(c)
           /\ ModelsIn(c, row.height)[a] # NoRow
           /\ row.deleted = ModelsIn(c, row.height)[a].deleted
  <2>1. Tells(WorldIn(c, row.height - 1).accounts[a], WorldIn(c, row.height).accounts[a],
              ModelsIn(c, row.height)[a], a)
    BY <1>3, AccountTold
  <2>2. row.height \in 0..Len(c)
    BY <1>3, AccountTold
  <2> QED
    BY <1>1, <1>3, <2>1, <2>2 DEF Tells, Alive
<1> QED
  BY <1>2, <1>3 DEF WrittenIn

(* With the last block that wrote to a row, the row says whether the       *)
(* account lives.                                                          *)
LEMMA AliveAsChain ==
    ASSUME NEW c, LegalChain(c), NEW a \in Accounts, NEW row \in Rows \cup {NoRow},
           NEW h \in 0..Len(c), IsLast(c, a, row, h),
           row # NoRow => WrittenIn(c, a, row) /\ row.height <= h
    PROVE  Alive(row) <=> Alive(WorldIn(c, h).accounts[a])
<1>1. CASE row = NoRow
  BY <1>1, EntryFacts DEF IsLast
<1>2. CASE row # NoRow
  <2> DEFINE x == row.height
             S == {y \in 0..h : Alive(row) <=> Alive(WorldIn(c, y).accounts[a])}
  <2>1. /\ x \in 0..Len(c) /\ WrittenIn(c, a, row) /\ row \in Rows /\ x <= h
        /\ Alive(row) <=> Alive(WorldIn(c, x).accounts[a])
    BY <1>2, WrittenAsChain
  <2>2. Len(c) \in Nat /\ h \in Nat /\ x \in Nat
    BY <2>1, ChainFacts
  <2>3. x \in S
    BY <2>1, <2>2
  <2>4. ASSUME NEW y \in (x + 1)..h, y - 1 \in S
        PROVE  y \in S
    <3>1. y \in 1..Len(c) /\ y \in 1..h /\ x < y /\ y \in 0..h
      BY <2>1, <2>2
    <3>2. Tells(WorldIn(c, y - 1).accounts[a], WorldIn(c, y).accounts[a], ModelsIn(c, y)[a], a)
      BY <3>1, AccountTold
    <3>3. Quiet(c, a, row, y)
      BY <1>2, <3>1 DEF IsLast
    <3>4. Alive(row) <=> Alive(WorldIn(c, y).accounts[a])
      BY <2>4, <3>2, <3>3 DEF Quiet, KeepsRow, Tells, Alive
    <3> QED
      BY <3>1, <3>4
  <2> HIDE DEF S
  <2>5. h \in S
    BY <2>1, <2>2, <2>3, <2>4, UpTo
  <2> QED
    BY <2>5 DEF S
<1> QED
  BY <1>1, <1>2

(* A row that is exact stays so until a block says more of the account.    *)
LEMMA ExactAsChain ==
    ASSUME NEW c, LegalChain(c), NEW a \in Accounts \ Implicit, NEW row \in Rows \cup {NoRow},
           NEW h \in 0..Len(c), IsLast(c, a, row, h), Exact(c, a, row),
           row # NoRow => row.height <= h
    PROVE  Says(row, WorldIn(c, h).accounts[a])
<1>1. CASE row = NoRow
  BY <1>1 DEF IsLast, Says
<1>2. CASE row # NoRow
  <2> DEFINE x == row.height
             S == {y \in 0..h : Says(row, WorldIn(c, y).accounts[a])}
  <2>1. x \in Nat /\ Len(c) \in Nat /\ h \in Nat /\ x <= h
    BY <1>2, ChainFacts DEF Rows
  <2>2. x \in S
    BY <1>2, <2>1 DEF Exact
  <2>3. ASSUME NEW y \in (x + 1)..h, y - 1 \in S
        PROVE  y \in S
    <3>1. y \in 1..Len(c) /\ y \in 1..h /\ x < y /\ y \in 0..h
      BY <2>1
    <3>2. Tells(WorldIn(c, y - 1).accounts[a], WorldIn(c, y).accounts[a], ModelsIn(c, y)[a], a)
      BY <3>1, AccountTold
    <3>3. Quiet(c, a, row, y)
      BY <1>2, <3>1 DEF IsLast
    <3>4. WorldIn(c, y).accounts[a] = WorldIn(c, y - 1).accounts[a]
      BY <3>2, <3>3 DEF Quiet, KeepsRow, Tells
    <3>5. Says(row, WorldIn(c, y - 1).accounts[a])
      BY <2>3
    <3>6. Says(row, WorldIn(c, y).accounts[a])
      BY <3>4, <3>5 DEF Says
    <3> QED
      BY <3>1, <3>6 DEF Says
  <2> HIDE DEF S, x
  <2>4. \A y \in x..h : y \in S
    BY <2>1, <2>2, <2>3, UpTo
  <2>5. h \in S
    BY <2>1, <2>4
  <2> QED
    BY <2>5 DEF S
<1> QED
  BY <1>1, <1>2
-----------------------------------------------------------------------------
(* What is written of an account.                                          *)
LEMMA WrittenFacts ==
    ASSUME NEW c, LegalChain(c), NEW a \in Accounts, NEW row \in Rows \cup {NoRow},
           NEW g \in 1..Len(c), NEW new, WrittenBy(c, g, a, row, new)
    PROVE  /\ new \in Rows /\ new # NoRow /\ new.height = g
           /\ WrittenIn(c, a, new)
           /\ \A h \in 0..Len(c) : h < g => IsLast(c, a, new, h)
<1>1. new \in Rows /\ new.height = g
  BY WrittenRows
<1>2. new # NoRow
  BY <1>1, NoRowIsNoRow
<1>3. WrittenIn(c, a, new)
  <2>1. ModelsIn(c, g)[a] # NoRow /\ new.deleted = ModelsIn(c, g)[a].deleted
    BY DEF WrittenBy, Holds
  <2> QED
    BY <1>1, <2>1 DEF WrittenIn
<1>4. ASSUME NEW h \in 0..Len(c), h < g
      PROVE  IsLast(c, a, new, h)
  <2>1. g \in Nat /\ Len(c) \in Nat
    BY ChainFacts
  <2>2. \A y \in 1..h : ~(new.height < y)
    BY <1>1, <1>4, <2>1
  <2> QED
    BY <1>2, <2>2 DEF IsLast
<1> QED
  BY <1>1, <1>2, <1>3, <1>4

(* A row that is written says what the chain says, if the one before did.  *)
LEMMA ExactWritten ==
    ASSUME NEW c, LegalChain(c), NEW a \in Accounts \ Implicit, NEW row \in Rows \cup {NoRow},
           NEW g \in 1..Len(c), NEW new, WrittenBy(c, g, a, row, new),
           IsLast(c, a, row, g - 1), Exact(c, a, row)
    PROVE  Exact(c, a, new)
<1> DEFINE m == ModelsIn(c, g)[a]
           w == WorldIn(c, g).accounts[a]
           v == WorldIn(c, g - 1).accounts[a]
<1>1. new.height = g /\ g \in Nat /\ g - 1 \in 0..Len(c) /\ Tells(v, w, m, a) /\ m # NoRow
  BY WrittenFacts, AccountTold DEF WrittenBy
<1>2. CASE m.created # NoReceipt
  <2>1. new.created = m.created /\ new.deleted = m.deleted
    BY <1>2 DEF WrittenBy, Holds
  <2>2. Says(new, w)
    BY <1>1, <1>2, <2>1, WrittenFacts DEF Tells, Says
  <2> QED
    BY <1>1, <2>2 DEF Exact
<1>3. CASE m.created = NoReceipt
  <2>1. row # NoRow /\ row.height < g /\ new.created = row.created /\ new.deleted = m.deleted
    BY <1>3 DEF WrittenBy, Holds
  <2>2. row.height <= g - 1
    BY <1>1, <2>1, ChainFacts DEF Rows
  <2>3. Says(row, v)
    BY <1>1, <2>2, ExactAsChain
  <2>4. Alive(v) /\ w.created = v.created /\ w # NoRow /\ w.deleted = m.deleted
    BY <1>1, <1>3 DEF Tells
  <2>5. Says(new, w)
    BY <2>1, <2>3, <2>4, WrittenFacts DEF Says, Alive
  <2> QED
    BY <1>1, <2>5 DEF Exact
<1> QED
  BY <1>2, <1>3

(* The creator of an implicit account.                                     *)
LEMMA CreatorWritten ==
    ASSUME NEW c, LegalChain(c), NEW a \in Implicit, ~Amid(c, a),
           NEW row \in Rows \cup {NoRow},
           NEW g \in 1..Len(c), NEW new, WrittenBy(c, g, a, row, new),
           IsLast(c, a, row, g - 1), row # NoRow => WrittenIn(c, a, row),
           Creator(c, a, row)
    PROVE  Creator(c, a, new)
<1> DEFINE m == ModelsIn(c, g)[a]
           v == WorldIn(c, g - 1).accounts[a]
<1>1. /\ a \in Accounts /\ g \in Nat /\ g - 1 \in 0..Len(c) /\ m # NoRow /\ m \in Entries
      /\ Stems(WorldIn(c, g - 1), c[g], Len(c[g]), a) /\ m = Gathered(c[g], Len(c[g]))[a]
  BY StateConstants, AccountTold, BlockOfChain, ChainFacts DEF WrittenBy
<1>2. CASE m.created = NoReceipt
  <2>1. row # NoRow /\ new.created = row.created
    BY <1>2 DEF WrittenBy, Holds
  <2> QED
    BY <2>1 DEF Creator
<1>3. CASE m.created # NoReceipt
  <2>1. new.created = m.created /\ (row = NoRow \/ (row.height < g /\ ~KeepsRow(a, m, row)))
    BY <1>3 DEF WrittenBy, Holds
  <2>2. PICK j \in 1..Len(c[g]) : m.created = c[g][j].receipt
    BY <1>1, <1>3 DEF Stems
  <2>3. m.created[1] = g
    BY <2>2 DEF LegalChain
  <2>4. CASE m.deleted # NoReceipt
    <3>1. CreatesIn(WorldIn(c, g - 1), c[g], Len(c[g]), a)
      BY <1>1, <1>3, <2>4 DEF Stems, Amid
    <3> QED
      BY <2>1, <2>3, <3>1 DEF Creator, CreatesAt
  <2>5. CASE m.deleted = NoReceipt
    <3>1. ~Alive(row)
      BY <2>1, <2>5, EntryFacts DEF KeepsRow
    <3>2. row # NoRow => row.height <= g - 1
      BY <1>1, <2>1, ChainFacts DEF Rows
    <3>3. ~Alive(v)
      BY <1>1, <3>1, <3>2, AliveAsChain
    <3>4. CreatesIn(WorldIn(c, g - 1), c[g], Len(c[g]), a)
      BY <1>1, <3>3 DEF Stems
    <3> QED
      BY <2>1, <2>3, <3>4 DEF Creator, CreatesAt
  <2> QED
    BY <2>4, <2>5
<1> QED
  BY <1>2, <1>3
-----------------------------------------------------------------------------
(* A block whose statements all have been executed is the last in force.   *)
LEMMA HandledLast ==
    ASSUME NEW c, LegalChain(c), NEW a \in Accounts, NEW row \in Rows \cup {NoRow},
           NEW h \in 1..Len(c), IsLast(c, a, row, h - 1),
           Handled(c, a, row, h, NoAccountTask)
    PROVE  IsLast(c, a, row, h)
<1> DEFINE m == ModelsIn(c, h)[a]
           w == WorldIn(c, h).accounts[a]
           v == WorldIn(c, h - 1).accounts[a]
<1>1. Tells(v, w, m, a) /\ h \in Nat
  BY AccountTold
<1>2. /\ a \in CreateIn(c, h) => row # NoRow /\ (row.height >= h \/ KeepsRow(a, m, row))
      /\ a \in DeleteIn(c, h) => row = NoRow \/ row.height >= h
  BY DEF Handled, NoAccountTask
<1>3. v # NoRow => row # NoRow
  BY DEF IsLast
<1>4. w # NoRow => row # NoRow
  BY <1>1, <1>2, <1>3 DEF Tells, CreateIn, Alive
<1>5. ASSUME row # NoRow, NEW y \in 1..h, row.height < y
      PROVE  Quiet(c, a, row, y)
  <2>1. CASE y = h
    <3>1. ~(row.height >= h)
      BY <1>1, <1>5, <2>1 DEF Rows
    <3> QED
      BY <1>2, <1>5, <2>1, <3>1 DEF Quiet, CreateIn, DeleteIn
  <2>2. CASE y # h
    <3>1. y \in 1..(h - 1)
      BY <1>1, <2>2
    <3> QED
      BY <1>5, <3>1 DEF IsLast
  <2> QED
    BY <2>1, <2>2
<1> QED
  BY <1>4, <1>5 DEF IsLast
-----------------------------------------------------------------------------
(* A later block undoes nothing of this.                                   *)
LEMMA HandledStays ==
    ASSUME NEW c, NEW a, NEW h, NEW t, NEW row, Handled(c, a, row, h, t),
           NEW new, new # NoRow /\ new.height >= h
    PROVE  Handled(c, a, new, h, t)
BY DEF Handled

(* A statement that is sent has been handled.                              *)
LEMMA StatementHandles ==
    ASSUME Base, NEW b \in Blocks, AccountStep(b), NEW a \in Accounts,
           Handled(chain, a, accountRows[a], b, accountTask[b])
    PROVE  Handled(chain, a, accountRows'[a], b, accountTask'[b])
<1> DEFINE c == chain
           t == accountTask[b]
           row == accountRows[a]
           new == accountRows'[a]
<1>1. /\ b \in 1..Len(c) /\ b \in Nat /\ Len(c) \in Nat
      /\ accountTask = [x \in Blocks |-> accountTask[x]]
      /\ accountRows \in [Accounts -> Rows \cup {NoRow}]
      /\ AccountTaskFits(c, b, t)
  BY AccountStatementWrites, ChainFacts, StateConstants
     DEF Base, Sound, TasksFit, RowsFit, Blocks
<1>2. t \in AccountTasks /\ t.delete \subseteq DeleteIn(c, b) /\ t.update \subseteq CreateIn(c, b)
  BY <1>1 DEF AccountTaskFits
<1>3. /\ a \in CreateIn(c, b) => a \notin DeleteIn(c, b)
      /\ ToCreate(b) = CreateIn(c, b)
      /\ AccountRow(b, a) # NoRow /\ AccountRow(b, a).height = b
  <2>1. "height" \in DOMAIN AccountRow(b, a)
    BY DEF AccountRow
  <2> QED
    BY <2>1, SetsOfTasks, StateConstants DEF CreateIn, DeleteIn, AccountRow
<1>4. row = NoRow \/ row.height \in Nat
  BY <1>1, StateConstants DEF Rows
<1>5. CASE InsertAccounts(b)
  <2>1. new = IF a \in CreateIn(c, b) /\ row = NoRow THEN AccountRow(b, a) ELSE row
    BY <1>3, <1>5 DEF InsertAccounts
  <2>2. accountTask'[b] = [t EXCEPT !.insert = FALSE]
    BY <1>1, <1>5 DEF InsertAccounts
  <2>3. accountTask'[b].update = t.update /\ accountTask'[b].delete = t.delete
    BY <1>2, <2>2 DEF AccountTasks
  <2> QED
    BY <1>1, <1>3, <2>1, <2>3 DEF Handled
<1>6. ASSUME NEW d \in Accounts, DeleteAccount(b, d)
      PROVE  Handled(c, a, new, b, accountTask'[b])
  <2>1. accountTask'[b] = [t EXCEPT !.delete = t.delete \ {d}]
    BY <1>1, <1>6 DEF DeleteAccount
  <2>2. /\ accountTask'[b].update = t.update /\ accountTask'[b].insert = t.insert
        /\ accountTask'[b].delete = t.delete \ {d}
    BY <1>2, <2>1 DEF AccountTasks
  <2>3. d \in DeleteIn(c, b)
    BY <1>2, <1>6 DEF DeleteAccount
  <2>4. CASE d # a
    <3>1. new = row
      BY <1>1, <1>6, <2>4 DEF DeleteAccount
    <3> QED
      BY <2>2, <2>4, <3>1 DEF Handled
  <2>5. CASE d = a
    <3>1. CASE Older(row, b)
      <4>1. accountRows' = [accountRows EXCEPT ![a] =
                [row EXCEPT !.deleted = AccountModels(b)[a].deleted, !.height = b]]
        BY <1>6, <2>5, <3>1 DEF DeleteAccount
      <4>2. row \in Rows
        BY <1>1, <3>1 DEF Older
      <4>3. new = [created |-> row.created, deleted |-> AccountModels(b)[a].deleted, height |-> b]
        BY <1>1, <4>1, <4>2, RowFacts
      <4>4. new.height >= b
        BY <1>1, <4>3
      <4> QED
        BY <1>3, <2>3, <2>5, <4>4 DEF Handled
    <3>2. CASE ~Older(row, b)
      <4>1. new = row
        BY <1>6, <2>5, <3>2 DEF DeleteAccount
      <4>2. row = NoRow \/ row.height >= b
        BY <1>1, <1>4, <3>2 DEF Older
      <4> QED
        BY <1>3, <2>3, <2>5, <4>1, <4>2 DEF Handled
    <3> QED
      BY <3>1, <3>2
  <2> QED
    BY <2>4, <2>5
<1>7. ASSUME NEW d \in Accounts, UpdateAccount(b, d)
      PROVE  Handled(c, a, new, b, accountTask'[b])
  <2>1. accountTask'[b] = [t EXCEPT !.update = t.update \ {d}]
    BY <1>1, <1>7 DEF UpdateAccount
  <2>2. /\ accountTask'[b].delete = t.delete /\ accountTask'[b].insert = t.insert
        /\ accountTask'[b].update = t.update \ {d}
    BY <1>2, <2>1 DEF AccountTasks
  <2>3. d \in CreateIn(c, b) /\ ~t.insert
    BY <1>2, <1>7 DEF UpdateAccount
  <2>4. CASE d # a
    <3>1. new = row
      BY <1>1, <1>7, <2>4 DEF UpdateAccount
    <3> QED
      BY <2>2, <2>4, <3>1 DEF Handled
  <2>5. CASE d = a
    <3>1. row # NoRow
      BY <2>3, <2>5 DEF Handled
    <3>2. CASE Older(row, b) /\ ~KeepsCreator(b, a)
      <4>1. new = AccountRow(b, a)
        BY <1>1, <1>7, <2>5, <3>2 DEF UpdateAccount
      <4> QED
        BY <1>1, <1>3, <2>3, <2>5, <4>1 DEF Handled
    <3>3. CASE ~(Older(row, b) /\ ~KeepsCreator(b, a))
      <4>1. new = row
        BY <1>7, <2>5, <3>3 DEF UpdateAccount
      <4>2. row.height >= b \/ KeepsRow(a, ModelsIn(c, b)[a], row)
        BY <1>1, <1>4, <3>1, <3>3, InChain DEF Older, KeepsCreator, KeepsRow
      <4> QED
        BY <1>3, <2>3, <2>5, <3>1, <4>1, <4>2 DEF Handled
    <3> QED
      BY <3>2, <3>3
  <2> QED
    BY <2>4, <2>5
<1> QED
  BY <1>5, <1>6, <1>7 DEF AccountStep
-----------------------------------------------------------------------------
(* Without faults the blocks before the one that runs are all done.        *)
LEMMA DoneBefore ==
    ASSUME Base, OneAtATime, NEW g \in 1..Len(chain),
           accountTask[g] # NoAccountTask \/ keyTask[g] # NoKeyTask
    PROVE  /\ \A h \in 0..Len(chain) : Done(pc, h) => h < g
           /\ faults = 0 => Done(pc, g - 1)
           /\ chain # <<>>
<1>1. /\ Len(chain) \in Nat /\ g \in Nat /\ \A x \in 1..Len(chain) : x \in Blocks /\ x \in Nat
      /\ chain \in Seq(ActionLists) /\ next \in Nat
  BY ChainFacts, StateConstants DEF Base, Sound, Positions, LegalChain, Blocks
<1>2. pc[g] \in {"running", "lost"}
  BY <1>1 DEF OneAtATime
<1>3. ASSUME NEW h \in 0..Len(chain), Done(pc, h)
      PROVE  h < g
  <2>1. g \notin 1..h
    BY <1>2, <1>3 DEF Done
  <2> QED
    BY <1>1, <2>1
<1>4. ASSUME faults = 0
      PROVE  Done(pc, g - 1)
  <2>1. g < next
    BY <1>1, <1>2 DEF OneAtATime
  <2>2. pc[g] = "running"
    BY <1>1, <1>2, <1>4, <2>1 DEF OneAtATime
  <2>3. g = next - 1
    BY <1>1, <2>2 DEF OneAtATime, Running
  <2>4. ASSUME NEW x \in 1..(g - 1)
        PROVE  pc[x] = "done"
    <3>1. x \in Blocks /\ x < next /\ x # next - 1
      BY <1>1, <2>3
    <3> QED
      BY <1>4, <3>1 DEF OneAtATime, Running
  <2> QED
    BY <2>4 DEF Done
<1>5. chain # <<>>
  BY <1>1
<1> QED
  BY <1>3, <1>4, <1>5

(* A row that a block writes.                                              *)
LEMMA WrittenInv ==
    ASSUME Base, OneAtATime, NEW a \in Accounts, AccountInv(a),
           NEW g \in 1..Len(chain), accountTask[g] # NoAccountTask, NEW new,
           WrittenBy(chain, g, a, accountRows[a], new)
    PROVE  /\ WrittenIn(chain, a, new)
           /\ \A h \in 0..Len(chain) : Done(pc, h) => IsLast(chain, a, new, h)
           /\ faults = 0 /\ a \notin Implicit => Exact(chain, a, new)
           /\ faults = 0 /\ a \in Implicit /\ ~Amid(chain, a) => Creator(chain, a, new)
           /\ new # NoRow /\ new.height = g
<1> DEFINE row == accountRows[a]
<1>1. LegalChain(chain) /\ row \in Rows \cup {NoRow} /\ g - 1 \in 0..Len(chain)
  BY AccountTold DEF Base, Sound, RowsFit
<1>2. /\ WrittenIn(chain, a, new) /\ new # NoRow /\ new.height = g
      /\ \A h \in 0..Len(chain) : h < g => IsLast(chain, a, new, h)
  BY <1>1, WrittenFacts
<1>3. /\ \A h \in 0..Len(chain) : Done(pc, h) => h < g
      /\ faults = 0 => Done(pc, g - 1)
      /\ chain # <<>>
  BY DoneBefore
<1>4. /\ row # NoRow => WrittenIn(chain, a, row)
      /\ faults = 0 => IsLast(chain, a, row, g - 1)
      /\ faults = 0 /\ a \notin Implicit => Exact(chain, a, row)
      /\ faults = 0 /\ a \in Implicit /\ ~Amid(chain, a) => Creator(chain, a, row)
  BY <1>1, <1>3 DEF AccountInv
<1>5. faults = 0 /\ a \notin Implicit => Exact(chain, a, new)
  BY <1>1, <1>4, ExactWritten
<1>6. faults = 0 /\ a \in Implicit /\ ~Amid(chain, a) => Creator(chain, a, new)
  BY <1>1, <1>4, CreatorWritten
<1> QED
  BY <1>2, <1>3, <1>5, <1>6

(* One statement of handle_accounts.                                       *)
LEMMA StoreAccountsInv ==
    ASSUME Base, OneAtATime, NEW a \in Accounts, AccountInv(a),
           NEW b \in Blocks, StoreAccounts(b)
    PROVE  AccountInv(a)'
<1> DEFINE row == accountRows[a]
           new == accountRows'[a]
<1>1. AccountStep(b) /\ UNCHANGED <<chain, pc, faults>>
  BY DEF StoreAccounts
<1>2. /\ b \in 1..Len(chain) /\ accountTask[b] # NoAccountTask
      /\ new = row \/ WrittenBy(chain, b, a, row, new)
      /\ accountTask' = [accountTask EXCEPT ![b] = accountTask'[b]]
  BY <1>1, AccountStatementWrites DEF Base
<1>3. /\ Len(chain) \in Nat /\ \A h \in 1..Len(chain) : h \in Blocks
      /\ \A h \in Blocks : h # b => accountTask'[h] = accountTask[h]
  BY <1>2, ChainFacts DEF Base, Sound, TasksFit
<1>4. ASSUME NEW h \in 1..Len(chain), Running(h), Done(pc, h - 1)
      PROVE  Handled(chain, a, new, h, accountTask'[h])
  <2>1. Handled(chain, a, row, h, accountTask[h])
    BY <1>4 DEF AccountInv
  <2>2. CASE h = b
    BY <1>1, <2>1, <2>2, StatementHandles
  <2>3. CASE h # b /\ new = row
    BY <1>3, <2>1, <2>3
  <2>4. CASE h # b /\ WrittenBy(chain, b, a, row, new)
    <3>1. new # NoRow /\ new.height = b
      BY <1>2, <2>4, WrittenInv
    <3>2. h - 1 < b
      <4>1. h - 1 \in 0..Len(chain)
        BY <1>3
      <4> QED
        BY <1>2, <1>4, <4>1, DoneBefore
    <3>3. new.height >= h
      BY <1>2, <1>3, <3>1, <3>2
    <3> QED
      BY <1>3, <2>1, <2>4, <3>1, <3>3, HandledStays
  <2> QED
    BY <1>2, <2>2, <2>3, <2>4
<1>5. CASE new = row
  BY <1>1, <1>4, <1>5 DEF AccountInv, Running
<1>6. CASE WrittenBy(chain, b, a, row, new)
  <2>1. /\ WrittenIn(chain, a, new)
        /\ \A h \in 0..Len(chain) : Done(pc, h) => IsLast(chain, a, new, h)
        /\ faults = 0 /\ a \notin Implicit => Exact(chain, a, new)
        /\ faults = 0 /\ a \in Implicit /\ ~Amid(chain, a) => Creator(chain, a, new)
    BY <1>2, <1>6, WrittenInv
  <2> QED
    BY <1>1, <1>4, <2>1 DEF AccountInv, Running
<1> QED
  BY <1>2, <1>5, <1>6
-----------------------------------------------------------------------------
(* Steps that leave the rows of the accounts as they are.                  *)
LEMMA QuietStepInv ==
    ASSUME NEW a \in Accounts, AccountInv(a), Base,
           UNCHANGED <<chain, accountRows>>, faults' = 0 => faults = 0,
           \A x \in Blocks : pc'[x] = "done" => pc[x] = "done",
           \A x \in Blocks : pc'[x] = "running" =>
               pc[x] = "running" /\ accountTask'[x] = accountTask[x]
    PROVE  AccountInv(a)'
<1>1. Len(chain) \in Nat /\ \A x \in 1..Len(chain) : x \in Blocks
  BY ChainFacts DEF Base, Sound
<1>2. ASSUME NEW h \in 0..Len(chain), Done(pc', h)
      PROVE  Done(pc, h)
  <2>1. \A x \in 1..h : x \in 1..Len(chain)
    BY <1>1
  <2> QED
    BY <1>1, <1>2, <2>1 DEF Done
<1>3. \A h \in 1..Len(chain) : h - 1 \in 0..Len(chain)
  BY <1>1
<1>4. \A h \in 1..Len(chain) : Running(h)' /\ Done(pc', h - 1) =>
         Running(h) /\ Done(pc, h - 1) /\ accountTask'[h] = accountTask[h]
  BY <1>1, <1>2, <1>3 DEF Running
<1> QED
  BY <1>2, <1>4 DEF AccountInv

(* A block starts: all its statements are left to send.                    *)
LEMMA StartInv ==
    ASSUME NEW a \in Accounts, AccountInv(a), Base, NEW b \in Blocks, Start(b)
    PROVE  AccountInv(a)'
<1>1. /\ Len(chain) \in Nat /\ b \in 1..Len(chain)
      /\ \A x \in 1..Len(chain) : x \in Blocks /\ x \in Nat
  BY ChainFacts, StateConstants DEF Base, Sound, Start, Blocks
<1>2. /\ UNCHANGED <<chain, accountRows, faults>>
      /\ \A x \in Blocks : pc'[x] = IF x = b THEN "running" ELSE pc[x]
      /\ \A x \in Blocks : x # b => accountTask'[x] = accountTask[x]
      /\ accountTask'[b] = AccountTask(b)
  BY DEF Start, tables, Base, Sound, TasksFit, Positions
<1>3. ASSUME NEW h \in 0..Len(chain), Done(pc', h)
      PROVE  Done(pc, h)
  <2>1. \A x \in 1..h : x \in 1..Len(chain)
    BY <1>1
  <2> QED
    BY <1>1, <1>2, <1>3, <2>1 DEF Done
<1>4. Handled(chain, a, accountRows[a], b, AccountTask(b))
  <2>1. AccountTask(b).delete = DeleteIn(chain, b) /\ AccountTask(b).update = CreateIn(chain, b)
    BY SetsOfTasks DEF AccountTask
  <2>2. ToCreate(b) # {} => AccountTask(b).insert
    BY DEF AccountTask
  <2>3. a \in CreateIn(chain, b) => AccountTask(b).insert
    BY <2>2, SetsOfTasks
  <2> QED
    BY <2>1, <2>3 DEF Handled
<1>5. ASSUME NEW h \in 1..Len(chain), pc'[h] = "running", Done(pc', h - 1)
      PROVE  Handled(chain, a, accountRows[a], h, accountTask'[h])
  <2>1. h - 1 \in 0..Len(chain) /\ h \in Blocks
    BY <1>1
  <2> QED
    BY <1>2, <1>3, <1>4, <1>5, <2>1 DEF AccountInv, Running
<1> QED
  BY <1>2, <1>3, <1>5 DEF AccountInv, Running

(* A block is done: nothing is left to send, so it has the last word.      *)
LEMMA FinishInv ==
    ASSUME NEW a \in Accounts, AccountInv(a), Base, OneAtATime, NEW b \in Blocks, Finish(b)
    PROVE  AccountInv(a)'
<1>1. /\ Len(chain) \in Nat /\ next \in Nat /\ LegalChain(chain)
      /\ \A x \in 1..Len(chain) : x \in Blocks /\ x \in Nat
      /\ accountRows[a] \in Rows \cup {NoRow}
  BY ChainFacts, StateConstants DEF Base, Sound, Positions, RowsFit, Blocks
<1>2. /\ UNCHANGED <<chain, accountRows, accountTask, faults>>
      /\ \A x \in Blocks : pc'[x] = IF x = b THEN "done" ELSE pc[x]
      /\ pc[b] = "running" /\ b = next - 1 /\ accountTask[b] = NoAccountTask
  BY DEF Finish, Running, tables, Base, Positions, OneAtATime
<1>3. ASSUME NEW h \in 0..Len(chain), Done(pc', h), chain # <<>>
      PROVE  IsLast(chain, a, accountRows[a], h)
  <2>1. /\ \A x \in 1..h : x \in 1..Len(chain)
        /\ b \in Nat /\ h \in Nat /\ b > 0
    BY <1>1, StateConstants DEF Blocks
  <2>2. CASE h < b
    <3>1. Done(pc, h)
      BY <1>1, <1>2, <1>3, <2>1, <2>2 DEF Done
    <3> QED
      BY <1>3, <3>1 DEF AccountInv
  <2>3. CASE h = b
    <3>1. Done(pc, h - 1)
      BY <1>1, <1>2, <1>3, <2>1, <2>3 DEF Done
    <3>2. h \in 1..Len(chain) /\ h - 1 \in 0..Len(chain)
      BY <1>1, <2>1, <2>3
    <3>3. IsLast(chain, a, accountRows[a], h - 1)
      BY <1>3, <3>1, <3>2 DEF AccountInv
    <3>4. Handled(chain, a, accountRows[a], h, NoAccountTask)
      BY <1>2, <2>3, <3>1, <3>2 DEF AccountInv, Running
    <3> QED
      BY <1>1, <3>2, <3>3, <3>4, HandledLast
  <2>4. CASE h > b
    <3>1. h \in 1..h /\ h \in Blocks /\ h >= next
      BY <1>1, <1>2, <2>1, <2>4
    <3>2. pc[h] = "done"
      BY <1>2, <1>3, <2>4, <3>1 DEF Done
    <3> QED
      BY <3>1, <3>2 DEF OneAtATime
  <2> QED
    BY <2>1, <2>2, <2>3, <2>4
<1>4. ASSUME NEW h \in 1..Len(chain), pc'[h] = "running", Done(pc', h - 1)
      PROVE  Handled(chain, a, accountRows[a], h, accountTask[h])
  <2>1. h \in Blocks /\ h # b /\ pc[h] = "running"
    BY <1>1, <1>2, <1>4
  <2>2. h = next - 1
    BY <2>1 DEF OneAtATime, Running
  <2> QED
    BY <1>2, <2>1, <2>2
<1> QED
  BY <1>2, <1>3, <1>4 DEF AccountInv, Running

(* A new block says nothing of the blocks before it.                       *)
LEMMA GrowsSays ==
    ASSUME NEW c, LegalChain(c), NEW d, Grows(c, d), NEW a, NEW row
    PROVE  /\ WrittenIn(c, a, row) => WrittenIn(d, a, row)
           /\ \A h \in 0..Len(c) : IsLast(c, a, row, h) => IsLast(d, a, row, h)
           /\ \A h \in 1..Len(c) : \A t : Handled(c, a, row, h, t) => Handled(d, a, row, h, t)
           /\ (row # NoRow => row.height \in 0..Len(c)) /\ Exact(c, a, row) => Exact(d, a, row)
           /\ Amid(c, a) => Amid(d, a)
           /\ Creator(c, a, row) => Creator(d, a, row)
<1>1. /\ Len(c) \in Nat /\ Len(d) = Len(c) + 1
      /\ \A h \in 1..Len(c) : h \in 1..Len(d) /\ d[h] = c[h] /\ ModelsIn(d, h) = ModelsIn(c, h)
      /\ \A h \in 0..Len(c) : WorldIn(d, h) = WorldIn(c, h)
  BY ChainFacts DEF Grows, ModelsIn
<1>2. \A h \in 1..Len(c) : h - 1 \in 0..Len(c)
  BY <1>1
<1>3. WrittenIn(c, a, row) => WrittenIn(d, a, row)
  BY <1>1 DEF WrittenIn
<1>4. ASSUME NEW h \in 0..Len(c), IsLast(c, a, row, h)
      PROVE  IsLast(d, a, row, h)
  <2>1. \A y \in 1..h : y \in 1..Len(c)
    BY <1>1
  <2> QED
    BY <1>1, <1>4, <2>1 DEF IsLast, Quiet
<1>5. ASSUME NEW h \in 1..Len(c), NEW t, Handled(c, a, row, h, t)
      PROVE  Handled(d, a, row, h, t)
  BY <1>1, <1>5 DEF Handled, CreateIn, DeleteIn
<1>6. (row # NoRow => row.height \in 0..Len(c)) /\ Exact(c, a, row) => Exact(d, a, row)
  BY <1>1 DEF Exact
<1>7. Amid(c, a) => Amid(d, a)
  BY <1>1 DEF Amid
<1>8. Creator(c, a, row) => Creator(d, a, row)
  BY <1>1, <1>2 DEF Creator, CreatesAt
<1> QED
  BY <1>3, <1>4, <1>5, <1>6, <1>7, <1>8

(* A block is produced.                                                    *)
LEMMA NewBlockInv ==
    ASSUME NEW a \in Accounts, AccountInv(a), Base, OneAtATime, GenesisFirst', NewBlock
    PROVE  AccountInv(a)'
<1> DEFINE c == chain
           d == chain'
           row == accountRows[a]
           N == Len(chain)
<1>1. /\ LegalChain(c) /\ LegalChain(d) /\ Grows(c, d) /\ N \in Nat /\ Len(d) = N + 1
      /\ next = N + 1 /\ UNCHANGED <<accountRows, accountTask, pc, faults>>
      /\ N + 1 \in Blocks /\ row \in Rows \cup {NoRow}
  <2>1. LegalChain(c) /\ row \in Rows \cup {NoRow}
    BY DEF Base, Sound, RowsFit
  <2>2. LegalChain(d) /\ Grows(c, d)
    BY <2>1, ProduceGrows DEF NewBlock
  <2>3. N \in Nat /\ Len(d) = N + 1
    BY <2>1, <2>2, ChainFacts DEF Grows
  <2>4. N + 1 \in 1..Len(d)
    BY <2>3
  <2>5. N + 1 \in Blocks
    BY <2>2, <2>4, ChainFacts
  <2> QED
    BY <2>1, <2>2, <2>3, <2>5 DEF NewBlock, tables
<1>2. pc[N + 1] = "idle"
  BY <1>1 DEF OneAtATime
<1>3. row # NoRow => WrittenIn(d, a, row)
  BY <1>1, GrowsSays DEF AccountInv
<1>4. ASSUME NEW h \in 0..Len(d), Done(pc, h)
      PROVE  IsLast(d, a, row, h)
  <2>1. h \in 0..N
    <3>1. h # N + 1
      <4>1. h = N + 1 => N + 1 \in 1..h
        BY <1>1
      <4> QED
        BY <1>2, <1>4, <4>1 DEF Done
    <3> QED
      BY <1>1, <3>1
  <2>2. CASE c # <<>>
    <3>1. IsLast(c, a, row, h)
      BY <1>4, <2>1, <2>2 DEF AccountInv
    <3> QED
      BY <1>1, <2>1, <3>1, GrowsSays
  <2>3. CASE c = <<>>
    <3>1. h = 0
      BY <2>1, <2>3
    <3>2. d # <<>>
      BY <1>1
    <3>3. a \in Genesis => row # NoRow
      BY <1>1, <3>2 DEF GenesisFirst, AllAccounts, AccountStored
    <3>4. WorldIn(d, 0).accounts[a] # NoRow => a \in Genesis
      BY <1>1, ChainFacts DEF GenesisWorld
    <3> QED
      BY <3>1, <3>3, <3>4 DEF IsLast
  <2> QED
    BY <2>2, <2>3
<1>5. ASSUME NEW h \in 1..Len(d), pc[h] = "running", Done(pc, h - 1)
      PROVE  Handled(d, a, row, h, accountTask[h])
  <2>1. h \in 1..N
    BY <1>1, <1>2, <1>5
  <2>2. Handled(c, a, row, h, accountTask[h])
    BY <1>5, <2>1 DEF AccountInv, Running
  <2> QED
    BY <1>1, <2>1, <2>2, GrowsSays
<1>6. ASSUME faults = 0, a \notin Implicit
      PROVE  Exact(d, a, row)
  <2>1. Exact(c, a, row) /\ (row # NoRow => WrittenIn(c, a, row))
    BY <1>6 DEF AccountInv
  <2>2. row # NoRow => row.height \in 0..N
    BY <1>1, <2>1, WrittenAsChain
  <2> QED
    BY <1>1, <2>1, <2>2, GrowsSays
<1>7. ASSUME faults = 0, a \in Implicit, ~Amid(d, a)
      PROVE  Creator(d, a, row)
  <2>1. ~Amid(c, a)
    BY <1>1, <1>7, GrowsSays
  <2>2. Creator(c, a, row)
    BY <1>7, <2>1 DEF AccountInv
  <2> QED
    BY <1>1, <2>2, GrowsSays
<1> QED
  BY <1>1, <1>3, <1>4, <1>5, <1>6, <1>7 DEF AccountInv, Running

(* A row of the genesis is written, before there is a block.               *)
LEMMA StoreGenesisInv ==
    ASSUME NEW a \in Accounts, AccountInv(a), Base, GenesisFirst, StoreGenesis
    PROVE  AccountInv(a)'
<1>1. /\ UNCHANGED <<chain, accountTask, pc, faults>>
      /\ \/ accountRows'[a] = accountRows[a]
         \/ a \in Genesis /\ accountRows[a] = NoRow /\ accountRows'[a] = GenesisRow
      /\ LegalChain(chain)
  BY GenesisRowsStep DEF StoreGenesis, Base, Sound
<1>2. CASE accountRows'[a] = accountRows[a]
  BY <1>1, <1>2 DEF AccountInv, Running
<1>3. CASE a \in Genesis /\ accountRows[a] = NoRow /\ accountRows'[a] = GenesisRow
  <2>1. chain = <<>> /\ Len(chain) = 0
    BY <1>3 DEF GenesisFirst, AllAccounts, AccountStored
  <2>2. WrittenIn(chain, a, GenesisRow)
    BY <1>3 DEF WrittenIn
  <2>3. Exact(chain, a, GenesisRow)
    <3>1. GenesisRow.height = 0 /\ GenesisRow.created = NoReceipt /\ GenesisRow.deleted = NoReceipt
      BY DEF GenesisRow
    <3>2. WorldIn(chain, 0).accounts[a] = Fresh(NoReceipt)
      BY <1>1, <1>3, ChainFacts DEF GenesisWorld
    <3> QED
      BY <3>1, <3>2, EntryFacts DEF Exact, Says, ReceiptIds
  <2>4. Creator(chain, a, GenesisRow)
    BY DEF Creator, GenesisRow
  <2> QED
    BY <1>1, <1>3, <2>1, <2>2, <2>3, <2>4 DEF AccountInv
<1> QED
  BY <1>1, <1>2, <1>3

(* Every step.                                                             *)
LEMMA AccountStepInv ==
    ASSUME NEW a \in Accounts, AccountInv(a), Base, OneAtATime, GenesisFirst, GenesisFirst',
           [Next]_vars
    PROVE  AccountInv(a)'
<1>1. faults \in Nat /\ pc = [x \in Blocks |-> pc[x]]
  BY TablesConstants DEF Base, Positions
<1>2. StoreGenesis => AccountInv(a)'
  BY StoreGenesisInv
<1>3. NewBlock => AccountInv(a)'
  BY NewBlockInv
<1>4. ASSUME NEW b \in Blocks, Start(b) \/ StoreAccounts(b) \/ Finish(b)
      PROVE  AccountInv(a)'
  BY <1>4, StartInv, StoreAccountsInv, FinishInv
<1>5. ASSUME NEW b \in Blocks, StoreKeys(b)
      PROVE  AccountInv(a)'
  <2>1. UNCHANGED <<chain, accountRows, accountTask, pc, faults>>
    BY <1>5 DEF StoreKeys
  <2> QED
    BY <2>1, QuietStepInv
<1>6. ASSUME NEW b \in Blocks, Fail(b)
      PROVE  AccountInv(a)'
  <2>1. /\ UNCHANGED <<chain, accountRows>> /\ faults' # 0
        /\ \A x \in Blocks : pc'[x] = IF x = b THEN "lost" ELSE pc[x]
        /\ \A x \in Blocks : x # b => accountTask'[x] = accountTask[x]
    BY <1>1, <1>6 DEF Fail, tables, Base, Sound, TasksFit
  <2> QED
    BY <2>1, QuietStepInv
<1>7. ASSUME NEW b \in Blocks, Restart(b)
      PROVE  AccountInv(a)'
  <2>1. /\ UNCHANGED <<chain, accountRows>> /\ (faults' = 0 => faults = 0)
        /\ \A x \in Blocks : pc'[x] = IF x >= b THEN "idle"
                                      ELSE IF pc[x] = "done" THEN "done" ELSE "lost"
    BY <1>1, <1>7 DEF Restart, tables
  <2>2. \A x \in Blocks : pc'[x] # "running" /\ (pc'[x] = "done" => pc[x] = "done")
    BY <2>1
  <2> QED
    BY <2>1, <2>2, QuietStepInv
<1>8. ASSUME StreamEnds \/ UNCHANGED vars
      PROVE  AccountInv(a)'
  <2>1. UNCHANGED <<chain, accountRows, accountTask, pc, faults>>
    BY <1>8 DEF StreamEnds, vars, tables
  <2> QED
    BY <2>1, QuietStepInv
<1> QED
  BY <1>2, <1>3, <1>4, <1>5, <1>6, <1>7, <1>8 DEF Next
-----------------------------------------------------------------------------
(* One block at a time: the default of --concurrency.                      *)
OneBlock == Concurrency = 1

(* Blocks are handled in order, after the genesis.                         *)
LEMMA ProgressInvariant ==
    OneBlock => (Spec => [](TablesOfRows /\ GenesisProgress /\ Base /\ OneAtATime /\ GenesisFirst))
<1> SUFFICES ASSUME OneBlock
             PROVE  Spec => [](TablesOfRows /\ GenesisProgress /\ Base /\ OneAtATime
                               /\ GenesisFirst)
  OBVIOUS
<1>1. Init => OneAtATime /\ GenesisFirst
  <2>1. Init => OneAtATime
    <3> SUFFICES ASSUME Init, NEW h \in Blocks
                 PROVE  /\ pc[h] = "idle" /\ next = 1 /\ h \in Nat /\ h >= 1
                        /\ accountTask[h] = NoAccountTask /\ keyTask[h] = NoKeyTask
      BY DEF OneAtATime, Running
    <3> QED
      BY StateConstants DEF Init, Blocks
  <2> QED
    BY <2>1 DEF Init, GenesisFirst
<1>2. Base /\ OneAtATime /\ [Next]_vars => OneAtATime'
  BY OneAtATimeStep DEF OneBlock
<1>3. TablesOfRows /\ GenesisProgress /\ GenesisFirst /\ [Next]_vars => GenesisFirst'
  BY GenesisFirstStep
<1> QED
  BY <1>1, <1>2, <1>3, BaseInvariant, PTL DEF Spec

(* The invariant of all accounts.                                          *)
LEMMA AccountsInvariant == OneBlock => (Spec => []AccountsInv)
<1> SUFFICES ASSUME OneBlock PROVE Spec => []AccountsInv
  OBVIOUS
<1>1. Init => AccountsInv
  <2> SUFFICES ASSUME Init, NEW a \in Accounts PROVE AccountInv(a)
    BY DEF AccountsInv
  <2>1. chain = <<>> /\ Len(chain) = 0 /\ accountRows[a] = NoRow
    BY DEF Init
  <2> QED
    BY <2>1 DEF AccountInv, Exact, Creator
<1>2. Base /\ OneAtATime /\ GenesisFirst /\ GenesisFirst' /\ AccountsInv /\ [Next]_vars
        => AccountsInv'
  BY AccountStepInv DEF AccountsInv
<1> QED
  BY <1>1, <1>2, ProgressInvariant, PTL DEF Spec

(* Once caught up, the last row of an account is in force.                 *)
LEMMA CaughtUpRow ==
    ASSUME GenesisProgress, Base, AccountsInv, CaughtUp, NEW a \in Accounts
    PROVE  /\ LegalChain(chain) /\ Len(chain) \in 0..Len(chain)
           /\ World = WorldIn(chain, Len(chain))
           /\ accountRows[a] \in Rows \cup {NoRow}
           /\ IsLast(chain, a, accountRows[a], Len(chain))
           /\ accountRows[a] # NoRow =>
                 WrittenIn(chain, a, accountRows[a]) /\ accountRows[a].height <= Len(chain)
<1>1. /\ LegalChain(chain) /\ accountRows[a] \in Rows \cup {NoRow} /\ Len(chain) \in Nat
      /\ World = WorldIn(chain, Len(chain))
  BY ChainFacts, InChain DEF Base, Sound, RowsFit, World
<1>2. accountRows[a] # NoRow =>
         WrittenIn(chain, a, accountRows[a]) /\ accountRows[a].height \in 0..Len(chain)
  BY <1>1, WrittenAsChain DEF AccountsInv, AccountInv
<1>3. Done(pc, Len(chain)) /\ Len(chain) \in 0..Len(chain)
  BY <1>1 DEF CaughtUp, Done
<1>4. IsLast(chain, a, accountRows[a], Len(chain))
  <2>1. CASE chain # <<>>
    BY <1>3, <2>1 DEF AccountsInv, AccountInv
  <2>2. CASE chain = <<>>
    <3>1. Len(chain) = 0 /\ (a \in Genesis => accountRows[a] # NoRow)
      BY <2>2 DEF CaughtUp, GenesisProgress, AllAccounts, AccountStored
    <3>2. WorldIn(chain, 0).accounts[a] # NoRow => a \in Genesis
      BY <1>1, ChainFacts DEF GenesisWorld
    <3> QED
      BY <3>1, <3>2 DEF IsLast
  <2> QED
    BY <2>1, <2>2
<1> QED
  BY <1>1, <1>2, <1>3, <1>4

(* One block at a time, an account has a living row in the table accounts  *)
(* exactly if it exists on the chain, whenever all blocks are handled:     *)
(* for every chain and genesis, any order of the statements of a block,    *)
(* any number of failing statements and of restarts from any height. If    *)
(* no block was left behind, the row of a named account also names the     *)
(* receipts that created and deleted it.                                   *)
THEOREM AccountsAreOfChain == OneBlock => (Spec => []AccountsOfChain)
<1> SUFFICES ASSUME OneBlock PROVE Spec => []AccountsOfChain
  OBVIOUS
<1>1. GenesisProgress /\ Base /\ AccountsInv => AccountsOfChain
  <2> SUFFICES ASSUME GenesisProgress, Base, AccountsInv, CaughtUp, NEW a \in Accounts
               PROVE  /\ Alive(accountRows[a]) <=> Alive(World.accounts[a])
                      /\ a \notin Implicit /\ faults = 0 =>
                            Says(accountRows[a], World.accounts[a])
    BY DEF AccountsOfChain
  <2>1. /\ LegalChain(chain) /\ Len(chain) \in 0..Len(chain)
        /\ World = WorldIn(chain, Len(chain))
        /\ accountRows[a] \in Rows \cup {NoRow}
        /\ IsLast(chain, a, accountRows[a], Len(chain))
        /\ accountRows[a] # NoRow =>
              WrittenIn(chain, a, accountRows[a]) /\ accountRows[a].height <= Len(chain)
    BY CaughtUpRow
  <2>2. Alive(accountRows[a]) <=> Alive(WorldIn(chain, Len(chain)).accounts[a])
    BY <2>1, AliveAsChain
  <2>3. ASSUME a \notin Implicit, faults = 0
        PROVE  Says(accountRows[a], WorldIn(chain, Len(chain)).accounts[a])
    <3>1. Exact(chain, a, accountRows[a])
      BY <2>3 DEF AccountsInv, AccountInv
    <3> QED
      BY <2>1, <2>3, <3>1, ExactAsChain
  <2> QED
    BY <2>1, <2>2, <2>3
<1> QED
  BY <1>1, AccountsInvariant, ProgressInvariant, PTL

(* One block at a time and no block left behind, the creator in the row    *)
(* of an implicit account is a receipt of a block that brought it into     *)
(* being, also when handle_accounts meets later transfers to it or         *)
(* handles blocks again.                                                   *)
THEOREM CreatorsAreKept == OneBlock => (Spec => []ImplicitCreatorKept)
<1> SUFFICES ASSUME OneBlock PROVE Spec => []ImplicitCreatorKept
  OBVIOUS
<1>1. Base /\ AccountsInv => ImplicitCreatorKept
  <2> SUFFICES ASSUME Base, AccountsInv, CaughtUp, faults = 0, NEW a \in Implicit,
                      accountRows[a] # NoRow, accountRows[a].created # NoReceipt,
                      ~TransferAmidDeletion(a)
               PROVE  Creates(accountRows[a].created[1], a)
    BY DEF ImplicitCreatorKept
  <2> DEFINE g == accountRows[a].created[1]
  <2>1. LegalChain(chain) /\ a \in Accounts
    BY StateConstants DEF Base, Sound
  <2>2. \A h \in 1..Len(chain) : DOMAIN chain[h] = 1..Len(chain[h])
    BY <2>1 DEF LegalChain, IsLegalBlock
  <2>3. ~Amid(chain, a)
    BY <2>2 DEF Amid, Acts, TransferAmidDeletion
  <2>4. CreatesAt(chain, g, a)
    BY <2>1, <2>3 DEF AccountsInv, AccountInv, Creator
  <2>5. /\ DOMAIN chain[g] = 1..Len(chain[g])
        /\ \A i : WorldBefore(g, i) = After(WorldIn(chain, g - 1), chain[g], i - 1)
    BY <2>2, <2>4, InChain DEF CreatesAt, WorldBefore, After
  <2> HIDE DEF g
  <2> QED
    BY <2>4, <2>5 DEF g, CreatesAt, CreatesIn, Creates
<1> QED
  BY <1>1, AccountsInvariant, ProgressInvariant, PTL
-----------------------------------------------------------------------------
(* What a block tells of a key and of the owner of the key.                *)
LEMMA KeyTold ==
    ASSUME NEW c, LegalChain(c), NEW h \in 1..Len(c), NEW k \in AccessKeys
    PROVE  /\ KeysIn(c, h).keys[k] \in Entries /\ KeysIn(c, h).owners[k[2]] \in ReceiptIds
           /\ h \in 0..Len(c) /\ h - 1 \in 0..Len(c) /\ h \in Nat
           /\ Alive(KeysIn(c, h).keys[k]) => Alive(WorldIn(c, h).accounts[k[2]])
           /\ KeysIn(c, h).owners[k[2]] = NoReceipt
              /\ Alive(WorldIn(c, h - 1).accounts[k[2]]) => Alive(WorldIn(c, h).accounts[k[2]])
           /\ Told(c, k) =>
                 KeyTells(WorldIn(c, h - 1).keys[k], WorldIn(c, h).keys[k],
                          KeysIn(c, h).keys[k], KeysIn(c, h).owners[k[2]], k[2])
<1>1. k[2] \in Accounts
  BY DEF AccessKeys
<1>2. KeysIn(c, h) \in Models
  BY BlockOfChain
<1>3. KeysIn(c, h).keys[k] \in Entries /\ KeysIn(c, h).owners[k[2]] \in ReceiptIds
  BY <1>1, <1>2 DEF Models
<1>4. /\ WorldIn(c, h) = After(WorldIn(c, h - 1), c[h], Len(c[h]))
      /\ KeysIn(c, h) = KeysGathered(c[h], Len(c[h]))
      /\ h \in 0..Len(c) /\ h - 1 \in 0..Len(c) /\ h \in Nat
  BY ChainFacts
<1>5. OwnersLive(WorldIn(c, h - 1), c[h], Len(c[h]), k)
  BY BlockOfChain
<1>6. Told(c, k) =>
         KeyTells(WorldIn(c, h - 1).keys[k], WorldIn(c, h).keys[k],
                  KeysIn(c, h).keys[k], KeysIn(c, h).owners[k[2]], k[2])
  BY BlockOfChain DEF Told
<1> QED
  BY <1>3, <1>4, <1>5, <1>6 DEF OwnersLive, Alive

(* A row that was written lives no longer than the account, and exactly    *)
(* as long as the key if the blocks tell its state.                        *)
LEMMA KeyWrittenAsChain ==
    ASSUME NEW c, LegalChain(c), NEW k \in AccessKeys, NEW row \in Rows, KeyWrittenIn(c, k, row)
    PROVE  /\ row.height \in 0..Len(c)
           /\ Alive(row) => Alive(WorldIn(c, row.height).accounts[k[2]])
           /\ Told(c, k) => (Alive(row) <=> Alive(WorldIn(c, row.height).keys[k]))
<1>1. row # NoRow /\ k[2] \in Accounts
  BY NoRowIsNoRow DEF AccessKeys
<1>2. CASE k \in GenesisKeys /\ row = GenesisRow
  <2>1. row.height = 0 /\ row.deleted = NoReceipt /\ 0 \in 0..Len(c)
    BY <1>2, ChainFacts DEF GenesisRow
  <2>4. k[2] \in Genesis
    BY <1>2, StateConstants
  <2>2. /\ WorldIn(c, 0).accounts[k[2]] = Fresh(NoReceipt)
        /\ WorldIn(c, 0).keys[k] = Fresh(NoReceipt)
    BY <1>1, <1>2, <2>4, ChainFacts DEF GenesisWorld
  <2>3. Alive(WorldIn(c, 0).accounts[k[2]]) /\ Alive(WorldIn(c, 0).keys[k])
    BY <2>2, EntryFacts DEF ReceiptIds
  <2> QED
    BY <1>1, <2>1, <2>3 DEF Alive
<1>3. ASSUME row.height \in 1..Len(c)
      PROVE  /\ row.height \in 0..Len(c)
             /\ KeysIn(c, row.height).keys[k] \in Entries
             /\ Alive(KeysIn(c, row.height).keys[k]) =>
                   Alive(WorldIn(c, row.height).accounts[k[2]])
             /\ Told(c, k) =>
                   KeyTells(WorldIn(c, row.height - 1).keys[k], WorldIn(c, row.height).keys[k],
                            KeysIn(c, row.height).keys[k], KeysIn(c, row.height).owners[k[2]],
                            k[2])
  BY <1>3, KeyTold
<1>4. CASE /\ row.height \in 1..Len(c)
           /\ KeysIn(c, row.height).keys[k] # NoRow
           /\ row.deleted = KeysIn(c, row.height).keys[k].deleted
  <2>1. Alive(row) <=> Alive(KeysIn(c, row.height).keys[k])
    BY <1>1, <1>4 DEF Alive
  <2>2. Told(c, k) => (Alive(row) <=> Alive(WorldIn(c, row.height).keys[k]))
    BY <1>1, <1>3, <1>4, <2>1 DEF KeyTells, Tells, Alive
  <2> QED
    BY <1>3, <1>4, <2>1, <2>2
<1>5. CASE /\ row.height \in 1..Len(c)
           /\ KeysIn(c, row.height).owners[k[2]] # NoReceipt
           /\ row.deleted = KeysIn(c, row.height).owners[k[2]]
  <2>1. ~Alive(row)
    BY <1>5 DEF Alive
  <2>2. Told(c, k) => ~Alive(WorldIn(c, row.height).keys[k])
    <3> SUFFICES ASSUME Told(c, k) PROVE ~Alive(WorldIn(c, row.height).keys[k])
      OBVIOUS
    <3> DEFINE x == row.height
               w == WorldIn(c, x - 1).keys[k]
               u == WorldIn(c, x).keys[k]
               o == KeysIn(c, x).owners[k[2]]
    <3>1. u = IF Alive(w) THEN Ended(w, o) ELSE w
      BY <1>3, <1>5 DEF KeyTells
    <3>2. w \in Entries /\ o \in ReceiptIds /\ o # NoReceipt
      <4>1. x - 1 \in 0..Len(c) /\ o \in ReceiptIds
        BY <1>5, KeyTold
      <4>2. WorldIn(c, x - 1) \in Worlds
        BY <4>1, ChainFacts
      <4> QED
        BY <1>5, <4>1, <4>2 DEF Worlds
    <3>3. w # NoRow => Ended(w, o).deleted = o
      BY <3>2, EntryFacts
    <3> HIDE DEF w, u, o
    <3>4. ~Alive(u)
      BY <3>1, <3>2, <3>3 DEF Alive
    <3> QED
      BY <3>4 DEF u
  <2> QED
    BY <1>3, <1>5, <2>1, <2>2
<1> QED
  BY <1>2, <1>4, <1>5 DEF KeyWrittenIn

(* No row that lives outlives the account.                                 *)
LEMMA OwnerAsChain ==
    ASSUME NEW c, LegalChain(c), NEW k \in AccessKeys, NEW row \in Rows \cup {NoRow},
           NEW h \in 0..Len(c), IsLastKey(c, k, row, h),
           row # NoRow => KeyWrittenIn(c, k, row) /\ row.height <= h,
           Alive(row)
    PROVE  Alive(WorldIn(c, h).accounts[k[2]])
<1> DEFINE x == row.height
           S == {y \in 0..h : Alive(WorldIn(c, y).accounts[k[2]])}
<1>1. row # NoRow /\ row \in Rows
  BY EntryFacts
<1>2. x \in 0..Len(c) /\ x <= h /\ Alive(WorldIn(c, x).accounts[k[2]])
  BY <1>1, KeyWrittenAsChain
<1>3. Len(c) \in Nat /\ h \in Nat /\ x \in Nat
  BY <1>2, ChainFacts
<1>4. x \in S
  BY <1>2, <1>3
<1>5. ASSUME NEW y \in (x + 1)..h, y - 1 \in S
      PROVE  y \in S
  <2>1. y \in 1..Len(c) /\ y \in 1..h /\ x < y /\ y \in 0..h
    BY <1>2, <1>3
  <2>2. KeysIn(c, y).owners[k[2]] = NoReceipt
    BY <1>1, <2>1 DEF IsLastKey, KeyQuiet
  <2>3. Alive(WorldIn(c, y).accounts[k[2]])
    BY <1>5, <2>1, <2>2, KeyTold
  <2> QED
    BY <2>1, <2>3
<1> HIDE DEF S, x
<1>6. \A y \in x..h : y \in S
  BY <1>3, <1>4, <1>5, UpTo
<1>7. h \in S
  BY <1>2, <1>3, <1>6
<1> QED
  BY <1>7 DEF S

(* The last row lives exactly as long as the key.                          *)
LEMMA KeyAliveAsChain ==
    ASSUME NEW c, LegalChain(c), NEW k \in AccessKeys, Told(c, k), NEW row \in Rows \cup {NoRow},
           NEW h \in 0..Len(c), IsLastKey(c, k, row, h),
           row # NoRow => KeyWrittenIn(c, k, row) /\ row.height <= h
    PROVE  Alive(row) <=> Alive(WorldIn(c, h).keys[k])
<1>1. CASE row = NoRow
  BY <1>1, EntryFacts DEF IsLastKey
<1>2. CASE row # NoRow
  <2> DEFINE x == row.height
             S == {y \in 0..h : Alive(row) <=> Alive(WorldIn(c, y).keys[k])}
  <2>1. /\ x \in 0..Len(c) /\ KeyWrittenIn(c, k, row) /\ row \in Rows /\ x <= h
        /\ Alive(row) <=> Alive(WorldIn(c, x).keys[k])
    BY <1>2, KeyWrittenAsChain
  <2>2. Len(c) \in Nat /\ h \in Nat /\ x \in Nat
    BY <2>1, ChainFacts
  <2>3. x \in S
    BY <2>1, <2>2
  <2>4. ASSUME NEW y \in (x + 1)..h, y - 1 \in S
        PROVE  y \in S
    <3>1. y \in 1..Len(c) /\ y \in 1..h /\ x < y /\ y \in 0..h
      BY <2>1, <2>2
    <3>2. KeyTells(WorldIn(c, y - 1).keys[k], WorldIn(c, y).keys[k],
                   KeysIn(c, y).keys[k], KeysIn(c, y).owners[k[2]], k[2])
      BY <3>1, KeyTold
    <3>3. KeyQuiet(c, k, row, y)
      BY <1>2, <3>1 DEF IsLastKey
    <3>4. Alive(row) <=> Alive(WorldIn(c, y - 1).keys[k])
      BY <2>4
    <3>5. WorldIn(c, y).keys[k] = WorldIn(c, y - 1).keys[k]
      BY <3>2, <3>3, <3>4 DEF KeyTells, Tells, KeyQuiet
    <3>6. Alive(row) <=> Alive(WorldIn(c, y).keys[k])
      BY <3>4, <3>5
    <3> QED
      BY <3>1, <3>6
  <2> HIDE DEF S, x
  <2>5. \A y \in x..h : y \in S
    BY <2>1, <2>2, <2>3, <2>4, UpTo
  <2>6. h \in S
    BY <2>1, <2>2, <2>5
  <2> QED
    BY <2>6 DEF S
<1> QED
  BY <1>1, <1>2

(* The last row says what the chain says, if it said so at its height.     *)
LEMMA KeyExactAsChain ==
    ASSUME NEW c, LegalChain(c), NEW k \in AccessKeys, Told(c, k), NEW row \in Rows \cup {NoRow},
           NEW h \in 0..Len(c), IsLastKey(c, k, row, h), KeyExact(c, k, row),
           row # NoRow => row.height <= h
    PROVE  Says(row, WorldIn(c, h).keys[k])
<1>1. CASE row = NoRow
  BY <1>1 DEF IsLastKey, Says
<1>2. CASE row # NoRow
  <2> DEFINE x == row.height
             S == {y \in 0..h : Says(row, WorldIn(c, y).keys[k])}
  <2>1. x \in Nat /\ Len(c) \in Nat /\ h \in Nat /\ x <= h
    BY <1>2, ChainFacts DEF Rows
  <2>2. x \in S
    BY <1>2, <2>1 DEF KeyExact
  <2>3. ASSUME NEW y \in (x + 1)..h, y - 1 \in S
        PROVE  y \in S
    <3>1. y \in 1..Len(c) /\ y \in 1..h /\ x < y /\ y \in 0..h
      BY <2>1
    <3>2. KeyTells(WorldIn(c, y - 1).keys[k], WorldIn(c, y).keys[k],
                   KeysIn(c, y).keys[k], KeysIn(c, y).owners[k[2]], k[2])
      BY <3>1, KeyTold
    <3>3. KeyQuiet(c, k, row, y)
      BY <1>2, <3>1 DEF IsLastKey
    <3>4. Says(row, WorldIn(c, y - 1).keys[k])
      BY <2>3
    <3>5. Alive(WorldIn(c, y - 1).keys[k]) => Alive(row)
      BY <3>4 DEF Says, Alive
    <3>6. WorldIn(c, y).keys[k] = WorldIn(c, y - 1).keys[k]
      BY <3>2, <3>3, <3>5 DEF KeyTells, Tells, KeyQuiet
    <3>7. Says(row, WorldIn(c, y).keys[k])
      BY <3>4, <3>6 DEF Says
    <3> QED
      BY <3>1, <3>7
  <2> HIDE DEF S, x
  <2>4. \A y \in x..h : y \in S
    BY <2>1, <2>2, <2>3, UpTo
  <2>5. h \in S
    BY <2>1, <2>4
  <2> QED
    BY <2>5 DEF S
<1> QED
  BY <1>1, <1>2
-----------------------------------------------------------------------------
(* What is written of a key.                                               *)
LEMMA KeyWrittenFacts ==
    ASSUME NEW c, LegalChain(c), NEW k \in AccessKeys, NEW row \in Rows \cup {NoRow},
           NEW g \in 1..Len(c), NEW new, KeyWrittenBy(c, g, k, row, new)
    PROVE  /\ new \in Rows /\ new # NoRow /\ new.height = g
           /\ KeyWrittenIn(c, k, new)
           /\ \A h \in 0..Len(c) : h < g => IsLastKey(c, k, new, h)
<1>1. new \in Rows /\ new.height = g
  BY WrittenRows
<1>2. new # NoRow
  BY <1>1, NoRowIsNoRow
<1>3. KeyWrittenIn(c, k, new)
  BY <1>1 DEF KeyWrittenBy, Holds, KeyWrittenIn
<1>4. ASSUME NEW h \in 0..Len(c), h < g
      PROVE  IsLastKey(c, k, new, h)
  <2>1. g \in Nat /\ Len(c) \in Nat
    BY ChainFacts
  <2>2. \A y \in 1..h : ~(new.height < y)
    BY <1>1, <1>4, <2>1
  <2> QED
    BY <1>2, <2>2 DEF IsLastKey
<1> QED
  BY <1>1, <1>2, <1>3, <1>4

(* A row that is written says what the chain says, if the one before did.  *)
LEMMA KeyExactWritten ==
    ASSUME NEW c, LegalChain(c), NEW k \in AccessKeys, Told(c, k), NEW row \in Rows \cup {NoRow},
           NEW g \in 1..Len(c), NEW new, KeyWrittenBy(c, g, k, row, new),
           IsLastKey(c, k, row, g - 1), KeyExact(c, k, row)
    PROVE  KeyExact(c, k, new)
<1> DEFINE m == KeysIn(c, g).keys[k]
           o == KeysIn(c, g).owners[k[2]]
           u == WorldIn(c, g).keys[k]
           w == WorldIn(c, g - 1).keys[k]
<1>1. /\ new.height = g /\ new # NoRow /\ g \in Nat /\ g - 1 \in 0..Len(c)
      /\ KeyTells(w, u, m, o, k[2]) /\ k[2] \notin Hex /\ o \in ReceiptIds
  BY KeyWrittenFacts, KeyTold DEF Told
<1>2. ASSUME row # NoRow, row.height < g
      PROVE  Says(row, w)
  <2>1. row.height <= g - 1
    BY <1>1, <1>2, ChainFacts DEF Rows
  <2> QED
    BY <1>1, <2>1, KeyExactAsChain
<1>3. w \in Entries
  <2>1. WorldIn(c, g - 1) \in Worlds
    BY <1>1, ChainFacts
  <2> QED
    BY <2>1 DEF Worlds
<1>4. CASE m # NoRow /\ m.created # NoReceipt /\ Holds(new, m.created, m.deleted, g)
  <2>1. new.created = m.created /\ new.deleted = m.deleted
    BY <1>4 DEF Holds
  <2>2. Says(new, u)
    BY <1>1, <1>4, <2>1 DEF KeyTells, Tells, SameCreator, Says
  <2> QED
    BY <1>1, <2>2 DEF KeyExact
<1>5. CASE /\ m # NoRow /\ m.created = NoReceipt
           /\ row # NoRow /\ row.height < g
           /\ Holds(new, row.created, m.deleted, g)
  <2>1. new.created = row.created /\ new.deleted = m.deleted /\ Says(row, w)
    BY <1>2, <1>5 DEF Holds
  <2>2. Alive(w) /\ u.created = w.created /\ u # NoRow /\ u.deleted = m.deleted
    BY <1>1, <1>5 DEF KeyTells, Tells
  <2>3. Says(new, u)
    BY <1>1, <2>1, <2>2 DEF Says, Alive
  <2> QED
    BY <1>1, <2>3 DEF KeyExact
<1>6. CASE /\ o # NoReceipt
           /\ Alive(row) /\ row.height < g
           /\ Holds(new, row.created, o, g)
  <2>1. row # NoRow
    BY <1>6, EntryFacts
  <2>2. new.created = row.created /\ new.deleted = o /\ Says(row, w)
    BY <1>2, <1>6, <2>1 DEF Holds
  <2>3. Alive(w)
    BY <1>6, <2>1, <2>2 DEF Says, Alive
  <2>4. u = Ended(w, o) /\ w # NoRow
    BY <1>1, <1>6, <2>3, EntryFacts DEF KeyTells
  <2>5. u # NoRow /\ u.created = w.created /\ u.deleted = o
    BY <1>1, <1>3, <2>4, EntryFacts
  <2>6. Says(new, u)
    BY <1>1, <2>2, <2>4, <2>5 DEF Says
  <2> QED
    BY <1>1, <2>6 DEF KeyExact
<1> QED
  BY <1>4, <1>5, <1>6 DEF KeyWrittenBy

(* A block whose statements all have been executed is the last in force.   *)
LEMMA KeyHandledLast ==
    ASSUME NEW c, LegalChain(c), NEW k \in AccessKeys, NEW row \in Rows \cup {NoRow},
           NEW h \in 1..Len(c), IsLastKey(c, k, row, h - 1),
           KeyHandled(c, k, row, h, NoKeyTask)
    PROVE  IsLastKey(c, k, row, h)
<1> DEFINE m == KeysIn(c, h).keys[k]
           o == KeysIn(c, h).owners[k[2]]
           u == WorldIn(c, h).keys[k]
           w == WorldIn(c, h - 1).keys[k]
<1>1. /\ Told(c, k) => KeyTells(w, u, m, o, k[2])
      /\ h \in Nat /\ k[2] \in Accounts
  BY KeyTold DEF AccessKeys
<1>2. /\ k \in AddIn(c, h) => row # NoRow /\ row.height >= h
      /\ k \in EndIn(c, h) => row = NoRow \/ row.height >= h
      /\ k[2] \in OwnersIn(c, h) => row = NoRow \/ row.height >= h \/ ~Alive(row)
  BY DEF KeyHandled, NoKeyTask
<1>3. ASSUME Told(c, k), u # NoRow
      PROVE  row # NoRow
  <2>1. w # NoRow => row # NoRow
    BY <1>3 DEF IsLastKey
  <2>2. CASE o # NoReceipt
    <3>1. w # NoRow
      BY <1>1, <1>3, <2>2, EntryFacts DEF KeyTells
    <3> QED
      BY <2>1, <3>1
  <2>3. CASE o = NoReceipt
    BY <1>1, <1>2, <1>3, <2>1, <2>3 DEF KeyTells, Tells, AddIn, Alive
  <2> QED
    BY <2>2, <2>3
<1>4. ASSUME row # NoRow, NEW y \in 1..h, row.height < y
      PROVE  KeyQuiet(c, k, row, y)
  <2>1. CASE y = h
    <3>1. ~(row.height >= h)
      BY <1>1, <1>4, <2>1 DEF Rows
    <3> QED
      BY <1>1, <1>2, <1>4, <2>1, <3>1 DEF KeyQuiet, AddIn, EndIn, OwnersIn
  <2>2. CASE y # h
    <3>1. y \in 1..(h - 1)
      BY <1>1, <2>2
    <3> QED
      BY <1>4, <3>1 DEF IsLastKey
  <2> QED
    BY <2>1, <2>2
<1> QED
  BY <1>3, <1>4 DEF IsLastKey
-----------------------------------------------------------------------------
(* A later block undoes nothing of what has been handled.                  *)
LEMMA KeyHandledStays ==
    ASSUME NEW c, NEW k, NEW h, NEW t, NEW row, KeyHandled(c, k, row, h, t),
           NEW new, new # NoRow /\ new.height >= h
    PROVE  KeyHandled(c, k, new, h, t)
BY DEF KeyHandled

(* A statement that is sent has been handled.                              *)
LEMMA KeyStatementHandles ==
    ASSUME Base, NEW b \in Blocks, KeyStep(b), NEW k \in AccessKeys,
           KeyHandled(chain, k, keyRows[k], b, keyTask[b])
    PROVE  KeyHandled(chain, k, keyRows'[k], b, keyTask'[b])
<1> DEFINE c == chain
           t == keyTask[b]
           row == keyRows[k]
           new == keyRows'[k]
<1>1. /\ b \in 1..Len(c) /\ b \in Nat /\ Len(c) \in Nat
      /\ keyTask = [x \in Blocks |-> keyTask[x]]
      /\ keyRows \in [AccessKeys -> Rows \cup {NoRow}]
      /\ KeyTaskFits(c, b, t)
  BY KeyStatementWrites, ChainFacts, StateConstants
     DEF Base, Sound, TasksFit, RowsFit, Blocks
<1>2. /\ t \in KeyTasks /\ t.owners \subseteq OwnersIn(c, b)
      /\ t.update \subseteq EndIn(c, b) /\ t.add \subseteq AddIn(c, b)
  BY <1>1 DEF KeyTaskFits
<1>3. /\ k \in AddIn(c, b) => k \notin EndIn(c, b)
      /\ ToAdd(b) = AddIn(c, b)
      /\ KeyRow(b, k) # NoRow /\ KeyRow(b, k).height = b
  <2>1. "height" \in DOMAIN KeyRow(b, k)
    BY DEF KeyRow
  <2> QED
    BY <2>1, SetsOfTasks, StateConstants DEF AddIn, EndIn, KeyRow
<1>4. row = NoRow \/ row.height \in Nat
  BY <1>1, StateConstants DEF Rows
<1>5. CASE InsertKeys(b)
  <2>1. new = IF k \in AddIn(c, b) /\ row = NoRow THEN KeyRow(b, k) ELSE row
    BY <1>3, <1>5 DEF InsertKeys
  <2>2. keyTask'[b] = [t EXCEPT !.insert = FALSE]
    BY <1>1, <1>5 DEF InsertKeys
  <2>3. /\ keyTask'[b].owners = t.owners /\ keyTask'[b].update = t.update
        /\ keyTask'[b].add = t.add
    BY <1>2, <2>2 DEF KeyTasks
  <2>4. CASE k \in AddIn(c, b) /\ row = NoRow
    BY <1>1, <1>3, <2>1, <2>4 DEF KeyHandled
  <2>5. CASE ~(k \in AddIn(c, b) /\ row = NoRow)
    BY <2>1, <2>3, <2>5 DEF KeyHandled
  <2> QED
    BY <2>4, <2>5
<1>6. ASSUME NEW a \in Accounts, DeleteKeysOf(b, a)
      PROVE  KeyHandled(c, k, new, b, keyTask'[b])
  <2>1. keyTask'[b] = [t EXCEPT !.owners = t.owners \ {a}]
    BY <1>1, <1>6 DEF DeleteKeysOf
  <2>2. /\ keyTask'[b].owners = t.owners \ {a} /\ keyTask'[b].update = t.update
        /\ keyTask'[b].insert = t.insert /\ keyTask'[b].add = t.add
    BY <1>2, <2>1 DEF KeyTasks
  <2>3. CASE ~(k[2] = a /\ Alive(row) /\ OlderKey(k, b))
    <3>1. new = row
      BY <1>6, <2>3 DEF DeleteKeysOf
    <3>2. k[2] = a => row = NoRow \/ row.height >= b \/ ~Alive(row)
      BY <1>1, <1>4, <2>3 DEF OlderKey
    <3> QED
      BY <2>2, <3>1, <3>2 DEF KeyHandled
  <2>4. CASE k[2] = a /\ Alive(row) /\ OlderKey(k, b)
    <3>1. new = [row EXCEPT !.deleted = KeyModels(b).owners[a], !.height = b]
      BY <1>6, <2>4 DEF DeleteKeysOf
    <3>2. row \in Rows
      BY <1>1, <2>4 DEF OlderKey
    <3>3. new = [created |-> row.created, deleted |-> KeyModels(b).owners[a], height |-> b]
      BY <3>1, <3>2, RowFacts
    <3>4. new # NoRow /\ new.height >= b
      <4>1. "height" \in DOMAIN new
        BY <3>3
      <4> QED
        BY <1>1, <3>3, <4>1, StateConstants
    <3> QED
      BY <3>4 DEF KeyHandled
  <2> QED
    BY <2>3, <2>4
<1>7. ASSUME NEW d \in AccessKeys, UpdateKey(b, d)
      PROVE  KeyHandled(c, k, new, b, keyTask'[b])
  <2>1. keyTask'[b] = [t EXCEPT !.update = t.update \ {d}]
    BY <1>1, <1>7 DEF UpdateKey
  <2>2. /\ keyTask'[b].owners = t.owners /\ keyTask'[b].update = t.update \ {d}
        /\ keyTask'[b].insert = t.insert /\ keyTask'[b].add = t.add
    BY <1>2, <2>1 DEF KeyTasks
  <2>3. CASE d # k
    <3>1. new = row
      BY <1>1, <1>7, <2>3 DEF UpdateKey
    <3> QED
      BY <2>2, <2>3, <3>1 DEF KeyHandled
  <2>4. CASE d = k /\ OlderKey(k, b)
    <3>1. keyRows' = [keyRows EXCEPT ![k] =
              [row EXCEPT !.deleted = KeyModels(b).keys[k].deleted, !.height = b]]
      BY <1>7, <2>4 DEF UpdateKey
    <3>2. row \in Rows
      BY <1>1, <2>4 DEF OlderKey
    <3>3. new = [created |-> row.created, deleted |-> KeyModels(b).keys[k].deleted,
                 height |-> b]
      BY <1>1, <3>1, <3>2, RowFacts
    <3>4. new # NoRow /\ new.height >= b
      <4>1. "height" \in DOMAIN new
        BY <3>3
      <4> QED
        BY <1>1, <3>3, <4>1, StateConstants
    <3> QED
      BY <3>4 DEF KeyHandled
  <2>5. CASE d = k /\ ~OlderKey(k, b)
    <3>1. new = row
      BY <1>7, <2>5 DEF UpdateKey
    <3>2. row = NoRow \/ row.height >= b
      BY <1>1, <1>4, <2>5 DEF OlderKey
    <3> QED
      BY <2>2, <3>1, <3>2 DEF KeyHandled
  <2> QED
    BY <2>3, <2>4, <2>5
<1>8. ASSUME NEW d \in AccessKeys, AddKey(b, d)
      PROVE  KeyHandled(c, k, new, b, keyTask'[b])
  <2>1. keyTask'[b] = [t EXCEPT !.add = t.add \ {d}]
    BY <1>1, <1>8 DEF AddKey
  <2>2. /\ keyTask'[b].owners = t.owners /\ keyTask'[b].update = t.update
        /\ keyTask'[b].insert = t.insert /\ keyTask'[b].add = t.add \ {d}
    BY <1>2, <2>1 DEF KeyTasks
  <2>3. d \in AddIn(c, b) /\ ~t.insert
    BY <1>2, <1>8 DEF AddKey
  <2>4. CASE d # k
    <3>1. new = row
      BY <1>1, <1>8, <2>4 DEF AddKey
    <3> QED
      BY <2>2, <2>4, <3>1 DEF KeyHandled
  <2>5. CASE d = k /\ OlderKey(k, b)
    <3>1. new = KeyRow(b, k)
      BY <1>1, <1>8, <2>5 DEF AddKey
    <3> QED
      BY <1>1, <1>3, <2>3, <2>5, <3>1 DEF KeyHandled
  <2>6. CASE d = k /\ ~OlderKey(k, b)
    <3>1. new = row
      BY <1>8, <2>6 DEF AddKey
    <3>2. row # NoRow
      BY <2>3, <2>6 DEF KeyHandled
    <3>3. row.height >= b
      BY <1>1, <1>4, <2>6, <3>2 DEF OlderKey
    <3> QED
      BY <1>3, <2>2, <2>3, <2>6, <3>1, <3>2, <3>3 DEF KeyHandled
  <2> QED
    BY <2>4, <2>5, <2>6
<1> QED
  BY <1>5, <1>6, <1>7, <1>8 DEF KeyStep

(* A row that a block writes.                                              *)
LEMMA KeyWrittenInv ==
    ASSUME Base, OneAtATime, NEW k \in AccessKeys, KeyInv(k),
           NEW g \in 1..Len(chain), keyTask[g] # NoKeyTask, NEW new,
           KeyWrittenBy(chain, g, k, keyRows[k], new)
    PROVE  /\ KeyWrittenIn(chain, k, new)
           /\ \A h \in 0..Len(chain) : Done(pc, h) => IsLastKey(chain, k, new, h)
           /\ faults = 0 /\ Told(chain, k) => KeyExact(chain, k, new)
           /\ new # NoRow /\ new.height = g
<1> DEFINE row == keyRows[k]
<1>1. LegalChain(chain) /\ row \in Rows \cup {NoRow} /\ g - 1 \in 0..Len(chain)
  BY KeyTold DEF Base, Sound, RowsFit
<1>2. /\ KeyWrittenIn(chain, k, new) /\ new # NoRow /\ new.height = g
      /\ \A h \in 0..Len(chain) : h < g => IsLastKey(chain, k, new, h)
  <2>1. ASSUME NEW r \in Rows \cup {NoRow}, KeyWrittenBy(chain, g, k, r, new)
        PROVE  /\ new # NoRow /\ new.height = g
               /\ KeyWrittenIn(chain, k, new)
               /\ \A h \in 0..Len(chain) : h < g => IsLastKey(chain, k, new, h)
    BY <1>1, <2>1, KeyWrittenFacts
  <2> QED
    BY <1>1, <2>1
<1>3. /\ \A h \in 0..Len(chain) : Done(pc, h) => h < g
      /\ faults = 0 => Done(pc, g - 1)
      /\ chain # <<>>
  BY DoneBefore
<1>4. /\ faults = 0 => IsLastKey(chain, k, row, g - 1)
      /\ faults = 0 /\ Told(chain, k) => KeyExact(chain, k, row)
  BY <1>1, <1>3 DEF KeyInv
<1>5. faults = 0 /\ Told(chain, k) => KeyExact(chain, k, new)
  BY <1>1, <1>4, KeyExactWritten
<1> QED
  BY <1>2, <1>3, <1>5

(* One statement of handle_access_keys.                                    *)
LEMMA StoreKeysInv ==
    ASSUME Base, OneAtATime, NEW k \in AccessKeys, KeyInv(k), NEW b \in Blocks, StoreKeys(b)
    PROVE  KeyInv(k)'
<1> DEFINE row == keyRows[k]
           new == keyRows'[k]
<1>1. KeyStep(b) /\ UNCHANGED <<chain, pc, faults>>
  BY DEF StoreKeys
<1>2. /\ b \in 1..Len(chain) /\ keyTask[b] # NoKeyTask
      /\ new = row \/ KeyWrittenBy(chain, b, k, row, new)
      /\ keyTask' = [keyTask EXCEPT ![b] = keyTask'[b]]
  BY <1>1, KeyStatementWrites DEF Base
<1>3. /\ Len(chain) \in Nat /\ \A h \in 1..Len(chain) : h \in Blocks
      /\ \A h \in Blocks : h # b => keyTask'[h] = keyTask[h]
  BY <1>2, ChainFacts DEF Base, Sound, TasksFit
<1>4. ASSUME NEW h \in 1..Len(chain), Running(h), Done(pc, h - 1)
      PROVE  KeyHandled(chain, k, new, h, keyTask'[h])
  <2>1. KeyHandled(chain, k, row, h, keyTask[h])
    BY <1>4 DEF KeyInv
  <2>2. CASE h = b
    BY <1>1, <2>1, <2>2, KeyStatementHandles
  <2>3. CASE h # b /\ new = row
    BY <1>3, <2>1, <2>3
  <2>4. CASE h # b /\ KeyWrittenBy(chain, b, k, row, new)
    <3>1. new # NoRow /\ new.height = b
      BY <1>2, <2>4, KeyWrittenInv
    <3>2. h - 1 < b
      <4>1. h - 1 \in 0..Len(chain)
        BY <1>3
      <4> QED
        BY <1>2, <1>4, <4>1, DoneBefore
    <3>3. new.height >= h
      BY <1>2, <1>3, <3>1, <3>2
    <3> QED
      BY <1>3, <2>1, <2>4, <3>1, <3>3, KeyHandledStays
  <2> QED
    BY <1>2, <2>2, <2>3, <2>4
<1>5. CASE new = row
  BY <1>1, <1>4, <1>5 DEF KeyInv, Running
<1>6. CASE KeyWrittenBy(chain, b, k, row, new)
  <2>1. /\ KeyWrittenIn(chain, k, new)
        /\ \A h \in 0..Len(chain) : Done(pc, h) => IsLastKey(chain, k, new, h)
        /\ faults = 0 /\ Told(chain, k) => KeyExact(chain, k, new)
    BY <1>2, <1>6, KeyWrittenInv
  <2> QED
    BY <1>1, <1>4, <2>1 DEF KeyInv, Running
<1> QED
  BY <1>2, <1>5, <1>6
-----------------------------------------------------------------------------
(* Steps that leave the rows of the keys as they are.                      *)
LEMMA KeyQuietStepInv ==
    ASSUME NEW k \in AccessKeys, KeyInv(k), Base,
           UNCHANGED <<chain, keyRows>>, faults' = 0 => faults = 0,
           \A x \in Blocks : pc'[x] = "done" => pc[x] = "done",
           \A x \in Blocks : pc'[x] = "running" =>
               pc[x] = "running" /\ keyTask'[x] = keyTask[x]
    PROVE  KeyInv(k)'
<1>1. Len(chain) \in Nat /\ \A x \in 1..Len(chain) : x \in Blocks
  BY ChainFacts DEF Base, Sound
<1>2. ASSUME NEW h \in 0..Len(chain), Done(pc', h)
      PROVE  Done(pc, h)
  <2>1. \A x \in 1..h : x \in 1..Len(chain)
    BY <1>1
  <2> QED
    BY <1>1, <1>2, <2>1 DEF Done
<1>3. \A h \in 1..Len(chain) : h - 1 \in 0..Len(chain)
  BY <1>1
<1>4. \A h \in 1..Len(chain) : Running(h)' /\ Done(pc', h - 1) =>
         Running(h) /\ Done(pc, h - 1) /\ keyTask'[h] = keyTask[h]
  BY <1>1, <1>2, <1>3 DEF Running
<1> QED
  BY <1>2, <1>4 DEF KeyInv

(* A block starts: all its statements are left to send.                    *)
LEMMA KeyStartInv ==
    ASSUME StrictMode, NEW k \in AccessKeys, KeyInv(k), Base, NEW b \in Blocks, Start(b)
    PROVE  KeyInv(k)'
<1>1. /\ Len(chain) \in Nat /\ b \in 1..Len(chain)
      /\ \A x \in 1..Len(chain) : x \in Blocks /\ x \in Nat
  BY ChainFacts, StateConstants DEF Base, Sound, Start, Blocks
<1>2. /\ UNCHANGED <<chain, keyRows, faults>>
      /\ \A x \in Blocks : pc'[x] = IF x = b THEN "running" ELSE pc[x]
      /\ \A x \in Blocks : x # b => keyTask'[x] = keyTask[x]
      /\ keyTask'[b] = KeyTask(b)
  BY DEF Start, tables, Base, Sound, TasksFit, Positions
<1>3. ASSUME NEW h \in 0..Len(chain), Done(pc', h)
      PROVE  Done(pc, h)
  <2>1. \A x \in 1..h : x \in 1..Len(chain)
    BY <1>1
  <2> QED
    BY <1>1, <1>2, <1>3, <2>1 DEF Done
<1>4. KeyHandled(chain, k, keyRows[k], b, KeyTask(b))
  <2>1. /\ KeyTask(b).owners = OwnersIn(chain, b) /\ KeyTask(b).update = EndIn(chain, b)
        /\ KeyTask(b).add = AddIn(chain, b)
    BY SetsOfTasks DEF KeyTask
  <2>2. ToAdd(b) # {} => KeyTask(b).insert
    BY DEF KeyTask
  <2>3. k \in AddIn(chain, b) => KeyTask(b).insert
    BY <2>2, SetsOfTasks
  <2> QED
    BY <2>1, <2>3 DEF KeyHandled
<1>5. ASSUME NEW h \in 1..Len(chain), pc'[h] = "running", Done(pc', h - 1)
      PROVE  KeyHandled(chain, k, keyRows[k], h, keyTask'[h])
  <2>1. h - 1 \in 0..Len(chain) /\ h \in Blocks
    BY <1>1
  <2> QED
    BY <1>2, <1>3, <1>4, <1>5, <2>1 DEF KeyInv, Running
<1> QED
  BY <1>2, <1>3, <1>5 DEF KeyInv, Running

(* A block is done: nothing is left to send, so it has the last word.      *)
LEMMA KeyFinishInv ==
    ASSUME NEW k \in AccessKeys, KeyInv(k), Base, OneAtATime, NEW b \in Blocks, Finish(b)
    PROVE  KeyInv(k)'
<1>1. /\ Len(chain) \in Nat /\ next \in Nat /\ LegalChain(chain)
      /\ \A x \in 1..Len(chain) : x \in Blocks /\ x \in Nat
      /\ keyRows[k] \in Rows \cup {NoRow}
  BY ChainFacts, StateConstants DEF Base, Sound, Positions, RowsFit, Blocks
<1>2. /\ UNCHANGED <<chain, keyRows, keyTask, faults>>
      /\ \A x \in Blocks : pc'[x] = IF x = b THEN "done" ELSE pc[x]
      /\ pc[b] = "running" /\ b = next - 1 /\ keyTask[b] = NoKeyTask
  BY DEF Finish, Running, tables, Base, Positions, OneAtATime
<1>3. ASSUME NEW h \in 0..Len(chain), Done(pc', h), chain # <<>>
      PROVE  IsLastKey(chain, k, keyRows[k], h)
  <2>1. /\ \A x \in 1..h : x \in 1..Len(chain)
        /\ b \in Nat /\ h \in Nat /\ b > 0
    BY <1>1, StateConstants DEF Blocks
  <2>2. CASE h < b
    <3>1. Done(pc, h)
      BY <1>1, <1>2, <1>3, <2>1, <2>2 DEF Done
    <3> QED
      BY <1>3, <3>1 DEF KeyInv
  <2>3. CASE h = b
    <3>1. Done(pc, h - 1)
      BY <1>1, <1>2, <1>3, <2>1, <2>3 DEF Done
    <3>2. h \in 1..Len(chain) /\ h - 1 \in 0..Len(chain)
      BY <1>1, <2>1, <2>3
    <3>3. IsLastKey(chain, k, keyRows[k], h - 1)
      BY <1>3, <3>1, <3>2 DEF KeyInv
    <3>4. KeyHandled(chain, k, keyRows[k], h, NoKeyTask)
      BY <1>2, <2>3, <3>1, <3>2 DEF KeyInv, Running
    <3> QED
      BY <1>1, <3>2, <3>3, <3>4, KeyHandledLast
  <2>4. CASE h > b
    <3>1. h \in 1..h /\ h \in Blocks /\ h >= next
      BY <1>1, <1>2, <2>1, <2>4
    <3>2. pc[h] = "done"
      BY <1>2, <1>3, <2>4, <3>1 DEF Done
    <3> QED
      BY <3>1, <3>2 DEF OneAtATime
  <2> QED
    BY <2>1, <2>2, <2>3, <2>4
<1>4. ASSUME NEW h \in 1..Len(chain), pc'[h] = "running", Done(pc', h - 1)
      PROVE  KeyHandled(chain, k, keyRows[k], h, keyTask[h])
  <2>1. h \in Blocks /\ h # b /\ pc[h] = "running"
    BY <1>1, <1>2, <1>4
  <2>2. h = next - 1
    BY <2>1 DEF OneAtATime, Running
  <2> QED
    BY <1>2, <2>1, <2>2
<1> QED
  BY <1>2, <1>3, <1>4 DEF KeyInv, Running

(* A new block says nothing of the blocks before it.                       *)
LEMMA KeyGrowsSays ==
    ASSUME NEW c, LegalChain(c), NEW d, Grows(c, d), NEW k, NEW row
    PROVE  /\ KeyWrittenIn(c, k, row) => KeyWrittenIn(d, k, row)
           /\ \A h \in 0..Len(c) : IsLastKey(c, k, row, h) => IsLastKey(d, k, row, h)
           /\ \A h \in 1..Len(c) : \A t :
                 KeyHandled(c, k, row, h, t) => KeyHandled(d, k, row, h, t)
           /\ (row # NoRow => row.height \in 0..Len(c)) /\ KeyExact(c, k, row)
                 => KeyExact(d, k, row)
           /\ Told(d, k) => Told(c, k)
<1>1. /\ Len(c) \in Nat /\ Len(d) = Len(c) + 1
      /\ \A h \in 1..Len(c) : h \in 1..Len(d) /\ d[h] = c[h] /\ KeysIn(d, h) = KeysIn(c, h)
      /\ \A h \in 0..Len(c) : WorldIn(d, h) = WorldIn(c, h)
  BY ChainFacts DEF Grows, KeysIn
<1>2. Told(d, k) => Told(c, k)
  BY <1>1 DEF Told
<1>3. KeyWrittenIn(c, k, row) => KeyWrittenIn(d, k, row)
  BY <1>1 DEF KeyWrittenIn
<1>4. ASSUME NEW h \in 0..Len(c), IsLastKey(c, k, row, h)
      PROVE  IsLastKey(d, k, row, h)
  <2>1. \A y \in 1..h : y \in 1..Len(c)
    BY <1>1
  <2> QED
    BY <1>1, <1>2, <1>4, <2>1 DEF IsLastKey, KeyQuiet
<1>5. ASSUME NEW h \in 1..Len(c), NEW t, KeyHandled(c, k, row, h, t)
      PROVE  KeyHandled(d, k, row, h, t)
  BY <1>1, <1>5 DEF KeyHandled, AddIn, EndIn, OwnersIn
<1>6. (row # NoRow => row.height \in 0..Len(c)) /\ KeyExact(c, k, row) => KeyExact(d, k, row)
  BY <1>1 DEF KeyExact
<1> QED
  BY <1>2, <1>3, <1>4, <1>5, <1>6

(* A block is produced.                                                    *)
LEMMA KeyNewBlockInv ==
    ASSUME NEW k \in AccessKeys, KeyInv(k), Base, OneAtATime, GenesisFirst', NewBlock
    PROVE  KeyInv(k)'
<1> DEFINE c == chain
           d == chain'
           row == keyRows[k]
           N == Len(chain)
<1>1. /\ LegalChain(c) /\ LegalChain(d) /\ Grows(c, d) /\ N \in Nat /\ Len(d) = N + 1
      /\ next = N + 1 /\ UNCHANGED <<keyRows, keyTask, pc, faults>>
      /\ N + 1 \in Blocks /\ row \in Rows \cup {NoRow}
  <2>1. LegalChain(c) /\ row \in Rows \cup {NoRow}
    BY DEF Base, Sound, RowsFit
  <2>2. LegalChain(d) /\ Grows(c, d)
    BY <2>1, ProduceGrows DEF NewBlock
  <2>3. N \in Nat /\ Len(d) = N + 1
    BY <2>1, <2>2, ChainFacts DEF Grows
  <2>4. N + 1 \in 1..Len(d)
    BY <2>3
  <2>5. N + 1 \in Blocks
    BY <2>2, <2>4, ChainFacts
  <2> QED
    BY <2>1, <2>2, <2>3, <2>5 DEF NewBlock, tables
<1>2. pc[N + 1] = "idle"
  BY <1>1 DEF OneAtATime
<1>3. row # NoRow => KeyWrittenIn(d, k, row)
  BY <1>1, KeyGrowsSays DEF KeyInv
<1>4. ASSUME NEW h \in 0..Len(d), Done(pc, h)
      PROVE  IsLastKey(d, k, row, h)
  <2>1. h \in 0..N
    <3>1. h # N + 1
      <4>1. h = N + 1 => N + 1 \in 1..h
        BY <1>1
      <4> QED
        BY <1>2, <1>4, <4>1 DEF Done
    <3> QED
      BY <1>1, <3>1
  <2>2. CASE c # <<>>
    <3>1. IsLastKey(c, k, row, h)
      BY <1>4, <2>1, <2>2 DEF KeyInv
    <3> QED
      BY <1>1, <2>1, <3>1, KeyGrowsSays
  <2>3. CASE c = <<>>
    <3>1. h = 0
      BY <2>1, <2>3
    <3>2. d # <<>>
      BY <1>1
    <3>3. k \in GenesisKeys => row # NoRow
      BY <1>1, <3>2 DEF GenesisFirst, AllKeys, KeyStored
    <3>4. WorldIn(d, 0).keys[k] # NoRow => k \in GenesisKeys
      BY <1>1, ChainFacts DEF GenesisWorld
    <3> QED
      BY <3>1, <3>3, <3>4 DEF IsLastKey
  <2> QED
    BY <2>2, <2>3
<1>5. ASSUME NEW h \in 1..Len(d), pc[h] = "running", Done(pc, h - 1)
      PROVE  KeyHandled(d, k, row, h, keyTask[h])
  <2>1. h \in 1..N
    BY <1>1, <1>2, <1>5
  <2>2. KeyHandled(c, k, row, h, keyTask[h])
    BY <1>5, <2>1 DEF KeyInv, Running
  <2> QED
    BY <1>1, <2>1, <2>2, KeyGrowsSays
<1>6. ASSUME faults = 0, Told(d, k)
      PROVE  KeyExact(d, k, row)
  <2>1. Told(c, k)
    BY <1>1, <1>6, KeyGrowsSays
  <2>2. KeyExact(c, k, row) /\ (row # NoRow => KeyWrittenIn(c, k, row))
    BY <1>6, <2>1 DEF KeyInv
  <2>3. row # NoRow => row.height \in 0..N
    BY <1>1, <2>2, KeyWrittenAsChain
  <2> QED
    BY <1>1, <2>2, <2>3, KeyGrowsSays
<1> QED
  BY <1>1, <1>3, <1>4, <1>5, <1>6 DEF KeyInv, Running

(* A row of the genesis is written, before there is a block.               *)
LEMMA StoreGenesisKeysInv ==
    ASSUME NEW k \in AccessKeys, KeyInv(k), Base, GenesisFirst, StoreGenesis
    PROVE  KeyInv(k)'
<1>1. /\ UNCHANGED <<chain, keyTask, pc, faults>>
      /\ \/ keyRows'[k] = keyRows[k]
         \/ k \in GenesisKeys /\ keyRows[k] = NoRow /\ keyRows'[k] = GenesisRow
      /\ LegalChain(chain)
  BY GenesisRowsStep DEF StoreGenesis, Base, Sound
<1>2. CASE keyRows'[k] = keyRows[k]
  BY <1>1, <1>2 DEF KeyInv, Running
<1>3. CASE k \in GenesisKeys /\ keyRows[k] = NoRow /\ keyRows'[k] = GenesisRow
  <2>1. chain = <<>> /\ Len(chain) = 0
    BY <1>3 DEF GenesisFirst, AllKeys, KeyStored
  <2>2. KeyWrittenIn(chain, k, GenesisRow)
    BY <1>3 DEF KeyWrittenIn
  <2>3. KeyExact(chain, k, GenesisRow)
    <3>1. GenesisRow.height = 0 /\ GenesisRow.created = NoReceipt /\ GenesisRow.deleted = NoReceipt
      BY DEF GenesisRow
    <3>2. WorldIn(chain, 0).keys[k] = Fresh(NoReceipt)
      BY <1>1, <1>3, ChainFacts DEF GenesisWorld
    <3> QED
      BY <3>1, <3>2, EntryFacts DEF KeyExact, Says, ReceiptIds
  <2> QED
    BY <1>1, <1>3, <2>1, <2>2, <2>3 DEF KeyInv
<1> QED
  BY <1>1, <1>2, <1>3

(* Every step.                                                             *)
LEMMA KeyStepInv ==
    ASSUME StrictMode, NEW k \in AccessKeys, KeyInv(k), Base, OneAtATime, GenesisFirst,
           GenesisFirst', [Next]_vars
    PROVE  KeyInv(k)'
<1>1. faults \in Nat /\ pc = [x \in Blocks |-> pc[x]]
  BY TablesConstants DEF Base, Positions
<1>2. StoreGenesis => KeyInv(k)'
  BY StoreGenesisKeysInv
<1>3. NewBlock => KeyInv(k)'
  BY KeyNewBlockInv
<1>4. ASSUME NEW b \in Blocks, Start(b) \/ StoreKeys(b) \/ Finish(b)
      PROVE  KeyInv(k)'
  BY <1>4, KeyStartInv, StoreKeysInv, KeyFinishInv
<1>5. ASSUME NEW b \in Blocks, StoreAccounts(b)
      PROVE  KeyInv(k)'
  <2>1. UNCHANGED <<chain, keyRows, keyTask, pc, faults>>
    BY <1>5 DEF StoreAccounts
  <2> QED
    BY <2>1, KeyQuietStepInv
<1>6. ASSUME NEW b \in Blocks, Fail(b)
      PROVE  KeyInv(k)'
  <2>1. /\ UNCHANGED <<chain, keyRows>> /\ faults' # 0
        /\ \A x \in Blocks : pc'[x] = IF x = b THEN "lost" ELSE pc[x]
        /\ \A x \in Blocks : x # b => keyTask'[x] = keyTask[x]
    BY <1>1, <1>6 DEF Fail, tables, Base, Sound, TasksFit
  <2> QED
    BY <2>1, KeyQuietStepInv
<1>7. ASSUME NEW b \in Blocks, Restart(b)
      PROVE  KeyInv(k)'
  <2>1. /\ UNCHANGED <<chain, keyRows>> /\ (faults' = 0 => faults = 0)
        /\ \A x \in Blocks : pc'[x] = IF x >= b THEN "idle"
                                      ELSE IF pc[x] = "done" THEN "done" ELSE "lost"
    BY <1>1, <1>7 DEF Restart, tables
  <2>2. \A x \in Blocks : pc'[x] # "running" /\ (pc'[x] = "done" => pc[x] = "done")
    BY <2>1
  <2> QED
    BY <2>1, <2>2, KeyQuietStepInv
<1>8. ASSUME StreamEnds \/ UNCHANGED vars
      PROVE  KeyInv(k)'
  <2>1. UNCHANGED <<chain, keyRows, keyTask, pc, faults>>
    BY <1>8 DEF StreamEnds, vars, tables
  <2> QED
    BY <2>1, KeyQuietStepInv
<1> QED
  BY <1>2, <1>3, <1>4, <1>5, <1>6, <1>7, <1>8 DEF Next
-----------------------------------------------------------------------------
(* The invariant of all keys.                                              *)
LEMMA KeysInvariant == OneBlock /\ StrictMode => (Spec => []KeysInv)
<1> SUFFICES ASSUME OneBlock, StrictMode PROVE Spec => []KeysInv
  OBVIOUS
<1>1. Init => KeysInv
  <2> SUFFICES ASSUME Init, NEW k \in AccessKeys PROVE KeyInv(k)
    BY DEF KeysInv
  <2>1. chain = <<>> /\ Len(chain) = 0 /\ keyRows[k] = NoRow
    BY DEF Init
  <2> QED
    BY <2>1 DEF KeyInv, KeyExact
<1>2. Base /\ OneAtATime /\ GenesisFirst /\ GenesisFirst' /\ KeysInv /\ [Next]_vars => KeysInv'
  BY KeyStepInv DEF KeysInv
<1> QED
  BY <1>1, <1>2, ProgressInvariant, PTL DEF Spec

(* Once caught up, the last row of a key is in force.                      *)
LEMMA KeyCaughtUpRow ==
    ASSUME GenesisProgress, Base, KeysInv, CaughtUp, NEW k \in AccessKeys
    PROVE  /\ LegalChain(chain) /\ Len(chain) \in 0..Len(chain)
           /\ World = WorldIn(chain, Len(chain))
           /\ keyRows[k] \in Rows \cup {NoRow}
           /\ IsLastKey(chain, k, keyRows[k], Len(chain))
           /\ keyRows[k] # NoRow =>
                 KeyWrittenIn(chain, k, keyRows[k]) /\ keyRows[k].height <= Len(chain)
<1>1. /\ LegalChain(chain) /\ keyRows[k] \in Rows \cup {NoRow} /\ Len(chain) \in Nat
      /\ World = WorldIn(chain, Len(chain))
  BY ChainFacts, InChain DEF Base, Sound, RowsFit, World
<1>2. keyRows[k] # NoRow =>
         KeyWrittenIn(chain, k, keyRows[k]) /\ keyRows[k].height \in 0..Len(chain)
  BY <1>1, KeyWrittenAsChain DEF KeysInv, KeyInv
<1>3. Done(pc, Len(chain)) /\ Len(chain) \in 0..Len(chain)
  BY <1>1 DEF CaughtUp, Done
<1>4. IsLastKey(chain, k, keyRows[k], Len(chain))
  <2>1. CASE chain # <<>>
    BY <1>3, <2>1 DEF KeysInv, KeyInv
  <2>2. CASE chain = <<>>
    <3>1. Len(chain) = 0 /\ (k \in GenesisKeys => keyRows[k] # NoRow)
      BY <2>2 DEF CaughtUp, GenesisProgress, AllKeys, KeyStored
    <3>2. WorldIn(chain, 0).keys[k] # NoRow => k \in GenesisKeys
      BY <1>1, ChainFacts DEF GenesisWorld
    <3> QED
      BY <3>1, <3>2 DEF IsLastKey
  <2> QED
    BY <2>1, <2>2
<1> QED
  BY <1>1, <1>2, <1>3, <1>4

(* One block at a time in strict mode, a living row in the table           *)
(* access_keys has an account that exists, whenever all blocks are         *)
(* handled: handle_access_keys leaves no key of a deleted account behind,  *)
(* whatever a block does to the account and its keys, and whatever failed  *)
(* or was handled again.                                                   *)
THEOREM NoKeyOutlives == OneBlock /\ StrictMode => (Spec => []NoKeyOutlivesOwner)
<1> SUFFICES ASSUME OneBlock, StrictMode PROVE Spec => []NoKeyOutlivesOwner
  OBVIOUS
<1>1. GenesisProgress /\ Base /\ KeysInv => NoKeyOutlivesOwner
  <2> SUFFICES ASSUME GenesisProgress, Base, KeysInv, CaughtUp, NEW k \in AccessKeys,
                      Alive(keyRows[k])
               PROVE  Alive(World.accounts[k[2]])
    BY DEF NoKeyOutlivesOwner
  <2>1. /\ LegalChain(chain) /\ Len(chain) \in 0..Len(chain)
        /\ World = WorldIn(chain, Len(chain))
        /\ keyRows[k] \in Rows \cup {NoRow}
        /\ IsLastKey(chain, k, keyRows[k], Len(chain))
        /\ keyRows[k] # NoRow =>
              KeyWrittenIn(chain, k, keyRows[k]) /\ keyRows[k].height <= Len(chain)
    BY KeyCaughtUpRow
  <2>2. Alive(WorldIn(chain, Len(chain)).accounts[k[2]])
    BY <2>1, OwnerAsChain
  <2> QED
    BY <2>1, <2>2
<1> QED
  BY <1>1, KeysInvariant, ProgressInvariant, PTL

(* One block at a time in strict mode, a key of a named account has a      *)
(* living row exactly if it is a key of the account on the chain,          *)
(* whenever all blocks are handled, unless a block deletes the account     *)
(* twice, or deletes it and touches a key of it. If no block was left      *)
(* behind the row names the receipts that created and deleted the key.     *)
THEOREM KeysAreOfChain == OneBlock => (Spec => []KeysOfChain)
<1> SUFFICES ASSUME OneBlock PROVE Spec => []KeysOfChain
  OBVIOUS
<1>1. CASE StrictMode
  <2>1. GenesisProgress /\ Base /\ KeysInv => KeysOfChain
    <3> SUFFICES ASSUME GenesisProgress, Base, KeysInv, CaughtUp, NEW k \in AccessKeys,
                        k[2] \notin Hex, ~KeysAmidDeletion(k[2])
                 PROVE  /\ Alive(keyRows[k]) <=> Alive(World.keys[k])
                        /\ faults = 0 => Says(keyRows[k], World.keys[k])
      BY DEF KeysOfChain
    <3>1. /\ LegalChain(chain) /\ Len(chain) \in 0..Len(chain)
          /\ World = WorldIn(chain, Len(chain))
          /\ keyRows[k] \in Rows \cup {NoRow}
          /\ IsLastKey(chain, k, keyRows[k], Len(chain))
          /\ keyRows[k] # NoRow =>
                KeyWrittenIn(chain, k, keyRows[k]) /\ keyRows[k].height <= Len(chain)
      BY KeyCaughtUpRow
    <3>2. \A h \in 1..Len(chain) : DOMAIN chain[h] = 1..Len(chain[h])
      BY <3>1 DEF LegalChain, IsLegalBlock
    <3>3. Told(chain, k)
      BY <3>2 DEF Told, Disturbs, KeysAmidDeletion
    <3>4. Alive(keyRows[k]) <=> Alive(WorldIn(chain, Len(chain)).keys[k])
      BY <3>1, <3>3, KeyAliveAsChain
    <3>5. ASSUME faults = 0
          PROVE  Says(keyRows[k], WorldIn(chain, Len(chain)).keys[k])
      <4>1. KeyExact(chain, k, keyRows[k])
        BY <3>3, <3>5 DEF KeysInv, KeyInv
      <4> QED
        BY <3>1, <3>3, <4>1, KeyExactAsChain
    <3> QED
      BY <3>1, <3>4, <3>5
  <2>2. Spec => []KeysInv
    BY <1>1, KeysInvariant
  <2> QED
    BY <2>1, <2>2, ProgressInvariant, PTL
<1>2. CASE ~StrictMode
  <2>1. Base => KeysOfChain
    BY <1>2 DEF KeysOfChain
  <2> QED
    BY <2>1, ProgressInvariant, PTL
<1> QED
  BY <1>1, <1>2
==============================================================================
