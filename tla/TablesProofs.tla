---------------------------- MODULE TablesProofs -----------------------------
(***************************************************************************)
(* What holds of the tables accounts and access_keys for every chain,      *)
(* also one whose blocks act on many accounts, every genesis and batch     *)
(* size, any concurrency, and any number of failing blocks and restarts:   *)
(* the rows only advance, the genesis is stored, and the variables keep    *)
(* their types, since every row is of the genesis or written by a block    *)
(* of the chain.                                                           *)
(***************************************************************************)
EXTENDS OutcomeTables, ChainProofs

(* A row has a height.                                                     *)
IsRow(row) == "height" \in DOMAIN row /\ row.height \in Nat

TablesOfRows ==
    /\ accountRows = [a \in Accounts |-> accountRows[a]]
    /\ keyRows = [k \in AccessKeys |-> keyRows[k]]
    /\ \A a \in Accounts : accountRows[a] = NoRow \/ IsRow(accountRows[a])
    /\ \A k \in AccessKeys : keyRows[k] = NoRow \/ IsRow(keyRows[k])

(* What may become of one row.                                             *)
GoodChange(old, new) ==
    /\ Advances(old, new)
    /\ old = NoRow \/ IsRow(old) => new = NoRow \/ IsRow(new)

(* A row may stay as it is.                                                *)
LEMMA Unchanged == \A row : GoodChange(row, row)
BY DEF GoodChange, Advances

(* No row of a table is NoRow: a statement may fill a place that is empty,  *)
(* or write over a row of an older block.                                  *)
LEMMA Changed ==
    /\ \A new : IsRow(new) => GoodChange(NoRow, new)
    /\ \A old, new : IsRow(old) /\ IsRow(new) /\ old.height < new.height
                     => GoodChange(old, new)
<1>1. \A row : IsRow(row) => row # NoRow
  <2>1. "height" \notin DOMAIN NoRow
    BY StateConstants
  <2> QED
    BY <2>1 DEF IsRow
<1>2. \A old, new : IsRow(old) /\ IsRow(new) /\ old.height < new.height
                   => new.height > old.height
  BY DEF IsRow
<1> QED
  BY <1>1, <1>2 DEF GoodChange, Advances

(* A statement that marks a row as deleted.                                *)
LEMMA Marked ==
    ASSUME NEW old, IsRow(old), NEW d, NEW h \in Nat, old.height < h
    PROVE  GoodChange(old, [old EXCEPT !.deleted = d, !.height = h])
<1> DEFINE new == [old EXCEPT !.deleted = d, !.height = h]
<1>1. DOMAIN new = DOMAIN old
  BY Zenon
<1>2. new.height = h
  BY Zenon DEF IsRow
<1> HIDE DEF new
<1>3. IsRow(new)
  BY <1>1, <1>2 DEF IsRow
<1>4. GoodChange(old, new)
  BY <1>2, <1>3, Changed
<1> QED
  BY <1>4 DEF new
-----------------------------------------------------------------------------
(* Every row of the table changes well.                                    *)
AccountsChangeWell ==
    /\ accountRows' = [a \in Accounts |-> accountRows'[a]]
    /\ \A a \in Accounts : GoodChange(accountRows[a], accountRows'[a])

KeysChangeWell ==
    /\ keyRows' = [k \in AccessKeys |-> keyRows'[k]]
    /\ \A k \in AccessKeys : GoodChange(keyRows[k], keyRows'[k])

(* One statement of handle_accounts.                                       *)
LEMMA AccountStatement ==
    ASSUME TablesOfRows, NEW h \in Blocks, AccountStep(h)
    PROVE  AccountsChangeWell
<1>1. h \in Nat
  BY StateConstants DEF Blocks
<1>2. \A a \in Accounts : IsRow(AccountRow(h, a)) /\ AccountRow(h, a).height = h
  BY <1>1 DEF AccountRow, IsRow
<1>3. CASE InsertAccounts(h)
  <2>1. accountRows' = [a \in Accounts |->
            IF a \in ToCreate(h) /\ accountRows[a] = NoRow THEN AccountRow(h, a)
                                                           ELSE accountRows[a]]
    BY <1>3 DEF InsertAccounts
  <2>2. \A a \in Accounts : GoodChange(accountRows[a], accountRows'[a])
    BY <1>1, <1>2, <2>1, Unchanged, Changed
  <2> QED
    BY <2>1, <2>2 DEF AccountsChangeWell
<1>4. ASSUME NEW a \in Accounts, DeleteAccount(h, a)
      PROVE  AccountsChangeWell
  <2>1. CASE ~Older(accountRows[a], h)
    <3>1. accountRows' = accountRows
      BY <1>4, <2>1 DEF DeleteAccount
    <3> QED
      BY <3>1, Unchanged DEF AccountsChangeWell, TablesOfRows
  <2>2. CASE Older(accountRows[a], h)
    <3> DEFINE d == AccountModels(h)[a].deleted
    <3>2. accountRows' =
            [accountRows EXCEPT ![a] = [accountRows[a] EXCEPT !.deleted = d, !.height = h]]
      BY <1>4, <2>2 DEF DeleteAccount
    <3> HIDE DEF d
    <3>3. accountRows[a] # NoRow /\ accountRows[a].height < h /\ IsRow(accountRows[a])
      BY <2>2 DEF Older, TablesOfRows
    <3>4. GoodChange(accountRows[a], [accountRows[a] EXCEPT !.deleted = d, !.height = h])
      BY <1>1, <3>3, Marked
    <3> QED
      BY <3>2, <3>4, Unchanged DEF AccountsChangeWell, TablesOfRows
  <2> QED
    BY <2>1, <2>2
<1>5. ASSUME NEW a \in Accounts, UpdateAccount(h, a)
      PROVE  AccountsChangeWell
  <2>1. CASE accountRows' = accountRows
    BY <2>1, Unchanged DEF AccountsChangeWell, TablesOfRows
  <2>2. CASE /\ Older(accountRows[a], h)
             /\ accountRows' = [accountRows EXCEPT ![a] = AccountRow(h, a)]
    <3>1. accountRows[a] # NoRow /\ accountRows[a].height < h /\ IsRow(accountRows[a])
      BY <2>2 DEF Older, TablesOfRows
    <3>2. GoodChange(accountRows[a], AccountRow(h, a))
      BY <1>1, <1>2, <3>1, Changed
    <3> QED
      BY <2>2, <3>2, Unchanged DEF AccountsChangeWell, TablesOfRows
  <2> QED
    BY <1>5, <2>1, <2>2 DEF UpdateAccount
<1> QED
  BY <1>3, <1>4, <1>5 DEF AccountStep

(* One statement of handle_access_keys.                                    *)
LEMMA KeyStatement ==
    ASSUME TablesOfRows, NEW h \in Blocks, KeyStep(h)
    PROVE  KeysChangeWell
<1>1. h \in Nat
  BY StateConstants DEF Blocks
<1>2. \A k \in AccessKeys : IsRow(KeyRow(h, k)) /\ KeyRow(h, k).height = h
  BY <1>1 DEF KeyRow, IsRow
<1>3. CASE InsertKeys(h)
  <2>1. keyRows' = [k \in AccessKeys |->
            IF k \in ToAdd(h) /\ keyRows[k] = NoRow THEN KeyRow(h, k) ELSE keyRows[k]]
    BY <1>3 DEF InsertKeys
  <2>2. \A k \in AccessKeys : GoodChange(keyRows[k], keyRows'[k])
    BY <1>1, <1>2, <2>1, Unchanged, Changed
  <2> QED
    BY <2>1, <2>2 DEF KeysChangeWell
<1>4. ASSUME NEW a \in Accounts, DeleteKeysOf(h, a)
      PROVE  KeysChangeWell
  <2> DEFINE d == KeyModels(h).owners[a]
  <2>1. keyRows' = [k \in AccessKeys |->
            IF k[2] = a /\ Alive(keyRows[k]) /\ OlderKey(k, h)
            THEN [keyRows[k] EXCEPT !.deleted = d, !.height = h] ELSE keyRows[k]]
    BY <1>4 DEF DeleteKeysOf
  <2> HIDE DEF d
  <2>2. ASSUME NEW k \in AccessKeys PROVE GoodChange(keyRows[k], keyRows'[k])
    <3>1. CASE keyRows'[k] = keyRows[k]
      BY <3>1, Unchanged
    <3>2. CASE keyRows'[k] # keyRows[k]
      <4>1. /\ OlderKey(k, h)
            /\ keyRows'[k] = [keyRows[k] EXCEPT !.deleted = d, !.height = h]
        BY <2>1, <3>2
      <4>2. keyRows[k] # NoRow /\ keyRows[k].height < h /\ IsRow(keyRows[k])
        BY <4>1 DEF OlderKey, TablesOfRows
      <4>3. GoodChange(keyRows[k], [keyRows[k] EXCEPT !.deleted = d, !.height = h])
        BY <1>1, <4>2, Marked
      <4> QED
        BY <4>1, <4>3, Zenon
    <3> QED
      BY <3>1, <3>2
  <2> QED
    BY <2>1, <2>2 DEF KeysChangeWell
<1>5. ASSUME NEW k \in AccessKeys, UpdateKey(h, k) \/ AddKey(h, k)
      PROVE  KeysChangeWell
  <2>1. CASE keyRows' = keyRows
    BY <2>1, Unchanged DEF KeysChangeWell, TablesOfRows
  <2>2. CASE keyRows' # keyRows
    <3>1. OlderKey(k, h)
      BY <1>5, <2>2 DEF UpdateKey, AddKey
    <3>2. keyRows[k] # NoRow /\ keyRows[k].height < h /\ IsRow(keyRows[k])
      BY <3>1 DEF OlderKey, TablesOfRows
    <3>3. CASE AddKey(h, k)
      <4>1. keyRows' = [keyRows EXCEPT ![k] = KeyRow(h, k)]
        BY <3>1, <3>3 DEF AddKey
      <4>2. GoodChange(keyRows[k], KeyRow(h, k))
        BY <1>1, <1>2, <3>2, Changed
      <4> QED
        BY <4>1, <4>2, Unchanged DEF KeysChangeWell, TablesOfRows
    <3>4. CASE UpdateKey(h, k)
      <4> DEFINE d == KeyModels(h).keys[k].deleted
      <4>2. keyRows' =
              [keyRows EXCEPT ![k] = [keyRows[k] EXCEPT !.deleted = d, !.height = h]]
        BY <3>1, <3>4 DEF UpdateKey
      <4> HIDE DEF d
      <4>3. GoodChange(keyRows[k], [keyRows[k] EXCEPT !.deleted = d, !.height = h])
        BY <1>1, <3>2, Marked
      <4> QED
        BY <4>2, <4>3, Unchanged DEF KeysChangeWell, TablesOfRows
    <3> QED
      BY <1>5, <3>3, <3>4
  <2> QED
    BY <2>1, <2>2
<1> QED
  BY <1>3, <1>4, <1>5 DEF KeyStep

(* One step of store_genesis_records.                                      *)
LEMMA GenesisStatement ==
    ASSUME TablesOfRows, GenesisStep
    PROVE  AccountsChangeWell /\ KeysChangeWell
<1>1. IsRow(GenesisRow)
  BY DEF GenesisRow, IsRow
<1>2. accountRows' = accountRows \/ InsertGenesisAccounts
  BY DEF GenesisStep, FlushAccounts, FlushKeys, ReadRecord, EndOfRecords,
         StoreLeftAccounts, StoreLeftKeys
<1>3. keyRows' = keyRows \/ InsertGenesisKeys
  BY DEF GenesisStep, FlushAccounts, FlushKeys, ReadRecord, EndOfRecords,
         StoreLeftAccounts, StoreLeftKeys
<1>4. AccountsChangeWell
  <2>1. CASE accountRows' = accountRows
    BY <2>1, Unchanged DEF AccountsChangeWell, TablesOfRows
  <2>2. CASE InsertGenesisAccounts
    BY <1>1, <2>2, Unchanged, Changed DEF InsertGenesisAccounts, AccountsChangeWell
  <2> QED
    BY <1>2, <2>1, <2>2
<1>5. KeysChangeWell
  <2>1. CASE keyRows' = keyRows
    BY <2>1, Unchanged DEF KeysChangeWell, TablesOfRows
  <2>2. CASE InsertGenesisKeys
    BY <1>1, <2>2, Unchanged, Changed DEF InsertGenesisKeys, KeysChangeWell
  <2> QED
    BY <1>3, <2>1, <2>2
<1> QED
  BY <1>4, <1>5

(* Every step changes the rows of both tables well.                        *)
LEMMA EveryStep ==
    ASSUME TablesOfRows, [Next]_vars
    PROVE  AccountsChangeWell /\ KeysChangeWell
<1>1. CASE UNCHANGED tables
  BY <1>1, Unchanged DEF tables, AccountsChangeWell, KeysChangeWell, TablesOfRows
<1>2. CASE StoreGenesis
  BY <1>2, GenesisStatement DEF StoreGenesis
<1>3. ASSUME NEW h \in Blocks, StoreAccounts(h) \/ StoreKeys(h)
      PROVE  AccountsChangeWell /\ KeysChangeWell
  <2>1. CASE StoreAccounts(h)
    BY <2>1, AccountStatement, Unchanged DEF StoreAccounts, KeysChangeWell, TablesOfRows
  <2>2. CASE StoreKeys(h)
    BY <2>2, KeyStatement, Unchanged DEF StoreKeys, AccountsChangeWell, TablesOfRows
  <2> QED
    BY <1>3, <2>1, <2>2
<1>4. ASSUME NEW h \in Blocks, Start(h) \/ Finish(h) \/ Fail(h) \/ Restart(h)
      PROVE  UNCHANGED tables
  BY <1>4 DEF Start, Finish, Fail, Restart
<1>5. NewBlock \/ StreamEnds \/ UNCHANGED vars => UNCHANGED tables
  BY DEF NewBlock, StreamEnds, vars
<1> QED
  BY <1>1, <1>2, <1>3, <1>4, <1>5 DEF Next

(* The tables hold rows only.                                              *)
LEMMA TablesInvariant == Spec => []TablesOfRows
<1>1. Init => TablesOfRows
  BY DEF Init, TablesOfRows
<1>2. TablesOfRows /\ [Next]_vars => TablesOfRows'
  <2> SUFFICES ASSUME TablesOfRows, [Next]_vars PROVE TablesOfRows'
    OBVIOUS
  <2>1. AccountsChangeWell /\ KeysChangeWell
    BY EveryStep
  <2> QED
    BY <2>1 DEF AccountsChangeWell, KeysChangeWell, GoodChange, TablesOfRows
<1> QED
  BY <1>1, <1>2, PTL DEF Spec

(* No statement takes a row away or back to the state of an older block,   *)
(* however the statements of a block interleave with those of the others,   *)
(* and whatever failed or is handled again.                                *)
THEOREM RowsAdvance == Spec => RowsOnlyAdvance
<1>1. TablesOfRows /\ [Next]_vars =>
        [/\ \A a \in Accounts : Advances(accountRows[a], accountRows'[a])
         /\ \A k \in AccessKeys : Advances(keyRows[k], keyRows'[k])]_vars
  BY EveryStep DEF AccountsChangeWell, KeysChangeWell, GoodChange
<1> QED
  BY <1>1, TablesInvariant, PTL DEF Spec, RowsOnlyAdvance
-----------------------------------------------------------------------------
(* The genesis: what was read of it is in the table or in its vector, and   *)
(* each phase leaves one table complete.                                   *)
AccountStored(a) == accountRows[a] # NoRow
KeyStored(k)     == keyRows[k] # NoRow

AccountsRead ==
    \A i \in 1..recordsRead : \A a \in Accounts :
        GenesisRecords[i] = <<"Account", a>> =>
            AccountStored(a) \/ a \in Seqs!ToSet(accountsToStore)

KeysRead ==
    \A i \in 1..recordsRead : \A k \in AccessKeys :
        GenesisRecords[i] = <<"AccessKey", k>> =>
            KeyStored(k) \/ k \in Seqs!ToSet(keysToStore)

AllAccounts == \A a \in Genesis : AccountStored(a)
AllKeys     == \A k \in GenesisKeys : KeyStored(k)

GenesisProgress ==
    /\ phase \in {"records", "accounts", "keys", "stream"}
    /\ recordsRead \in 0..Len(GenesisRecords)
    /\ accountsToStore \in Seq(Accounts) /\ keysToStore \in Seq(AccessKeys)
    /\ phase \in {"accounts", "keys"} => recordsRead = Len(GenesisRecords)
    /\ phase \in {"records", "accounts"} => AccountsRead
    /\ phase \in {"records", "accounts", "keys"} => KeysRead
    /\ phase \in {"keys", "stream"} => AllAccounts
    /\ phase = "stream" => AllKeys

(* A stored row stays.                                                     *)
LEMMA StoredStays ==
    ASSUME TablesOfRows, [Next]_vars
    PROVE  /\ \A a \in Accounts : AccountStored(a) => AccountStored(a)'
           /\ \A k \in AccessKeys : KeyStored(k) => KeyStored(k)'
BY EveryStep DEF AccountsChangeWell, KeysChangeWell, GoodChange, Advances,
                 AccountStored, KeyStored

(* What is read of the genesis, when all is read.                          *)
LEMMA AllRead ==
    ASSUME recordsRead = Len(GenesisRecords)
    PROVE  /\ AccountsRead =>
                 \A a \in Genesis : AccountStored(a) \/ a \in Seqs!ToSet(accountsToStore)
           /\ KeysRead =>
                 \A k \in GenesisKeys : KeyStored(k) \/ k \in Seqs!ToSet(keysToStore)
<1>1. DOMAIN GenesisRecords = 1..recordsRead
  BY GenesisConstants
<1>2. ASSUME NEW a \in Genesis, AccountsRead
      PROVE  AccountStored(a) \/ a \in Seqs!ToSet(accountsToStore)
  <2>1. a \in Accounts /\ <<"Account", a>> \in Seqs!ToSet(GenesisRecords)
    BY RecordsOfGenesis, StateConstants
  <2>2. PICK i \in 1..recordsRead : GenesisRecords[i] = <<"Account", a>>
    BY <1>1, <2>1 DEF Seqs!ToSet
  <2> QED
    BY <1>2, <2>1, <2>2 DEF AccountsRead
<1>3. ASSUME NEW k \in GenesisKeys, KeysRead
      PROVE  KeyStored(k) \/ k \in Seqs!ToSet(keysToStore)
  <2>1. k \in AccessKeys /\ <<"AccessKey", k>> \in Seqs!ToSet(GenesisRecords)
    BY RecordsOfGenesis, StateConstants DEF AccessKeys
  <2>2. PICK i \in 1..recordsRead : GenesisRecords[i] = <<"AccessKey", k>>
    BY <1>1, <2>1 DEF Seqs!ToSet
  <2> QED
    BY <1>3, <2>1, <2>2 DEF KeysRead
<1> QED
  BY <1>2, <1>3

(* An inserted vector is stored.                                           *)
LEMMA VectorStored ==
    /\ InsertGenesisAccounts =>
          /\ \A a \in Seqs!ToSet(accountsToStore) \cap Accounts : AccountStored(a)'
          /\ accountsToStore' \in Seq(Accounts)
    /\ InsertGenesisKeys =>
          /\ \A k \in Seqs!ToSet(keysToStore) \cap AccessKeys : KeyStored(k)'
          /\ keysToStore' \in Seq(AccessKeys)
<1>1. GenesisRow # NoRow
  BY Changed, StateConstants DEF GenesisRow
<1>2. ASSUME InsertGenesisAccounts
      PROVE  /\ \A a \in Seqs!ToSet(accountsToStore) \cap Accounts : AccountStored(a)'
             /\ accountsToStore' \in Seq(Accounts)
  <2>1. /\ accountRows' = [a \in Accounts |->
              IF a \in Seqs!ToSet(accountsToStore) /\ accountRows[a] = NoRow
              THEN GenesisRow ELSE accountRows[a]]
        /\ accountsToStore' = <<>>
    BY <1>2 DEF InsertGenesisAccounts
  <2>2. \A a \in Seqs!ToSet(accountsToStore) \cap Accounts : accountRows'[a] # NoRow
    BY <1>1, <2>1
  <2> QED
    BY <2>1, <2>2 DEF AccountStored
<1>3. ASSUME InsertGenesisKeys
      PROVE  /\ \A k \in Seqs!ToSet(keysToStore) \cap AccessKeys : KeyStored(k)'
             /\ keysToStore' \in Seq(AccessKeys)
  <2>1. /\ keyRows' = [k \in AccessKeys |->
              IF k \in Seqs!ToSet(keysToStore) /\ keyRows[k] = NoRow
              THEN GenesisRow ELSE keyRows[k]]
        /\ keysToStore' = <<>>
    BY <1>3 DEF InsertGenesisKeys
  <2>2. \A k \in Seqs!ToSet(keysToStore) \cap AccessKeys : keyRows'[k] # NoRow
    BY <1>1, <2>1
  <2> QED
    BY <2>1, <2>2 DEF KeyStored
<1> QED
  BY <1>2, <1>3

(* A vector only grows by what is read.                                    *)
LEMMA CollectedFacts ==
    ASSUME NEW S, NEW v \in Seq(S), NEW record, NEW kind,
           record[1] = kind => record[2] \in S
    PROVE  /\ Collected(kind, v, record) \in Seq(S)
           /\ \A x \in Seqs!ToSet(v) : x \in Seqs!ToSet(Collected(kind, v, record))
           /\ record[1] = kind => record[2] \in Seqs!ToSet(Collected(kind, v, record))
<1>1. CASE record[1] # kind
  BY <1>1 DEF Collected
<1>2. CASE record[1] = kind
  <2> DEFINE w == Append(v, record[2])
  <2>1. /\ w \in Seq(S) /\ Len(w) = Len(v) + 1 /\ Len(v) \in Nat
        /\ \A i \in 1..Len(v) : w[i] = v[i]
        /\ w[Len(v) + 1] = record[2]
        /\ DOMAIN w = 1..(Len(v) + 1) /\ DOMAIN v = 1..Len(v)
    BY <1>2
  <2> HIDE DEF w
  <2>2. /\ \A x \in Seqs!ToSet(v) : x \in Seqs!ToSet(w)
        /\ record[2] \in Seqs!ToSet(w)
    BY <2>1 DEF Seqs!ToSet
  <2> QED
    BY <1>2, <2>1, <2>2 DEF Collected, w
<1> QED
  BY <1>1, <1>2

(* A step of store_genesis_records loses none of the records it has read.  *)
LEMMA GenesisSteps ==
    ASSUME TablesOfRows, GenesisProgress, StoreGenesis
    PROVE  GenesisProgress'
<1> USE DEF GenesisProgress
<1>1. GenesisStep /\ [Next]_vars
  BY DEF StoreGenesis, Next
<1>2. /\ \A a \in Accounts : AccountStored(a) => AccountStored(a)'
      /\ \A k \in AccessKeys : KeyStored(k) => KeyStored(k)'
  BY <1>1, StoredStays
<1>3. Genesis \subseteq Accounts /\ GenesisKeys \subseteq AccessKeys
  BY StateConstants DEF AccessKeys
<1>4. /\ AllAccounts => AllAccounts'
      /\ AllKeys => AllKeys'
  BY <1>2, <1>3 DEF AllAccounts, AllKeys
<1>5. UNCHANGED <<recordsRead, accountsToStore>> => (AccountsRead => AccountsRead')
  BY <1>2 DEF AccountsRead
<1>6. UNCHANGED <<recordsRead, keysToStore>> => (KeysRead => KeysRead')
  BY <1>2 DEF KeysRead
<1>7. ASSUME InsertGenesisAccounts, UNCHANGED recordsRead, AccountsRead
      PROVE  AccountsRead'
  BY <1>2, <1>7, VectorStored DEF AccountsRead
<1>8. ASSUME InsertGenesisKeys, UNCHANGED recordsRead, KeysRead
      PROVE  KeysRead'
  BY <1>2, <1>8, VectorStored DEF KeysRead
<1>9. CASE FlushAccounts
  BY <1>4, <1>6, <1>7, <1>9, VectorStored DEF FlushAccounts, Reading
<1>10. CASE FlushKeys
  BY <1>4, <1>5, <1>8, <1>10, VectorStored DEF FlushKeys, Reading
<1>11. CASE ReadRecord
  <2> DEFINE n == recordsRead + 1
             record == GenesisRecords[n]
             as == Collected("Account", accountsToStore, record)
             ks == Collected("AccessKey", keysToStore, record)
  <2>1. /\ phase = "records" /\ n \in 1..Len(GenesisRecords)
        /\ recordsRead' = n /\ phase' = phase
        /\ accountsToStore' = as /\ keysToStore' = ks
    BY <1>11 DEF ReadRecord, Reading
  <2>2. record \in StateRecords
    BY <2>1, GenesisConstants
  <2>3. /\ record[1] = "Account" => record[2] \in Accounts
        /\ record[1] = "AccessKey" => record[2] \in AccessKeys
    BY <2>2 DEF StateRecords
  <2>4. /\ as \in Seq(Accounts)
        /\ \A x \in Seqs!ToSet(accountsToStore) : x \in Seqs!ToSet(as)
        /\ record[1] = "Account" => record[2] \in Seqs!ToSet(as)
    BY <2>3, CollectedFacts
  <2>5. /\ ks \in Seq(AccessKeys)
        /\ \A x \in Seqs!ToSet(keysToStore) : x \in Seqs!ToSet(ks)
        /\ record[1] = "AccessKey" => record[2] \in Seqs!ToSet(ks)
    BY <2>3, CollectedFacts
  <2>6. \A i \in 1..n : i \in 1..recordsRead \/ GenesisRecords[i] = record
    BY <2>1
  <2> HIDE DEF n, record, as, ks
  <2>7. AccountsRead'
    <3>1. ASSUME NEW i \in 1..n, NEW a \in Accounts, GenesisRecords[i] = <<"Account", a>>
          PROVE  AccountStored(a)' \/ a \in Seqs!ToSet(as)
      <4>1. CASE i \in 1..recordsRead
        BY <1>2, <2>1, <2>4, <3>1, <4>1 DEF AccountsRead
      <4>2. CASE GenesisRecords[i] = record
        <5>1. record[1] = "Account" /\ record[2] = a
          BY <3>1, <4>2
        <5> QED
          BY <2>4, <5>1
      <4> QED
        BY <2>6, <4>1, <4>2
    <3> QED
      BY <2>1, <3>1 DEF AccountsRead
  <2>8. KeysRead'
    <3>1. ASSUME NEW i \in 1..n, NEW k \in AccessKeys, GenesisRecords[i] = <<"AccessKey", k>>
          PROVE  KeyStored(k)' \/ k \in Seqs!ToSet(ks)
      <4>1. CASE i \in 1..recordsRead
        BY <1>2, <2>1, <2>5, <3>1, <4>1 DEF KeysRead
      <4>2. CASE GenesisRecords[i] = record
        <5>1. record[1] = "AccessKey" /\ record[2] = k
          BY <3>1, <4>2
        <5> QED
          BY <2>5, <5>1
      <4> QED
        BY <2>6, <4>1, <4>2
    <3> QED
      BY <2>1, <3>1 DEF KeysRead
  <2>9. recordsRead' \in 0..Len(GenesisRecords)
    BY <2>1, GenesisConstants
  <2> QED
    BY <2>1, <2>4, <2>5, <2>7, <2>8, <2>9
<1>12. CASE EndOfRecords
  BY <1>4, <1>5, <1>6, <1>12 DEF EndOfRecords
<1>13. CASE StoreLeftAccounts
  <2>1. AllAccounts'
    BY <1>2, <1>3, <1>13, AllRead, VectorStored DEF StoreLeftAccounts, AllAccounts
  <2> QED
    BY <1>6, <1>13, <2>1, VectorStored DEF StoreLeftAccounts
<1>14. CASE StoreLeftKeys
  <2>1. AllKeys'
    BY <1>2, <1>3, <1>14, AllRead, VectorStored DEF StoreLeftKeys, AllKeys
  <2> QED
    BY <1>4, <1>14, <2>1, VectorStored DEF StoreLeftKeys
<1> QED
  BY <1>1, <1>9, <1>10, <1>11, <1>12, <1>13, <1>14 DEF GenesisStep

(* None is lost by anything else, either.                                  *)
LEMMA GenesisInvariant == Spec => [](TablesOfRows /\ GenesisProgress)
<1>1. Init => GenesisProgress
  <2> SUFFICES ASSUME Init PROVE GenesisProgress
    OBVIOUS
  <2>1. /\ phase = "records" /\ recordsRead = 0
        /\ accountsToStore = <<>> /\ keysToStore = <<>>
    BY DEF Init, GenesisInit
  <2> QED
    BY <2>1, GenesisConstants DEF GenesisProgress, AccountsRead, KeysRead
<1>2. TablesOfRows /\ GenesisProgress /\ [Next]_vars => GenesisProgress'
  <2> SUFFICES ASSUME TablesOfRows, GenesisProgress, [Next]_vars
               PROVE  GenesisProgress'
    OBVIOUS
  <2>1. CASE StoreGenesis
    BY <2>1, GenesisSteps
  <2>2. /\ \A a \in Accounts : AccountStored(a) => AccountStored(a)'
        /\ \A k \in AccessKeys : KeyStored(k) => KeyStored(k)'
    BY StoredStays
  <2>3. Genesis \subseteq Accounts /\ GenesisKeys \subseteq AccessKeys
    BY StateConstants DEF AccessKeys
  <2>4. /\ AllAccounts => AllAccounts'
        /\ AllKeys => AllKeys'
    BY <2>2, <2>3 DEF AllAccounts, AllKeys
  <2>5. CASE UNCHANGED genesis
    <3>1. (AccountsRead => AccountsRead') /\ (KeysRead => KeysRead')
      BY <2>2, <2>5 DEF genesis, AccountsRead, KeysRead
    <3> QED
      BY <2>4, <2>5, <3>1 DEF genesis, GenesisProgress
  <2>6. ASSUME NEW h \in Blocks, Restart(h) PROVE GenesisProgress'
    <3>1. /\ phase' \in {"records", "stream"} /\ (phase' = "stream" => phase = "stream")
          /\ recordsRead' = 0 /\ accountsToStore' = <<>> /\ keysToStore' = <<>>
      BY <2>6 DEF Restart, GenesisRestart
    <3>2. AccountsRead' /\ KeysRead'
      BY <3>1 DEF AccountsRead, KeysRead
    <3>3. 0 \in 0..Len(GenesisRecords) /\ <<>> \in Seq(Accounts) /\ <<>> \in Seq(AccessKeys)
      BY GenesisConstants
    <3>4. /\ recordsRead' \in 0..Len(GenesisRecords)
          /\ accountsToStore' \in Seq(Accounts) /\ keysToStore' \in Seq(AccessKeys)
      BY <3>1, <3>3
    <3>5. phase = "stream" => AllAccounts /\ AllKeys
      BY DEF GenesisProgress
    <3> QED
      BY <2>4, <3>1, <3>2, <3>4, <3>5 DEF GenesisProgress
  <2>7. UNCHANGED genesis \/ StoreGenesis \/ \E h \in Blocks : Restart(h)
    BY DEF Next, NewBlock, Start, StoreAccounts, StoreKeys, Finish, Fail, StreamEnds, vars
  <2> QED
    BY <2>1, <2>5, <2>6, <2>7
<1> QED
  BY <1>1, <1>2, TablesInvariant, PTL DEF Spec

(* Once the stream runs every account and key of the genesis has a row,    *)
(* whatever the records and the size of the batches, and wherever the      *)
(* starts before were stopped.                                             *)
THEOREM GenesisStored == Spec => []GenesisIsStored
<1>1. GenesisProgress => GenesisIsStored
  BY DEF GenesisProgress, GenesisIsStored, AllAccounts, AllKeys, AccountStored, KeyStored
<1> QED
  BY <1>1, GenesisInvariant, PTL
-----------------------------------------------------------------------------
(* The statements that are left of a block are among those it composed.    *)
CreateIn(c, h)  == {a \in Accounts : ModelsIn(c, h)[a] # NoRow
                                     /\ ModelsIn(c, h)[a].created # NoReceipt}
DeleteIn(c, h)  == {a \in Accounts : ModelsIn(c, h)[a] # NoRow
                                     /\ ModelsIn(c, h)[a].created = NoReceipt}
AddIn(c, h)     == {k \in AccessKeys : KeysIn(c, h).keys[k] # NoRow
                                       /\ KeysIn(c, h).keys[k].created # NoReceipt}
EndIn(c, h)     == {k \in AccessKeys : KeysIn(c, h).keys[k] # NoRow
                                       /\ KeysIn(c, h).keys[k].created = NoReceipt}
OwnersIn(c, h)  == {a \in Accounts : KeysIn(c, h).owners[a] # NoReceipt}

(* They are those of the model, for the chain.                             *)
LEMMA SetsOfTasks ==
    ASSUME NEW h
    PROVE  /\ ToCreate(h) = CreateIn(chain, h) /\ ToDelete(h) = DeleteIn(chain, h)
           /\ ToAdd(h) = AddIn(chain, h) /\ TouchedKeys(h) \ ToAdd(h) = EndIn(chain, h)
           /\ DeletedOwners(h) = OwnersIn(chain, h)
BY InChain DEF ToCreate, ToDelete, Touched, ToAdd, TouchedKeys, DeletedOwners,
               CreateIn, DeleteIn, AddIn, EndIn, OwnersIn

(* What is left to send for a block is of the block.                       *)
AccountTasks == [delete : SUBSET Accounts, insert : BOOLEAN, update : SUBSET Accounts]
KeyTasks     == [owners : SUBSET Accounts, update : SUBSET AccessKeys,
                 insert : BOOLEAN, add : SUBSET AccessKeys]

AccountTaskFits(c, h, t) ==
    /\ t \in AccountTasks
    /\ h > Len(c) => t = NoAccountTask
    /\ h <= Len(c) => t.delete \subseteq DeleteIn(c, h) /\ t.update \subseteq CreateIn(c, h)

KeyTaskFits(c, h, t) ==
    /\ t \in KeyTasks
    /\ h > Len(c) => t = NoKeyTask
    /\ h <= Len(c) => /\ t.owners \subseteq OwnersIn(c, h) /\ t.update \subseteq EndIn(c, h)
                      /\ t.add \subseteq AddIn(c, h)

(* The tasks and the rows of the tables.                                   *)
TasksFit ==
    /\ accountTask = [h \in Blocks |-> accountTask[h]]
    /\ keyTask = [h \in Blocks |-> keyTask[h]]
    /\ \A h \in Blocks : /\ AccountTaskFits(chain, h, accountTask[h])
                         /\ KeyTaskFits(chain, h, keyTask[h])

RowsFit ==
    /\ accountRows \in [Accounts -> Rows \cup {NoRow}]
    /\ keyRows \in [AccessKeys -> Rows \cup {NoRow}]

Sound == LegalChain(chain) /\ TasksFit /\ RowsFit

(* What block h writes: to the row of an account, ...                      *)
Holds(row, created, deleted, height) ==
    row = [created |-> created, deleted |-> deleted, height |-> height]

(* The code keeps the row of an implicit account that lives.               *)
KeepsRow(a, model, row) == a \in Implicit /\ model.deleted = NoReceipt /\ Alive(row)

WrittenBy(c, h, a, row, new) ==
    LET model == ModelsIn(c, h)[a]
    IN  /\ model # NoRow
        /\ \/ /\ model.created # NoReceipt
              /\ row = NoRow \/ (row.height < h /\ ~KeepsRow(a, model, row))
              /\ Holds(new, model.created, model.deleted, h)
           \/ /\ model.created = NoReceipt
              /\ row # NoRow /\ row.height < h
              /\ Holds(new, row.created, model.deleted, h)

(* ... and to the row of a key.                                            *)
KeyWrittenBy(c, h, k, row, new) ==
    LET model == KeysIn(c, h).keys[k]
        owner == KeysIn(c, h).owners[k[2]]
    IN  \/ /\ model # NoRow /\ model.created # NoReceipt
           /\ row = NoRow \/ row.height < h
           /\ Holds(new, model.created, model.deleted, h)
        \/ /\ model # NoRow /\ model.created = NoReceipt
           /\ row # NoRow /\ row.height < h
           /\ Holds(new, row.created, model.deleted, h)
        \/ /\ owner # NoReceipt
           /\ Alive(row) /\ row.height < h
           /\ Holds(new, row.created, owner, h)

(* A row that is marked as deleted.                                        *)
LEMMA RowFacts ==
    ASSUME NEW row \in Rows, NEW d, NEW h
    PROVE  [row EXCEPT !.deleted = d, !.height = h]
              = [created |-> row.created, deleted |-> d, height |-> h]
<1> DEFINE new == [row EXCEPT !.deleted = d, !.height = h]
<1>1. DOMAIN new = DOMAIN row
  BY Zenon
<1>2. DOMAIN row = {"created", "deleted", "height"}
  BY DEF Rows
<1>3. new.created = row.created /\ new.deleted = d /\ new.height = h
  BY <1>2, Zenon
<1>4. new = [x \in DOMAIN row |-> new[x]]
  BY Zenon
<1> HIDE DEF new
<1>5. new = [created |-> row.created, deleted |-> d, height |-> h]
  BY <1>2, <1>3, <1>4
<1> QED
  BY <1>5 DEF new

(* NoRow is not a row.                                                     *)
LEMMA NoRowIsNoRow == NoRow \notin Rows
<1>1. ASSUME NoRow \in Rows
      PROVE  "created" \in DOMAIN NoRow
  BY <1>1 DEF Rows
<1> QED
  BY <1>1, StateConstants

(* What a block writes is a row of its height.                             *)
LEMMA WrittenRows ==
    ASSUME NEW c, LegalChain(c), NEW h \in 1..Len(c)
    PROVE  /\ \A a \in Accounts, row \in Rows \cup {NoRow} : \A new :
                 WrittenBy(c, h, a, row, new) => new \in Rows /\ new.height = h
           /\ \A k \in AccessKeys, row \in Rows \cup {NoRow} : \A new :
                 KeyWrittenBy(c, h, k, row, new) => new \in Rows /\ new.height = h
<1>1. h \in 0..LastBlock
  BY StateConstants DEF LegalChain
<1>2. /\ ModelsIn(c, h) \in [Accounts -> Entries]
      /\ KeysIn(c, h).keys \in [AccessKeys -> Entries]
      /\ KeysIn(c, h).owners \in [Accounts -> ReceiptIds]
  BY BlockOfChain DEF Models
<1>3. ASSUME NEW a \in Accounts, NEW row \in Rows \cup {NoRow}, NEW new,
             WrittenBy(c, h, a, row, new)
      PROVE  new \in Rows /\ new.height = h
  <2>1. ModelsIn(c, h)[a] \in [created : ReceiptIds, deleted : ReceiptIds]
    BY <1>2, <1>3 DEF WrittenBy, Entries
  <2> QED
    BY <1>1, <1>3, <2>1 DEF WrittenBy, Holds, Rows, ReceiptIds
<1>4. ASSUME NEW k \in AccessKeys, NEW row \in Rows \cup {NoRow}, NEW new,
             KeyWrittenBy(c, h, k, row, new)
      PROVE  new \in Rows /\ new.height = h
  <2>1. /\ KeysIn(c, h).keys[k] # NoRow =>
             KeysIn(c, h).keys[k] \in [created : ReceiptIds, deleted : ReceiptIds]
        /\ KeysIn(c, h).owners[k[2]] \in ReceiptIds
    BY <1>2 DEF Entries, AccessKeys
  <2> QED
    BY <1>1, <1>4, <2>1 DEF KeyWrittenBy, Holds, Rows, ReceiptIds, Alive
<1> QED
  BY <1>3, <1>4
-----------------------------------------------------------------------------
(* One statement of handle_accounts.                                       *)
LEMMA AccountStatementWrites ==
    ASSUME Sound, NEW h \in Blocks, AccountStep(h)
    PROVE  /\ h \in 1..Len(chain) /\ accountTask[h] # NoAccountTask
           /\ accountRows' = [a \in Accounts |-> accountRows'[a]]
           /\ \A a \in Accounts : \/ accountRows'[a] = accountRows[a]
                                  \/ WrittenBy(chain, h, a, accountRows[a], accountRows'[a])
           /\ accountTask' = [accountTask EXCEPT ![h] = accountTask'[h]]
           /\ AccountTaskFits(chain, h, accountTask'[h])
<1> DEFINE c == chain
           t == accountTask[h]
<1>1. /\ AccountTaskFits(c, h, t) /\ accountTask = [x \in Blocks |-> accountTask[x]]
      /\ accountRows \in [Accounts -> Rows \cup {NoRow}]
      /\ Len(c) \in Nat /\ h \in Nat /\ h > 0 /\ LegalChain(c)
  BY ChainFacts, StateConstants DEF Sound, TasksFit, RowsFit, Blocks
<1>2. t.insert \/ t.delete # {} \/ t.update # {}
  BY DEF AccountStep, InsertAccounts, DeleteAccount, UpdateAccount
<1>3. t # NoAccountTask /\ h \in 1..Len(c)
  BY <1>1, <1>2 DEF AccountTaskFits, NoAccountTask
<1>4. /\ t \in AccountTasks /\ t.delete \subseteq DeleteIn(c, h)
      /\ t.update \subseteq CreateIn(c, h)
  BY <1>1, <1>3 DEF AccountTaskFits
<1>5. /\ \A a : AccountRow(h, a) = [created |-> ModelsIn(c, h)[a].created,
                                    deleted |-> ModelsIn(c, h)[a].deleted, height |-> h]
      /\ ToCreate(h) = CreateIn(c, h)
  BY InChain, SetsOfTasks DEF AccountRow
<1>6. \A x : x \in AccountTasks /\ x.delete \subseteq t.delete /\ x.update \subseteq t.update
                => AccountTaskFits(c, h, x)
  BY <1>1, <1>3, <1>4 DEF AccountTaskFits
<1>7. CASE InsertAccounts(h)
  <2>1. accountRows' = [a \in Accounts |->
            IF a \in CreateIn(c, h) /\ accountRows[a] = NoRow THEN AccountRow(h, a)
                                                              ELSE accountRows[a]]
    BY <1>5, <1>7 DEF InsertAccounts
  <2>2. accountTask' = [accountTask EXCEPT ![h] = [t EXCEPT !.insert = FALSE]]
    BY <1>7 DEF InsertAccounts
  <2>3. accountTask'[h] = [t EXCEPT !.insert = FALSE]
    BY <1>1, <2>2
  <2>4. AccountTaskFits(c, h, accountTask'[h])
    BY <1>4, <1>6, <2>3 DEF AccountTasks
  <2>5. ASSUME NEW a \in Accounts, accountRows'[a] # accountRows[a]
        PROVE  WrittenBy(c, h, a, accountRows[a], accountRows'[a])
    <3>1. /\ a \in CreateIn(c, h) /\ accountRows[a] = NoRow
          /\ accountRows'[a] = AccountRow(h, a)
      BY <2>1, <2>5
    <3> QED
      BY <1>5, <3>1 DEF WrittenBy, CreateIn, Holds
  <2> QED
    BY <1>3, <2>1, <2>2, <2>3, <2>4, <2>5
<1>8. ASSUME NEW b \in Accounts, DeleteAccount(h, b)
      PROVE  /\ accountRows' = [a \in Accounts |-> accountRows'[a]]
             /\ \A a \in Accounts : \/ accountRows'[a] = accountRows[a]
                                    \/ WrittenBy(c, h, a, accountRows[a], accountRows'[a])
             /\ accountTask' = [accountTask EXCEPT ![h] = accountTask'[h]]
             /\ AccountTaskFits(c, h, accountTask'[h])
  <2> DEFINE d == AccountModels(h)[b].deleted
  <2>1. accountTask' = [accountTask EXCEPT ![h] = [t EXCEPT !.delete = t.delete \ {b}]]
    BY <1>8 DEF DeleteAccount
  <2>2. accountTask'[h] = [t EXCEPT !.delete = t.delete \ {b}]
    BY <1>1, <2>1
  <2>3. AccountTaskFits(c, h, accountTask'[h])
    BY <1>4, <1>6, <2>2 DEF AccountTasks
  <2>4. b \in DeleteIn(c, h)
    BY <1>4, <1>8 DEF DeleteAccount
  <2>5. CASE accountRows' = accountRows
    BY <1>1, <2>1, <2>2, <2>3, <2>5
  <2>6. CASE accountRows' # accountRows
    <3>1. Older(accountRows[b], h)
      BY <1>8, <2>6 DEF DeleteAccount
    <3>2. accountRows' =
            [accountRows EXCEPT ![b] = [accountRows[b] EXCEPT !.deleted = d, !.height = h]]
      BY <1>8, <3>1 DEF DeleteAccount
    <3>3. accountRows[b] \in Rows /\ accountRows[b] # NoRow /\ accountRows[b].height < h
      BY <1>1, <3>1 DEF Older
    <3>4. Holds(accountRows'[b], accountRows[b].created, d, h)
      BY <1>1, <3>2, <3>3, RowFacts DEF Holds
    <3>5. WrittenBy(c, h, b, accountRows[b], accountRows'[b])
      BY <2>4, <3>3, <3>4, InChain DEF WrittenBy, DeleteIn
    <3> QED
      BY <1>1, <2>1, <2>2, <2>3, <3>2, <3>5
  <2> QED
    BY <2>5, <2>6
<1>9. ASSUME NEW b \in Accounts, UpdateAccount(h, b)
      PROVE  /\ accountRows' = [a \in Accounts |-> accountRows'[a]]
             /\ \A a \in Accounts : \/ accountRows'[a] = accountRows[a]
                                    \/ WrittenBy(c, h, a, accountRows[a], accountRows'[a])
             /\ accountTask' = [accountTask EXCEPT ![h] = accountTask'[h]]
             /\ AccountTaskFits(c, h, accountTask'[h])
  <2>1. accountTask' = [accountTask EXCEPT ![h] = [t EXCEPT !.update = t.update \ {b}]]
    BY <1>9 DEF UpdateAccount
  <2>2. accountTask'[h] = [t EXCEPT !.update = t.update \ {b}]
    BY <1>1, <2>1
  <2>3. AccountTaskFits(c, h, accountTask'[h])
    BY <1>4, <1>6, <2>2 DEF AccountTasks
  <2>4. b \in CreateIn(c, h)
    BY <1>4, <1>9 DEF UpdateAccount
  <2>5. CASE accountRows' = accountRows
    BY <1>1, <2>1, <2>2, <2>3, <2>5
  <2>6. CASE accountRows' # accountRows
    <3>1. Older(accountRows[b], h) /\ ~KeepsCreator(h, b)
      BY <1>9, <2>6 DEF UpdateAccount
    <3>2. accountRows' = [accountRows EXCEPT ![b] = AccountRow(h, b)]
      BY <1>9, <3>1 DEF UpdateAccount
    <3>3. accountRows[b] # NoRow /\ accountRows[b].height < h
          /\ ~KeepsRow(b, ModelsIn(c, h)[b], accountRows[b])
      BY <3>1, InChain DEF Older, KeepsCreator, KeepsRow
    <3>4. WrittenBy(c, h, b, accountRows[b], accountRows'[b])
      BY <1>1, <1>5, <2>4, <3>2, <3>3 DEF WrittenBy, CreateIn, Holds
    <3> QED
      BY <1>1, <2>1, <2>2, <2>3, <3>2, <3>4
  <2> QED
    BY <2>5, <2>6
<1> QED
  BY <1>3, <1>7, <1>8, <1>9 DEF AccountStep

(* One statement of handle_access_keys.                                    *)
LEMMA KeyStatementWrites ==
    ASSUME Sound, NEW h \in Blocks, KeyStep(h)
    PROVE  /\ h \in 1..Len(chain) /\ keyTask[h] # NoKeyTask
           /\ keyRows' = [k \in AccessKeys |-> keyRows'[k]]
           /\ \A k \in AccessKeys : \/ keyRows'[k] = keyRows[k]
                                    \/ KeyWrittenBy(chain, h, k, keyRows[k], keyRows'[k])
           /\ keyTask' = [keyTask EXCEPT ![h] = keyTask'[h]]
           /\ KeyTaskFits(chain, h, keyTask'[h])
<1> DEFINE c == chain
           t == keyTask[h]
<1>1. /\ KeyTaskFits(c, h, t) /\ keyTask = [x \in Blocks |-> keyTask[x]]
      /\ keyRows \in [AccessKeys -> Rows \cup {NoRow}]
      /\ Len(c) \in Nat /\ h \in Nat /\ h > 0 /\ LegalChain(c)
  BY ChainFacts, StateConstants DEF Sound, TasksFit, RowsFit, Blocks
<1>2. t.insert \/ t.owners # {} \/ t.update # {} \/ t.add # {}
  BY DEF KeyStep, InsertKeys, DeleteKeysOf, UpdateKey, AddKey
<1>3. t # NoKeyTask /\ h \in 1..Len(c)
  BY <1>1, <1>2 DEF KeyTaskFits, NoKeyTask
<1>4. /\ t \in KeyTasks /\ t.owners \subseteq OwnersIn(c, h)
      /\ t.update \subseteq EndIn(c, h) /\ t.add \subseteq AddIn(c, h)
  BY <1>1, <1>3 DEF KeyTaskFits
<1>5. /\ \A k : KeyRow(h, k) = [created |-> KeysIn(c, h).keys[k].created,
                                deleted |-> KeysIn(c, h).keys[k].deleted, height |-> h]
      /\ ToAdd(h) = AddIn(c, h)
  BY InChain, SetsOfTasks DEF KeyRow
<1>6. \A x : x \in KeyTasks /\ x.owners \subseteq t.owners /\ x.update \subseteq t.update
             /\ x.add \subseteq t.add => KeyTaskFits(c, h, x)
  BY <1>1, <1>3, <1>4 DEF KeyTaskFits
<1>7. CASE InsertKeys(h)
  <2>1. keyRows' = [k \in AccessKeys |->
            IF k \in AddIn(c, h) /\ keyRows[k] = NoRow THEN KeyRow(h, k) ELSE keyRows[k]]
    BY <1>5, <1>7 DEF InsertKeys
  <2>2. keyTask' = [keyTask EXCEPT ![h] = [t EXCEPT !.insert = FALSE]]
    BY <1>7 DEF InsertKeys
  <2>3. keyTask'[h] = [t EXCEPT !.insert = FALSE]
    BY <1>1, <2>2
  <2>4. KeyTaskFits(c, h, keyTask'[h])
    BY <1>4, <1>6, <2>3 DEF KeyTasks
  <2>5. ASSUME NEW k \in AccessKeys, keyRows'[k] # keyRows[k]
        PROVE  KeyWrittenBy(c, h, k, keyRows[k], keyRows'[k])
    <3>1. /\ k \in AddIn(c, h) /\ keyRows[k] = NoRow
          /\ keyRows'[k] = KeyRow(h, k)
      BY <2>1, <2>5
    <3> QED
      BY <1>5, <3>1 DEF KeyWrittenBy, AddIn, Holds
  <2> QED
    BY <1>3, <2>1, <2>2, <2>3, <2>4, <2>5
<1>8. ASSUME NEW b \in Accounts, DeleteKeysOf(h, b)
      PROVE  /\ keyRows' = [k \in AccessKeys |-> keyRows'[k]]
             /\ \A k \in AccessKeys : \/ keyRows'[k] = keyRows[k]
                                      \/ KeyWrittenBy(c, h, k, keyRows[k], keyRows'[k])
             /\ keyTask' = [keyTask EXCEPT ![h] = keyTask'[h]]
             /\ KeyTaskFits(c, h, keyTask'[h])
  <2> DEFINE d == KeyModels(h).owners[b]
  <2>1. keyTask' = [keyTask EXCEPT ![h] = [t EXCEPT !.owners = t.owners \ {b}]]
    BY <1>8 DEF DeleteKeysOf
  <2>2. keyTask'[h] = [t EXCEPT !.owners = t.owners \ {b}]
    BY <1>1, <2>1
  <2>3. KeyTaskFits(c, h, keyTask'[h])
    BY <1>4, <1>6, <2>2 DEF KeyTasks
  <2>4. b \in OwnersIn(c, h)
    BY <1>4, <1>8 DEF DeleteKeysOf
  <2>5. keyRows' = [k \in AccessKeys |->
            IF k[2] = b /\ Alive(keyRows[k]) /\ OlderKey(k, h)
            THEN [keyRows[k] EXCEPT !.deleted = d, !.height = h] ELSE keyRows[k]]
    BY <1>8 DEF DeleteKeysOf
  <2>6. ASSUME NEW k \in AccessKeys, keyRows'[k] # keyRows[k]
        PROVE  KeyWrittenBy(c, h, k, keyRows[k], keyRows'[k])
    <3>1. /\ k[2] = b /\ Alive(keyRows[k]) /\ OlderKey(k, h)
          /\ keyRows'[k] = [keyRows[k] EXCEPT !.deleted = d, !.height = h]
      BY <2>5, <2>6
    <3>2. keyRows[k] \in Rows /\ keyRows[k].height < h
      BY <1>1, <3>1 DEF OlderKey
    <3>3. Holds(keyRows'[k], keyRows[k].created, d, h)
      BY <3>1, <3>2, RowFacts DEF Holds
    <3>4. d = KeysIn(c, h).owners[k[2]] /\ d # NoReceipt
      BY <2>4, <3>1, InChain DEF OwnersIn
    <3> QED
      BY <3>1, <3>2, <3>3, <3>4 DEF KeyWrittenBy
  <2> QED
    BY <2>1, <2>2, <2>3, <2>5, <2>6
<1>9. ASSUME NEW b \in AccessKeys, UpdateKey(h, b) \/ AddKey(h, b)
      PROVE  /\ keyRows' = [k \in AccessKeys |-> keyRows'[k]]
             /\ \A k \in AccessKeys : \/ keyRows'[k] = keyRows[k]
                                      \/ KeyWrittenBy(c, h, k, keyRows[k], keyRows'[k])
             /\ keyTask' = [keyTask EXCEPT ![h] = keyTask'[h]]
             /\ KeyTaskFits(c, h, keyTask'[h])
  <2> DEFINE d == KeyModels(h).keys[b].deleted
  <2>1. \/ /\ UpdateKey(h, b)
           /\ keyTask' = [keyTask EXCEPT ![h] = [t EXCEPT !.update = t.update \ {b}]]
        \/ /\ AddKey(h, b)
           /\ keyTask' = [keyTask EXCEPT ![h] = [t EXCEPT !.add = t.add \ {b}]]
    BY <1>9 DEF UpdateKey, AddKey
  <2>2. \/ /\ UpdateKey(h, b) /\ keyTask'[h] = [t EXCEPT !.update = t.update \ {b}]
        \/ /\ AddKey(h, b) /\ keyTask'[h] = [t EXCEPT !.add = t.add \ {b}]
    BY <1>1, <2>1
  <2>3. KeyTaskFits(c, h, keyTask'[h])
    BY <1>4, <1>6, <2>2 DEF KeyTasks
  <2>4. keyTask' = [keyTask EXCEPT ![h] = keyTask'[h]]
    BY <1>1, <2>1
  <2>5. CASE keyRows' = keyRows
    BY <1>1, <2>3, <2>4, <2>5
  <2>6. CASE UpdateKey(h, b) /\ keyRows' # keyRows
    <3>1. OlderKey(b, h) /\ b \in EndIn(c, h)
      BY <1>4, <2>6 DEF UpdateKey
    <3>2. keyRows' = [keyRows EXCEPT ![b] = [keyRows[b] EXCEPT !.deleted = d, !.height = h]]
      BY <2>6, <3>1 DEF UpdateKey
    <3>3. keyRows[b] \in Rows /\ keyRows[b] # NoRow /\ keyRows[b].height < h
      BY <1>1, <3>1 DEF OlderKey
    <3>4. Holds(keyRows'[b], keyRows[b].created, d, h)
      BY <1>1, <3>2, <3>3, RowFacts DEF Holds
    <3>5. KeyWrittenBy(c, h, b, keyRows[b], keyRows'[b])
      BY <3>1, <3>3, <3>4, InChain DEF KeyWrittenBy, EndIn
    <3> QED
      BY <1>1, <2>3, <2>4, <3>2, <3>5
  <2>7. CASE AddKey(h, b) /\ keyRows' # keyRows
    <3>1. OlderKey(b, h) /\ b \in AddIn(c, h)
      BY <1>4, <2>7 DEF AddKey
    <3>2. keyRows' = [keyRows EXCEPT ![b] = KeyRow(h, b)]
      BY <2>7, <3>1 DEF AddKey
    <3>3. KeyWrittenBy(c, h, b, keyRows[b], keyRows'[b])
      BY <1>1, <1>5, <3>1, <3>2 DEF KeyWrittenBy, AddIn, Holds, OlderKey
    <3> QED
      BY <1>1, <2>3, <2>4, <3>2, <3>3
  <2> QED
    BY <2>1, <2>5, <2>6, <2>7
<1> QED
  BY <1>3, <1>7, <1>8, <1>9 DEF KeyStep
-----------------------------------------------------------------------------
(* The vectors of store_genesis_records hold what is of the genesis.       *)
VectorsFit ==
    /\ accountsToStore \in Seq(Genesis) /\ Len(accountsToStore) <= BatchSize
    /\ keysToStore \in Seq(GenesisKeys) /\ Len(keysToStore) <= BatchSize

(* The counters, and the progress of the handlers.                         *)
Positions ==
    /\ next \in 1..(Len(chain) + 1)
    /\ pc \in [Blocks -> {"idle", "running", "done", "lost"}]
    /\ faults \in 0..MaxFaults
    /\ restarts \in 0..MaxRestarts

(* What one step may do to the row of an account, and to that of a key.    *)
AccountRowStep(c, a, row, new) ==
    \/ new = row
    \/ a \in Genesis /\ row = NoRow /\ new = GenesisRow
    \/ \E h \in 1..Len(c) : accountTask[h] # NoAccountTask /\ WrittenBy(c, h, a, row, new)

KeyRowStep(c, k, row, new) ==
    \/ new = row
    \/ k \in GenesisKeys /\ row = NoRow /\ new = GenesisRow
    \/ \E h \in 1..Len(c) : keyTask[h] # NoKeyTask /\ KeyWrittenBy(c, h, k, row, new)

(* All rows.                                                               *)
RowsStep ==
    /\ accountRows' = [a \in Accounts |-> accountRows'[a]]
    /\ keyRows' = [k \in AccessKeys |-> keyRows'[k]]
    /\ \A a \in Accounts : AccountRowStep(chain, a, accountRows[a], accountRows'[a])
    /\ \A k \in AccessKeys : KeyRowStep(chain, k, keyRows[k], keyRows'[k])

(* Steps that leave the tables as they are.                                *)
LEMMA RowsStay ==
    /\ Sound /\ accountRows' = accountRows =>
          /\ accountRows' = [a \in Accounts |-> accountRows'[a]]
          /\ \A a \in Accounts : AccountRowStep(chain, a, accountRows[a], accountRows'[a])
    /\ Sound /\ keyRows' = keyRows =>
          /\ keyRows' = [k \in AccessKeys |-> keyRows'[k]]
          /\ \A k \in AccessKeys : KeyRowStep(chain, k, keyRows[k], keyRows'[k])
BY DEF Sound, RowsFit, AccountRowStep, KeyRowStep

(* A step of store_genesis_records writes genesis rows to empty places.    *)
LEMMA GenesisRowsStep ==
    ASSUME Sound, VectorsFit, GenesisStep
    PROVE  /\ accountRows' = [a \in Accounts |-> accountRows'[a]]
           /\ keyRows' = [k \in AccessKeys |-> keyRows'[k]]
           /\ \A a \in Accounts :
                 \/ accountRows'[a] = accountRows[a]
                 \/ a \in Genesis /\ accountRows[a] = NoRow /\ accountRows'[a] = GenesisRow
           /\ \A k \in AccessKeys :
                 \/ keyRows'[k] = keyRows[k]
                 \/ k \in GenesisKeys /\ keyRows[k] = NoRow /\ keyRows'[k] = GenesisRow
<1>1. accountRows' = accountRows \/ InsertGenesisAccounts
  BY DEF GenesisStep, FlushAccounts, FlushKeys, ReadRecord, EndOfRecords,
         StoreLeftAccounts, StoreLeftKeys
<1>2. keyRows' = keyRows \/ InsertGenesisKeys
  BY DEF GenesisStep, FlushAccounts, FlushKeys, ReadRecord, EndOfRecords,
         StoreLeftAccounts, StoreLeftKeys
<1>3. /\ \A a \in Seqs!ToSet(accountsToStore) : a \in Genesis
      /\ \A k \in Seqs!ToSet(keysToStore) : k \in GenesisKeys
  BY DEF VectorsFit, Seqs!ToSet
<1>4. /\ accountRows' = [a \in Accounts |-> accountRows'[a]]
      /\ \A a \in Accounts :
            \/ accountRows'[a] = accountRows[a]
            \/ a \in Genesis /\ accountRows[a] = NoRow /\ accountRows'[a] = GenesisRow
  <2>1. CASE accountRows' = accountRows
    BY <2>1, RowsStay
  <2>2. CASE InsertGenesisAccounts
    <3>1. accountRows' = [a \in Accounts |->
              IF a \in Seqs!ToSet(accountsToStore) /\ accountRows[a] = NoRow
              THEN GenesisRow ELSE accountRows[a]]
      BY <2>2 DEF InsertGenesisAccounts
    <3> QED
      BY <1>3, <3>1
  <2> QED
    BY <1>1, <2>1, <2>2
<1>5. /\ keyRows' = [k \in AccessKeys |-> keyRows'[k]]
      /\ \A k \in AccessKeys :
            \/ keyRows'[k] = keyRows[k]
            \/ k \in GenesisKeys /\ keyRows[k] = NoRow /\ keyRows'[k] = GenesisRow
  <2>1. CASE keyRows' = keyRows
    BY <2>1, RowsStay
  <2>2. CASE InsertGenesisKeys
    <3>1. keyRows' = [k \in AccessKeys |->
              IF k \in Seqs!ToSet(keysToStore) /\ keyRows[k] = NoRow
              THEN GenesisRow ELSE keyRows[k]]
      BY <2>2 DEF InsertGenesisKeys
    <3> QED
      BY <1>3, <3>1
  <2> QED
    BY <1>2, <2>1, <2>2
<1> QED
  BY <1>4, <1>5

(* Every step of the process is one of these.                              *)
LEMMA EveryRowStep ==
    ASSUME Sound, VectorsFit, [Next]_vars
    PROVE  RowsStep
<1>1. CASE UNCHANGED tables
  BY <1>1, RowsStay DEF RowsStep, tables
<1>2. CASE StoreGenesis
  BY <1>2, GenesisRowsStep DEF StoreGenesis, RowsStep, AccountRowStep, KeyRowStep
<1>3. ASSUME NEW h \in Blocks, StoreAccounts(h)
      PROVE  RowsStep
  <2>1. AccountStep(h) /\ keyRows' = keyRows
    BY <1>3 DEF StoreAccounts
  <2>2. \A a \in Accounts : AccountRowStep(chain, a, accountRows[a], accountRows'[a])
    BY <2>1, AccountStatementWrites DEF AccountRowStep
  <2>3. accountRows' = [a \in Accounts |-> accountRows'[a]]
    BY <2>1, AccountStatementWrites
  <2> QED
    BY <2>1, <2>2, <2>3, RowsStay DEF RowsStep
<1>4. ASSUME NEW h \in Blocks, StoreKeys(h)
      PROVE  RowsStep
  <2>1. KeyStep(h) /\ accountRows' = accountRows
    BY <1>4 DEF StoreKeys
  <2>2. \A k \in AccessKeys : KeyRowStep(chain, k, keyRows[k], keyRows'[k])
    BY <2>1, KeyStatementWrites DEF KeyRowStep
  <2>3. keyRows' = [k \in AccessKeys |-> keyRows'[k]]
    BY <2>1, KeyStatementWrites
  <2> QED
    BY <2>1, <2>2, <2>3, RowsStay DEF RowsStep
<1>5. ASSUME NEW h \in Blocks, Start(h) \/ Finish(h) \/ Fail(h) \/ Restart(h)
      PROVE  UNCHANGED tables
  BY <1>5 DEF Start, Finish, Fail, Restart
<1>6. NewBlock \/ StreamEnds \/ UNCHANGED vars => UNCHANGED tables
  BY DEF NewBlock, StreamEnds, vars
<1> QED
  BY <1>1, <1>2, <1>3, <1>4, <1>5, <1>6 DEF Next
-----------------------------------------------------------------------------
(* The rows stay sound.                                                    *)
LEMMA RowsSound ==
    ASSUME LegalChain(chain), RowsFit, RowsStep
    PROVE  RowsFit'
<1>1. GenesisRow \in Rows
  BY StateConstants DEF GenesisRow, Rows
<1>2. ASSUME NEW a \in Accounts
      PROVE  accountRows'[a] \in Rows \cup {NoRow}
  <2>1. accountRows[a] \in Rows \cup {NoRow}
    BY DEF RowsFit
  <2>2. AccountRowStep(chain, a, accountRows[a], accountRows'[a])
    BY DEF RowsStep
  <2>3. ASSUME NEW h \in 1..Len(chain), WrittenBy(chain, h, a, accountRows[a], accountRows'[a])
        PROVE  accountRows'[a] \in Rows
    BY <2>1, <2>3, WrittenRows
  <2> QED
    BY <1>1, <2>1, <2>2, <2>3 DEF AccountRowStep
<1>3. ASSUME NEW k \in AccessKeys
      PROVE  keyRows'[k] \in Rows \cup {NoRow}
  <2>1. keyRows[k] \in Rows \cup {NoRow}
    BY DEF RowsFit
  <2>2. KeyRowStep(chain, k, keyRows[k], keyRows'[k])
    BY DEF RowsStep
  <2>3. ASSUME NEW h \in 1..Len(chain), KeyWrittenBy(chain, h, k, keyRows[k], keyRows'[k])
        PROVE  keyRows'[k] \in Rows
    BY <2>1, <2>3, WrittenRows
  <2> QED
    BY <1>1, <2>1, <2>2, <2>3 DEF KeyRowStep
<1>4. accountRows' \in [Accounts -> Rows \cup {NoRow}]
  BY <1>2 DEF RowsStep
<1>5. keyRows' \in [AccessKeys -> Rows \cup {NoRow}]
  BY <1>3 DEF RowsStep
<1> QED
  BY <1>4, <1>5 DEF RowsFit

(* Nothing is left to send.                                                *)
LEMMA NoTasksFit ==
    \A c, h : AccountTaskFits(c, h, NoAccountTask) /\ KeyTaskFits(c, h, NoKeyTask)
BY DEF AccountTaskFits, KeyTaskFits, NoAccountTask, NoKeyTask, AccountTasks, KeyTasks

(* A block composes statements for what it collected.                      *)
LEMMA ComposedFit ==
    ASSUME NEW h, h <= Len(chain), h \in Nat, Len(chain) \in Nat
    PROVE  AccountTaskFits(chain, h, AccountTask(h)) /\ KeyTaskFits(chain, h, KeyTask(h))
<1>1. ~(h > Len(chain))
  OBVIOUS
<1>2. /\ AccountTask(h) = [delete |-> DeleteIn(chain, h), insert |-> CreateIn(chain, h) # {},
                           update |-> CreateIn(chain, h)]
      /\ KeyTask(h) = [owners |-> OwnersIn(chain, h), update |-> EndIn(chain, h),
                       insert |-> AddIn(chain, h) # {}, add |-> AddIn(chain, h)]
  BY SetsOfTasks DEF AccountTask, KeyTask
<1>3. /\ DeleteIn(chain, h) \in SUBSET Accounts /\ CreateIn(chain, h) \in SUBSET Accounts
      /\ OwnersIn(chain, h) \in SUBSET Accounts /\ EndIn(chain, h) \in SUBSET AccessKeys
      /\ AddIn(chain, h) \in SUBSET AccessKeys
  BY DEF DeleteIn, CreateIn, OwnersIn, EndIn, AddIn
<1>4. AccountTaskFits(chain, h, AccountTask(h))
  BY <1>1, <1>2, <1>3 DEF AccountTaskFits, AccountTasks
<1>5. KeyTaskFits(chain, h, KeyTask(h))
  BY <1>1, <1>2, <1>3 DEF KeyTaskFits, KeyTasks
<1> QED
  BY <1>4, <1>5

(* What a dropped future has sent is left of what it had to send.          *)
LEMMA SentFit ==
    ASSUME NEW c, NEW h
    PROVE  /\ \A t, u : AccountTaskFits(c, h, t) /\ u \in SentAccountTasks(t)
                           => AccountTaskFits(c, h, u)
           /\ \A t, u : KeyTaskFits(c, h, t) /\ u \in SentKeyTasks(t)
                           => KeyTaskFits(c, h, u)
<1>1. \A s : \A x \in Sent(s) : x \subseteq s
  BY DEF Sent
<1>2. ASSUME NEW t, NEW u, AccountTaskFits(c, h, t), u \in SentAccountTasks(t)
      PROVE  AccountTaskFits(c, h, u)
  <2>1. /\ u \in [delete : Sent(t.delete), insert : BOOLEAN, update : Sent(t.update)]
        /\ u.insert => t.insert
    BY <1>2 DEF SentAccountTasks
  <2>2. /\ u = [delete |-> u.delete, insert |-> u.insert, update |-> u.update]
        /\ u.delete \subseteq t.delete /\ u.update \subseteq t.update /\ u.insert \in BOOLEAN
    BY <1>1, <2>1
  <2>3. u \in AccountTasks
    BY <1>2, <2>2 DEF AccountTaskFits, AccountTasks
  <2>4. t = NoAccountTask => u = NoAccountTask
    BY <2>1, <2>2 DEF NoAccountTask
  <2> QED
    BY <1>2, <2>2, <2>3, <2>4 DEF AccountTaskFits
<1>3. ASSUME NEW t, NEW u, KeyTaskFits(c, h, t), u \in SentKeyTasks(t)
      PROVE  KeyTaskFits(c, h, u)
  <2>1. /\ u \in [owners : Sent(t.owners), update : Sent(t.update), insert : BOOLEAN,
                  add : Sent(t.add)]
        /\ u.insert => t.insert
    BY <1>3 DEF SentKeyTasks
  <2>2. /\ u = [owners |-> u.owners, update |-> u.update, insert |-> u.insert, add |-> u.add]
        /\ u.owners \subseteq t.owners /\ u.update \subseteq t.update
        /\ u.add \subseteq t.add /\ u.insert \in BOOLEAN
    BY <1>1, <2>1
  <2>3. u \in KeyTasks
    BY <1>3, <2>2 DEF KeyTaskFits, KeyTasks
  <2>4. t = NoKeyTask => u = NoKeyTask
    BY <2>1, <2>2 DEF NoKeyTask
  <2> QED
    BY <1>3, <2>2, <2>3, <2>4 DEF KeyTaskFits
<1> QED
  BY <1>2, <1>3

(* A longer chain collects the same of the blocks it had.                  *)
LEMMA GrowsFit ==
    ASSUME NEW c, NEW d, LegalChain(c), Grows(c, d), NEW h \in Blocks
    PROVE  /\ \A t : AccountTaskFits(c, h, t) => AccountTaskFits(d, h, t)
           /\ \A t : KeyTaskFits(c, h, t) => KeyTaskFits(d, h, t)
<1>1. Len(c) \in Nat /\ Len(d) = Len(c) + 1 /\ h \in Nat /\ h > 0
  BY ChainFacts, StateConstants DEF Grows, Blocks
<1>2. CASE h > Len(c)
  BY <1>1, <1>2, NoTasksFit DEF AccountTaskFits, KeyTaskFits
<1>3. CASE h <= Len(c)
  <2>1. d[h] = c[h]
    BY <1>1, <1>3 DEF Grows
  <2>2. ModelsIn(d, h) = ModelsIn(c, h) /\ KeysIn(d, h) = KeysIn(c, h)
    BY <2>1 DEF ModelsIn, KeysIn
  <2> QED
    BY <1>1, <1>3, <2>2 DEF AccountTaskFits, KeyTaskFits, CreateIn, DeleteIn, AddIn, EndIn,
                            OwnersIn
<1> QED
  BY <1>1, <1>2, <1>3
-----------------------------------------------------------------------------
(* Together: an inductive invariant, from which the types follow.          *)
Base == Sound /\ Positions /\ VectorsFit

(* What the start of a block, a statement, and the end of one leave.       *)
LEMMA StartBase ==
    ASSUME Base, NEW h \in Blocks, Start(h)
    PROVE  TasksFit' /\ Positions'
<1>1. Len(chain) \in Nat /\ h \in Nat /\ h <= Len(chain) /\ h = next /\ chain' = chain
  BY ChainFacts, StateConstants DEF Base, Sound, Start, Blocks
<1>2. /\ AccountTaskFits(chain, h, AccountTask(h))
      /\ KeyTaskFits(chain, h, IF StrictMode THEN KeyTask(h) ELSE NoKeyTask)
  BY <1>1, ComposedFit, NoTasksFit
<1>3. TasksFit'
  BY <1>1, <1>2 DEF Base, Sound, Start, TasksFit
<1>4. Positions'
  BY <1>1 DEF Base, Positions, Start
<1> QED
  BY <1>3, <1>4

(* A statement is sent.                                                    *)
LEMMA StatementBase ==
    ASSUME Base, NEW h \in Blocks, StoreAccounts(h) \/ StoreKeys(h)
    PROVE  TasksFit' /\ Positions'
<1>1. chain' = chain /\ Positions'
  BY DEF StoreAccounts, StoreKeys, Base, Positions
<1>2. CASE StoreAccounts(h)
  <2>1. /\ accountTask' = [accountTask EXCEPT ![h] = accountTask'[h]]
        /\ AccountTaskFits(chain, h, accountTask'[h])
    BY <1>2, AccountStatementWrites DEF StoreAccounts, Base
  <2>2. keyTask' = keyTask
    BY <1>2 DEF StoreAccounts
  <2> DEFINE t == accountTask'[h]
  <2> HIDE DEF t
  <2>3. accountTask' = [accountTask EXCEPT ![h] = t] /\ AccountTaskFits(chain, h, t)
    BY <2>1 DEF t
  <2>4. TasksFit'
    BY <1>1, <2>2, <2>3 DEF Base, Sound, TasksFit
  <2> QED
    BY <1>1, <2>4
<1>3. CASE StoreKeys(h)
  <2>1. /\ keyTask' = [keyTask EXCEPT ![h] = keyTask'[h]]
        /\ KeyTaskFits(chain, h, keyTask'[h])
    BY <1>3, KeyStatementWrites DEF StoreKeys, Base
  <2>2. accountTask' = accountTask
    BY <1>3 DEF StoreKeys
  <2> DEFINE t == keyTask'[h]
  <2> HIDE DEF t
  <2>3. keyTask' = [keyTask EXCEPT ![h] = t] /\ KeyTaskFits(chain, h, t)
    BY <2>1 DEF t
  <2>4. TasksFit'
    BY <1>1, <2>2, <2>3 DEF Base, Sound, TasksFit
  <2> QED
    BY <1>1, <2>4
<1> QED
  BY <1>2, <1>3

(* A statement fails for good.                                             *)
LEMMA FailBase ==
    ASSUME Base, NEW h \in Blocks, Fail(h)
    PROVE  TasksFit' /\ Positions'
<1>1. chain' = chain /\ Len(chain) \in Nat
  BY ChainFacts DEF Fail, Base, Sound
<1>2. PICK t \in SentAccountTasks(accountTask[h]) :
           accountTask' = [accountTask EXCEPT ![h] = t]
  BY DEF Fail
<1>3. PICK u \in SentKeyTasks(keyTask[h]) : keyTask' = [keyTask EXCEPT ![h] = u]
  BY DEF Fail
<1>4. AccountTaskFits(chain, h, t) /\ KeyTaskFits(chain, h, u)
  BY SentFit DEF Base, Sound, TasksFit
<1>5. TasksFit'
  BY <1>1, <1>2, <1>3, <1>4 DEF Base, Sound, TasksFit
<1>6. Positions'
  BY <1>1, TablesConstants DEF Base, Positions, Fail
<1> QED
  BY <1>5, <1>6

(* The process starts again.                                               *)
LEMMA RestartBase ==
    ASSUME Base, NEW h \in Blocks, Restart(h)
    PROVE  TasksFit' /\ Positions'
<1>1. chain' = chain /\ Len(chain) \in Nat /\ h \in Nat /\ h > 0
  BY ChainFacts, StateConstants DEF Restart, Base, Sound, Blocks
<1>2. TasksFit'
  BY <1>1, NoTasksFit DEF Restart, TasksFit
<1>3. pc' \in [Blocks -> {"idle", "running", "done", "lost"}]
  BY DEF Restart
<1>4. next' \in 1..(Len(chain) + 1) /\ restarts' \in 0..MaxRestarts
  BY <1>1, TablesConstants DEF Restart, Base, Positions
<1>5. faults' \in 0..MaxFaults
  BY TablesConstants DEF Restart, Base, Positions
<1> QED
  BY <1>1, <1>2, <1>3, <1>4, <1>5 DEF Positions

(* A block is produced.                                                    *)
LEMMA NewBlockBase ==
    ASSUME Base, NewBlock
    PROVE  LegalChain(chain') /\ TasksFit' /\ Positions'
<1>1. LegalChain(chain') /\ Grows(chain, chain') /\ Len(chain) \in Nat
  BY ProduceGrows, ChainFacts DEF NewBlock, Base, Sound
<1>2. TasksFit'
  <2>1. \A h \in Blocks : /\ AccountTaskFits(chain', h, accountTask[h])
                          /\ KeyTaskFits(chain', h, keyTask[h])
    BY <1>1, GrowsFit DEF Base, Sound, TasksFit
  <2> QED
    BY <2>1 DEF NewBlock, Base, Sound, TasksFit
<1>3. Positions'
  BY <1>1 DEF NewBlock, Base, Positions, Grows
<1> QED
  BY <1>1, <1>2, <1>3

(* What is read of the genesis is of the genesis.                          *)
LEMMA VectorsStep ==
    ASSUME VectorsFit, GenesisProgress, [Next]_vars
    PROVE  VectorsFit'
<1>1. /\ <<>> \in Seq(Genesis) /\ <<>> \in Seq(GenesisKeys)
      /\ Len(<<>>) <= BatchSize /\ BatchSize \in Nat
  BY GenesisConstants
<1>2. CASE UNCHANGED <<accountsToStore, keysToStore>>
  BY <1>2 DEF VectorsFit
<1>3. CASE accountsToStore' = <<>> /\ keysToStore' = keysToStore
  BY <1>1, <1>3 DEF VectorsFit
<1>4. CASE accountsToStore' = accountsToStore /\ keysToStore' = <<>>
  BY <1>1, <1>4 DEF VectorsFit
<1>5. CASE accountsToStore' = <<>> /\ keysToStore' = <<>>
  BY <1>1, <1>5 DEF VectorsFit
<1>6. CASE ReadRecord
  <2> DEFINE n == recordsRead + 1
             record == GenesisRecords[n]
             as == Collected("Account", accountsToStore, record)
             ks == Collected("AccessKey", keysToStore, record)
  <2>1. n \in DOMAIN GenesisRecords
    BY <1>6, GenesisConstants DEF ReadRecord, Reading, GenesisProgress
  <2>2. record \in StateRecords /\ record \in Seqs!ToSet(GenesisRecords)
    BY <2>1, GenesisConstants DEF Seqs!ToSet
  <2>3. /\ record[1] = "Account" => record[2] \in Genesis
        /\ record[1] = "AccessKey" => record[2] \in GenesisKeys
    <3>1. ASSUME record[1] = "Account" PROVE record[2] \in Genesis
      <4>1. record[2] \in Accounts /\ record = <<"Account", record[2]>>
        BY <2>2, <3>1 DEF StateRecords
      <4> QED
        BY <2>2, <4>1, RecordsOfGenesis
    <3>2. ASSUME record[1] = "AccessKey" PROVE record[2] \in GenesisKeys
      <4>1. record[2] \in AccessKeys /\ record = <<"AccessKey", record[2]>>
        BY <2>2, <3>2 DEF StateRecords
      <4> QED
        BY <2>2, <4>1, RecordsOfGenesis
    <3> QED
      BY <3>1, <3>2
  <2>4. as \in Seq(Genesis) /\ ks \in Seq(GenesisKeys)
    BY <2>3, CollectedFacts DEF VectorsFit
  <2>5. accountsToStore' = as /\ keysToStore' = ks
    BY <1>6 DEF ReadRecord
  <2>6. Len(accountsToStore) < BatchSize /\ Len(keysToStore) < BatchSize
    BY <1>1, <1>6 DEF ReadRecord, VectorsFit
  <2>7. Len(as) <= BatchSize /\ Len(ks) <= BatchSize
    BY <1>1, <2>6 DEF Collected, VectorsFit
  <2> HIDE DEF as, ks
  <2> QED
    BY <2>4, <2>5, <2>7 DEF VectorsFit
<1>7. GenesisStep => \/ ReadRecord
                     \/ UNCHANGED <<accountsToStore, keysToStore>>
                     \/ accountsToStore' = <<>> /\ keysToStore' = keysToStore
                     \/ accountsToStore' = accountsToStore /\ keysToStore' = <<>>
  BY DEF GenesisStep, FlushAccounts, FlushKeys, EndOfRecords, StoreLeftAccounts,
         StoreLeftKeys, InsertGenesisAccounts, InsertGenesisKeys
<1>8. \A h \in Blocks : Restart(h) => accountsToStore' = <<>> /\ keysToStore' = <<>>
  BY DEF Restart, GenesisRestart
<1>9. \/ StoreGenesis \/ UNCHANGED genesis
      \/ \E h \in Blocks : Restart(h)
  BY DEF Next, NewBlock, Start, StoreAccounts, StoreKeys, Finish, Fail, StreamEnds, vars
<1> QED
  BY <1>2, <1>3, <1>4, <1>5, <1>6, <1>7, <1>8, <1>9 DEF StoreGenesis, genesis

(* The tables are empty.                                                   *)
LEMMA BaseInit == Init => Base
<1> SUFFICES ASSUME Init PROVE Base
  OBVIOUS
<1>1. chain = <<>> /\ Len(chain) = 0 /\ LastBlock \in Nat /\ chain \in Seq(ActionLists)
  BY StateConstants DEF Init
<1>2. LegalChain(chain)
  BY <1>1 DEF LegalChain
<1>3. TasksFit /\ RowsFit
  BY NoTasksFit DEF Init, TasksFit, RowsFit
<1>4. Positions
  BY <1>1, TablesConstants DEF Init, Positions
<1>5. VectorsFit
  <2>1. accountsToStore = <<>> /\ keysToStore = <<>>
    BY DEF Init, GenesisInit
  <2> QED
    BY <2>1, GenesisConstants DEF VectorsFit
<1> QED
  BY <1>2, <1>3, <1>4, <1>5 DEF Base, Sound

(* Every step.                                                             *)
LEMMA BaseStep ==
    ASSUME Base, GenesisProgress, [Next]_vars
    PROVE  Base'
<1>1. RowsStep /\ VectorsFit'
  BY EveryRowStep, VectorsStep DEF Base
<1>2. RowsFit'
  BY <1>1, RowsSound DEF Base, Sound
<1>3. LegalChain(chain') /\ TasksFit' /\ Positions'
  <2>1. CASE UNCHANGED <<chain, accountTask, keyTask, next, pc, faults, restarts>>
    BY <2>1 DEF Base, Sound, TasksFit, Positions
  <2>2. CASE NewBlock
    BY <2>2, NewBlockBase
  <2>3. ASSUME NEW h \in Blocks, Start(h) \/ StoreAccounts(h) \/ StoreKeys(h)
                                 \/ Fail(h) \/ Restart(h)
        PROVE  LegalChain(chain') /\ TasksFit' /\ Positions'
    <3>1. chain' = chain
      BY <2>3 DEF Start, StoreAccounts, StoreKeys, Fail, Restart
    <3>2. LegalChain(chain')
      BY <3>1 DEF Base, Sound
    <3> QED
      BY <2>3, <3>2, StartBase, StatementBase, FailBase, RestartBase
  <2>4. ASSUME NEW h \in Blocks, Finish(h)
        PROVE  LegalChain(chain') /\ TasksFit' /\ Positions'
    BY <2>4 DEF Finish, Base, Sound, TasksFit, Positions
  <2>5. StoreGenesis \/ StreamEnds \/ UNCHANGED vars =>
           UNCHANGED <<chain, accountTask, keyTask, next, pc, faults, restarts>>
    BY DEF StoreGenesis, StreamEnds, vars
  <2> QED
    BY <2>1, <2>2, <2>3, <2>4, <2>5 DEF Next
<1> QED
  BY <1>1, <1>2, <1>3 DEF Base, Sound

(* With the progress of the genesis.                                       *)
LEMMA BaseInvariant == Spec => [](TablesOfRows /\ GenesisProgress /\ Base)
<1>1. TablesOfRows /\ GenesisProgress /\ Base /\ [Next]_vars => Base'
  BY BaseStep
<1> QED
  BY <1>1, BaseInit, GenesisInvariant, PTL DEF Spec

(* The variables keep their types: rows have receipts and heights of the   *)
(* chain, and the vectors of the genesis never outgrow the batch, for any  *)
(* concurrency.                                                            *)
THEOREM TablesTyped == Spec => []TypeOK
<1>1. ASSUME GenesisProgress, Base PROVE TypeOK
  <2>1. Len(chain) \in Nat /\ LegalChain(chain) /\ LastBlock \in Nat /\ BatchSize \in Nat
    BY <1>1, ChainFacts, StateConstants, GenesisConstants DEF Base, Sound
  <2>2. Len(chain) \in 0..LastBlock
    BY <2>1 DEF LegalChain
  <2>3. next \in 1..(LastBlock + 1)
    BY <1>1, <2>1, <2>2 DEF Base, Positions
  <2>4. /\ accountTask \in [Blocks -> AccountTasks] /\ keyTask \in [Blocks -> KeyTasks]
    BY <1>1 DEF Base, Sound, TasksFit, AccountTaskFits, KeyTaskFits
  <2>5. /\ accountsToStore \in Seq(Accounts) /\ Len(accountsToStore) <= BatchSize
        /\ keysToStore \in Seq(AccessKeys) /\ Len(keysToStore) <= BatchSize
        /\ phase \in {"records", "accounts", "keys", "stream"}
        /\ recordsRead \in 0..Len(GenesisRecords)
    BY <1>1 DEF GenesisProgress, Base, VectorsFit
  <2> QED
    BY <1>1, <2>2, <2>3, <2>4, <2>5
       DEF TypeOK, Base, Sound, RowsFit, Positions, AccountTasks, KeyTasks
<1> QED
  BY <1>1, BaseInvariant, PTL
==============================================================================
