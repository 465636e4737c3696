------------------------------- MODULE Genesis -------------------------------
(***************************************************************************)
(* store_genesis_records (src/src/db_adapters/genesis.rs): with            *)
(* --store-genesis the records of the genesis are read one by one before   *)
(* the stream starts, collected in a vector of accounts and one of access  *)
(* keys, and inserted whenever a vector is full and at the end.  A batch   *)
(* that fails all its attempts panics: the process stops (Restart).        *)
(***************************************************************************)
EXTENDS AccountRows, KeyRows

CONSTANTS
    GenesisRecords,  \* the records in their order; a contract is one that is skipped
    BatchSize        \* the code's 5 000

StateRecords == ({"Account", "Contract"} \X Accounts) \cup ({"AccessKey"} \X AccessKeys)

ASSUME GenesisConstants ==
    /\ BatchSize \in Nat \ {0}
    /\ GenesisRecords \in Seq(StateRecords)

ASSUME RecordsOfGenesis ==
    /\ {a \in Accounts : <<"Account", a>> \in Seqs!ToSet(GenesisRecords)} = Genesis
    /\ {k \in AccessKeys : <<"AccessKey", k>> \in Seqs!ToSet(GenesisRecords)}
         = GenesisKeys

VARIABLES
    phase,            \* "records", "accounts" and "keys" left over, or "stream"
    recordsRead,
    accountsToStore, keysToStore

genesis == <<phase, recordsRead, accountsToStore, keysToStore>>

GenesisRow == [created |-> NoReceipt, deleted |-> NoReceipt, height |-> 0]

GenesisInit ==
    /\ phase = "records"
    /\ recordsRead = 0 /\ accountsToStore = <<>> /\ keysToStore = <<>>

(* The process starts again: without --store-genesis with the stream.      *)
GenesisRestart ==
    /\ phase' \in {"records", "stream"}
    /\ recordsRead' = 0 /\ accountsToStore' = <<>> /\ keysToStore' = <<>>

InsertGenesisAccounts ==
    /\ accountRows' = [a \in Accounts |->
          IF a \in Seqs!ToSet(accountsToStore) /\ accountRows[a] = NoRow
          THEN GenesisRow ELSE accountRows[a]]
    /\ accountsToStore' = <<>>

InsertGenesisKeys ==
    /\ keyRows' = [k \in AccessKeys |->
          IF k \in Seqs!ToSet(keysToStore) /\ keyRows[k] = NoRow
          THEN GenesisRow ELSE keyRows[k]]
    /\ keysToStore' = <<>>

-----------------------------------------------------------------------------
Reading == phase = "records" /\ recordsRead < Len(GenesisRecords)

FlushAccounts ==
    /\ Reading /\ Len(accountsToStore) = BatchSize
    /\ InsertGenesisAccounts
    /\ UNCHANGED <<keyRows, phase, recordsRead, keysToStore>>

FlushKeys ==
    /\ Reading /\ Len(accountsToStore) # BatchSize /\ Len(keysToStore) = BatchSize
    /\ InsertGenesisKeys
    /\ UNCHANGED <<accountRows, phase, recordsRead, accountsToStore>>

Collected(kind, vector, record) ==
    IF record[1] = kind THEN Append(vector, record[2]) ELSE vector

ReadRecord ==
    /\ Reading /\ Len(accountsToStore) # BatchSize /\ Len(keysToStore) # BatchSize
    /\ recordsRead' = recordsRead + 1
    /\ LET record == GenesisRecords[recordsRead + 1]
       IN  /\ accountsToStore' = Collected("Account", accountsToStore, record)
           /\ keysToStore' = Collected("AccessKey", keysToStore, record)
    /\ UNCHANGED <<accountRows, keyRows, phase>>

(* The future of the leftovers.                                            *)
EndOfRecords ==
    /\ phase = "records" /\ recordsRead = Len(GenesisRecords)
    /\ phase' = "accounts"
    /\ UNCHANGED <<accountRows, keyRows, recordsRead, accountsToStore, keysToStore>>

(* Bug: only the full batches of access keys are stored.                   *)
ForgetLeftKeys ==
    /\ phase = "keys"
    /\ phase' = "stream"
    /\ keysToStore' = <<>>
    /\ UNCHANGED <<accountRows, keyRows, recordsRead, accountsToStore>>

StoreLeftAccounts ==
    /\ phase = "accounts"
    /\ phase' = "keys"
    /\ InsertGenesisAccounts
    /\ UNCHANGED <<keyRows, recordsRead, keysToStore>>

StoreLeftKeys ==
    /\ phase = "keys"
    /\ phase' = "stream"
    /\ InsertGenesisKeys
    /\ UNCHANGED <<accountRows, recordsRead, accountsToStore>>

GenesisStep ==
    \/ FlushAccounts \/ FlushKeys \/ ReadRecord
    \/ EndOfRecords \/ StoreLeftAccounts \/ StoreLeftKeys
=============================================================================
