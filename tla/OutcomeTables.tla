--------------------------- MODULE OutcomeTables -----------------------------
(***************************************************************************)
(* The accounts and access keys futures of handle_message (src/src/main.rs) *)
(* for the blocks of a growing chain: the statements of a block interleave, *)
(* a failing statement drops the other futures of its block, and after a   *)
(* restart the blocks from some height on are handled again.  Before the   *)
(* stream starts, the tables are filled from the genesis.                  *)
(***************************************************************************)
EXTENDS Genesis

CONSTANTS
    Concurrency,  \* --concurrency
    StrictMode,   \* FALSE is --non-strict-mode: no access keys are stored
    MaxFaults,    \* bound: blocks left behind, most by a statement that fails for good
    MaxRestarts   \* bound: restarts of the process

ASSUME TablesConstants ==
    /\ Concurrency \in Nat \ {0}
    /\ StrictMode \in BOOLEAN
    /\ MaxFaults \in Nat
    /\ MaxRestarts \in Nat

VARIABLES
    next,  \* height of the next message of the stream
    pc,    \* progress of the handler of a block
    faults, restarts

tables == <<accountRows, keyRows>>
vars   == <<chain, tables, accountTask, keyTask, next, pc, genesis, faults, restarts>>

(* The tables are empty, and the first start is one with --store-genesis.  *)
Init ==
    /\ chain = <<>>
    /\ accountRows = [a \in Accounts |-> NoRow]
    /\ keyRows = [k \in AccessKeys |-> NoRow]
    /\ GenesisInit
    /\ accountTask = [h \in Blocks |-> NoAccountTask]
    /\ keyTask = [h \in Blocks |-> NoKeyTask]
    /\ next = 1
    /\ pc = [h \in Blocks |-> "idle"]
    /\ faults = 0
    /\ restarts = 0

StoreGenesis ==
    /\ GenesisStep
    /\ UNCHANGED <<chain, accountTask, keyTask, next, pc, faults, restarts>>

(* A new block is produced when the stream waits for it.                   *)
NewBlock ==
    /\ phase = "stream"
    /\ next = Len(chain) + 1
    /\ Produce
    /\ UNCHANGED <<tables, accountTask, keyTask, next, pc, genesis, faults, restarts>>

Running(h) == pc[h] = "running"

(* All that handle_message does before has been done: see HandleMessage.   *)
Start(h) ==
    /\ phase = "stream"
    /\ h = next /\ h <= Len(chain)
    /\ Cardinality({x \in Blocks : Running(x)}) < Concurrency
    /\ next' = next + 1
    /\ pc' = [pc EXCEPT ![h] = "running"]
    /\ accountTask' = [accountTask EXCEPT ![h] = AccountTask(h)]
    /\ keyTask' = [keyTask EXCEPT ![h] = IF StrictMode THEN KeyTask(h) ELSE NoKeyTask]
    /\ UNCHANGED <<chain, tables, genesis, faults, restarts>>

StoreAccounts(h) ==
    /\ AccountStep(h)
    /\ UNCHANGED <<chain, keyRows, keyTask, next, pc, genesis, faults, restarts>>

StoreKeys(h) ==
    /\ KeyStep(h)
    /\ UNCHANGED <<chain, accountRows, accountTask, next, pc, genesis, faults, restarts>>

Finish(h) ==
    /\ Running(h)
    /\ accountTask[h] = NoAccountTask /\ keyTask[h] = NoKeyTask
    /\ pc' = [pc EXCEPT ![h] = "done"]
    /\ UNCHANGED <<chain, tables, accountTask, keyTask, next, genesis, faults, restarts>>

(* try_join drops the other futures; the one statement each of them may    *)
(* have sent is still executed.                                            *)
Sent(s) == {x \in SUBSET s : Cardinality(x) <= 1}

SentAccountTasks(task) ==
    {t \in [delete : Sent(task.delete), insert : BOOLEAN, update : Sent(task.update)] :
        /\ t.insert => task.insert
        /\ task.insert => t.update = {}}

SentKeyTasks(task) ==
    {t \in [owners : Sent(task.owners), update : Sent(task.update),
            insert : BOOLEAN, add : Sent(task.add)] :
        /\ t.insert => task.insert
        /\ task.insert => t.add = {}}

Fail(h) ==
    /\ Running(h) /\ faults < MaxFaults
    /\ \/ accountTask[h] # NoAccountTask
       \/ keyTask[h] # NoKeyTask
    /\ \E t \in SentAccountTasks(accountTask[h]) :
          accountTask' = [accountTask EXCEPT ![h] = t]
    /\ \E t \in SentKeyTasks(keyTask[h]) : keyTask' = [keyTask EXCEPT ![h] = t]
    /\ pc' = [pc EXCEPT ![h] = "lost"]
    /\ faults' = faults + 1
    /\ UNCHANGED <<chain, tables, next, genesis, restarts>>

(* The operator keeps --store-genesis until the genesis has been stored,   *)
(* and may keep it for ever.  With a start height of his own he may also    *)
(* start behind a block that the crash cut short: like a failing statement  *)
(* that leaves it to a later start.                                        *)
LeavesBehind(h) == \E x \in 1..(h - 1) : Running(x)

Restart(h) ==
    /\ restarts < MaxRestarts
    /\ h <= next
    /\ next' = h
    /\ pc' = [x \in Blocks |-> IF x >= h THEN "idle"
                               ELSE IF pc[x] = "done" THEN "done" ELSE "lost"]
    /\ accountTask' = [x \in Blocks |-> NoAccountTask]
    /\ keyTask' = [x \in Blocks |-> NoKeyTask]
    /\ restarts' = restarts + 1
    /\ LeavesBehind(h) => faults < MaxFaults
    /\ faults' = IF LeavesBehind(h) THEN faults + 1 ELSE faults
    /\ GenesisRestart
    /\ phase' = "stream" => phase = "stream"
    /\ UNCHANGED <<chain, tables>>

StreamEnds ==
    /\ phase = "stream" /\ next > LastBlock
    /\ \A h \in Blocks : /\ ~Running(h)
                         /\ accountTask[h] = NoAccountTask /\ keyTask[h] = NoKeyTask
    /\ UNCHANGED vars

Next ==
    \/ StoreGenesis
    \/ NewBlock
    \/ \E h \in Blocks : \/ Start(h) \/ StoreAccounts(h) \/ StoreKeys(h)
                         \/ Finish(h) \/ Fail(h) \/ Restart(h)
    \/ StreamEnds

Spec == Init /\ [][Next]_vars
-----------------------------------------------------------------------------
Rows == [created : Receipts \cup {NoReceipt}, deleted : Receipts \cup {NoReceipt},
         height : 0..LastBlock]

TypeOK ==
    /\ Len(chain) \in 0..LastBlock
    /\ accountRows \in [Accounts -> Rows \cup {NoRow}]
    /\ keyRows \in [AccessKeys -> Rows \cup {NoRow}]
    /\ accountTask \in [Blocks -> [delete : SUBSET Accounts, insert : BOOLEAN,
                                   update : SUBSET Accounts]]
    /\ keyTask \in [Blocks -> [owners : SUBSET Accounts, update : SUBSET AccessKeys,
                               insert : BOOLEAN, add : SUBSET AccessKeys]]
    /\ next \in 1..(LastBlock + 1)
    /\ pc \in [Blocks -> {"idle", "running", "done", "lost"}]
    /\ phase \in {"records", "accounts", "keys", "stream"}
    /\ recordsRead \in 0..Len(GenesisRecords)
    /\ accountsToStore \in Seq(Accounts) /\ Len(accountsToStore) <= BatchSize
    /\ keysToStore \in Seq(AccessKeys) /\ Len(keysToStore) <= BatchSize
    /\ faults \in 0..MaxFaults
    /\ restarts \in 0..MaxRestarts

(* Every block of the chain was handled to the end, be it in a second try. *)
CaughtUp ==
    /\ phase = "stream"
    /\ next = Len(chain) + 1
    /\ \A h \in 1..Len(chain) : pc[h] = "done"

Says(row, model) ==
    IF model = NoRow THEN row = NoRow
    ELSE row # NoRow /\ row.created = model.created /\ row.deleted = model.deleted

(* Once caught up, whatever failed or was handled twice on the way, the    *)
(* accounts that exist are those of the chain.  The row of a named account *)
(* also says which receipts created and deleted it, unless a failed block  *)
(* was handled again only after a later one, which has the last word then. *)
AccountsOfChain ==
    CaughtUp => \A a \in Accounts :
        /\ Alive(accountRows[a]) <=> Alive(World.accounts[a])
        /\ a \notin Implicit /\ faults = 0 => Says(accountRows[a], World.accounts[a])

(* Once caught up no access key outlives its account.                      *)
NoKeyOutlivesOwner ==
    CaughtUp => \A k \in AccessKeys :
        Alive(keyRows[k]) => Alive(World.accounts[k[2]])

(* Once caught up the keys of a named account are those of the chain, if   *)
(* no block deletes the account twice, or deletes it and adds or deletes a *)
(* key of it.  Their rows are right under the same condition as above.     *)
KeysAmidDeletion(a) ==
    \E h \in 1..Len(chain) : \E i, j \in DOMAIN chain[h] :
        /\ i # j
        /\ chain[h][i].account = a /\ chain[h][i].kind = "DeleteAccount"
        /\ chain[h][j].account = a
        /\ chain[h][j].kind \in {"DeleteAccount", "AddKey", "DeleteKey"}

KeysOfChain ==
    CaughtUp /\ StrictMode => \A k \in AccessKeys :
        k[2] \notin Hex /\ ~KeysAmidDeletion(k[2]) =>
            /\ Alive(keyRows[k]) <=> Alive(World.keys[k])
            /\ faults = 0 => Says(keyRows[k], World.keys[k])

(* The creator of an account with an id of 64 characters is a receipt of a  *)
(* block that brought it into being (of two such transfers the last): a     *)
(* later transfer to an account that exists does not become its creator,    *)
(* whatever is handled twice, if no block failed.  Blocks that transfer to  *)
(* the account and delete it as well are left out: the code overwrites the  *)
(* creator there (handle_accounts).                                         *)
WorldBefore(h, i) ==
    ExecuteBlock(WorldAt(h - 1), SubSeq(chain[h], 1, i - 1))

Creates(h, a) ==
    \E i \in DOMAIN chain[h] :
        /\ chain[h][i].account = a
        /\ \/ chain[h][i].kind = "CreateAccount"
           \/ CreatesImplicit(WorldBefore(h, i), chain[h][i])

TransferAmidDeletion(a) ==
    \E h \in 1..Len(chain) : \A kind \in {"Transfer", "DeleteAccount"} :
        \E i \in DOMAIN chain[h] : chain[h][i].account = a /\ chain[h][i].kind = kind

ImplicitCreatorKept ==
    CaughtUp /\ faults = 0 => \A a \in Implicit :
        accountRows[a] # NoRow /\ accountRows[a].created # NoReceipt /\ ~TransferAmidDeletion(a) =>
            Creates(accountRows[a].created[1], a)

(* Once the stream runs, every account and every key of the genesis has a  *)
(* row, whatever the sizes of the batches and wherever the first starts     *)
(* were stopped.                                                           *)
GenesisIsStored ==
    phase = "stream" =>
        /\ \A a \in Genesis : accountRows[a] # NoRow
        /\ \A k \in GenesisKeys : keyRows[k] # NoRow

(* No statement takes a row away or back to the state of an older block,   *)
(* and a block changes a row at most once: what is handled again after a    *)
(* restart, in any order with the rest of a block that failed, changes      *)
(* nothing that a later block has written.                                 *)
Advances(old, new) ==
    \/ new = old
    \/ old = NoRow
    \/ old # NoRow /\ new # NoRow /\ new.height > old.height

RowsOnlyAdvance ==
    [][/\ \A a \in Accounts : Advances(accountRows[a], accountRows'[a])
       /\ \A k \in AccessKeys : Advances(keyRows[k], keyRows'[k])]_vars
=============================================================================
