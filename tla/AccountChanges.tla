---------------------------- MODULE AccountChanges ---------------------------
(***************************************************************************)
(* store_account_changes (src/src/db_adapters/account_changes.rs): the     *)
(* changes of accounts among the state changes of a block, one statement   *)
(* per shard.  Its rows are told apart by three partial unique indexes,    *)
(* none of which has the column index_in_block.  A statement whose foreign *)
(* keys are not there yet (the accounts future runs beside it) is refused  *)
(* and tried again: it is StoreChanges at a later time, or after the tenth *)
(* time the failure that ends the handler.                                 *)
(***************************************************************************)
EXTENDS BlockMessage, FiniteSets

VARIABLES
    changeRows,  \* the table account_changes
    changeTask   \* the shards whose statement an indexer still has to send

changeVars == <<changeRows, changeTask>>

AccountValues == {"AccountUpdate", "AccountDeletion"}

(* What the cause of a change refers to: a transaction, a receipt, neither. *)
ReceiptCauses == {"ActionReceiptProcessingStarted", "ActionReceiptGasReward",
                  "ReceiptProcessing", "PostponedReceipt"}

(* Bug: a gas reward is not linked to its receipt.                         *)
CausedWithoutReward(change) ==
    [transaction |-> IF change.reason = "TransactionProcessing" THEN change.cause ELSE "",
     receipt |-> IF change.reason \in ReceiptCauses \ {"ActionReceiptGasReward"}
                 THEN change.cause ELSE ""]

CausedBy(change) ==
    [transaction |-> IF change.reason = "TransactionProcessing" THEN change.cause ELSE "",
     receipt |-> IF change.reason \in ReceiptCauses THEN change.cause ELSE ""]

(* External: the changes of a shard are a list; a cause that is neither a  *)
(* transaction nor a receipt refers to nothing; and of one cause a block   *)
(* reports one change of an account.                                       *)
Changes(m, s) == Messages[m].changes[s]
AccountPositions(changes) == {k \in DOMAIN changes : changes[k].value \in AccountValues}

NamesCause(change) ==
    change.reason \in {"TransactionProcessing"} \cup ReceiptCauses \/ change.cause = ""

SameCause(c, d) == c.account = d.account /\ c.reason = d.reason /\ c.cause = d.cause

ASSUME ChangesToldApart ==
    /\ IsFiniteSet(Shards)
    /\ \A m \in DOMAIN Messages : \A s \in Shards :
          /\ Len(Changes(m, s)) \in Nat
          /\ DOMAIN Changes(m, s) = 1..Len(Changes(m, s))
          /\ \A k \in AccountPositions(Changes(m, s)) : NamesCause(Changes(m, s)[k])
    /\ \A m \in DOMAIN Messages : \A s, t \in Shards :
          \A k \in AccountPositions(Changes(m, s)), j \in AccountPositions(Changes(m, t)) :
             SameCause(Changes(m, s)[k], Changes(m, t)[j]) => s = t /\ k = j

(* from_state_change_with_cause; a deleted account has no balance.         *)
ChangeRow(change, index) ==
    [account |-> change.account, causedBy |-> CausedBy(change), reason |-> change.reason,
     balance |-> IF change.value = "AccountDeletion" THEN 0 ELSE change.balance,
     index |-> index]

(* The index counts all state changes of the shard.                        *)
ShardRows(s) ==
    LET changes == Changes(message, s)
        rows == [k \in DOMAIN changes |-> ChangeRow(changes[k], k - 1)]
    IN  [k \in AccountPositions(changes) |-> rows[k]]

SameChange(r, x) == [r EXCEPT !.index = 0] = [x EXCEPT !.index = 0]

(* on_conflict_do_nothing, row by row: of the rows that are the same       *)
(* change only the first stays, also within one statement.                 *)
InsertedChanges(rows, shardRows) ==
    rows \cup {shardRows[k] : k \in {k \in DOMAIN shardRows :
        /\ \A x \in rows : ~SameChange(shardRows[k], x)
        /\ \A j \in DOMAIN shardRows : j < k => ~SameChange(shardRows[k], shardRows[j])}}

StoreChanges(i, s) ==
    /\ s \in changeTask[i]
    /\ changeRows' = InsertedChanges(changeRows, ShardRows(s))
    /\ changeTask' = [changeTask EXCEPT ![i] = @ \ {s}]

StartChanges(i) ==
    changeTask' = [changeTask EXCEPT ![i] = {s \in Shards : Changes(message, s) # <<>>}]

DropChanges(i) ==
    /\ \E sent \in SUBSET changeTask[i] : changeTask' = [changeTask EXCEPT ![i] = sent]
    /\ UNCHANGED changeRows

ChangesIdle(i) == changeTask[i] = {}

ChangesInit ==
    /\ changeRows = {}
    /\ changeTask = [i \in Indexers |-> {}]
=============================================================================
