---------------------------- MODULE AccountRows ------------------------------
(***************************************************************************)
(* handle_accounts (src/src/db_adapters/accounts.rs): the actions of a     *)
(* block are folded into one model per account; the models without a       *)
(* creator become UPDATEs, side by side with one INSERT of the others and  *)
(* the UPDATEs of those, each guarded by last_update_block_height.         *)
(***************************************************************************)
EXTENDS StateActions

VARIABLES
    accountRows,  \* the table accounts
    accountTask   \* the statements the two futures of a block still have to send

-----------------------------------------------------------------------------
(* The HashMap of handle_accounts.                                         *)
NoAccounts == [a \in Accounts |-> NoRow]

Deleted(model, r) ==
    IF model = NoRow THEN [created |-> NoReceipt, deleted |-> r]
                     ELSE [model EXCEPT !.deleted = r]

FoldAccount(models, act) ==
    LET a == act.account
    IN  CASE \/ act.kind = "CreateAccount"
             \/ act.kind = "Transfer" /\ a \in Implicit ->
                [models EXCEPT ![a] = Fresh(act.receipt)]
          [] act.kind = "DeleteAccount" ->
                [models EXCEPT ![a] = Deleted(@, act.receipt)]
          [] OTHER -> models

AccountModels(h) == Seqs!FoldLeft(FoldAccount, NoAccounts, chain[h])

(* accounts_to_create_or_update and accounts_to_delete.                    *)
Touched(h)  == {a \in Accounts : AccountModels(h)[a] # NoRow}
ToCreate(h) == {a \in Touched(h) : AccountModels(h)[a].created # NoReceipt}
ToDelete(h) == Touched(h) \ ToCreate(h)

AccountTask(h) ==
    [delete |-> ToDelete(h), insert |-> ToCreate(h) # {}, update |-> ToCreate(h)]
NoAccountTask == [delete |-> {}, insert |-> FALSE, update |-> {}]

-----------------------------------------------------------------------------
(* Bug: the row carries the height of the next block.                      *)
AccountRowAhead(h, a) == [created |-> AccountModels(h)[a].created,
                          deleted |-> AccountModels(h)[a].deleted, height |-> h + 1]

(* One row: what block h writes, and what it may write over.               *)
AccountRow(h, a) == [created |-> AccountModels(h)[a].created,
                     deleted |-> AccountModels(h)[a].deleted, height |-> h]

(* Bug: a block that is handled again writes over later blocks.            *)
AnyAge(row, h) == row # NoRow

Older(row, h) == row # NoRow /\ row.height < h

DeleteAccount(h, a) ==
    /\ a \in accountTask[h].delete
    /\ accountTask' = [accountTask EXCEPT ![h].delete = @ \ {a}]
    /\ accountRows' =
          IF Older(accountRows[a], h)
          THEN [accountRows EXCEPT ![a] =
                   [@ EXCEPT !.deleted = AccountModels(h)[a].deleted, !.height = h]]
          ELSE accountRows

(* Bug: one account that is there keeps all of them out.                   *)
InsertAllOrNone(h) ==
    /\ accountTask[h].insert
    /\ accountTask' = [accountTask EXCEPT ![h].insert = FALSE]
    /\ accountRows' = [a \in Accounts |->
          IF a \in ToCreate(h) /\ \A b \in ToCreate(h) : accountRows[b] = NoRow
          THEN AccountRow(h, a) ELSE accountRows[a]]

(* on_conflict_do_nothing                                                  *)
InsertAccounts(h) ==
    /\ accountTask[h].insert
    /\ accountTask' = [accountTask EXCEPT ![h].insert = FALSE]
    /\ accountRows' = [a \in Accounts |->
          IF a \in ToCreate(h) /\ accountRows[a] = NoRow THEN AccountRow(h, a)
                                                         ELSE accountRows[a]]

(* Bug: the creator of every account that is not deleted is kept.          *)
KeepsEveryCreator(h, a) == Alive(accountRows[a])

(* Bug: a transfer to an implicit account becomes its creator.             *)
KeepsNoCreator(h, a) == FALSE

(* The creator of an implicit account that is not deleted is kept, unless  *)
(* the block also deletes the account.                                     *)
KeepsCreator(h, a) ==
    a \in Implicit /\ AccountModels(h)[a].deleted = NoReceipt /\ Alive(accountRows[a])

UpdateAccount(h, a) ==
    /\ ~accountTask[h].insert
    /\ a \in accountTask[h].update
    /\ accountTask' = [accountTask EXCEPT ![h].update = @ \ {a}]
    /\ accountRows' =
          IF Older(accountRows[a], h) /\ ~KeepsCreator(h, a)
          THEN [accountRows EXCEPT ![a] = AccountRow(h, a)] ELSE accountRows

AccountStep(h) ==
    \/ InsertAccounts(h)
    \/ \E a \in Accounts : DeleteAccount(h, a) \/ UpdateAccount(h, a)
=============================================================================
