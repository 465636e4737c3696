------------------------------ MODULE KeyRows --------------------------------
(***************************************************************************)
(* handle_access_keys (src/src/db_adapters/access_keys.rs): the actions of *)
(* a block are folded into one model per key and a map of the deleted      *)
(* accounts, and three futures run side by side: the keys of the deleted   *)
(* accounts, the keys deleted one by one, and the keys that were added.    *)
(* The permission of a key is left out.                                    *)
(***************************************************************************)
EXTENDS StateActions

VARIABLES
    keyRows,  \* the table access_keys
    keyTask   \* the statements the three futures of a block still have to send

-----------------------------------------------------------------------------
(* The two HashMaps of handle_access_keys.                                 *)
NoModels == [keys |-> [k \in AccessKeys |-> NoRow],
             owners |-> [a \in Accounts |-> NoReceipt]]

KeyDeleted(model, r) ==
    IF model = NoRow THEN [created |-> NoReceipt, deleted |-> r]
                     ELSE [model EXCEPT !.deleted = r]

(* Bug: the keys added in the block outlive their owner.                   *)
AddedKeysLeft(keys, a, r) == keys

OwnedDeleted(keys, a, r) ==
    [k \in AccessKeys |-> IF k[2] = a /\ keys[k] # NoRow
                          THEN [keys[k] EXCEPT !.deleted = r] ELSE keys[k]]

FoldKey(models, act) ==
    LET a == act.account
        k == <<act.key, a>>
    IN  CASE act.kind = "DeleteAccount" ->
                [models EXCEPT !.owners[a] = act.receipt,
                               !.keys = OwnedDeleted(@, a, act.receipt)]
          [] act.kind = "AddKey" -> [models EXCEPT !.keys[k] = Fresh(act.receipt)]
          [] act.kind = "DeleteKey" ->
                [models EXCEPT !.keys[k] = KeyDeleted(@, act.receipt)]
          [] act.kind = "Transfer" /\ a \in Hex ->
                [models EXCEPT !.keys[<<ImplicitKey[a], a>>] = Fresh(act.receipt)]
          [] OTHER -> models

KeyModels(h) == Seqs!FoldLeft(FoldKey, NoModels, chain[h])

(* access_keys_to_insert and access_keys_to_update.                        *)
TouchedKeys(h) == {k \in AccessKeys : KeyModels(h).keys[k] # NoRow}
ToAdd(h)       == {k \in TouchedKeys(h) : KeyModels(h).keys[k].created # NoReceipt}

DeletedOwners(h) == {a \in Accounts : KeyModels(h).owners[a] # NoReceipt}

KeyTask(h) ==
    [owners |-> DeletedOwners(h), update |-> TouchedKeys(h) \ ToAdd(h),
     insert |-> ToAdd(h) # {}, add |-> ToAdd(h)]
NoKeyTask == [owners |-> {}, update |-> {}, insert |-> FALSE, add |-> {}]

-----------------------------------------------------------------------------
KeyRow(h, k) == [created |-> KeyModels(h).keys[k].created,
                 deleted |-> KeyModels(h).keys[k].deleted, height |-> h]

OlderKey(k, h) == keyRows[k] # NoRow /\ keyRows[k].height < h

DeleteKeysOf(h, a) ==
    /\ a \in keyTask[h].owners
    /\ keyTask' = [keyTask EXCEPT ![h].owners = @ \ {a}]
    /\ keyRows' = [k \in AccessKeys |->
          IF k[2] = a /\ Alive(keyRows[k]) /\ OlderKey(k, h)
          THEN [keyRows[k] EXCEPT !.deleted = KeyModels(h).owners[a], !.height = h]
          ELSE keyRows[k]]

UpdateKey(h, k) ==
    /\ k \in keyTask[h].update
    /\ keyTask' = [keyTask EXCEPT ![h].update = @ \ {k}]
    /\ keyRows' =
          IF OlderKey(k, h)
          THEN [keyRows EXCEPT ![k] =
                   [@ EXCEPT !.deleted = KeyModels(h).keys[k].deleted, !.height = h]]
          ELSE keyRows

(* Bug: only the keys of implicit accounts are inserted.                   *)
InsertKeysOfImplicit(h) ==
    /\ keyTask[h].insert
    /\ keyTask' = [keyTask EXCEPT ![h].insert = FALSE]
    /\ keyRows' = [k \in AccessKeys |->
          IF k \in ToAdd(h) /\ k[2] \in Hex /\ keyRows[k] = NoRow
          THEN KeyRow(h, k) ELSE keyRows[k]]

InsertKeys(h) ==
    /\ keyTask[h].insert
    /\ keyTask' = [keyTask EXCEPT ![h].insert = FALSE]
    /\ keyRows' = [k \in AccessKeys |->
          IF k \in ToAdd(h) /\ keyRows[k] = NoRow THEN KeyRow(h, k) ELSE keyRows[k]]

AddKey(h, k) ==
    /\ ~keyTask[h].insert
    /\ k \in keyTask[h].add
    /\ keyTask' = [keyTask EXCEPT ![h].add = @ \ {k}]
    /\ keyRows' = IF OlderKey(k, h) THEN [keyRows EXCEPT ![k] = KeyRow(h, k)] ELSE keyRows

KeyStep(h) ==
    \/ InsertKeys(h)
    \/ \E a \in Accounts : DeleteKeysOf(h, a)
    \/ \E k \in AccessKeys : UpdateKey(h, k) \/ AddKey(h, k)
=============================================================================
