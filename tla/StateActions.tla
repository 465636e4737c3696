---------------------------- MODULE StateActions -----------------------------
(***************************************************************************)
(* The actions of the successful receipts a block reports as executed, as  *)
(* handle_accounts and handle_access_keys read them, and what they do to   *)
(* the accounts and access keys of the chain, one action at a time.  The   *)
(* chain is external; it only executes legal actions.  The chunks of the   *)
(* shards are handled apart and an account lives on one shard, so a block  *)
(* is the list of the actions of one chunk, for any accounts of its shard. *)
(***************************************************************************)
EXTENDS Naturals, Sequences, FiniteSets
Seqs == INSTANCE SequencesExt

CONSTANTS
    LastBlock,    \* bound: the heights are 1..LastBlock
    MaxActions,   \* bound: actions in a block
    MaxAccounts,  \* bound: accounts that the actions of a chain are for
    MaxMixed,     \* bound: actions in a block if they are for several
    Accounts,     \* account ids
    Implicit,     \* the ids of 64 characters: the code takes them for implicit
    Hex,          \* those of them that are: a public key in hexadecimal digits
    PublicKeys,
    ImplicitKey,  \* the public key such an id stands for
    Genesis,      \* accounts that exist at genesis
    GenesisKeys,  \* access keys that exist at genesis
    NoReceipt,
    NoRow         \* a record, of no table

Blocks   == 1..LastBlock
AccessKeys == PublicKeys \X Accounts

(* An action stands for the receipt that contains it: <<height, position>>. *)
Receipts == Blocks \X (1..MaxActions)

ASSUME StateConstants ==
    /\ LastBlock \in Nat \ {0}
    /\ MaxActions \in Nat /\ MaxMixed \in 0..MaxActions /\ MaxAccounts \in Nat
    /\ Hex \subseteq Implicit /\ Implicit \subseteq Accounts
    /\ ImplicitKey \in [Hex -> PublicKeys]
    /\ Genesis \subseteq Accounts
    /\ GenesisKeys \subseteq PublicKeys \X Genesis
    /\ NoReceipt \notin Receipts
    /\ DOMAIN NoRow \cap {"created", "deleted", "height"} = {}

Kinds == {"CreateAccount", "Transfer", "DeleteAccount", "AddKey", "DeleteKey"}
Actions  == [kind : Kinds, account : Accounts, key : PublicKeys]

VARIABLE chain  \* the actions of every block produced so far

-----------------------------------------------------------------------------
(* A world is what the chain knows: who created and deleted what.          *)
Fresh(r)   == [created |-> r, deleted |-> NoReceipt]
Alive(row) == row # NoRow /\ row.deleted = NoReceipt
Ended(row, r) == IF row = NoRow THEN row ELSE [row EXCEPT !.deleted = r]

GenesisWorld ==
    [accounts |-> [a \in Accounts |-> IF a \in Genesis THEN Fresh(NoReceipt) ELSE NoRow],
     keys |-> [k \in AccessKeys |-> IF k \in GenesisKeys THEN Fresh(NoReceipt) ELSE NoRow]]

OwnerDeleted(keys, a, r) ==
    [k \in AccessKeys |-> IF k[2] = a /\ Alive(keys[k]) THEN Ended(keys[k], r) ELSE keys[k]]

CreatesImplicit(w, act) ==
    act.kind = "Transfer" /\ act.account \in Hex /\ ~Alive(w.accounts[act.account])

Execute(w, act) ==
    LET a == act.account
        k == <<act.key, a>>
    IN  CASE act.kind = "CreateAccount" -> [w EXCEPT !.accounts[a] = Fresh(act.receipt)]
          [] CreatesImplicit(w, act) ->
                [w EXCEPT !.accounts[a] = Fresh(act.receipt),
                          !.keys[<<ImplicitKey[a], a>>] = Fresh(act.receipt)]
          [] act.kind = "DeleteAccount" ->
                [w EXCEPT !.accounts[a] = Ended(@, act.receipt),
                          !.keys = OwnerDeleted(@, a, act.receipt)]
          [] act.kind = "AddKey" -> [w EXCEPT !.keys[k] = Fresh(act.receipt)]
          [] act.kind = "DeleteKey" -> [w EXCEPT !.keys[k] = Ended(@, act.receipt)]
          [] OTHER -> w

(* A transfer to a shorter account id does not change anything.            *)
Legal(w, act) ==
    LET exists == Alive(w.accounts[act.account])
    IN  CASE act.kind = "CreateAccount" -> ~exists /\ act.account \notin Hex
          [] act.kind = "Transfer" ->
                act.account \in Implicit /\ (exists \/ act.account \in Hex)
          [] act.kind = "DeleteAccount" -> exists
          [] act.kind = "AddKey" -> exists /\ ~Alive(w.keys[<<act.key, act.account>>])
          [] act.kind = "DeleteKey" -> exists /\ Alive(w.keys[<<act.key, act.account>>])

(* The world after a block, after the first blocks, and after the last.    *)
ExecuteBlock(w, block) == Seqs!FoldLeft(Execute, w, block)
WorldAt(h) == Seqs!FoldLeft(ExecuteBlock, GenesisWorld, SubSeq(chain, 1, h))
World == WorldAt(Len(chain))

(* Only the key matters of AddKey and DeleteKey: one action for all keys   *)
(* is enough of the others.                                                *)
DistinctActions ==
    {act \in Actions : act.kind \in {"AddKey", "DeleteKey"} \/
                       act.key = CHOOSE k \in PublicKeys : TRUE}

(* The actions of the next block, with their receipts.                     *)
BlockOfActions(acts) ==
    [i \in DOMAIN acts |-> [kind |-> acts[i].kind, account |-> acts[i].account,
                            key |-> acts[i].key, receipt |-> <<Len(chain) + 1, i>>]]

LegalBlock(block) ==
    \A i \in DOMAIN block :
        Legal(ExecuteBlock(World, SubSeq(block, 1, i - 1)), block[i])

(* Long lists are for one account, shorter ones for any; the chain has no  *)
(* long one if it acts on several accounts.                                *)
ActionsFor(a) == {act \in DistinctActions : act.account = a}
ListsOf(acts, most) == UNION {[1..n -> acts] : n \in 0..most}
BoundedLists ==
    ListsOf(DistinctActions, MaxMixed) \cup
        UNION {ListsOf(ActionsFor(a), MaxActions) : a \in Accounts}

ActedOn(blocks) ==
    UNION {{blocks[h][i].account : i \in DOMAIN blocks[h]} : h \in DOMAIN blocks}
Bounded(blocks) ==
    \/ Cardinality(ActedOn(blocks)) <= 1
    \/ /\ Cardinality(ActedOn(blocks)) <= MaxAccounts
       /\ \A h \in DOMAIN blocks : Len(blocks[h]) <= MaxMixed

Produce ==
    /\ Len(chain) < LastBlock
    /\ \E acts \in BoundedLists :
            /\ Bounded(Append(chain, BlockOfActions(acts)))
            /\ LegalBlock(BlockOfActions(acts))
            /\ chain' = Append(chain, BlockOfActions(acts))
=============================================================================
