----------------------------- MODULE ChainProofs -----------------------------
(***************************************************************************)
(* What the actions of a block do to the accounts and the keys of the      *)
(* chain, against what handle_accounts and handle_access_keys collect of   *)
(* them, for every block and every chain. The folds of the library are     *)
(* recursive functions: that they are defined, and go through a sequence   *)
(* member by member, is proved first.                                      *)
(***************************************************************************)
EXTENDS AccountRows, KeyRows, FiniteSetTheorems, TLAPS

(* A set of numbers that is not empty has a least member.                  *)
LEMMA SmallestNumber ==
    ASSUME NEW T, T \subseteq Nat, T # {}
    PROVE  \E n \in T : \A m \in T : n <= m
<1>1. \E n \in T : \A m \in T : ~(<<m, n>> \in OpToRel(<, Nat))
  BY NatLessThanWellFounded, WFMin, Zenon
<1>2. PICK n \in T : \A m \in T : <<m, n>> \notin OpToRel(<, Nat)
  BY <1>1, Zenon
<1>3. \A m \in T : ~(m < n)
  BY <1>2 DEF OpToRel
<1> QED
  BY <1>3

(* Induction over an interval.                                             *)
LEMMA UpTo ==
    ASSUME NEW M \in Nat, NEW N \in Nat, NEW S, M \in S,
           \A i \in (M + 1)..N : i - 1 \in S => i \in S
    PROVE  \A i \in M..N : i \in S
<1> DEFINE Bad == {i \in M..N : i \notin S}
<1>1. SUFFICES ASSUME Bad # {} PROVE FALSE
  OBVIOUS
<1>2. PICK i \in Bad : \A j \in Bad : i <= j
  <2>1. Bad \subseteq Nat
    OBVIOUS
  <2> HIDE DEF Bad
  <2> QED
    BY <1>1, <2>1, SmallestNumber
<1>3. i \in M..N /\ i \notin S
  OBVIOUS
<1>4. i # M
  BY <1>3
<1>5. i - 1 \in M..N /\ ~(i <= i - 1) /\ i \in (M + 1)..N
  BY <1>3, <1>4
<1>6. i - 1 \in S
  BY <1>2, <1>5
<1> QED
  BY <1>3, <1>5, <1>6

(* The folds of the library choose the greatest position of a set.         *)
Top(s) == CHOOSE x \in s : \A y \in s : x >= y

(* A recursive function that folds op over the positions 1..n.             *)
IsFold(f, W, base, op, n) ==
    /\ f \in [SUBSET (1..n) -> W]
    /\ \A r \in SUBSET (1..n) :
          f[r] = IF r = {} THEN base ELSE op[Top(r)][f[r \ {Top(r)}]]

(* The greatest of a set of positions.                                     *)
LEMMA TopIs ==
    ASSUME NEW r, r \subseteq Nat, NEW n \in r, \A y \in r : y <= n
    PROVE  Top(r) = n
<1>1. \A y \in r : n >= y
  OBVIOUS
<1>2. \A x \in r : (\A y \in r : x >= y) => x = n
  OBVIOUS
<1> QED
  BY <1>1, <1>2 DEF Top

(* There is such a function: the argument goes up from 1..0 to 1..N.       *)
LEMMA FoldExists ==
    ASSUME NEW W, NEW base \in W, NEW N \in Nat, NEW op \in [1..N -> [W -> W]]
    PROVE  \E f : IsFold(f, W, base, op, N)
<1> DEFINE S == {n \in 0..N : \E f : IsFold(f, W, base, op, n)}
<1>1. 0 \in S
  <2> DEFINE f == [r \in SUBSET (1..0) |-> base]
  <2>1. \A r \in SUBSET (1..0) : r = {}
    OBVIOUS
  <2>2. IsFold(f, W, base, op, 0)
    BY <2>1 DEF IsFold
  <2> HIDE DEF f
  <2> QED
    BY <2>2
<1>2. ASSUME NEW n \in 1..N, n - 1 \in S
      PROVE  n \in S
  <2> DEFINE m == n - 1
  <2>1. PICK g : IsFold(g, W, base, op, m)
    BY <1>2
  <2> DEFINE f == [r \in SUBSET (1..n) |-> IF n \in r THEN op[n][g[r \ {n}]] ELSE g[r]]
  <2>2. \A r \in SUBSET (1..n) : r \ {n} \in SUBSET (1..m)
    OBVIOUS
  <2>3. f \in [SUBSET (1..n) -> W]
    <3>1. \A r \in SUBSET (1..n) : n \notin r => r \in SUBSET (1..m)
      OBVIOUS
    <3>a. g \in [SUBSET (1..m) -> W]
      BY <2>1 DEF IsFold
    <3> HIDE DEF m
    <3>2. ASSUME NEW r \in SUBSET (1..n)
          PROVE  f[r] \in W
      <4>1. CASE n \in r
        <5>1. g[r \ {n}] \in W
          BY <2>2, <3>a
        <5> QED
          BY <4>1, <5>1
      <4>2. CASE n \notin r
        BY <3>1, <3>a, <4>2
      <4> QED
        BY <4>1, <4>2
    <3> QED
      BY <3>2
  <2>4. ASSUME NEW r \in SUBSET (1..n)
        PROVE  f[r] = IF r = {} THEN base ELSE op[Top(r)][f[r \ {Top(r)}]]
    <3>1. CASE n \in r
      <4>1. r \subseteq Nat /\ \A y \in r : y <= n
        OBVIOUS
      <4>2. Top(r) = n
        BY <3>1, <4>1, TopIs
      <4>3. r \ {n} \in SUBSET (1..n) /\ n \notin r \ {n}
        OBVIOUS
      <4>4. f[r \ {n}] = g[r \ {n}]
        BY <4>3
      <4> QED
        BY <3>1, <4>2, <4>4
    <3>2. CASE n \notin r
      <4>1. r \in SUBSET (1..m)
        BY <3>2
      <4>2. f[r] = g[r]
        BY <3>2
      <4>3. r \ {Top(r)} \in SUBSET (1..n) /\ n \notin r \ {Top(r)}
        BY <3>2
      <4>4. f[r \ {Top(r)}] = g[r \ {Top(r)}]
        BY <4>3
      <4> HIDE DEF f
      <4> QED
        BY <2>1, <4>1, <4>2, <4>4 DEF IsFold
    <3> QED
      BY <3>1, <3>2
  <2>5. IsFold(f, W, base, op, n)
    <3> HIDE DEF f
    <3> QED
      BY <2>3, <2>4 DEF IsFold
  <2> HIDE DEF f
  <2> QED
    BY <2>5
<1>3. N \in S
  <2> HIDE DEF S
  <2>1. 0 \in Nat /\ 0 + 1 = 1
    OBVIOUS
  <2>2. \A i \in (0 + 1)..N : i - 1 \in S => i \in S
    BY <1>2, <2>1
  <2>3. \A i \in 0..N : i \in S
    BY <1>1, <2>1, <2>2, UpTo
  <2> QED
    BY <2>3
<1> QED
  BY <1>3

(* The prefixes 1..i of the positions.                                     *)
LEMMA TopOfPrefix ==
    ASSUME NEW i \in Nat, i # 0
    PROVE  1..i # {} /\ Top(1..i) = i /\ (1..i) \ {i} = 1..(i - 1)
<1>1. i \in 1..i /\ 1..i \subseteq Nat /\ \A y \in 1..i : y <= i
  OBVIOUS
<1>2. Top(1..i) = i
  BY <1>1, TopIs
<1> QED
  BY <1>1, <1>2

(* A prefix of a sequence.                                                 *)
LEMMA PrefixFacts ==
    ASSUME NEW A, NEW s \in Seq(A), NEW n \in 0..Len(s)
    PROVE  /\ SubSeq(s, 1, n) \in Seq(A) /\ Len(SubSeq(s, 1, n)) = n
           /\ \A i \in 1..n : SubSeq(s, 1, n)[i] = s[i]
           /\ SubSeq(s, 1, Len(s)) = s
  OBVIOUS
-----------------------------------------------------------------------------
(* The entries of the world and of the maps of the two handlers.           *)
ReceiptIds == Receipts \cup {NoReceipt}
Entries    == [created : ReceiptIds, deleted : ReceiptIds] \cup {NoRow}
Worlds == [accounts : [Accounts -> Entries], keys : [AccessKeys -> Entries]]
Models == [keys : [AccessKeys -> Entries], owners : [Accounts -> ReceiptIds]]

(* The actions a block of the chain is made of.                            *)
ChainActions == [kind : Kinds, account : Accounts, key : PublicKeys, receipt : Receipts]

(* Entries.                                                                *)
LEMMA EntryFacts ==
    /\ NoRow \notin [created : ReceiptIds, deleted : ReceiptIds]
    /\ ~Alive(NoRow)
    /\ \A r \in ReceiptIds : Fresh(r) \in Entries /\ Fresh(r) # NoRow /\ Alive(Fresh(r))
                             /\ Fresh(r).created = r /\ Fresh(r).deleted = NoReceipt
    /\ \A e \in Entries, r \in ReceiptIds :
          /\ Ended(e, r) \in Entries
          /\ e = NoRow => Ended(e, r) = NoRow
          /\ e # NoRow => /\ Ended(e, r) # NoRow
                          /\ Ended(e, r).created = e.created /\ Ended(e, r).deleted = r
    /\ NoRow \in Entries
    /\ \A r \in Receipts : r \in ReceiptIds /\ r # NoReceipt
<1>1. ASSUME NoRow \in [created : ReceiptIds, deleted : ReceiptIds]
      PROVE  FALSE
  <2>1. "created" \in DOMAIN NoRow
    BY <1>1
  <2> QED
    BY <2>1, StateConstants
<1>2. ~Alive(NoRow)
  BY DEF Alive
<1>3. ASSUME NEW r \in ReceiptIds
      PROVE  /\ Fresh(r) \in Entries /\ Fresh(r) # NoRow /\ Alive(Fresh(r))
             /\ Fresh(r).created = r /\ Fresh(r).deleted = NoReceipt
  BY <1>1 DEF Fresh, Entries, ReceiptIds, Alive
<1>4. ASSUME NEW e \in Entries, NEW r \in ReceiptIds
      PROVE  /\ Ended(e, r) \in Entries
             /\ e = NoRow => Ended(e, r) = NoRow
             /\ e # NoRow => /\ Ended(e, r) # NoRow
                             /\ Ended(e, r).created = e.created /\ Ended(e, r).deleted = r
  <2>1. CASE e = NoRow
    BY <2>1 DEF Ended, Entries
  <2>2. CASE e # NoRow
    <3>1. e \in [created : ReceiptIds, deleted : ReceiptIds]
      BY <2>2 DEF Entries
    <3>2. /\ Ended(e, r) \in [created : ReceiptIds, deleted : ReceiptIds]
          /\ Ended(e, r).created = e.created /\ Ended(e, r).deleted = r
      BY <2>2, <3>1 DEF Ended
    <3> QED
      BY <1>1, <2>2, <3>2 DEF Entries
  <2> QED
    BY <2>1, <2>2
<1>5. \A r \in Receipts : r \in ReceiptIds /\ r # NoReceipt
  BY StateConstants DEF ReceiptIds
<1> QED
  BY <1>1, <1>2, <1>3, <1>4, <1>5 DEF Entries

(* What an action does to the world.                                       *)
WorldOf(accounts, keys) == [accounts |-> accounts, keys |-> keys]
KeyOf(act)    == <<act.key, act.account>>
KeyGiven(act) == <<ImplicitKey[act.account], act.account>>

(* The fields of an action.                                                *)
LEMMA ActionFacts ==
    ASSUME NEW act \in ChainActions
    PROVE  /\ act.account \in Accounts /\ KeyOf(act) \in AccessKeys
           /\ act.receipt \in Receipts /\ act.receipt \in ReceiptIds /\ act.receipt # NoReceipt
           /\ act.kind \in Kinds
           /\ KeyOf(act)[2] = act.account /\ KeyGiven(act)[2] = act.account
           /\ act.account \in Hex => KeyGiven(act) \in AccessKeys
  BY StateConstants DEF ChainActions, AccessKeys, KeyOf, KeyGiven, ReceiptIds

(* Execute, one kind of action at a time.                                  *)
LEMMA ExecuteFacts ==
    ASSUME NEW w \in Worlds, NEW act \in ChainActions
    PROVE  /\ act.kind = "CreateAccount" =>
                 Execute(w, act) =
                    WorldOf([w.accounts EXCEPT ![act.account] = Fresh(act.receipt)], w.keys)
           /\ CreatesImplicit(w, act) =>
                 Execute(w, act) =
                    WorldOf([w.accounts EXCEPT ![act.account] = Fresh(act.receipt)],
                            [w.keys EXCEPT ![KeyGiven(act)] = Fresh(act.receipt)])
           /\ act.kind = "Transfer" /\ ~CreatesImplicit(w, act) => Execute(w, act) = w
           /\ act.kind = "DeleteAccount" =>
                 Execute(w, act) =
                    WorldOf([w.accounts EXCEPT ![act.account] =
                               Ended(w.accounts[act.account], act.receipt)],
                            OwnerDeleted(w.keys, act.account, act.receipt))
           /\ act.kind = "AddKey" =>
                 Execute(w, act) =
                    WorldOf(w.accounts, [w.keys EXCEPT ![KeyOf(act)] = Fresh(act.receipt)])
           /\ act.kind = "DeleteKey" =>
                 Execute(w, act) =
                    WorldOf(w.accounts, [w.keys EXCEPT ![KeyOf(act)] =
                                            Ended(w.keys[KeyOf(act)], act.receipt)])
<1>3. w = [accounts |-> w.accounts, keys |-> w.keys]
  BY DEF Worlds
<1>4. ASSUME act.kind = "CreateAccount"
      PROVE  Execute(w, act) =
                WorldOf([w.accounts EXCEPT ![act.account] = Fresh(act.receipt)], w.keys)
  <2>0. ~CreatesImplicit(w, act)
    BY <1>4 DEF CreatesImplicit
  <2>1. Execute(w, act) = [w EXCEPT !.accounts[act.account] = Fresh(act.receipt)]
    BY <1>4, <2>0 DEF Execute
  <2> QED
    BY <1>3, <2>1 DEF WorldOf
<1>5. ASSUME CreatesImplicit(w, act)
      PROVE  Execute(w, act) =
                WorldOf([w.accounts EXCEPT ![act.account] = Fresh(act.receipt)],
                        [w.keys EXCEPT ![KeyGiven(act)] = Fresh(act.receipt)])
  <2>0. act.kind = "Transfer"
    BY <1>5 DEF CreatesImplicit
  <2>1. Execute(w, act) = [w EXCEPT !.accounts[act.account] = Fresh(act.receipt),
                                    !.keys[KeyGiven(act)] = Fresh(act.receipt)]
    BY <1>5, <2>0 DEF Execute, KeyGiven
  <2> QED
    BY <1>3, <2>1 DEF WorldOf
<1>6. ASSUME act.kind = "Transfer", ~CreatesImplicit(w, act)
      PROVE  Execute(w, act) = w
  BY <1>6 DEF Execute
<1>7. ASSUME act.kind = "DeleteAccount"
      PROVE  Execute(w, act) =
                WorldOf([w.accounts EXCEPT ![act.account] =
                            Ended(w.accounts[act.account], act.receipt)],
                        OwnerDeleted(w.keys, act.account, act.receipt))
  <2>0. ~CreatesImplicit(w, act)
    BY <1>7 DEF CreatesImplicit
  <2>1. Execute(w, act) = [w EXCEPT !.accounts[act.account] = Ended(@, act.receipt),
                                    !.keys = OwnerDeleted(@, act.account, act.receipt)]
    BY <1>7, <2>0 DEF Execute
  <2> QED
    BY <1>3, <2>1 DEF WorldOf
<1>8. ASSUME act.kind = "AddKey"
      PROVE  Execute(w, act) =
                WorldOf(w.accounts, [w.keys EXCEPT ![KeyOf(act)] = Fresh(act.receipt)])
  <2>0. ~CreatesImplicit(w, act)
    BY <1>8 DEF CreatesImplicit
  <2>1. Execute(w, act) = [w EXCEPT !.keys[KeyOf(act)] = Fresh(act.receipt)]
    BY <1>8, <2>0 DEF Execute, KeyOf
  <2> QED
    BY <1>3, <2>1 DEF WorldOf
<1>9. ASSUME act.kind = "DeleteKey"
      PROVE  Execute(w, act) =
                WorldOf(w.accounts, [w.keys EXCEPT ![KeyOf(act)] =
                                        Ended(w.keys[KeyOf(act)], act.receipt)])
  <2>0. ~CreatesImplicit(w, act)
    BY <1>9 DEF CreatesImplicit
  <2>1. Execute(w, act) = [w EXCEPT !.keys[KeyOf(act)] = Ended(@, act.receipt)]
    BY <1>9, <2>0 DEF Execute, KeyOf
  <2> QED
    BY <1>3, <2>1 DEF WorldOf
<1> QED
  BY <1>4, <1>5, <1>6, <1>7, <1>8, <1>9

(* There are no other kinds.                                               *)
LEMMA KindsOfActions ==
    ASSUME NEW w, NEW act \in ChainActions
    PROVE  \/ act.kind = "CreateAccount" \/ CreatesImplicit(w, act)
           \/ act.kind = "Transfer" /\ ~CreatesImplicit(w, act)
           \/ act.kind = "DeleteAccount" \/ act.kind = "AddKey" \/ act.kind = "DeleteKey"
  BY ActionFacts DEF Kinds

(* An action takes a world to a world.                                     *)
LEMMA ExecuteType ==
    ASSUME NEW w \in Worlds, NEW act \in ChainActions
    PROVE  Execute(w, act) \in Worlds
<1> DEFINE a == act.account
           r == act.receipt
<1>1. a \in Accounts /\ KeyOf(act) \in AccessKeys /\ r \in ReceiptIds
  BY ActionFacts
<1>2. w.accounts \in [Accounts -> Entries] /\ w.keys \in [AccessKeys -> Entries]
  BY DEF Worlds
<1>3. /\ [w.accounts EXCEPT ![a] = Fresh(r)] \in [Accounts -> Entries]
      /\ [w.accounts EXCEPT ![a] = Ended(w.accounts[a], r)] \in [Accounts -> Entries]
  BY <1>1, <1>2, EntryFacts
<1>4. /\ \A x \in AccessKeys : [w.keys EXCEPT ![x] = Fresh(r)] \in [AccessKeys -> Entries]
      /\ [w.keys EXCEPT ![KeyOf(act)] = Ended(w.keys[KeyOf(act)], r)]
            \in [AccessKeys -> Entries]
  BY <1>1, <1>2, EntryFacts
<1>5. OwnerDeleted(w.keys, a, r) \in [AccessKeys -> Entries]
  BY <1>1, <1>2, EntryFacts DEF OwnerDeleted
<1>6. CreatesImplicit(w, act) => KeyGiven(act) \in AccessKeys
  BY ActionFacts DEF CreatesImplicit
<1>8. CASE act.kind = "CreateAccount"
  BY <1>2, <1>3, <1>8, ExecuteFacts DEF WorldOf, Worlds
<1>9. CASE CreatesImplicit(w, act)
  BY <1>2, <1>3, <1>4, <1>6, <1>9, ExecuteFacts DEF WorldOf, Worlds
<1>10. CASE act.kind = "Transfer" /\ ~CreatesImplicit(w, act)
  BY <1>10, ExecuteFacts
<1>11. CASE act.kind = "DeleteAccount"
  BY <1>3, <1>5, <1>11, ExecuteFacts DEF WorldOf, Worlds
<1>12. CASE act.kind = "AddKey"
  BY <1>1, <1>2, <1>4, <1>12, ExecuteFacts DEF WorldOf, Worlds
<1>13. CASE act.kind = "DeleteKey"
  BY <1>2, <1>4, <1>13, ExecuteFacts DEF WorldOf, Worlds
<1> QED
  BY <1>8, <1>9, <1>10, <1>11, <1>12, <1>13, KindsOfActions
-----------------------------------------------------------------------------
(* The entries a handler collects.                                         *)
LEMMA DeletedFacts ==
    ASSUME NEW e \in Entries, NEW r \in ReceiptIds
    PROVE  /\ Deleted(e, r) \in Entries /\ Deleted(e, r) # NoRow
           /\ Deleted(e, r).deleted = r
           /\ e = NoRow => Deleted(e, r).created = NoReceipt
           /\ e # NoRow => Deleted(e, r).created = e.created
<1>1. CASE e = NoRow
  <2>1. Deleted(e, r) = [created |-> NoReceipt, deleted |-> r]
    BY <1>1 DEF Deleted
  <2> QED
    BY <1>1, <2>1, EntryFacts DEF Entries, ReceiptIds
<1>2. CASE e # NoRow
  <2>1. e \in [created : ReceiptIds, deleted : ReceiptIds]
    BY <1>2 DEF Entries
  <2>2. /\ Deleted(e, r) \in [created : ReceiptIds, deleted : ReceiptIds]
        /\ Deleted(e, r).deleted = r /\ Deleted(e, r).created = e.created
    BY <1>2, <2>1 DEF Deleted
  <2> QED
    BY <1>2, <2>2, EntryFacts DEF Entries
<1> QED
  BY <1>1, <1>2

(* Both handlers mark an entry as deleted in the same way.                 *)
LEMMA SameDeleted == \A e, r : KeyDeleted(e, r) = Deleted(e, r)
BY DEF KeyDeleted, Deleted

(* The actions of which handle_accounts makes a new model.                 *)
Collects(act) ==
    act.kind = "CreateAccount" \/ (act.kind = "Transfer" /\ act.account \in Implicit)

(* What handle_accounts makes of one action, ...                           *)
LEMMA FoldAccountFacts ==
    ASSUME NEW v \in [Accounts -> Entries], NEW act \in ChainActions
    PROVE  /\ FoldAccount(v, act) \in [Accounts -> Entries]
           /\ \A a \in Accounts : a # act.account => FoldAccount(v, act)[a] = v[a]
           /\ Collects(act) => FoldAccount(v, act)[act.account] = Fresh(act.receipt)
           /\ act.kind = "DeleteAccount" =>
                 FoldAccount(v, act)[act.account] = Deleted(v[act.account], act.receipt)
           /\ ~Collects(act) /\ act.kind # "DeleteAccount" => FoldAccount(v, act) = v
<1> DEFINE a == act.account
           r == act.receipt
<1>1. a \in Accounts /\ r \in ReceiptIds
  BY ActionFacts
<1>2. Fresh(r) \in Entries /\ Deleted(v[a], r) \in Entries
  BY <1>1, EntryFacts, DeletedFacts
<1>3. CASE Collects(act)
  <2>1. FoldAccount(v, act) = [v EXCEPT ![a] = Fresh(r)]
    BY <1>3 DEF FoldAccount, Collects
  <2>2. act.kind # "DeleteAccount"
    BY <1>3 DEF Collects
  <2> QED
    BY <1>1, <1>2, <1>3, <2>1, <2>2
<1>4. CASE act.kind = "DeleteAccount"
  <2>1. FoldAccount(v, act) = [v EXCEPT ![a] = Deleted(v[a], r)]
    BY <1>4 DEF FoldAccount
  <2>2. ~Collects(act)
    BY <1>4 DEF Collects
  <2> QED
    BY <1>1, <1>2, <1>4, <2>1, <2>2
<1>5. CASE ~Collects(act) /\ act.kind # "DeleteAccount"
  <2>1. FoldAccount(v, act) = v
    BY <1>5 DEF FoldAccount, Collects
  <2> QED
    BY <1>5, <2>1
<1> QED
  BY <1>3, <1>4, <1>5

(* ... and what handle_access_keys makes of it.                            *)
LEMMA FoldKeyFacts ==
    ASSUME NEW v \in Models, NEW act \in ChainActions
    PROVE  /\ FoldKey(v, act) \in Models
           /\ act.kind = "DeleteAccount" =>
                 /\ FoldKey(v, act).owners = [v.owners EXCEPT ![act.account] = act.receipt]
                 /\ FoldKey(v, act).keys = OwnedDeleted(v.keys, act.account, act.receipt)
           /\ act.kind # "DeleteAccount" => FoldKey(v, act).owners = v.owners
           /\ act.kind = "AddKey" =>
                 FoldKey(v, act).keys = [v.keys EXCEPT ![KeyOf(act)] = Fresh(act.receipt)]
           /\ act.kind = "DeleteKey" =>
                 FoldKey(v, act).keys =
                    [v.keys EXCEPT ![KeyOf(act)] = Deleted(v.keys[KeyOf(act)], act.receipt)]
           /\ act.kind = "Transfer" /\ act.account \in Hex =>
                 FoldKey(v, act).keys = [v.keys EXCEPT ![KeyGiven(act)] = Fresh(act.receipt)]
           /\ act.kind = "CreateAccount" => FoldKey(v, act) = v
           /\ act.kind = "Transfer" /\ act.account \notin Hex => FoldKey(v, act) = v
<1> DEFINE a == act.account
           r == act.receipt
<1>1. /\ a \in Accounts /\ KeyOf(act) \in AccessKeys /\ r \in ReceiptIds
      /\ a \in Hex => KeyGiven(act) \in AccessKeys
  BY ActionFacts
<1>2. /\ v.keys \in [AccessKeys -> Entries] /\ v.owners \in [Accounts -> ReceiptIds]
      /\ v = [keys |-> v.keys, owners |-> v.owners]
  BY DEF Models
<1>3. Fresh(r) \in Entries /\ \A k \in AccessKeys : Deleted(v.keys[k], r) \in Entries
  BY <1>1, <1>2, EntryFacts, DeletedFacts
<1>4. CASE act.kind = "DeleteAccount"
  <2>1. FoldKey(v, act) = [v EXCEPT !.owners[a] = r, !.keys = OwnedDeleted(@, a, r)]
    BY <1>4 DEF FoldKey
  <2>2. \A k \in AccessKeys : v.keys[k] # NoRow => [v.keys[k] EXCEPT !.deleted = r] \in Entries
    BY <1>1, <1>2 DEF Entries
  <2>3. OwnedDeleted(v.keys, a, r) \in [AccessKeys -> Entries]
    BY <1>2, <2>2 DEF OwnedDeleted
  <2>4. FoldKey(v, act) = [keys |-> OwnedDeleted(v.keys, a, r),
                           owners |-> [v.owners EXCEPT ![a] = r]]
    BY <1>2, <2>1
  <2>5. FoldKey(v, act) \in Models
    BY <1>1, <1>2, <2>3, <2>4 DEF Models
  <2> QED
    BY <1>4, <2>4, <2>5
<1>5. CASE act.kind = "AddKey"
  <2>1. FoldKey(v, act) = [v EXCEPT !.keys[KeyOf(act)] = Fresh(r)]
    BY <1>5 DEF FoldKey, KeyOf
  <2> QED
    BY <1>1, <1>2, <1>3, <1>5, <2>1 DEF Models
<1>6. CASE act.kind = "DeleteKey"
  <2>1. FoldKey(v, act) = [v EXCEPT !.keys[KeyOf(act)] = Deleted(@, r)]
    BY <1>6, SameDeleted DEF FoldKey, KeyOf
  <2> QED
    BY <1>1, <1>2, <1>3, <1>6, <2>1 DEF Models
<1>7. CASE act.kind = "Transfer" /\ a \in Hex
  <2>1. FoldKey(v, act) = [v EXCEPT !.keys[KeyGiven(act)] = Fresh(r)]
    BY <1>7 DEF FoldKey, KeyGiven
  <2> QED
    BY <1>1, <1>2, <1>3, <1>7, <2>1 DEF Models
<1>8. CASE act.kind = "CreateAccount" \/ (act.kind = "Transfer" /\ a \notin Hex)
  <2>1. FoldKey(v, act) = v
    BY <1>8 DEF FoldKey
  <2> QED
    BY <1>8, <2>1
<1> QED
  BY <1>4, <1>5, <1>6, <1>7, <1>8, ActionFacts DEF Kinds
-----------------------------------------------------------------------------
(* What the folds of the library are, looked at in the prefixes only.      *)
IsPrefixed(f, W, base, op, n) ==
    /\ f[{}] = base
    /\ \A i \in 0..n : f[1..i] \in W
    /\ \A i \in 1..n : f[1..i] = op[i][f[1..(i - 1)]]

(* A set of positions has a greatest member.                               *)
LEMMA TopIn ==
    ASSUME NEW n \in Nat, NEW r \in SUBSET (1..n), r # {}
    PROVE  Top(r) \in r
<1> DEFINE T == {n - x : x \in r}
<1>0. \A x \in r : x \in 1..n /\ n - x \in Nat
  OBVIOUS
<1>1. T \subseteq Nat /\ T # {}
  BY <1>0
<1>2. PICK m \in T : \A j \in T : m <= j
  <2> HIDE DEF T
  <2> QED
    BY <1>1, SmallestNumber
<1>3. PICK x \in r : m = n - x
  OBVIOUS
<1>4. ASSUME NEW y \in r
      PROVE  x >= y
  <2>1. n - y \in T
    OBVIOUS
  <2>2. n - x <= n - y
    BY <1>2, <1>3, <2>1
  <2> QED
    BY <1>0, <2>2
<1> QED
  BY <1>4 DEF Top

(* Two folds over the same members agree on every prefix.                  *)
LEMMA FoldsAgree ==
    ASSUME NEW W, NEW base, NEW N \in Nat, NEW op, NEW f, IsPrefixed(f, W, base, op, N),
           NEW M \in 0..N, NEW op2, NEW g, IsPrefixed(g, W, base, op2, M),
           \A i \in 1..M : op2[i] = op[i]
    PROVE  \A i \in 0..M : g[1..i] = f[1..i]
<1> DEFINE S == {i \in 0..M : g[1..i] = f[1..i]}
<1>1. 0 \in S
  <2>1. 1..0 = {} /\ 0 \in 0..M
    OBVIOUS
  <2>2. g[{}] = base /\ f[{}] = base
    BY DEF IsPrefixed
  <2> QED
    BY <2>1, <2>2
<1>2. ASSUME NEW i \in 1..M, i - 1 \in S
      PROVE  i \in S
  <2>1. i \in 0..M /\ i \in 1..N
    OBVIOUS
  <2>3. g[1..i] = op2[i][g[1..(i - 1)]]
    BY DEF IsPrefixed
  <2>4. f[1..i] = op[i][f[1..(i - 1)]]
    BY <2>1 DEF IsPrefixed
  <2>5. g[1..(i - 1)] = f[1..(i - 1)]
    BY <1>2
  <2> QED
    BY <2>1, <2>3, <2>4, <2>5
<1>3. \A i \in 0..M : i \in S
  <2> HIDE DEF S
  <2>1. 0 \in Nat /\ M \in Nat /\ 0 + 1 = 1
    OBVIOUS
  <2>2. \A i \in (0 + 1)..M : i - 1 \in S => i \in S
    BY <1>2, <2>1
  <2> QED
    BY <1>1, <2>1, <2>2, UpTo, SMTT(20)
<1> QED
  BY <1>3

(* What is folded over the first n members of a sequence, for every n.     *)
IsPrefixFold(F, W, base, op, n) ==
    \E f, op2 : /\ IsPrefixed(f, W, base, op2, n) /\ F[n] = f[1..n]
                /\ \A i \in 1..n : op2[i] = op[i]

(* What is folded over one member more is one step of op further.          *)
LEMMA FoldSteps ==
    ASSUME NEW W, NEW base, NEW N \in Nat, NEW op, NEW F,
           \A n \in 0..N : IsPrefixFold(F, W, base, op, n)
    PROVE  /\ F[0] = base
           /\ \A i \in 1..N : F[i] = op[i][F[i - 1]]
           /\ \A i \in 0..N : F[i] \in W
<1>1. N \in 0..N
  OBVIOUS
<1>2. PICK f, op1 : /\ IsPrefixed(f, W, base, op1, N) /\ F[N] = f[1..N]
                    /\ \A i \in 1..N : op1[i] = op[i]
  BY <1>1 DEF IsPrefixFold
<1>3. ASSUME NEW n \in 0..N
      PROVE  F[n] = f[1..n]
  <2>1. PICK g, op2 : /\ IsPrefixed(g, W, base, op2, n) /\ F[n] = g[1..n]
                      /\ \A i \in 1..n : op2[i] = op[i]
    BY DEF IsPrefixFold
  <2>2. \A i \in 1..n : op2[i] = op1[i]
    BY <1>2, <2>1
  <2>3. \A i \in 0..n : g[1..i] = f[1..i]
    BY <1>2, <2>1, <2>2, FoldsAgree
  <2>4. n \in 0..n
    OBVIOUS
  <2> QED
    BY <2>1, <2>3, <2>4
<1>4. F[0] = base
  <2>1. 1..0 = {} /\ 0 \in 0..N
    OBVIOUS
  <2>2. f[{}] = base
    BY <1>2 DEF IsPrefixed
  <2> QED
    BY <1>3, <2>1, <2>2
<1>5. ASSUME NEW i \in 1..N
      PROVE  F[i] = op[i][F[i - 1]]
  <2>1. i \in 0..N /\ i - 1 \in 0..N
    OBVIOUS
  <2>3. f[1..i] = op1[i][f[1..(i - 1)]]
    BY <1>2 DEF IsPrefixed
  <2> QED
    BY <1>2, <1>3, <2>1, <2>3
<1>6. ASSUME NEW i \in 0..N
      PROVE  F[i] \in W
  <2>1. f[1..i] \in W
    BY <1>2 DEF IsPrefixed
  <2> QED
    BY <1>3, <2>1
<1> QED
  BY <1>4, <1>5, <1>6
-----------------------------------------------------------------------------
(* Each of the four folds: the world after a block, ...                    *)
ExecuteOps(s) == [i \in 1..Len(s) |-> [v \in Worlds |-> Execute(v, s[i])]]

(* FoldLeft of the library, written out for Execute.                       *)
ExecuteRule(w, s, f) ==
    [r \in SUBSET DOMAIN s |->
        IF r = {} THEN w
        ELSE LET x == CHOOSE x \in r : \A y \in r : x >= y
             IN  Execute(f[r \ {x}], s[x])]

(* It defines a fold.                                                      *)
LEMMA ExecuteFold ==
    ASSUME NEW w \in Worlds, NEW s \in Seq(ChainActions)
    PROVE  \E f : /\ IsPrefixed(f, Worlds, w, ExecuteOps(s), Len(s))
                  /\ ExecuteBlock(w, s) = f[1..Len(s)]
<1> DEFINE op == ExecuteOps(s)
           it == CHOOSE f : f = ExecuteRule(w, s, f)
<1>1. Len(s) \in Nat /\ DOMAIN s = 1..Len(s) /\ \A i \in 1..Len(s) : s[i] \in ChainActions
  OBVIOUS
<1>2. op \in [1..Len(s) -> [Worlds -> Worlds]]
  BY <1>1, ExecuteType DEF ExecuteOps
<1>3. PICK f : IsFold(f, Worlds, w, op, Len(s))
  <2> HIDE DEF op
  <2> QED
    BY <1>1, <1>2, FoldExists
<1>4. \A g : \A r \in SUBSET (1..Len(s)) :
         /\ r = {} => ExecuteRule(w, s, g)[r] = w
         /\ r # {} => ExecuteRule(w, s, g)[r] = Execute(g[r \ {Top(r)}], s[Top(r)])
  BY <1>1 DEF Top, ExecuteRule
<1>5. ASSUME NEW r \in SUBSET (1..Len(s))
      PROVE  f[r] = ExecuteRule(w, s, f)[r]
  <2>1. CASE r = {}
    BY <1>3, <1>4, <2>1 DEF IsFold
  <2>2. CASE r # {}
    <3>1. Top(r) \in 1..Len(s) /\ r \ {Top(r)} \in SUBSET (1..Len(s))
      BY <1>1, <2>2, TopIn
    <3>2. f[r \ {Top(r)}] \in Worlds
      BY <1>3, <3>1 DEF IsFold
    <3>3. f[r] = op[Top(r)][f[r \ {Top(r)}]]
      BY <1>3, <2>2 DEF IsFold
    <3>4. f[r] = Execute(f[r \ {Top(r)}], s[Top(r)])
      BY <3>1, <3>2, <3>3 DEF ExecuteOps
    <3> QED
      BY <1>4, <2>2, <3>4
  <2> QED
    BY <2>1, <2>2
<1>6. f = ExecuteRule(w, s, f)
  <2>1. f = [r \in SUBSET (1..Len(s)) |-> f[r]]
    BY <1>3 DEF IsFold
  <2>2. ExecuteRule(w, s, f) = [r \in SUBSET (1..Len(s)) |-> ExecuteRule(w, s, f)[r]]
    BY <1>1 DEF ExecuteRule
  <2> QED
    BY <1>5, <2>1, <2>2
<1>7. it = ExecuteRule(w, s, it)
  BY <1>6
<1>8. ExecuteBlock(w, s) = it[1..Len(s)]
  BY <1>1 DEF ExecuteRule, ExecuteBlock, Seqs!FoldLeft, Seqs!MapThenFoldSet, Seqs!Max
<1> HIDE DEF it
<1>9. it[{}] = w
  <2>1. {} \in SUBSET (1..Len(s))
    OBVIOUS
  <2>2. it[{}] = ExecuteRule(w, s, it)[{}]
    BY <1>7
  <2>3. ExecuteRule(w, s, it)[{}] = w
    BY <1>4, <2>1
  <2> QED
    BY <2>2, <2>3
<1>10. ASSUME NEW i \in 1..Len(s), it[1..(i - 1)] \in Worlds
       PROVE  it[1..i] = op[i][it[1..(i - 1)]] /\ it[1..i] \in Worlds
  <2>1. i \in Nat /\ i # 0 /\ 1..i \in SUBSET (1..Len(s))
    BY <1>1
  <2>2. 1..i # {} /\ Top(1..i) = i /\ (1..i) \ {i} = 1..(i - 1)
    BY <2>1, TopOfPrefix
  <2>3. it[1..i] = Execute(it[1..(i - 1)], s[i])
    <3>1. it[1..i] = ExecuteRule(w, s, it)[1..i]
      BY <1>7
    <3>2. ExecuteRule(w, s, it)[1..i] = Execute(it[(1..i) \ {Top(1..i)}], s[Top(1..i)])
      BY <1>4, <2>1, <2>2
    <3> QED
      BY <2>2, <3>1, <3>2
  <2>4. op[i][it[1..(i - 1)]] = Execute(it[1..(i - 1)], s[i])
    BY <1>10 DEF ExecuteOps
  <2>5. Execute(it[1..(i - 1)], s[i]) \in Worlds
    BY <1>1, <1>10, ExecuteType
  <2> QED
    BY <2>3, <2>4, <2>5
<1>11. \A i \in 0..Len(s) : it[1..i] \in Worlds
  <2> DEFINE S == {i \in 0..Len(s) : it[1..i] \in Worlds}
  <2>1. 0 \in S /\ 0 \in Nat /\ 0 + 1 = 1
    <3>1. 1..0 = {} /\ 0 \in 0..Len(s)
      BY <1>1
    <3> QED
      BY <1>9, <3>1
  <2>2. \A i \in (0 + 1)..Len(s) : i - 1 \in S => i \in S
    BY <1>1, <1>10
  <2> HIDE DEF S
  <2>3. \A i \in 0..Len(s) : i \in S
    BY <1>1, <2>1, <2>2, UpTo
  <2> QED
    BY <2>3 DEF S
<1>12. \A i \in 1..Len(s) : it[1..i] = op[i][it[1..(i - 1)]]
  BY <1>1, <1>10, <1>11
<1>13. IsPrefixed(it, Worlds, w, op, Len(s))
  <2> HIDE DEF op
  <2> QED
    BY <1>9, <1>11, <1>12 DEF IsPrefixed
<1> QED
  BY <1>8, <1>13
-----------------------------------------------------------------------------
(* So a block is executed action by action.                                *)
LEMMA ExecuteSteps ==
    ASSUME NEW w \in Worlds, NEW s \in Seq(ChainActions)
    PROVE  /\ ExecuteBlock(w, SubSeq(s, 1, 0)) = w
           /\ \A i \in 1..Len(s) :
                 ExecuteBlock(w, SubSeq(s, 1, i)) =
                    Execute(ExecuteBlock(w, SubSeq(s, 1, i - 1)), s[i])
           /\ \A i \in 0..Len(s) : ExecuteBlock(w, SubSeq(s, 1, i)) \in Worlds
           /\ ExecuteBlock(w, SubSeq(s, 1, Len(s))) = ExecuteBlock(w, s)
<1> DEFINE N == Len(s)
           op == ExecuteOps(s)
           F == [n \in 0..N |-> ExecuteBlock(w, SubSeq(s, 1, n))]
<1>1. N \in Nat
  OBVIOUS
<1>2. ASSUME NEW n \in 0..N
      PROVE  IsPrefixFold(F, Worlds, w, op, n)
  <2> DEFINE t == SubSeq(s, 1, n)
  <2>1. t \in Seq(ChainActions) /\ Len(t) = n /\ \A i \in 1..n : t[i] = s[i]
    BY PrefixFacts
  <2> HIDE DEF t
  <2>2. PICK f : IsPrefixed(f, Worlds, w, ExecuteOps(t), n) /\ ExecuteBlock(w, t) = f[1..n]
    BY <2>1, ExecuteFold
  <2>3. \A i \in 1..n : ExecuteOps(t)[i] = op[i]
    BY <2>1 DEF ExecuteOps
  <2>4. F[n] = ExecuteBlock(w, t)
    BY DEF t
  <2> QED
    BY <2>2, <2>3, <2>4 DEF IsPrefixFold
<1> HIDE DEF op, F
<1>3. /\ F[0] = w
      /\ \A i \in 1..N : F[i] = op[i][F[i - 1]]
      /\ \A i \in 0..N : F[i] \in Worlds
  BY <1>1, <1>2, FoldSteps
<1>4. \A n \in 0..N : F[n] = ExecuteBlock(w, SubSeq(s, 1, n))
  BY DEF F
<1>5. ASSUME NEW i \in 1..N
      PROVE  ExecuteBlock(w, SubSeq(s, 1, i)) = Execute(ExecuteBlock(w, SubSeq(s, 1, i - 1)), s[i])
  <2>1. i \in 0..N /\ i - 1 \in 0..N
    BY <1>1
  <2>2. F[i] = op[i][F[i - 1]] /\ F[i - 1] \in Worlds
    BY <1>3, <2>1
  <2>3. F[i] = Execute(F[i - 1], s[i])
    BY <2>2 DEF op, ExecuteOps
  <2> QED
    BY <1>4, <2>1, <2>3
<1>6. 0 \in 0..N /\ SubSeq(s, 1, N) = s
  BY <1>1, PrefixFacts
<1> QED
  BY <1>3, <1>4, <1>5, <1>6

(* ... the world after several blocks, ...                                 *)
ActionLists == Seq(ChainActions)
(* Several blocks.                                                         *)
ExecuteBlocks(w, blocks) == Seqs!FoldLeft(ExecuteBlock, w, blocks)

(* A block takes a world to a world.                                       *)
LEMMA BlockType ==
    ASSUME NEW w \in Worlds, NEW s \in ActionLists
    PROVE  ExecuteBlock(w, s) \in Worlds
<1>1. Len(s) \in 0..Len(s) /\ s \in Seq(ChainActions)
  BY DEF ActionLists
<1> QED
  BY <1>1, ExecuteSteps

BlockOps(s) == [i \in 1..Len(s) |-> [v \in Worlds |-> ExecuteBlock(v, s[i])]]

(* FoldLeft of the library, written out for ExecuteBlock.                  *)
BlockRule(w, s, f) ==
    [r \in SUBSET DOMAIN s |->
        IF r = {} THEN w
        ELSE LET x == CHOOSE x \in r : \A y \in r : x >= y
             IN  ExecuteBlock(f[r \ {x}], s[x])]

(* It defines a fold.                                                      *)
LEMMA BlockFold ==
    ASSUME NEW w \in Worlds, NEW s \in Seq(ActionLists)
    PROVE  \E f : /\ IsPrefixed(f, Worlds, w, BlockOps(s), Len(s))
                  /\ ExecuteBlocks(w, s) = f[1..Len(s)]
<1> DEFINE op == BlockOps(s)
           it == CHOOSE f : f = BlockRule(w, s, f)
<1>1. Len(s) \in Nat /\ DOMAIN s = 1..Len(s) /\ \A i \in 1..Len(s) : s[i] \in ActionLists
  OBVIOUS
<1>2. op \in [1..Len(s) -> [Worlds -> Worlds]]
  BY <1>1, BlockType DEF BlockOps
<1>3. PICK f : IsFold(f, Worlds, w, op, Len(s))
  <2> HIDE DEF op
  <2> QED
    BY <1>1, <1>2, FoldExists
<1>4. \A g : \A r \in SUBSET (1..Len(s)) :
         /\ r = {} => BlockRule(w, s, g)[r] = w
         /\ r # {} => BlockRule(w, s, g)[r] = ExecuteBlock(g[r \ {Top(r)}], s[Top(r)])
  BY <1>1 DEF Top, BlockRule
<1>5. ASSUME NEW r \in SUBSET (1..Len(s))
      PROVE  f[r] = BlockRule(w, s, f)[r]
  <2>1. CASE r = {}
    BY <1>3, <1>4, <2>1 DEF IsFold
  <2>2. CASE r # {}
    <3>1. Top(r) \in 1..Len(s) /\ r \ {Top(r)} \in SUBSET (1..Len(s))
      BY <1>1, <2>2, TopIn
    <3>2. f[r \ {Top(r)}] \in Worlds
      BY <1>3, <3>1 DEF IsFold
    <3>3. f[r] = op[Top(r)][f[r \ {Top(r)}]]
      BY <1>3, <2>2 DEF IsFold
    <3>4. f[r] = ExecuteBlock(f[r \ {Top(r)}], s[Top(r)])
      BY <3>1, <3>2, <3>3 DEF BlockOps
    <3> QED
      BY <1>4, <2>2, <3>4
  <2> QED
    BY <2>1, <2>2
<1>6. f = BlockRule(w, s, f)
  <2>1. f = [r \in SUBSET (1..Len(s)) |-> f[r]]
    BY <1>3 DEF IsFold
  <2>2. BlockRule(w, s, f) = [r \in SUBSET (1..Len(s)) |-> BlockRule(w, s, f)[r]]
    BY <1>1 DEF BlockRule
  <2> QED
    BY <1>5, <2>1, <2>2
<1>7. it = BlockRule(w, s, it)
  BY <1>6
<1>8. ExecuteBlocks(w, s) = it[1..Len(s)]
  BY <1>1 DEF BlockRule, ExecuteBlocks, Seqs!FoldLeft, Seqs!MapThenFoldSet, Seqs!Max
<1> HIDE DEF it
<1>9. it[{}] = w
  <2>1. {} \in SUBSET (1..Len(s))
    OBVIOUS
  <2>2. it[{}] = BlockRule(w, s, it)[{}]
    BY <1>7
  <2>3. BlockRule(w, s, it)[{}] = w
    BY <1>4, <2>1
  <2> QED
    BY <2>2, <2>3
<1>10. ASSUME NEW i \in 1..Len(s), it[1..(i - 1)] \in Worlds
       PROVE  it[1..i] = op[i][it[1..(i - 1)]] /\ it[1..i] \in Worlds
  <2>1. i \in Nat /\ i # 0 /\ 1..i \in SUBSET (1..Len(s))
    BY <1>1
  <2>2. 1..i # {} /\ Top(1..i) = i /\ (1..i) \ {i} = 1..(i - 1)
    BY <2>1, TopOfPrefix
  <2>3. it[1..i] = ExecuteBlock(it[1..(i - 1)], s[i])
    <3>1. it[1..i] = BlockRule(w, s, it)[1..i]
      BY <1>7
    <3>2. BlockRule(w, s, it)[1..i] = ExecuteBlock(it[(1..i) \ {Top(1..i)}], s[Top(1..i)])
      BY <1>4, <2>1, <2>2
    <3> QED
      BY <2>2, <3>1, <3>2
  <2>4. op[i][it[1..(i - 1)]] = ExecuteBlock(it[1..(i - 1)], s[i])
    BY <1>10 DEF BlockOps
  <2>5. ExecuteBlock(it[1..(i - 1)], s[i]) \in Worlds
    BY <1>1, <1>10, BlockType
  <2> QED
    BY <2>3, <2>4, <2>5
<1>11. \A i \in 0..Len(s) : it[1..i] \in Worlds
  <2> DEFINE S == {i \in 0..Len(s) : it[1..i] \in Worlds}
  <2>1. 0 \in S /\ 0 \in Nat /\ 0 + 1 = 1
    <3>1. 1..0 = {} /\ 0 \in 0..Len(s)
      BY <1>1
    <3> QED
      BY <1>9, <3>1
  <2>2. \A i \in (0 + 1)..Len(s) : i - 1 \in S => i \in S
    BY <1>1, <1>10
  <2> HIDE DEF S
  <2>3. \A i \in 0..Len(s) : i \in S
    BY <1>1, <2>1, <2>2, UpTo
  <2> QED
    BY <2>3 DEF S
<1>12. \A i \in 1..Len(s) : it[1..i] = op[i][it[1..(i - 1)]]
  BY <1>1, <1>10, <1>11
<1>13. IsPrefixed(it, Worlds, w, op, Len(s))
  <2> HIDE DEF op
  <2> QED
    BY <1>9, <1>11, <1>12 DEF IsPrefixed
<1> QED
  BY <1>8, <1>13

(* So the blocks are executed one by one.                                  *)
LEMMA BlockSteps ==
    ASSUME NEW w \in Worlds, NEW s \in Seq(ActionLists)
    PROVE  /\ ExecuteBlocks(w, SubSeq(s, 1, 0)) = w
           /\ \A i \in 1..Len(s) :
                 ExecuteBlocks(w, SubSeq(s, 1, i)) =
                    ExecuteBlock(ExecuteBlocks(w, SubSeq(s, 1, i - 1)), s[i])
           /\ \A i \in 0..Len(s) : ExecuteBlocks(w, SubSeq(s, 1, i)) \in Worlds
           /\ ExecuteBlocks(w, SubSeq(s, 1, Len(s))) = ExecuteBlocks(w, s)
<1> DEFINE N == Len(s)
           op == BlockOps(s)
           F == [n \in 0..N |-> ExecuteBlocks(w, SubSeq(s, 1, n))]
<1>1. N \in Nat
  OBVIOUS
<1>2. ASSUME NEW n \in 0..N
      PROVE  IsPrefixFold(F, Worlds, w, op, n)
  <2> DEFINE t == SubSeq(s, 1, n)
  <2>1. t \in Seq(ActionLists) /\ Len(t) = n /\ \A i \in 1..n : t[i] = s[i]
    BY PrefixFacts
  <2> HIDE DEF t
  <2>2. PICK f : IsPrefixed(f, Worlds, w, BlockOps(t), n) /\ ExecuteBlocks(w, t) = f[1..n]
    BY <2>1, BlockFold
  <2>3. \A i \in 1..n : BlockOps(t)[i] = op[i]
    BY <2>1 DEF BlockOps
  <2>4. F[n] = ExecuteBlocks(w, t)
    BY DEF t
  <2> QED
    BY <2>2, <2>3, <2>4 DEF IsPrefixFold
<1> HIDE DEF op, F
<1>3. /\ F[0] = w
      /\ \A i \in 1..N : F[i] = op[i][F[i - 1]]
      /\ \A i \in 0..N : F[i] \in Worlds
  BY <1>1, <1>2, FoldSteps
<1>4. \A n \in 0..N : F[n] = ExecuteBlocks(w, SubSeq(s, 1, n))
  BY DEF F
<1>5. ASSUME NEW i \in 1..N
      PROVE  ExecuteBlocks(w, SubSeq(s, 1, i)) =
                ExecuteBlock(ExecuteBlocks(w, SubSeq(s, 1, i - 1)), s[i])
  <2>1. i \in 0..N /\ i - 1 \in 0..N
    BY <1>1
  <2>2. F[i] = op[i][F[i - 1]] /\ F[i - 1] \in Worlds
    BY <1>3, <2>1
  <2>3. F[i] = ExecuteBlock(F[i - 1], s[i])
    BY <2>2 DEF op, BlockOps
  <2> QED
    BY <1>4, <2>1, <2>3
<1>6. 0 \in 0..N /\ SubSeq(s, 1, N) = s
  BY <1>1, PrefixFacts
<1> QED
  BY <1>3, <1>4, <1>5, <1>6

(* ... the accounts that handle_accounts collects, ...                     *)
CollectAccounts(v, acts) == Seqs!FoldLeft(FoldAccount, v, acts)

AccountOps(s) == [i \in 1..Len(s) |-> [v \in [Accounts -> Entries] |-> FoldAccount(v, s[i])]]

(* FoldLeft of the library, written out for FoldAccount.                   *)
AccountRule(w, s, f) ==
    [r \in SUBSET DOMAIN s |->
        IF r = {} THEN w
        ELSE LET x == CHOOSE x \in r : \A y \in r : x >= y
             IN  FoldAccount(f[r \ {x}], s[x])]

(* It defines a fold.                                                      *)
LEMMA AccountFold ==
    ASSUME NEW w \in [Accounts -> Entries], NEW s \in Seq(ChainActions)
    PROVE  \E f : /\ IsPrefixed(f, [Accounts -> Entries], w, AccountOps(s), Len(s))
                  /\ CollectAccounts(w, s) = f[1..Len(s)]
<1> DEFINE op == AccountOps(s)
           it == CHOOSE f : f = AccountRule(w, s, f)
<1>1. Len(s) \in Nat /\ DOMAIN s = 1..Len(s) /\ \A i \in 1..Len(s) : s[i] \in ChainActions
  OBVIOUS
<1>2. op \in [1..Len(s) -> [[Accounts -> Entries] -> [Accounts -> Entries]]]
  BY <1>1, FoldAccountFacts DEF AccountOps
<1>3. PICK f : IsFold(f, [Accounts -> Entries], w, op, Len(s))
  <2> HIDE DEF op
  <2> QED
    BY <1>1, <1>2, FoldExists
<1>4. \A g : \A r \in SUBSET (1..Len(s)) :
         /\ r = {} => AccountRule(w, s, g)[r] = w
         /\ r # {} => AccountRule(w, s, g)[r] = FoldAccount(g[r \ {Top(r)}], s[Top(r)])
  BY <1>1 DEF Top, AccountRule
<1>5. ASSUME NEW r \in SUBSET (1..Len(s))
      PROVE  f[r] = AccountRule(w, s, f)[r]
  <2>1. CASE r = {}
    BY <1>3, <1>4, <2>1 DEF IsFold
  <2>2. CASE r # {}
    <3>1. Top(r) \in 1..Len(s) /\ r \ {Top(r)} \in SUBSET (1..Len(s))
      BY <1>1, <2>2, TopIn
    <3>2. f[r \ {Top(r)}] \in [Accounts -> Entries]
      BY <1>3, <3>1 DEF IsFold
    <3>3. f[r] = op[Top(r)][f[r \ {Top(r)}]]
      BY <1>3, <2>2 DEF IsFold
    <3>4. f[r] = FoldAccount(f[r \ {Top(r)}], s[Top(r)])
      BY <3>1, <3>2, <3>3 DEF AccountOps
    <3> QED
      BY <1>4, <2>2, <3>4
  <2> QED
    BY <2>1, <2>2
<1>6. f = AccountRule(w, s, f)
  <2>1. f = [r \in SUBSET (1..Len(s)) |-> f[r]]
    BY <1>3 DEF IsFold
  <2>2. AccountRule(w, s, f) = [r \in SUBSET (1..Len(s)) |-> AccountRule(w, s, f)[r]]
    BY <1>1 DEF AccountRule
  <2> QED
    BY <1>5, <2>1, <2>2
<1>7. it = AccountRule(w, s, it)
  BY <1>6
<1>8. CollectAccounts(w, s) = it[1..Len(s)]
  BY <1>1 DEF AccountRule, CollectAccounts, Seqs!FoldLeft, Seqs!MapThenFoldSet, Seqs!Max
<1> HIDE DEF it
<1>9. it[{}] = w
  <2>1. {} \in SUBSET (1..Len(s))
    OBVIOUS
  <2>2. it[{}] = AccountRule(w, s, it)[{}]
    BY <1>7
  <2>3. AccountRule(w, s, it)[{}] = w
    BY <1>4, <2>1
  <2> QED
    BY <2>2, <2>3
<1>10. ASSUME NEW i \in 1..Len(s), it[1..(i - 1)] \in [Accounts -> Entries]
       PROVE  it[1..i] = op[i][it[1..(i - 1)]] /\ it[1..i] \in [Accounts -> Entries]
  <2>1. i \in Nat /\ i # 0 /\ 1..i \in SUBSET (1..Len(s))
    BY <1>1
  <2>2. 1..i # {} /\ Top(1..i) = i /\ (1..i) \ {i} = 1..(i - 1)
    BY <2>1, TopOfPrefix
  <2>3. it[1..i] = FoldAccount(it[1..(i - 1)], s[i])
    <3>1. it[1..i] = AccountRule(w, s, it)[1..i]
      BY <1>7
    <3>2. AccountRule(w, s, it)[1..i] = FoldAccount(it[(1..i) \ {Top(1..i)}], s[Top(1..i)])
      BY <1>4, <2>1, <2>2
    <3> QED
      BY <2>2, <3>1, <3>2
  <2>4. op[i][it[1..(i - 1)]] = FoldAccount(it[1..(i - 1)], s[i])
    BY <1>10 DEF AccountOps
  <2>5. FoldAccount(it[1..(i - 1)], s[i]) \in [Accounts -> Entries]
    BY <1>1, <1>10, FoldAccountFacts
  <2> QED
    BY <2>3, <2>4, <2>5
<1>11. \A i \in 0..Len(s) : it[1..i] \in [Accounts -> Entries]
  <2> DEFINE S == {i \in 0..Len(s) : it[1..i] \in [Accounts -> Entries]}
  <2>1. 0 \in S /\ 0 \in Nat /\ 0 + 1 = 1
    <3>1. 1..0 = {} /\ 0 \in 0..Len(s)
      BY <1>1
    <3> QED
      BY <1>9, <3>1
  <2>2. \A i \in (0 + 1)..Len(s) : i - 1 \in S => i \in S
    BY <1>1, <1>10
  <2> HIDE DEF S
  <2>3. \A i \in 0..Len(s) : i \in S
    BY <1>1, <2>1, <2>2, UpTo
  <2> QED
    BY <2>3 DEF S
<1>12. \A i \in 1..Len(s) : it[1..i] = op[i][it[1..(i - 1)]]
  BY <1>1, <1>10, <1>11
<1>13. IsPrefixed(it, [Accounts -> Entries], w, op, Len(s))
  <2> HIDE DEF op
  <2> QED
    BY <1>9, <1>11, <1>12 DEF IsPrefixed
<1> QED
  BY <1>8, <1>13

(* So the accounts are collected action by action.                         *)
LEMMA AccountSteps ==
    ASSUME NEW w \in [Accounts -> Entries], NEW s \in Seq(ChainActions)
    PROVE  /\ CollectAccounts(w, SubSeq(s, 1, 0)) = w
           /\ \A i \in 1..Len(s) :
                 CollectAccounts(w, SubSeq(s, 1, i)) =
                    FoldAccount(CollectAccounts(w, SubSeq(s, 1, i - 1)), s[i])
           /\ \A i \in 0..Len(s) : CollectAccounts(w, SubSeq(s, 1, i)) \in [Accounts -> Entries]
           /\ CollectAccounts(w, SubSeq(s, 1, Len(s))) = CollectAccounts(w, s)
<1> DEFINE N == Len(s)
           op == AccountOps(s)
           F == [n \in 0..N |-> CollectAccounts(w, SubSeq(s, 1, n))]
<1>1. N \in Nat
  OBVIOUS
<1>2. ASSUME NEW n \in 0..N
      PROVE  IsPrefixFold(F, [Accounts -> Entries], w, op, n)
  <2> DEFINE t == SubSeq(s, 1, n)
  <2>1. t \in Seq(ChainActions) /\ Len(t) = n /\ \A i \in 1..n : t[i] = s[i]
    BY PrefixFacts
  <2> HIDE DEF t
  <2>2. PICK f : /\ IsPrefixed(f, [Accounts -> Entries], w, AccountOps(t), n)
                 /\ CollectAccounts(w, t) = f[1..n]
    BY <2>1, AccountFold
  <2>3. \A i \in 1..n : AccountOps(t)[i] = op[i]
    BY <2>1 DEF AccountOps
  <2>4. F[n] = CollectAccounts(w, t)
    BY DEF t
  <2> QED
    BY <2>2, <2>3, <2>4 DEF IsPrefixFold
<1> HIDE DEF op, F
<1>3. /\ F[0] = w
      /\ \A i \in 1..N : F[i] = op[i][F[i - 1]]
      /\ \A i \in 0..N : F[i] \in [Accounts -> Entries]
  BY <1>1, <1>2, FoldSteps
<1>4. \A n \in 0..N : F[n] = CollectAccounts(w, SubSeq(s, 1, n))
  BY DEF F
<1>5. ASSUME NEW i \in 1..N
      PROVE  CollectAccounts(w, SubSeq(s, 1, i)) =
                FoldAccount(CollectAccounts(w, SubSeq(s, 1, i - 1)), s[i])
  <2>1. i \in 0..N /\ i - 1 \in 0..N
    BY <1>1
  <2>2. F[i] = op[i][F[i - 1]] /\ F[i - 1] \in [Accounts -> Entries]
    BY <1>3, <2>1
  <2>3. F[i] = FoldAccount(F[i - 1], s[i])
    BY <2>2 DEF op, AccountOps
  <2> QED
    BY <1>4, <2>1, <2>3
<1>6. 0 \in 0..N /\ SubSeq(s, 1, N) = s
  BY <1>1, PrefixFacts
<1> QED
  BY <1>3, <1>4, <1>5, <1>6

(* ... and the keys and owners that handle_access_keys collects.           *)
CollectKeys(v, acts) == Seqs!FoldLeft(FoldKey, v, acts)

KeyOps(s) == [i \in 1..Len(s) |-> [v \in Models |-> FoldKey(v, s[i])]]

(* FoldLeft of the library, written out for FoldKey.                       *)
KeyRule(w, s, f) ==
    [r \in SUBSET DOMAIN s |->
        IF r = {} THEN w
        ELSE LET x == CHOOSE x \in r : \A y \in r : x >= y
             IN  FoldKey(f[r \ {x}], s[x])]

(* It defines a fold.                                                      *)
LEMMA KeyFold ==
    ASSUME NEW w \in Models, NEW s \in Seq(ChainActions)
    PROVE  \E f : /\ IsPrefixed(f, Models, w, KeyOps(s), Len(s))
                  /\ CollectKeys(w, s) = f[1..Len(s)]
<1> DEFINE op == KeyOps(s)
           it == CHOOSE f : f = KeyRule(w, s, f)
<1>1. Len(s) \in Nat /\ DOMAIN s = 1..Len(s) /\ \A i \in 1..Len(s) : s[i] \in ChainActions
  OBVIOUS
<1>2. op \in [1..Len(s) -> [Models -> Models]]
  BY <1>1, FoldKeyFacts DEF KeyOps
<1>3. PICK f : IsFold(f, Models, w, op, Len(s))
  <2> HIDE DEF op
  <2> QED
    BY <1>1, <1>2, FoldExists
<1>4. \A g : \A r \in SUBSET (1..Len(s)) :
         /\ r = {} => KeyRule(w, s, g)[r] = w
         /\ r # {} => KeyRule(w, s, g)[r] = FoldKey(g[r \ {Top(r)}], s[Top(r)])
  BY <1>1 DEF Top, KeyRule
<1>5. ASSUME NEW r \in SUBSET (1..Len(s))
      PROVE  f[r] = KeyRule(w, s, f)[r]
  <2>1. CASE r = {}
    BY <1>3, <1>4, <2>1 DEF IsFold
  <2>2. CASE r # {}
    <3>1. Top(r) \in 1..Len(s) /\ r \ {Top(r)} \in SUBSET (1..Len(s))
      BY <1>1, <2>2, TopIn
    <3>2. f[r \ {Top(r)}] \in Models
      BY <1>3, <3>1 DEF IsFold
    <3>3. f[r] = op[Top(r)][f[r \ {Top(r)}]]
      BY <1>3, <2>2 DEF IsFold
    <3>4. f[r] = FoldKey(f[r \ {Top(r)}], s[Top(r)])
      BY <3>1, <3>2, <3>3 DEF KeyOps
    <3> QED
      BY <1>4, <2>2, <3>4
  <2> QED
    BY <2>1, <2>2
<1>6. f = KeyRule(w, s, f)
  <2>1. f = [r \in SUBSET (1..Len(s)) |-> f[r]]
    BY <1>3 DEF IsFold
  <2>2. KeyRule(w, s, f) = [r \in SUBSET (1..Len(s)) |-> KeyRule(w, s, f)[r]]
    BY <1>1 DEF KeyRule
  <2> QED
    BY <1>5, <2>1, <2>2
<1>7. it = KeyRule(w, s, it)
  BY <1>6
<1>8. CollectKeys(w, s) = it[1..Len(s)]
  BY <1>1 DEF KeyRule, CollectKeys, Seqs!FoldLeft, Seqs!MapThenFoldSet, Seqs!Max
<1> HIDE DEF it
<1>9. it[{}] = w
  <2>1. {} \in SUBSET (1..Len(s))
    OBVIOUS
  <2>2. it[{}] = KeyRule(w, s, it)[{}]
    BY <1>7
  <2>3. KeyRule(w, s, it)[{}] = w
    BY <1>4, <2>1
  <2> QED
    BY <2>2, <2>3
<1>10. ASSUME NEW i \in 1..Len(s), it[1..(i - 1)] \in Models
       PROVE  it[1..i] = op[i][it[1..(i - 1)]] /\ it[1..i] \in Models
  <2>1. i \in Nat /\ i # 0 /\ 1..i \in SUBSET (1..Len(s))
    BY <1>1
  <2>2. 1..i # {} /\ Top(1..i) = i /\ (1..i) \ {i} = 1..(i - 1)
    BY <2>1, TopOfPrefix
  <2>3. it[1..i] = FoldKey(it[1..(i - 1)], s[i])
    <3>1. it[1..i] = KeyRule(w, s, it)[1..i]
      BY <1>7
    <3>2. KeyRule(w, s, it)[1..i] = FoldKey(it[(1..i) \ {Top(1..i)}], s[Top(1..i)])
      BY <1>4, <2>1, <2>2
    <3> QED
      BY <2>2, <3>1, <3>2
  <2>4. op[i][it[1..(i - 1)]] = FoldKey(it[1..(i - 1)], s[i])
    BY <1>10 DEF KeyOps
  <2>5. FoldKey(it[1..(i - 1)], s[i]) \in Models
    BY <1>1, <1>10, FoldKeyFacts
  <2> QED
    BY <2>3, <2>4, <2>5
<1>11. \A i \in 0..Len(s) : it[1..i] \in Models
  <2> DEFINE S == {i \in 0..Len(s) : it[1..i] \in Models}
  <2>1. 0 \in S /\ 0 \in Nat /\ 0 + 1 = 1
    <3>1. 1..0 = {} /\ 0 \in 0..Len(s)
      BY <1>1
    <3> QED
      BY <1>9, <3>1
  <2>2. \A i \in (0 + 1)..Len(s) : i - 1 \in S => i \in S
    BY <1>1, <1>10
  <2> HIDE DEF S
  <2>3. \A i \in 0..Len(s) : i \in S
    BY <1>1, <2>1, <2>2, UpTo
  <2> QED
    BY <2>3 DEF S
<1>12. \A i \in 1..Len(s) : it[1..i] = op[i][it[1..(i - 1)]]
  BY <1>1, <1>10, <1>11
<1>13. IsPrefixed(it, Models, w, op, Len(s))
  <2> HIDE DEF op
  <2> QED
    BY <1>9, <1>11, <1>12 DEF IsPrefixed
<1> QED
  BY <1>8, <1>13

(* So the keys are collected action by action.                             *)
LEMMA KeySteps ==
    ASSUME NEW w \in Models, NEW s \in Seq(ChainActions)
    PROVE  /\ CollectKeys(w, SubSeq(s, 1, 0)) = w
           /\ \A i \in 1..Len(s) :
                 CollectKeys(w, SubSeq(s, 1, i)) =
                    FoldKey(CollectKeys(w, SubSeq(s, 1, i - 1)), s[i])
           /\ \A i \in 0..Len(s) : CollectKeys(w, SubSeq(s, 1, i)) \in Models
           /\ CollectKeys(w, SubSeq(s, 1, Len(s))) = CollectKeys(w, s)
<1> DEFINE N == Len(s)
           op == KeyOps(s)
           F == [n \in 0..N |-> CollectKeys(w, SubSeq(s, 1, n))]
<1>1. N \in Nat
  OBVIOUS
<1>2. ASSUME NEW n \in 0..N
      PROVE  IsPrefixFold(F, Models, w, op, n)
  <2> DEFINE t == SubSeq(s, 1, n)
  <2>1. t \in Seq(ChainActions) /\ Len(t) = n /\ \A i \in 1..n : t[i] = s[i]
    BY PrefixFacts
  <2> HIDE DEF t
  <2>2. PICK f : IsPrefixed(f, Models, w, KeyOps(t), n) /\ CollectKeys(w, t) = f[1..n]
    BY <2>1, KeyFold
  <2>3. \A i \in 1..n : KeyOps(t)[i] = op[i]
    BY <2>1 DEF KeyOps
  <2>4. F[n] = CollectKeys(w, t)
    BY DEF t
  <2> QED
    BY <2>2, <2>3, <2>4 DEF IsPrefixFold
<1> HIDE DEF op, F
<1>3. /\ F[0] = w
      /\ \A i \in 1..N : F[i] = op[i][F[i - 1]]
      /\ \A i \in 0..N : F[i] \in Models
  BY <1>1, <1>2, FoldSteps
<1>4. \A n \in 0..N : F[n] = CollectKeys(w, SubSeq(s, 1, n))
  BY DEF F
<1>5. ASSUME NEW i \in 1..N
      PROVE  CollectKeys(w, SubSeq(s, 1, i)) = FoldKey(CollectKeys(w, SubSeq(s, 1, i - 1)), s[i])
  <2>1. i \in 0..N /\ i - 1 \in 0..N
    BY <1>1
  <2>2. F[i] = op[i][F[i - 1]] /\ F[i - 1] \in Models
    BY <1>3, <2>1
  <2>3. F[i] = FoldKey(F[i - 1], s[i])
    BY <2>2 DEF op, KeyOps
  <2> QED
    BY <1>4, <2>1, <2>3
<1>6. 0 \in 0..N /\ SubSeq(s, 1, N) = s
  BY <1>1, PrefixFacts
<1> QED
  BY <1>3, <1>4, <1>5, <1>6
-----------------------------------------------------------------------------
(* What one legal action does to an account, and what is collected of it.  *)
LEMMA AccountAction ==
    ASSUME NEW w \in Worlds, NEW v \in [Accounts -> Entries],
           NEW act \in ChainActions, Legal(w, act), NEW a \in Accounts
    PROVE  /\ act.account # a =>
                 /\ Execute(w, act).accounts[a] = w.accounts[a]
                 /\ FoldAccount(v, act)[a] = v[a]
           /\ act.account = a /\ act.kind = "CreateAccount" =>
                 /\ ~Alive(w.accounts[a])
                 /\ Execute(w, act).accounts[a] = Fresh(act.receipt)
                 /\ FoldAccount(v, act)[a] = Fresh(act.receipt)
           /\ act.account = a /\ act.kind = "Transfer" =>
                 /\ a \in Implicit
                 /\ Alive(w.accounts[a]) => Execute(w, act).accounts[a] = w.accounts[a]
                 /\ ~Alive(w.accounts[a]) =>
                       /\ CreatesImplicit(w, act)
                       /\ Execute(w, act).accounts[a] = Fresh(act.receipt)
                 /\ FoldAccount(v, act)[a] = Fresh(act.receipt)
           /\ act.account = a /\ act.kind = "DeleteAccount" =>
                 /\ Alive(w.accounts[a])
                 /\ Execute(w, act).accounts[a] = Ended(w.accounts[a], act.receipt)
                 /\ FoldAccount(v, act)[a] = Deleted(v[a], act.receipt)
           /\ act.account = a /\ act.kind \in {"AddKey", "DeleteKey"} =>
                 /\ Alive(w.accounts[a])
                 /\ Execute(w, act).accounts[a] = w.accounts[a]
                 /\ FoldAccount(v, act)[a] = v[a]
<1>1. w.accounts \in [Accounts -> Entries] /\ act.account \in Accounts
  BY ActionFacts DEF Worlds
<1>2. CASE act.kind = "CreateAccount"
  <2>1. Execute(w, act).accounts = [w.accounts EXCEPT ![act.account] = Fresh(act.receipt)]
    BY <1>2, ExecuteFacts DEF WorldOf
  <2>2. ~Alive(w.accounts[act.account])
    BY <1>2 DEF Legal
  <2> QED
    BY <1>1, <1>2, <2>1, <2>2, FoldAccountFacts DEF Collects
<1>3. CASE act.kind = "Transfer"
  <2>1. act.account \in Implicit
    BY <1>3 DEF Legal
  <2>2. CASE Alive(w.accounts[act.account])
    <3>1. ~CreatesImplicit(w, act)
      BY <2>2 DEF CreatesImplicit
    <3>2. Execute(w, act) = w
      BY <1>3, <3>1, ExecuteFacts
    <3> QED
      BY <1>1, <1>3, <2>1, <2>2, <3>2, FoldAccountFacts DEF Collects
  <2>3. CASE ~Alive(w.accounts[act.account])
    <3>1. CreatesImplicit(w, act)
      BY <1>3, <2>3 DEF CreatesImplicit, Legal
    <3>2. Execute(w, act).accounts = [w.accounts EXCEPT ![act.account] = Fresh(act.receipt)]
      BY <3>1, ExecuteFacts DEF WorldOf
    <3> QED
      BY <1>1, <1>3, <2>1, <2>3, <3>1, <3>2, FoldAccountFacts DEF Collects
  <2> QED
    BY <2>2, <2>3
<1>4. CASE act.kind = "DeleteAccount"
  <2>1. Execute(w, act).accounts =
           [w.accounts EXCEPT ![act.account] = Ended(w.accounts[act.account], act.receipt)]
    BY <1>4, ExecuteFacts DEF WorldOf
  <2>2. Alive(w.accounts[act.account])
    BY <1>4 DEF Legal
  <2> QED
    BY <1>1, <1>4, <2>1, <2>2, FoldAccountFacts DEF Collects
<1>5. CASE act.kind \in {"AddKey", "DeleteKey"}
  <2>1. Execute(w, act).accounts = w.accounts
    BY <1>5, ExecuteFacts DEF WorldOf
  <2>2. Alive(w.accounts[act.account])
    BY <1>5 DEF Legal
  <2> QED
    BY <1>1, <1>5, <2>1, <2>2, FoldAccountFacts DEF Collects
<1> QED
  BY <1>2, <1>3, <1>4, <1>5, ActionFacts DEF Kinds
-----------------------------------------------------------------------------
(* Within a block: the world and what is collected after i of its actions. *)
After(w, s, i)    == ExecuteBlock(w, SubSeq(s, 1, i))
Gathered(s, i)     == CollectAccounts(NoAccounts, SubSeq(s, 1, i))
KeysGathered(s, i) == CollectKeys(NoModels, SubSeq(s, 1, i))

(* A block whose actions are legal one after the other.                    *)
IsLegalBlock(w, s) ==
    /\ w \in Worlds /\ s \in Seq(ChainActions)
    /\ \A i \in 1..Len(s) : Legal(After(w, s, i - 1), s[i])

(* The world and the maps, action by action.                               *)
LEMMA BlockFacts ==
    ASSUME NEW w, NEW s, IsLegalBlock(w, s)
    PROVE  /\ Len(s) \in Nat /\ \A i \in 1..Len(s) : s[i] \in ChainActions
           /\ After(w, s, 0) = w /\ Gathered(s, 0) = NoAccounts /\ KeysGathered(s, 0) = NoModels
           /\ \A i \in 0..Len(s) : /\ After(w, s, i) \in Worlds
                                   /\ Gathered(s, i) \in [Accounts -> Entries]
                                   /\ KeysGathered(s, i) \in Models
           /\ \A i \in 1..Len(s) :
                 /\ After(w, s, i) = Execute(After(w, s, i - 1), s[i])
                 /\ Gathered(s, i) = FoldAccount(Gathered(s, i - 1), s[i])
                 /\ KeysGathered(s, i) = FoldKey(KeysGathered(s, i - 1), s[i])
           /\ After(w, s, Len(s)) = ExecuteBlock(w, s)
           /\ Gathered(s, Len(s)) = CollectAccounts(NoAccounts, s)
           /\ KeysGathered(s, Len(s)) = CollectKeys(NoModels, s)
<1>1. w \in Worlds /\ s \in Seq(ChainActions)
  BY DEF IsLegalBlock
<1>2. NoAccounts \in [Accounts -> Entries] /\ NoModels \in Models
  BY EntryFacts DEF NoAccounts, NoModels, Models, ReceiptIds
<1>3. Len(s) \in Nat /\ \A i \in 1..Len(s) : s[i] \in ChainActions
  BY <1>1
<1>4. /\ After(w, s, 0) = w
      /\ \A i \in 0..Len(s) : After(w, s, i) \in Worlds
      /\ \A i \in 1..Len(s) : After(w, s, i) = Execute(After(w, s, i - 1), s[i])
      /\ After(w, s, Len(s)) = ExecuteBlock(w, s)
  BY <1>1, ExecuteSteps DEF After
<1>5. /\ Gathered(s, 0) = NoAccounts
      /\ \A i \in 0..Len(s) : Gathered(s, i) \in [Accounts -> Entries]
      /\ \A i \in 1..Len(s) : Gathered(s, i) = FoldAccount(Gathered(s, i - 1), s[i])
      /\ Gathered(s, Len(s)) = CollectAccounts(NoAccounts, s)
  BY <1>1, <1>2, AccountSteps DEF Gathered
<1>6. /\ KeysGathered(s, 0) = NoModels
      /\ \A i \in 0..Len(s) : KeysGathered(s, i) \in Models
      /\ \A i \in 1..Len(s) : KeysGathered(s, i) = FoldKey(KeysGathered(s, i - 1), s[i])
      /\ KeysGathered(s, Len(s)) = CollectKeys(NoModels, s)
  BY <1>1, <1>2, KeySteps DEF KeysGathered
<1> QED
  BY <1>3, <1>4, <1>5, <1>6

(* What is collected of an account (v) tells how the block takes its state *)
(* before (w) to its state after (u).                                      *)
Tells(w, u, v, a) ==
    /\ v = NoRow => u = w
    /\ v # NoRow => u # NoRow /\ u.deleted = v.deleted
    /\ v # NoRow /\ v.created # NoReceipt /\ a \notin Implicit => u.created = v.created
    /\ v # NoRow /\ v.created = NoReceipt =>
          Alive(w) /\ u.created = w.created /\ v.deleted # NoReceipt

(* An action of this kind on the account is among the first i.             *)
Acts(s, i, a, kind) == \E j \in 1..i : s[j].account = a /\ s[j].kind = kind

(* An action among the first i brings the account into being.              *)
CreatesIn(w, s, i, a) ==
    \E j \in 1..i :
        /\ s[j].account = a
        /\ s[j].kind = "CreateAccount" \/ CreatesImplicit(After(w, s, j - 1), s[j])

(* Where what is collected of an account comes from.                       *)
Stems(w, s, i, a) ==
    LET v == Gathered(s, i)[a]
    IN  /\ v # NoRow /\ v.created # NoReceipt =>
              /\ \E j \in 1..i : v.created = s[j].receipt
              /\ Acts(s, i, a, "Transfer") \/ CreatesIn(w, s, i, a)
        /\ v # NoRow /\ v.deleted # NoReceipt => Acts(s, i, a, "DeleteAccount")
        /\ v # NoRow /\ a \in Implicit /\ ~Alive(w.accounts[a]) => CreatesIn(w, s, i, a)

(* After every action, what is collected of an account tells its state.    *)
LEMMA BlockTells ==
    ASSUME NEW w, NEW s, IsLegalBlock(w, s), NEW a \in Accounts
    PROVE  \A i \in 0..Len(s) :
              /\ Tells(w.accounts[a], After(w, s, i).accounts[a], Gathered(s, i)[a], a)
              /\ Stems(w, s, i, a)
<1> DEFINE P(i) == /\ Tells(w.accounts[a], After(w, s, i).accounts[a], Gathered(s, i)[a], a)
                   /\ Stems(w, s, i, a)
           S == {i \in 0..Len(s) : P(i)}
<1>1. Len(s) \in Nat
  BY BlockFacts
<1>2. 0 \in S
  <2>1. After(w, s, 0) = w /\ Gathered(s, 0)[a] = NoRow
    BY BlockFacts DEF NoAccounts
  <2>2. P(0)
    BY <2>1 DEF Tells, Stems
  <2> QED
    BY <1>1, <2>2
<1>3. ASSUME NEW i \in 1..Len(s), P(i - 1)
      PROVE  P(i)
  <2> DEFINE act == s[i]
             x == After(w, s, i - 1)
             e == x.accounts[a]
             u == After(w, s, i).accounts[a]
             g == Gathered(s, i - 1)[a]
             v == Gathered(s, i)[a]
             o == w.accounts[a]
  <2>1. i - 1 \in 0..Len(s) /\ i \in 0..Len(s) /\ i \in 1..i
    BY <1>1
  <2>2. /\ act \in ChainActions /\ x \in Worlds /\ Gathered(s, i - 1) \in [Accounts -> Entries]
        /\ After(w, s, i) = Execute(x, act)
        /\ Gathered(s, i) = FoldAccount(Gathered(s, i - 1), act)
        /\ Legal(x, act)
    BY <2>1, BlockFacts DEF IsLegalBlock
  <2>3. e \in Entries /\ g \in Entries /\ o \in Entries
    BY <2>2 DEF Worlds, IsLegalBlock
  <2>4. act.receipt \in ReceiptIds /\ act.receipt # NoReceipt /\ act.kind \in Kinds
    BY <2>2, ActionFacts
  <2>5. /\ act.account # a => u = e /\ v = g
        /\ act.account = a /\ act.kind = "CreateAccount" =>
              ~Alive(e) /\ u = Fresh(act.receipt) /\ v = Fresh(act.receipt)
        /\ act.account = a /\ act.kind = "Transfer" =>
              /\ a \in Implicit
              /\ Alive(e) => u = e
              /\ ~Alive(e) => CreatesImplicit(x, act) /\ u = Fresh(act.receipt)
              /\ v = Fresh(act.receipt)
        /\ act.account = a /\ act.kind = "DeleteAccount" =>
              Alive(e) /\ u = Ended(e, act.receipt) /\ v = Deleted(g, act.receipt)
        /\ act.account = a /\ act.kind \in {"AddKey", "DeleteKey"} => u = e /\ v = g
    BY <2>2, AccountAction
  <2>6. Tells(o, e, g, a) /\ Stems(w, s, i - 1, a)
    BY <1>3
  <2>7. /\ \A kind : Acts(s, i - 1, a, kind) => Acts(s, i, a, kind)
        /\ CreatesIn(w, s, i - 1, a) => CreatesIn(w, s, i, a)
        /\ (\E j \in 1..(i - 1) : g.created = s[j].receipt) =>
              \E j \in 1..i : g.created = s[j].receipt
    BY <2>1 DEF Acts, CreatesIn
  <2>8. /\ act.account = a => Acts(s, i, a, act.kind)
        /\ act.account = a /\ (act.kind = "CreateAccount" \/ CreatesImplicit(x, act)) =>
              CreatesIn(w, s, i, a)
    BY <2>1 DEF Acts, CreatesIn
  <2>9. /\ g # NoRow /\ g.created # NoReceipt =>
              /\ \E j \in 1..(i - 1) : g.created = s[j].receipt
              /\ Acts(s, i - 1, a, "Transfer") \/ CreatesIn(w, s, i - 1, a)
        /\ g # NoRow /\ g.deleted # NoReceipt => Acts(s, i - 1, a, "DeleteAccount")
        /\ g # NoRow /\ a \in Implicit /\ ~Alive(o) => CreatesIn(w, s, i - 1, a)
    BY <2>6 DEF Stems
  <2>10. SUFFICES /\ Tells(o, u, v, a)
                  /\ v # NoRow /\ v.created # NoReceipt =>
                        /\ \E j \in 1..i : v.created = s[j].receipt
                        /\ Acts(s, i, a, "Transfer") \/ CreatesIn(w, s, i, a)
                  /\ v # NoRow /\ v.deleted # NoReceipt => Acts(s, i, a, "DeleteAccount")
                  /\ v # NoRow /\ a \in Implicit /\ ~Alive(o) => CreatesIn(w, s, i, a)
    BY DEF Stems
  <2> HIDE DEF act, x, e, u, g, v, o
  <2>11. CASE u = e /\ v = g
    BY <2>6, <2>7, <2>9, <2>11
  <2>12. CASE act.account = a /\ act.kind = "CreateAccount"
    <3>1. \E j \in 1..i : act.receipt = s[j].receipt
      BY <2>1 DEF act
    <3>2. CreatesIn(w, s, i, a)
      BY <2>8, <2>12
    <3> QED
      BY <2>4, <2>5, <2>12, <3>1, <3>2, EntryFacts DEF Tells
  <2>13. CASE act.account = a /\ act.kind = "Transfer"
    <3>1. \E j \in 1..i : act.receipt = s[j].receipt
      BY <2>1 DEF act
    <3>2. Alive(e) => e # NoRow /\ e.deleted = NoReceipt
      BY DEF Alive
    <3>3. v # NoRow /\ v.created = act.receipt /\ v.deleted = NoReceipt /\ a \in Implicit
      BY <2>4, <2>5, <2>13, EntryFacts
    <3>4. u # NoRow /\ u.deleted = NoReceipt
      BY <2>4, <2>5, <2>13, <3>2, EntryFacts
    <3>5. ~Alive(o) => CreatesIn(w, s, i, a)
      <4>1. CASE g = NoRow
        BY <2>5, <2>6, <2>8, <2>13, <4>1 DEF Tells
      <4>2. CASE g # NoRow
        BY <2>7, <2>9, <3>3, <4>2
      <4> QED
        BY <4>1, <4>2
    <3> QED
      BY <2>4, <2>8, <2>13, <3>1, <3>3, <3>4, <3>5 DEF Tells
  <2>14. CASE act.account = a /\ act.kind = "DeleteAccount"
    <3>1. Alive(e) /\ e # NoRow
      BY <2>5, <2>14 DEF Alive
    <3>2. /\ u # NoRow /\ u.created = e.created /\ u.deleted = act.receipt
          /\ v # NoRow /\ v.deleted = act.receipt
          /\ g = NoRow => v.created = NoReceipt
          /\ g # NoRow => v.created = g.created
      BY <2>3, <2>4, <2>5, <2>14, <3>1, EntryFacts, DeletedFacts
    <3>3. Acts(s, i, a, "DeleteAccount")
      BY <2>8, <2>14
    <3>4. CASE g = NoRow
      <4>1. e = o
        BY <2>6, <3>4 DEF Tells
      <4> QED
        BY <2>4, <3>1, <3>2, <3>3, <3>4, <4>1 DEF Tells
    <3>5. CASE g # NoRow
      BY <2>4, <2>6, <2>7, <2>9, <3>2, <3>3, <3>5 DEF Tells
    <3> QED
      BY <3>4, <3>5
  <2> QED
    BY <2>4, <2>5, <2>11, <2>12, <2>13, <2>14 DEF Kinds
<1>4. \A i \in 0..Len(s) : i \in S
  <2>1. 0 \in Nat /\ 0 + 1 = 1
    OBVIOUS
  <2>2. \A i \in (0 + 1)..Len(s) : i - 1 \in S => i \in S
    BY <1>1, <1>3, <2>1
  <2> HIDE DEF S
  <2> QED
    BY <1>1, <1>2, <2>1, <2>2, UpTo
<1> QED
  BY <1>4
-----------------------------------------------------------------------------
(* What one legal action does to an access key, and what is collected.     *)
LEMMA KeyAction ==
    ASSUME NEW w \in Worlds, NEW m \in Models, NEW act \in ChainActions, Legal(w, act),
           NEW k \in AccessKeys
    PROVE  /\ act.account # k[2] =>
                 /\ Execute(w, act).keys[k] = w.keys[k]
                 /\ FoldKey(m, act).keys[k] = m.keys[k]
                 /\ FoldKey(m, act).owners[k[2]] = m.owners[k[2]]
           /\ act.account = k[2] /\ act.kind = "CreateAccount" =>
                 /\ Execute(w, act).keys[k] = w.keys[k]
                 /\ FoldKey(m, act).keys[k] = m.keys[k]
                 /\ FoldKey(m, act).owners[k[2]] = m.owners[k[2]]
           /\ act.account = k[2] /\ act.kind = "Transfer" =>
                 /\ k[2] \notin Hex => /\ Execute(w, act).keys[k] = w.keys[k]
                                      /\ FoldKey(m, act).keys[k] = m.keys[k]
                 /\ \/ FoldKey(m, act).keys[k] = m.keys[k]
                    \/ FoldKey(m, act).keys[k] = Fresh(act.receipt)
                 /\ FoldKey(m, act).owners[k[2]] = m.owners[k[2]]
           /\ act.account = k[2] /\ act.kind = "DeleteAccount" =>
                 /\ Alive(w.keys[k]) =>
                       Execute(w, act).keys[k] = Ended(w.keys[k], act.receipt)
                 /\ ~Alive(w.keys[k]) => Execute(w, act).keys[k] = w.keys[k]
                 /\ m.keys[k] # NoRow =>
                       FoldKey(m, act).keys[k] = Deleted(m.keys[k], act.receipt)
                 /\ m.keys[k] = NoRow => FoldKey(m, act).keys[k] = NoRow
                 /\ FoldKey(m, act).owners[k[2]] = act.receipt
           /\ act.account = k[2] /\ act.kind \in {"AddKey", "DeleteKey"} /\ KeyOf(act) # k =>
                 /\ Execute(w, act).keys[k] = w.keys[k]
                 /\ FoldKey(m, act).keys[k] = m.keys[k]
                 /\ FoldKey(m, act).owners[k[2]] = m.owners[k[2]]
           /\ act.kind = "AddKey" /\ KeyOf(act) = k =>
                 /\ Execute(w, act).keys[k] = Fresh(act.receipt)
                 /\ FoldKey(m, act).keys[k] = Fresh(act.receipt)
                 /\ FoldKey(m, act).owners[k[2]] = m.owners[k[2]]
           /\ act.kind = "DeleteKey" /\ KeyOf(act) = k =>
                 /\ Alive(w.keys[k])
                 /\ Execute(w, act).keys[k] = Ended(w.keys[k], act.receipt)
                 /\ FoldKey(m, act).keys[k] = Deleted(m.keys[k], act.receipt)
                 /\ FoldKey(m, act).owners[k[2]] = m.owners[k[2]]
<1>1. /\ w.keys \in [AccessKeys -> Entries] /\ k[2] \in Accounts
      /\ m.keys \in [AccessKeys -> Entries] /\ m.owners \in [Accounts -> ReceiptIds]
  BY DEF Worlds, Models, AccessKeys
<1>2. /\ act.account \in Accounts /\ KeyOf(act) \in AccessKeys
      /\ KeyOf(act)[2] = act.account /\ KeyGiven(act)[2] = act.account
  BY ActionFacts
<1>3. CASE act.kind = "CreateAccount"
  <2>1. Execute(w, act).keys = w.keys
    BY <1>3, ExecuteFacts DEF WorldOf
  <2>2. FoldKey(m, act) = m
    BY <1>3, FoldKeyFacts
  <2> QED
    BY <1>2, <1>3, <2>1, <2>2
<1>4. CASE act.kind = "Transfer"
  <2>2. /\ act.account \in Hex => FoldKey(m, act).keys =
              [m.keys EXCEPT ![KeyGiven(act)] = Fresh(act.receipt)]
        /\ act.account \notin Hex => FoldKey(m, act).keys = m.keys
        /\ FoldKey(m, act).owners = m.owners
    BY <1>4, FoldKeyFacts
  <2>4. act.account \notin Hex => ~CreatesImplicit(w, act)
    BY DEF CreatesImplicit
  <2>5. act.account \notin Hex => Execute(w, act) = w
    BY <1>4, <2>4, ExecuteFacts
  <2>3. act.account # k[2] => Execute(w, act).keys[k] = w.keys[k]
    <3>1. CASE CreatesImplicit(w, act)
      <4>1. Execute(w, act).keys = [w.keys EXCEPT ![KeyGiven(act)] = Fresh(act.receipt)]
        BY <3>1, ExecuteFacts DEF WorldOf
      <4> QED
        BY <1>1, <1>2, <4>1
    <3>2. CASE ~CreatesImplicit(w, act)
      BY <1>4, <3>2, ExecuteFacts
    <3> QED
      BY <3>1, <3>2
  <2> QED
    BY <1>1, <1>2, <1>4, <2>2, <2>3, <2>5
<1>5. CASE act.kind = "DeleteAccount"
  <2>1. Execute(w, act).keys = OwnerDeleted(w.keys, act.account, act.receipt)
    BY <1>5, ExecuteFacts DEF WorldOf
  <2>2. /\ FoldKey(m, act).keys = OwnedDeleted(m.keys, act.account, act.receipt)
        /\ FoldKey(m, act).owners = [m.owners EXCEPT ![act.account] = act.receipt]
    BY <1>5, FoldKeyFacts
  <2>3. /\ act.account # k[2] => Execute(w, act).keys[k] = w.keys[k]
        /\ act.account = k[2] /\ Alive(w.keys[k]) =>
              Execute(w, act).keys[k] = Ended(w.keys[k], act.receipt)
        /\ act.account = k[2] /\ ~Alive(w.keys[k]) => Execute(w, act).keys[k] = w.keys[k]
    BY <2>1 DEF OwnerDeleted
  <2>4. /\ act.account # k[2] => FoldKey(m, act).keys[k] = m.keys[k]
        /\ act.account = k[2] /\ m.keys[k] # NoRow =>
              FoldKey(m, act).keys[k] = Deleted(m.keys[k], act.receipt)
        /\ m.keys[k] = NoRow => FoldKey(m, act).keys[k] = NoRow
    BY <2>2 DEF OwnedDeleted, Deleted
  <2>5. /\ act.account # k[2] => FoldKey(m, act).owners[k[2]] = m.owners[k[2]]
        /\ act.account = k[2] => FoldKey(m, act).owners[k[2]] = act.receipt
    BY <1>1, <2>2
  <2> QED
    BY <1>2, <1>5, <2>3, <2>4, <2>5
<1>6. CASE act.kind = "AddKey"
  <2>1. Execute(w, act).keys = [w.keys EXCEPT ![KeyOf(act)] = Fresh(act.receipt)]
    BY <1>6, ExecuteFacts DEF WorldOf
  <2>2. /\ FoldKey(m, act).keys = [m.keys EXCEPT ![KeyOf(act)] = Fresh(act.receipt)]
        /\ FoldKey(m, act).owners = m.owners
    BY <1>6, FoldKeyFacts
  <2> QED
    BY <1>1, <1>2, <1>6, <2>1, <2>2
<1>7. CASE act.kind = "DeleteKey"
  <2>1. Execute(w, act).keys = [w.keys EXCEPT ![KeyOf(act)] =
                                   Ended(w.keys[KeyOf(act)], act.receipt)]
    BY <1>7, ExecuteFacts DEF WorldOf
  <2>2. /\ FoldKey(m, act).keys =
              [m.keys EXCEPT ![KeyOf(act)] = Deleted(m.keys[KeyOf(act)], act.receipt)]
        /\ FoldKey(m, act).owners = m.owners
    BY <1>7, FoldKeyFacts
  <2>3. Alive(w.keys[KeyOf(act)])
    BY <1>7 DEF Legal, KeyOf
  <2> QED
    BY <1>1, <1>2, <1>7, <2>1, <2>2, <2>3
<1> QED
  BY <1>3, <1>4, <1>5, <1>6, <1>7, ActionFacts DEF Kinds
-----------------------------------------------------------------------------
(* A key that a block leaves has an owner, and an account that it does not *)
(* delete lives on.                                                        *)
OwnersLive(w, s, i, k) ==
    LET v == KeysGathered(s, i).keys[k]
        o == KeysGathered(s, i).owners[k[2]]
        x == After(w, s, i).accounts[k[2]]
    IN  /\ v # NoRow /\ v.deleted = NoReceipt => Alive(x)
        /\ o = NoReceipt /\ Alive(w.accounts[k[2]]) => Alive(x)

(* After every action, whatever the block does to the account.             *)
LEMMA BlockOwnersLive ==
    ASSUME NEW w, NEW s, IsLegalBlock(w, s), NEW k \in AccessKeys
    PROVE  \A i \in 0..Len(s) : OwnersLive(w, s, i, k)
<1> DEFINE S == {i \in 0..Len(s) : OwnersLive(w, s, i, k)}
<1>0. k[2] \in Accounts
  BY DEF AccessKeys
<1>1. Len(s) \in Nat
  BY BlockFacts
<1>2. 0 \in S
  <2>1. After(w, s, 0) = w /\ KeysGathered(s, 0).keys[k] = NoRow
    BY BlockFacts DEF NoModels
  <2> QED
    BY <1>1, <2>1 DEF OwnersLive
<1>3. ASSUME NEW i \in 1..Len(s), OwnersLive(w, s, i - 1, k)
      PROVE  OwnersLive(w, s, i, k)
  <2> DEFINE act == s[i]
             b == After(w, s, i - 1)
             m == KeysGathered(s, i - 1)
             g == m.keys[k]
             v == KeysGathered(s, i).keys[k]
             o == m.owners[k[2]]
             p == KeysGathered(s, i).owners[k[2]]
             e == b.accounts[k[2]]
             x == After(w, s, i).accounts[k[2]]
  <2>1. i - 1 \in 0..Len(s) /\ i \in 0..Len(s)
    BY <1>1
  <2>2. /\ act \in ChainActions /\ b \in Worlds /\ m \in Models
        /\ Gathered(s, i - 1) \in [Accounts -> Entries]
        /\ After(w, s, i) = Execute(b, act)
        /\ KeysGathered(s, i) = FoldKey(m, act)
        /\ Legal(b, act)
    BY <2>1, BlockFacts DEF IsLegalBlock
  <2>3. e \in Entries /\ g \in Entries
    BY <1>0, <2>2 DEF Worlds, Models
  <2>4. /\ act.receipt \in ReceiptIds /\ act.receipt # NoReceipt /\ act.kind \in Kinds
        /\ KeyOf(act)[2] = act.account
    BY <2>2, ActionFacts
  <2>5. /\ act.account # k[2] => x = e
        /\ act.account = k[2] /\ act.kind = "CreateAccount" => x = Fresh(act.receipt)
        /\ act.account = k[2] /\ act.kind = "Transfer" =>
              (Alive(e) /\ x = e) \/ x = Fresh(act.receipt)
        /\ act.account = k[2] /\ act.kind \in {"AddKey", "DeleteKey"} => Alive(e) /\ x = e
    BY <1>0, <2>2, AccountAction
  <2>6. /\ act.account # k[2] => v = g /\ p = o
        /\ act.account = k[2] /\ act.kind = "DeleteAccount" =>
              /\ g # NoRow => v = Deleted(g, act.receipt)
              /\ g = NoRow => v = NoRow
              /\ p = act.receipt
        /\ act.account = k[2] /\ act.kind # "DeleteAccount" => p = o
    BY <2>2, <2>4, KeyAction DEF Kinds
  <2>7. /\ g # NoRow /\ g.deleted = NoReceipt => Alive(e)
        /\ o = NoReceipt /\ Alive(w.accounts[k[2]]) => Alive(e)
    BY <1>3 DEF OwnersLive
  <2> HIDE DEF act, b, m, g, v, o, p, e, x
  <2>8. /\ v # NoRow /\ v.deleted = NoReceipt => Alive(x)
        /\ p = NoReceipt /\ Alive(w.accounts[k[2]]) => Alive(x)
    <3>1. CASE act.account # k[2]
      BY <2>5, <2>6, <2>7, <3>1
    <3>2. CASE act.account = k[2] /\ act.kind = "DeleteAccount"
      BY <2>3, <2>4, <2>6, <3>2, DeletedFacts
    <3>3. CASE act.account = k[2] /\ act.kind # "DeleteAccount"
      BY <2>4, <2>5, <3>3, EntryFacts DEF Kinds
    <3> QED
      BY <3>1, <3>2, <3>3
  <2> QED
    BY <2>8 DEF OwnersLive, v, p, x
<1>4. \A i \in 0..Len(s) : i \in S
  <2>1. 0 \in Nat /\ 0 + 1 = 1
    OBVIOUS
  <2>2. \A i \in (0 + 1)..Len(s) : i - 1 \in S => i \in S
    BY <1>1, <1>3, <2>1
  <2> HIDE DEF S
  <2> QED
    BY <1>1, <1>2, <2>1, <2>2, UpTo
<1> QED
  BY <1>4

(* A collected creator is the one of the chain.                            *)
SameCreator(u, v) == v # NoRow /\ v.created # NoReceipt => u.created = v.created

(* What is collected of a key of a name (v) and of the account itself (o)  *)
(* tells how the block takes the key from w to u, unless the block deletes *)
(* the account and touches a key of it as well.                            *)
KeyTells(w, u, v, o, a) ==
    /\ o = NoReceipt => Tells(w, u, v, a) /\ SameCreator(u, v)
    /\ o # NoReceipt => v = NoRow /\ u = IF Alive(w) THEN Ended(w, o) ELSE w

(* The block deletes the account twice, or deletes it and touches a key.   *)
Disturbs(s, a) ==
    \E i, j \in 1..Len(s) :
        /\ i # j
        /\ s[i].account = a /\ s[i].kind = "DeleteAccount"
        /\ s[j].account = a /\ s[j].kind \in {"DeleteAccount", "AddKey", "DeleteKey"}

(* Where what is collected of a key comes from.                            *)
KeyStems(s, i, k) ==
    /\ KeysGathered(s, i).keys[k] # NoRow =>
          Acts(s, i, k[2], "AddKey") \/ Acts(s, i, k[2], "DeleteKey")
    /\ KeysGathered(s, i).owners[k[2]] # NoReceipt => Acts(s, i, k[2], "DeleteAccount")

(* After every action, what is collected of a key tells its state.         *)
LEMMA BlockKeyTells ==
    ASSUME NEW w, NEW s, IsLegalBlock(w, s), NEW k \in AccessKeys,
           k[2] \notin Hex, ~Disturbs(s, k[2])
    PROVE  \A i \in 0..Len(s) :
              /\ KeyTells(w.keys[k], After(w, s, i).keys[k], KeysGathered(s, i).keys[k],
                          KeysGathered(s, i).owners[k[2]], k[2])
              /\ KeyStems(s, i, k)
<1> DEFINE P(i) == /\ KeyTells(w.keys[k], After(w, s, i).keys[k], KeysGathered(s, i).keys[k],
                               KeysGathered(s, i).owners[k[2]], k[2])
                   /\ KeyStems(s, i, k)
           S == {i \in 0..Len(s) : P(i)}
<1>0. k[2] \in Accounts
  BY DEF AccessKeys
<1>1. Len(s) \in Nat
  BY BlockFacts
<1>2. 0 \in S
  <2>1. /\ After(w, s, 0) = w /\ KeysGathered(s, 0).keys[k] = NoRow
        /\ KeysGathered(s, 0).owners[k[2]] = NoReceipt
    BY <1>0, BlockFacts DEF NoModels
  <2>2. P(0)
    BY <2>1 DEF KeyTells, Tells, SameCreator, KeyStems
  <2> QED
    BY <1>1, <2>2
<1>3. ASSUME NEW i \in 1..Len(s), P(i - 1)
      PROVE  P(i)
  <2> DEFINE act == s[i]
             b == After(w, s, i - 1)
             m == KeysGathered(s, i - 1)
             g == m.keys[k]
             v == KeysGathered(s, i).keys[k]
             o == m.owners[k[2]]
             p == KeysGathered(s, i).owners[k[2]]
             e == b.keys[k]
             u == After(w, s, i).keys[k]
             z == w.keys[k]
  <2>1. i - 1 \in 0..Len(s) /\ i \in 0..Len(s) /\ i \in 1..i
    BY <1>1
  <2>2. /\ act \in ChainActions /\ b \in Worlds /\ m \in Models
        /\ After(w, s, i) = Execute(b, act)
        /\ KeysGathered(s, i) = FoldKey(m, act)
        /\ Legal(b, act)
    BY <2>1, BlockFacts DEF IsLegalBlock
  <2>3. e \in Entries /\ g \in Entries /\ z \in Entries
    BY <1>0, <2>2 DEF Worlds, Models, IsLegalBlock
  <2>4. /\ act.receipt \in ReceiptIds /\ act.receipt # NoReceipt /\ act.kind \in Kinds
        /\ KeyOf(act)[2] = act.account
    BY <2>2, ActionFacts
  <2>5. /\ act.account # k[2] => u = e /\ v = g /\ p = o
        /\ act.account = k[2] /\ act.kind = "CreateAccount" => u = e /\ v = g /\ p = o
        /\ act.account = k[2] /\ act.kind = "Transfer" => u = e /\ v = g /\ p = o
        /\ act.account = k[2] /\ act.kind = "DeleteAccount" =>
              /\ Alive(e) => u = Ended(e, act.receipt)
              /\ ~Alive(e) => u = e
              /\ g = NoRow => v = NoRow
              /\ p = act.receipt
        /\ act.account = k[2] /\ act.kind \in {"AddKey", "DeleteKey"} /\ KeyOf(act) # k =>
              u = e /\ v = g /\ p = o
        /\ act.kind = "AddKey" /\ KeyOf(act) = k =>
              u = Fresh(act.receipt) /\ v = Fresh(act.receipt) /\ p = o
        /\ act.kind = "DeleteKey" /\ KeyOf(act) = k =>
              Alive(e) /\ u = Ended(e, act.receipt) /\ v = Deleted(g, act.receipt) /\ p = o
    BY <2>2, KeyAction
  <2>6. KeyTells(z, e, g, o, k[2])
    BY <1>3
  <2>7. /\ g # NoRow => Acts(s, i - 1, k[2], "AddKey") \/ Acts(s, i - 1, k[2], "DeleteKey")
        /\ o # NoReceipt => Acts(s, i - 1, k[2], "DeleteAccount")
    BY <1>3 DEF KeyStems
  <2>8. /\ \A kind : Acts(s, i - 1, k[2], kind) => Acts(s, i, k[2], kind)
        /\ act.account = k[2] => Acts(s, i, k[2], act.kind)
    BY <2>1 DEF Acts
  <2>9. /\ act.account = k[2] /\ act.kind = "DeleteAccount" =>
              /\ ~Acts(s, i - 1, k[2], "AddKey") /\ ~Acts(s, i - 1, k[2], "DeleteKey")
              /\ ~Acts(s, i - 1, k[2], "DeleteAccount")
        /\ act.account = k[2] /\ act.kind \in {"AddKey", "DeleteKey"} =>
              ~Acts(s, i - 1, k[2], "DeleteAccount")
    <3>1. \A j \in 1..(i - 1) : j \in 1..Len(s) /\ i # j
      BY <1>1
    <3> QED
      BY <3>1 DEF Disturbs, Acts
  <2>10. SUFFICES /\ KeyTells(z, u, v, p, k[2])
                  /\ v # NoRow => Acts(s, i, k[2], "AddKey") \/ Acts(s, i, k[2], "DeleteKey")
                  /\ p # NoReceipt => Acts(s, i, k[2], "DeleteAccount")
    BY DEF KeyStems
  <2> HIDE DEF act, b, m, g, v, o, p, e, u, z
  <2>11. CASE u = e /\ v = g /\ p = o
    BY <2>6, <2>7, <2>8, <2>11
  <2>12. CASE act.account = k[2] /\ act.kind = "DeleteAccount"
    <3>1. g = NoRow /\ o = NoReceipt
      BY <2>7, <2>9, <2>12
    <3>2. e = z
      BY <2>6, <3>1 DEF KeyTells, Tells
    <3>3. v = NoRow /\ p = act.receipt /\ u = IF Alive(z) THEN Ended(z, p) ELSE z
      BY <2>5, <2>12, <3>1, <3>2
    <3> QED
      BY <2>4, <2>8, <2>12, <3>3 DEF KeyTells
  <2>13. CASE act.account = k[2] /\ act.kind \in {"AddKey", "DeleteKey"} /\ KeyOf(act) = k
    <3>1. o = NoReceipt /\ p = NoReceipt
      BY <2>5, <2>7, <2>9, <2>13
    <3>2. Tells(z, e, g, k[2]) /\ SameCreator(e, g)
      BY <2>6, <3>1 DEF KeyTells
    <3>3. Tells(z, u, v, k[2]) /\ SameCreator(u, v)
      <4>1. CASE act.kind = "AddKey"
        BY <2>4, <2>5, <2>13, <4>1, EntryFacts DEF Tells, SameCreator
      <4>2. CASE act.kind = "DeleteKey"
        <5>1. Alive(e) /\ e # NoRow
          BY <2>5, <2>13, <4>2 DEF Alive
        <5>2. /\ u # NoRow /\ u.created = e.created /\ u.deleted = act.receipt
              /\ v # NoRow /\ v.deleted = act.receipt
              /\ g = NoRow => v.created = NoReceipt
              /\ g # NoRow => v.created = g.created
          BY <2>3, <2>4, <2>5, <2>13, <4>2, <5>1, EntryFacts, DeletedFacts
        <5> QED
          BY <2>4, <3>2, <5>1, <5>2 DEF Tells, SameCreator
      <4> QED
        BY <2>13, <4>1, <4>2
    <3> QED
      BY <2>8, <2>13, <3>1, <3>3 DEF KeyTells
  <2> QED
    BY <2>4, <2>5, <2>11, <2>12, <2>13 DEF Kinds
<1>4. \A i \in 0..Len(s) : i \in S
  <2>1. 0 \in Nat /\ 0 + 1 = 1
    OBVIOUS
  <2>2. \A i \in (0 + 1)..Len(s) : i - 1 \in S => i \in S
    BY <1>1, <1>3, <2>1
  <2> HIDE DEF S
  <2> QED
    BY <1>1, <1>2, <2>1, <2>2, UpTo
<1> QED
  BY <1>4
-----------------------------------------------------------------------------
(* What the blocks of a chain do, as functions of the chain.               *)
WorldIn(c, h)  == ExecuteBlocks(GenesisWorld, SubSeq(c, 1, h))
ModelsIn(c, h) == CollectAccounts(NoAccounts, c[h])
KeysIn(c, h)   == CollectKeys(NoModels, c[h])

(* They are those of the model, for the chain.                             *)
LEMMA InChain ==
    /\ \A h : WorldAt(h) = WorldIn(chain, h)
    /\ \A h : AccountModels(h) = ModelsIn(chain, h)
    /\ \A h : KeyModels(h) = KeysIn(chain, h)
BY DEF WorldAt, WorldIn, ExecuteBlocks, AccountModels, ModelsIn, CollectAccounts,
       KeyModels, KeysIn, CollectKeys

(* A chain of legal blocks, whose receipts are told apart by position.     *)
LegalChain(c) ==
    /\ c \in Seq(ActionLists) /\ Len(c) <= LastBlock
    /\ \A h \in 1..Len(c) :
          /\ IsLegalBlock(WorldIn(c, h - 1), c[h])
          /\ \A i \in 1..Len(c[h]) : c[h][i].receipt = <<h, i>>

(* The world of the genesis is a world.                                    *)
LEMMA GenesisWorldType == GenesisWorld \in Worlds
<1>1. Fresh(NoReceipt) \in Entries /\ NoRow \in Entries
  BY EntryFacts DEF ReceiptIds
<1> QED
  BY <1>1 DEF GenesisWorld, Worlds

(* The worlds after the blocks of a chain.                                 *)
LEMMA ChainFacts ==
    ASSUME NEW c, LegalChain(c)
    PROVE  /\ Len(c) \in Nat /\ \A h \in 1..Len(c) : h \in Blocks
           /\ WorldIn(c, 0) = GenesisWorld
           /\ \A h \in 0..Len(c) : WorldIn(c, h) \in Worlds
           /\ \A h \in 1..Len(c) :
                 /\ WorldIn(c, h) = After(WorldIn(c, h - 1), c[h], Len(c[h]))
                 /\ ModelsIn(c, h) = Gathered(c[h], Len(c[h]))
                 /\ KeysIn(c, h) = KeysGathered(c[h], Len(c[h]))
                 /\ Len(c[h]) \in 0..Len(c[h])
<1>1. /\ c \in Seq(ActionLists) /\ Len(c) \in Nat /\ \A h \in 1..Len(c) : c[h] \in ActionLists
      /\ \A h \in 1..Len(c) : h \in Blocks
  BY StateConstants DEF LegalChain, Blocks
<1>2. /\ WorldIn(c, 0) = GenesisWorld
      /\ \A h \in 0..Len(c) : WorldIn(c, h) \in Worlds
      /\ \A h \in 1..Len(c) : WorldIn(c, h) = ExecuteBlock(WorldIn(c, h - 1), c[h])
  BY <1>1, GenesisWorldType, BlockSteps DEF WorldIn
<1>3. ASSUME NEW h \in 1..Len(c)
      PROVE  /\ WorldIn(c, h) = After(WorldIn(c, h - 1), c[h], Len(c[h]))
             /\ ModelsIn(c, h) = Gathered(c[h], Len(c[h]))
             /\ KeysIn(c, h) = KeysGathered(c[h], Len(c[h]))
             /\ Len(c[h]) \in 0..Len(c[h])
  <2>1. IsLegalBlock(WorldIn(c, h - 1), c[h])
    BY DEF LegalChain
  <2>2. /\ Len(c[h]) \in Nat
        /\ After(WorldIn(c, h - 1), c[h], Len(c[h])) = ExecuteBlock(WorldIn(c, h - 1), c[h])
        /\ Gathered(c[h], Len(c[h])) = CollectAccounts(NoAccounts, c[h])
        /\ KeysGathered(c[h], Len(c[h])) = CollectKeys(NoModels, c[h])
    BY <2>1, BlockFacts
  <2> QED
    BY <1>2, <2>2 DEF ModelsIn, KeysIn
<1> QED
  BY <1>1, <1>2, <1>3

(* A block of the chain, looked at from outside.                           *)
LEMMA BlockOfChain ==
    ASSUME NEW c, LegalChain(c), NEW h \in 1..Len(c)
    PROVE  /\ ModelsIn(c, h) \in [Accounts -> Entries]
           /\ KeysIn(c, h) \in Models
           /\ \A a \in Accounts :
                 /\ Tells(WorldIn(c, h - 1).accounts[a], WorldIn(c, h).accounts[a],
                          ModelsIn(c, h)[a], a)
                 /\ Stems(WorldIn(c, h - 1), c[h], Len(c[h]), a)
           /\ \A k \in AccessKeys :
                 /\ OwnersLive(WorldIn(c, h - 1), c[h], Len(c[h]), k)
                 /\ k[2] \notin Hex /\ ~Disturbs(c[h], k[2]) =>
                       KeyTells(WorldIn(c, h - 1).keys[k], WorldIn(c, h).keys[k],
                                KeysIn(c, h).keys[k], KeysIn(c, h).owners[k[2]], k[2])
<1> DEFINE w == WorldIn(c, h - 1)
           s == c[h]
<1>1. IsLegalBlock(w, s)
  BY DEF LegalChain
<1>2. /\ WorldIn(c, h) = After(w, s, Len(s)) /\ ModelsIn(c, h) = Gathered(s, Len(s))
      /\ KeysIn(c, h) = KeysGathered(s, Len(s)) /\ Len(s) \in 0..Len(s)
  BY ChainFacts
<1> HIDE DEF w, s
<1>3. ModelsIn(c, h) \in [Accounts -> Entries] /\ KeysIn(c, h) \in Models
  BY <1>1, <1>2, BlockFacts
<1>4. ASSUME NEW a \in Accounts
      PROVE  /\ Tells(w.accounts[a], WorldIn(c, h).accounts[a], ModelsIn(c, h)[a], a)
             /\ Stems(w, s, Len(s), a)
  BY <1>1, <1>2, BlockTells
<1>5. ASSUME NEW k \in AccessKeys
      PROVE  /\ OwnersLive(w, s, Len(s), k)
             /\ k[2] \notin Hex /\ ~Disturbs(s, k[2]) =>
                   KeyTells(w.keys[k], WorldIn(c, h).keys[k],
                            KeysIn(c, h).keys[k], KeysIn(c, h).owners[k[2]], k[2])
  <2>1. OwnersLive(w, s, Len(s), k)
    BY <1>1, <1>2, BlockOwnersLive
  <2>2. ASSUME k[2] \notin Hex, ~Disturbs(s, k[2])
        PROVE  KeyTells(w.keys[k], After(w, s, Len(s)).keys[k],
                        KeysGathered(s, Len(s)).keys[k],
                        KeysGathered(s, Len(s)).owners[k[2]], k[2])
    BY <1>1, <1>2, <2>2, BlockKeyTells
  <2> QED
    BY <1>2, <2>1, <2>2
<1> QED
  BY <1>3, <1>4, <1>5 DEF w, s

(* The chain grows by one legal block.                                     *)
Grows(c, d) ==
    /\ Len(d) = Len(c) + 1
    /\ \A h \in 1..Len(c) : d[h] = c[h]
    /\ \A h \in 0..Len(c) : WorldIn(d, h) = WorldIn(c, h)

(* Produce appends a legal block.                                          *)
LEMMA ProduceGrows ==
    ASSUME LegalChain(chain), Produce
    PROVE  LegalChain(chain') /\ Grows(chain, chain')
<1> DEFINE c == chain
           d == chain'
           N == Len(chain)
<1>1. N \in Nat /\ c \in Seq(ActionLists) /\ N < LastBlock /\ LastBlock \in Nat
  BY StateConstants DEF LegalChain, Produce
<1>2. PICK n \in 0..MaxActions : \E acts \in [1..n -> DistinctActions] :
           LegalBlock(BlockOfActions(acts)) /\ d = Append(c, BlockOfActions(acts))
  <2>1. PICK acts \in BoundedLists :
             LegalBlock(BlockOfActions(acts)) /\ d = Append(c, BlockOfActions(acts))
    BY DEF Produce
  <2>2. PICK n \in 0..MaxActions : acts \in [1..n -> DistinctActions]
    <3>1. MaxMixed \in Nat /\ MaxMixed <= MaxActions /\ MaxActions \in Nat
      BY StateConstants
    <3>2. CASE acts \in ListsOf(DistinctActions, MaxMixed)
      BY <3>1, <3>2 DEF ListsOf
    <3>3. CASE acts \in UNION {ListsOf(ActionsFor(a), MaxActions) : a \in Accounts}
      <4>1. PICK a \in Accounts : acts \in ListsOf(ActionsFor(a), MaxActions)
        BY <3>3
      <4>2. PICK n \in 0..MaxActions : acts \in [1..n -> ActionsFor(a)]
        BY <4>1 DEF ListsOf
      <4>3. ActionsFor(a) \subseteq DistinctActions
        BY DEF ActionsFor
      <4> QED
        BY <4>2, <4>3
    <3> QED
      BY <3>2, <3>3 DEF BoundedLists
  <2> QED
    BY <2>1, <2>2
<1>3. PICK acts \in [1..n -> DistinctActions] :
           LegalBlock(BlockOfActions(acts)) /\ d = Append(c, BlockOfActions(acts))
  BY <1>2
<1> DEFINE b == BlockOfActions(acts)
<1>4. n \in Nat /\ DOMAIN acts = 1..n /\ MaxActions \in Nat
  BY StateConstants
<1>5. ASSUME NEW i \in 1..n
      PROVE  b[i] \in ChainActions /\ b[i].receipt = <<N + 1, i>>
  <2>1. acts[i] \in Actions
    BY DEF DistinctActions
  <2>2. <<N + 1, i>> \in Receipts
    BY <1>1, <1>4 DEF Receipts, Blocks
  <2>3. b[i] = [kind |-> acts[i].kind, account |-> acts[i].account,
                key |-> acts[i].key, receipt |-> <<N + 1, i>>]
    BY <1>4 DEF BlockOfActions
  <2> QED
    BY <2>1, <2>2, <2>3 DEF Actions, ChainActions
<1>6. b \in Seq(ChainActions) /\ Len(b) = n /\ DOMAIN b = 1..n
  <2>1. b = [i \in 1..n |-> b[i]]
    BY <1>4 DEF BlockOfActions
  <2> HIDE DEF b
  <2> QED
    BY <1>4, <1>5, <2>1
<1>7. LegalBlock(b) /\ d = Append(c, b)
  BY <1>3
<1> HIDE DEF b
<1>8. /\ d \in Seq(ActionLists) /\ Len(d) = N + 1 /\ d[N + 1] = b
      /\ \A h \in 1..N : d[h] = c[h]
      /\ \A h \in 0..N : SubSeq(d, 1, h) = SubSeq(c, 1, h)
  BY <1>1, <1>6, <1>7 DEF ActionLists
<1>9. \A h \in 0..N : WorldIn(d, h) = WorldIn(c, h)
  BY <1>8 DEF WorldIn
<1>10. Grows(c, d)
  BY <1>8, <1>9 DEF Grows
<1>11. IsLegalBlock(WorldIn(d, N), b)
  <2>1. N \in 0..N
    BY <1>1
  <2>2. WorldIn(d, N) = World /\ WorldIn(d, N) \in Worlds
    BY <1>9, <2>1, ChainFacts, InChain DEF World
  <2>3. \A i \in 1..n : Legal(ExecuteBlock(World, SubSeq(b, 1, i - 1)), b[i])
    BY <1>6, <1>7 DEF LegalBlock
  <2> QED
    BY <1>6, <2>2, <2>3 DEF IsLegalBlock, After
<1>12. ASSUME NEW h \in 1..Len(d)
       PROVE  /\ IsLegalBlock(WorldIn(d, h - 1), d[h])
              /\ \A i \in 1..Len(d[h]) : d[h][i].receipt = <<h, i>>
  <2>1. CASE h = N + 1
    <3>1. h - 1 = N
      BY <1>1, <2>1
    <3> QED
      BY <1>5, <1>6, <1>8, <1>11, <2>1, <3>1
  <2>2. CASE h # N + 1
    <3>1. h \in 1..N /\ h - 1 \in 0..N
      BY <1>1, <1>8, <2>2
    <3> QED
      BY <1>8, <1>9, <3>1 DEF LegalChain
  <2> QED
    BY <2>1, <2>2
<1>13. Len(d) <= LastBlock
  BY <1>1, <1>8
<1> QED
  BY <1>8, <1>10, <1>12, <1>13 DEF LegalChain
==============================================================================
