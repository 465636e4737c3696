--------------------------- MODULE ReceiptLedger ----------------------------
(***************************************************************************)
(* What the transactions and receipts tables promise to a reader, with no  *)
(* handlers, cache or retries: a receipt gets its originating transaction  *)
(* once and for all, it is the transaction the receipt descends from, and  *)
(* a block counts as handled only when its action receipts have theirs.    *)
(***************************************************************************)
EXTENDS Naturals

CONSTANTS Receipts,  \* all receipts
          Required,  \* heights -> the receipts a handled block must have
          Blocks,    \* heights
          Root,      \* the transaction a receipt descends from
          NoTx       \* no origin is known

VARIABLES origin,    \* the originating transaction of a receipt
          handled    \* blocks that were handled since the last restart

vars == <<origin, handled>>

Init == /\ origin = [r \in Receipts |-> NoTx]
        /\ handled = {}

Record(s) ==
    /\ \A r \in s : origin[r] = NoTx
    /\ origin' = [r \in Receipts |-> IF r \in s THEN Root[r] ELSE origin[r]]
    /\ UNCHANGED handled

Handle(b) ==
    /\ \A r \in Required[b] : origin[r] = Root[r]
    /\ handled' = handled \cup {b}
    /\ UNCHANGED origin

(* A restart from height h handles the later blocks again.                 *)
StartOver(h) ==
    /\ handled' = {b \in handled : b < h}
    /\ UNCHANGED origin

Next == \/ \E s \in SUBSET Receipts : Record(s)
        \/ \E b \in Blocks : Handle(b) \/ StartOver(b)

Spec == Init /\ [][Next]_vars
=============================================================================
