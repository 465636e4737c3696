---------------------------- MODULE BlockMessage -----------------------------
(***************************************************************************)
(* What the node reports of one block beyond receipts and actions: the     *)
(* logs of the execution outcomes and the state changes of every shard.    *)
(* External.  Several indexers may write the block to one database.        *)
(***************************************************************************)
EXTENDS Integers, Sequences

CONSTANTS
    Indexers,  \* processes that write to the same database
    Shards,
    Messages   \* a list of the messages considered: [outcomes, changes, skipped]

VARIABLE message  \* which message the block of this behaviour has

Message == Messages[message]
=============================================================================
