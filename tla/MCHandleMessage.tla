-------------------------- MODULE MCHandleMessage ---------------------------
(***************************************************************************)
(* A chain of three blocks for TLC, with every way a receipt finds its     *)
(* transaction: t1 of block 1 becomes r1 in block 2; t2 of block 2 becomes *)
(* the local receipt l2 of the same chunk; the execution of r1 in block 2  *)
(* produces r3 and the data receipt d3 of block 3, where r3 is not         *)
(* executed yet.  Block 2 has a second chunk with nothing in it.           *)
(***************************************************************************)
EXTENDS HandleMessage

MCChunks == {"1a", "2a", "2b", "3a"}
MCBlockOf == [c \in MCChunks |-> CASE c = "1a" -> 1 [] c = "3a" -> 3 [] OTHER -> 2]
MCTxs == {"t1", "t2"}
MCTxChunk == [t \in MCTxs |-> IF t = "t1" THEN "1a" ELSE "2a"]
MCTxHash == [t \in MCTxs |-> t]
MCCollidingTxHash == [t \in MCTxs |-> "h"]
MCActionReceipts == {"r1", "l2", "r3"}
MCDataReceipts == {"d3"}
MCReceipts == MCActionReceipts \cup MCDataReceipts
MCParent == [r \in MCReceipts |-> CASE r = "r1" -> "t1" [] r = "l2" -> "t2"
                                    [] OTHER -> "r1"]
MCIncludedIn == [r \in MCReceipts |-> IF r \in {"r1", "l2"} THEN "2a" ELSE "3a"]
MCExecutedIn == [r \in MCActionReceipts |-> IF r = "r3" THEN "none" ELSE "2a"]
MCRoot == [r \in MCReceipts |-> IF r = "l2" THEN "t2" ELSE "t1"]
=============================================================================
