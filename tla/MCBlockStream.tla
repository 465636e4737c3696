--------------------------- MODULE MCBlockStream ----------------------------
(* Four blocks with a skipped height, and command lines for TLC.           *)
EXTENDS BlockStream

MCHeights == {2, 3, 5, 6}

Interruption(d, n) == [mode |-> "interruption", delta |-> d, height |-> 0, stop |-> n]
FromBlock(h)       == [mode |-> "block", delta |-> 0, height |-> h, stop |-> 0]
FromLatest         == [mode |-> "latest", delta |-> 0, height |-> 0, stop |-> 0]

MCArgs == {Interruption(0, 0), Interruption(3, 0), Interruption(0, 2),
           FromBlock(3), FromLatest}
MCArgsDelta1 == {Interruption(1, 0), FromBlock(2)}
=============================================================================
