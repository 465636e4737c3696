--------------------------- MODULE MCEventTables -----------------------------
(***************************************************************************)
(* A block with two shards: three FT events of two receipts, four NFT      *)
(* entries, equal entries, a log that is no event, and changes of accounts *)
(* that come back to an earlier balance.                                   *)
(***************************************************************************)
EXTENDS EventTables

Log(standard, data) == [standard |-> standard, data |-> data]
Outcome(receipt, logs) == [receipt |-> receipt, logs |-> logs]

Ft1  == Log("nep141", <<"mint a", "mint a">>)
Ft2  == Log("nep141", <<"burn a">>)
Nft1 == Log("nep171", <<<<"a", "b">>, <<"a">>>>)
Nft2 == Log("nep171", <<<<"a">>>>)
Text == Log("none", <<>>)

MCOutcomes ==
    [s \in Shards |-> IF s = "s1" THEN <<Outcome("r1", <<Ft1, Text, Nft1>>),
                                         Outcome("r2", <<Nft2, Ft2>>)>>
                      ELSE <<Outcome("r3", <<Ft2>>)>>]

MCOutcomes2 ==
    [s \in Shards |-> IF s = "s1" THEN <<>>
                      ELSE <<Outcome("r1", <<Text>>), Outcome("r2", <<Ft1, Ft1, Ft2>>)>>]

Change(value, account, reason, cause, balance) ==
    [value |-> value, account |-> account, reason |-> reason, cause |-> cause,
     balance |-> balance]

MCChanges ==
    [s \in Shards |-> IF s = "s1" THEN
        <<Change("AccountUpdate", "alice", "TransactionProcessing", "t1", 1),
          Change("DataUpdate", "alice", "ReceiptProcessing", "r1", 0),
          Change("AccountUpdate", "alice", "ActionReceiptGasReward", "r1", 2),
          Change("AccountUpdate", "alice", "ReceiptProcessing", "r1", 1),
          Change("AccountUpdate", "alice", "ActionReceiptGasReward", "r2", 2),
          Change("AccountDeletion", "alice", "ReceiptProcessing", "r2", 0)>>
        ELSE <<Change("AccountUpdate", "bob", "ValidatorAccountsUpdate", "", 1)>>]

Block(outcomes, changes, skipped) ==
    [outcomes |-> outcomes, changes |-> changes, skipped |-> skipped]

MCMessages ==
    <<Block(MCOutcomes, [s \in Shards |-> <<>>], {}),
      Block(MCOutcomes, [s \in Shards |-> <<>>], {"r2"}),
      Block(MCOutcomes2, MCChanges, {})>>
=============================================================================
