-------------------------- MODULE MCOutcomeTables ----------------------------
(***************************************************************************)
(* Every legal chain of short blocks on a few accounts with one key each:  *)
(* one that exists at genesis, a named one that does not, and an implicit  *)
(* one.  A batch holds one record, so that a vector is full amid the       *)
(* records and at their end.                                               *)
(***************************************************************************)
EXTENDS OutcomeTables

MCAccounts == {"named", "fresh", "implicit"}
MCNoRow == [none |-> TRUE]
MCImplicitKey == [a \in {"implicit"} |-> "key"]
MCGenesisKeys == {<<"key", "named">>}
MCGenesisRecords ==
    <<<<"Account", "named">>, <<"Contract", "named">>, <<"AccessKey", <<"key", "named">>>>>>
=============================================================================
