----------------------------- MODULE EventTables ------------------------------
(***************************************************************************)
(* The futures of handle_message (src/src/main.rs) that write token events *)
(* and account changes: several indexers handle one block, and each may    *)
(* handle it again after a failure or a restart.                           *)
(***************************************************************************)
EXTENDS AssetEvents, AccountChanges

CONSTANTS
    StrictMode,  \* FALSE is --non-strict-mode: no account changes are stored
    MaxRuns,     \* bound: times the block is handled
    MaxFaults    \* bound: statements that fail for other reasons, and crashes

ASSUME EventTablesConstants ==
    /\ StrictMode \in BOOLEAN
    /\ MaxRuns \in Nat /\ MaxFaults \in Nat

VARIABLES
    pc,    \* how far an indexer is with the block
    runs, faults

block == <<message, composed>>
vars == <<block, eventVars, changeVars, pc, runs, faults>>

Init ==
    /\ EventsInit /\ ChangesInit
    /\ pc = [i \in Indexers |-> "idle"]
    /\ runs = 0
    /\ faults = 0

Running(i) == pc[i] = "running"

Start(i) ==
    /\ ~Running(i) /\ runs < MaxRuns
    /\ StartEvents(i)
    /\ IF StrictMode THEN StartChanges(i) ELSE UNCHANGED changeTask
    /\ pc' = [pc EXCEPT ![i] = "running"]
    /\ runs' = runs + 1
    /\ UNCHANGED <<block, eventRows, changeRows, faults>>

StoreEvents(i) ==
    /\ \E f \in Futures : StoreBatch(i, f) \/ AnswerLost(i, f)
    /\ UNCHANGED <<block, changeVars, pc, runs, faults>>

StoreAccountChanges(i) ==
    /\ \E s \in Shards : StoreChanges(i, s)
    /\ UNCHANGED <<block, eventVars, pc, runs, faults>>

Finish(i) ==
    /\ Running(i) /\ EventsIdle(i) /\ ChangesIdle(i)
    /\ pc' = [pc EXCEPT ![i] = "done"]
    /\ UNCHANGED <<block, eventVars, changeVars, runs, faults>>

Lose(i) ==
    /\ Running(i)
    /\ DropEvents(i) /\ DropChanges(i)
    /\ pc' = [pc EXCEPT ![i] = "lost"]
    /\ UNCHANGED <<block, runs>>

(* A batch that is refused ten times ends the handler of the block.        *)
GiveUp(i) ==
    /\ \E f \in Futures : Refused(i, f)
    /\ Lose(i)
    /\ UNCHANGED faults

Fail(i) ==
    /\ faults < MaxFaults
    /\ faults' = faults + 1
    /\ Lose(i)

AllEnded ==
    /\ runs = MaxRuns /\ \A i \in Indexers : ~Running(i)
    /\ UNCHANGED vars

Next ==
    \/ \E i \in Indexers : \/ Start(i) \/ StoreEvents(i) \/ StoreAccountChanges(i)
                           \/ Finish(i) \/ GiveUp(i) \/ Fail(i)
    \/ AllEnded

Spec == Init /\ [][Next]_vars
-----------------------------------------------------------------------------
(* An indexer that reports the block as handled leaves every event in the  *)
(* tables once, and the index within the shard gives back the order in     *)
(* which the contracts logged them, whoever else wrote the same block.     *)
RowsOfShard(f) == {r \in Table(f) : r.shard = f[1]}

InOrder(f) ==
    LET entries == Entries(message, f)
    IN  /\ Cardinality(RowsOfShard(f)) = Len(entries)
        /\ \A k \in DOMAIN entries : \E r \in RowsOfShard(f) :
              r.index = k - 1 /\ r.receipt = entries[k].receipt /\ r.entry = entries[k].entry

EventsOfBlock ==
    \A i \in Indexers : pc[i] = "done" => \A f \in Futures : InOrder(f)

(* The same lines of another indexer, or of an earlier try, are legal: the *)
(* only batch that is ever refused has an event of a skipped receipt.      *)
OnlySkippedRefused ==
    \A i \in Indexers, f \in Futures :
        Refused(i, f) => \E r \in Current(i, f) : r.receipt \in Message.skipped

(* An indexer that reports the block as handled leaves every change of an  *)
(* account in the table, none twice, with its position within the shard.   *)
AccountChangesOf(s) == AccountPositions(Changes(message, s))

ChangesOfBlock ==
    (StrictMode /\ \E i \in Indexers : pc[i] = "done") =>
        /\ Cardinality(changeRows) = Cardinality(UNION {{s} \X AccountChangesOf(s) : s \in Shards})
        /\ \A s \in Shards : \A k \in AccountChangesOf(s) : \E r \in changeRows :
              /\ r.index = k - 1
              /\ r.account = Changes(message, s)[k].account
              /\ r.reason = Changes(message, s)[k].reason
=============================================================================
