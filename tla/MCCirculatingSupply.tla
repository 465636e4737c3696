------------------------ MODULE MCCirculatingSupply --------------------------
(***************************************************************************)
(* Days of four units, of which the ten minutes are one; transfers were    *)
(* enabled at 1, and so the midnights to compute are 4, 8, 12.  Two lockup *)
(* accounts: one with many contracts, one with many lives.                 *)
(***************************************************************************)
EXTENDS CirculatingSupply

Heightly(times) == [h \in Heights |-> times[h + 1]]

(* A block at midnight sharp, a block every day, a day without a block.    *)
MCTimes == {Heightly(<<0, 3, 4, 6, 8, 10>>), Heightly(<<0, 4, 5, 7, 9, 14>>),
            Heightly(<<0, 3, 5, 6, 13, 14>>)}

NoVesting == [kind |-> "None", start |-> 0, cliff |-> 0, end |-> 0, unvested |-> 0]
Schedule  == [NoVesting EXCEPT !.kind = "VestingSchedule", !.start = 6, !.cliff = 8, !.end = 12]
Hashed    == [NoVesting EXCEPT !.kind = "VestingHash"]

Contract(duration, release, timestamp, vesting) ==
    [amount |-> 4, withdrawn |-> 0, duration |-> duration, release |-> release,
     timestamp |-> timestamp, transfers |-> None, vesting |-> vesting]

Contracts == {Contract(d, r, t, v) : d \in {0, 4}, r \in {None, 6}, t \in {None, 6},
                                     v \in {NoVesting, Schedule, Hashed}}

(* The foundation may terminate a vesting and withdraw what is unvested.   *)
(* Of a vesting that was private that is half of what is locked anyhow.    *)
Terminated(c, t, version) ==
    [c EXCEPT !.vesting =
        [NoVesting EXCEPT !.kind = "Terminating",
                          !.unvested = IF c.vesting.kind = "VestingSchedule"
                                       THEN UnvestedAmount(c, t)
                                       ELSE LockedAmount(WithTransfers(c), t,
                                                         version = "buggy") \div 2]]
(* In parts: one token in the block after, the rest in the one after that. *)
Withdrawn(c, part) ==
    [c EXCEPT !.withdrawn = @ + part,
              !.vesting = IF part = @.unvested THEN NoVesting ELSE [@ EXCEPT !.unvested = @ - part]]

States(times, c, k, version) ==
    LET terminated == Terminated(c, times[k], version)
        all        == terminated.vesting.unvested
    IN  [h \in Heights |-> IF c.vesting.kind = "None" \/ h < k THEN c
                           ELSE IF h = k \/ all = 0 THEN terminated
                           ELSE IF h = k + 1 THEN Withdrawn(terminated, 1)
                           ELSE Withdrawn(terminated, all)]

(* The contracts, with and without the bug, terminated at height 3 or not. *)
Plain == Contract(4, 6, None, NoVesting)

Life(created, creationIncluded, deleted, deletionIncluded) ==
    [created |-> created, creationIncluded |-> creationIncluded,
     deleted |-> deleted, deletionIncluded |-> deletionIncluded]

(* l1 is there from the genesis on, and so is l2 if it was created at 0;   *)
(* the genesis was stored or not.                                          *)
ChainOf(times, c, k, version, from, stores, life, version2) ==
    [time |-> times, indexedFrom |-> from,
     fromGenesis |-> IF ~stores THEN {} ELSE IF life.created = 0 THEN Lockups ELSE {"l1"},
     created |-> [l \in Lockups |-> IF l = "l1" THEN 0 ELSE life.created],
     creationIncluded |-> [l \in Lockups |-> IF l = "l1" THEN 0 ELSE life.creationIncluded],
     deleted |-> [l \in Lockups |-> IF l = "l1" THEN None ELSE life.deleted],
     deletionIncluded |-> [l \in Lockups |-> IF l = "l1" THEN None ELSE life.deletionIncluded],
     state |-> [l \in Lockups |-> IF l = "l1" THEN States(times, c, k, version)
                                  ELSE [h \in Heights |-> Plain]],
     version |-> [l \in Lockups |-> IF l = "l1" THEN version ELSE version2]]

ContractChains ==
    {ChainOf(times, c, k, version, 0, TRUE, Life(1, 1, None, None), "fixed") :
        times \in MCTimes, c \in Contracts, k \in {3, 9}, version \in {"buggy", "fixed"}}

(* Indexed from the genesis on or from a block that is neither the first   *)
(* nor after the first midnight.                                           *)
LifeChains ==
    {ChainOf(times, Plain, 9, "fixed", start[1], start[2], life, version) :
        times \in MCTimes, start \in {<<0, TRUE>>, <<2, TRUE>>, <<2, FALSE>>},
        version \in {"fixed", "unknown"},
        life \in {Life(0, 0, None, None), Life(3, 3, None, None), Life(3, 2, None, None),
                  Life(0, 0, 1, 1), Life(0, 0, 4, 4), Life(1, 1, 4, 2), Life(3, 3, 4, 4)}}

MCChains == ContractChains \cup LifeChains
=============================================================================
