-------------------------- MODULE CirculatingSupply --------------------------
(***************************************************************************)
(* run_circulating_supply_computation                                      *)
(* (src/src/aggregated/circulating_supply/mod.rs): a loop beside the block *)
(* handlers that stores the circulating supply of every day.  It waits for *)
(* the node's final block and then reads the tables, which the handlers    *)
(* fill some way behind the node.  Time is the time of blocks: the sleep   *)
(* until the day has come is covered by the wait for the final block.      *)
(***************************************************************************)
EXTENDS Lockup, FiniteSets
Sets == INSTANCE FiniteSetsExt

CONSTANTS
    LastHeight,      \* bound: the heights are 0..LastHeight
    Lockups,         \* the account ids *.lockup.near
    Chains,          \* the chains considered, see ChainShape
    BuggyVersions, FixedVersions,  \* the code hashes is_bug_inside_contract knows
    Day, TenMinutes,
    MaxLag,          \* how far the final block may be ahead of a block not handled yet
    TotalSupply, FoundationLocked, \* of every block
    MaxErrors,       \* bound: failing queries
    MaxRestarts      \* bound: restarts of the process

Heights == 0..LastHeight

(* The node's side.  A lockup account is in the state after block h from   *)
(* the height that created it to the one before the height that deleted it *)
(* (None: never).  The receipts that did so were included at a height of   *)
(* their own, not later: a shard may delay what it executes.  state and    *)
(* version are its contract.                                               *)
(* The index's side.  Its first block is the one at indexedFrom; of what   *)
(* was there before, its accounts are those of the genesis, fromGenesis,   *)
(* if these were stored.                                                   *)
ChainShape ==
    [time : [Heights -> Times],
     created : [Lockups -> Heights], creationIncluded : [Lockups -> Heights],
     deleted : [Lockups -> Heights \cup {None}],
     deletionIncluded : [Lockups -> Heights \cup {None}],
     state : [Lockups -> [Heights -> ContractStates]],
     version : [Lockups -> STRING],
     indexedFrom : Heights, fromGenesis : SUBSET Lockups]

ASSUME SupplyConstants ==
    /\ LastHeight \in Nat
    /\ IsFiniteSet(Lockups)
    /\ Day \in Nat \ {0} /\ TenMinutes \in 0..(Day - 1)
    /\ MaxLag \in Nat
    /\ TotalSupply \in Nat /\ FoundationLocked \in Nat
    /\ MaxErrors \in Nat /\ MaxRestarts \in Nat

(* Accounts refer to the receipts of the tables: a block that executes a   *)
(* receipt from before the first block is never handled.                   *)
ASSUME ChainsAreChains ==
    \A c \in Chains :
        /\ c \in ChainShape
        /\ \A g, h \in Heights : g < h => c.time[g] < c.time[h]
        /\ \A l \in Lockups :
              /\ c.creationIncluded[l] <= c.created[l]
              /\ c.deleted[l] # None => c.deletionIncluded[l] \in 0..c.deleted[l]
              /\ l \in c.fromGenesis => c.created[l] = 0
              /\ c.created[l] >= c.indexedFrom => c.creationIncluded[l] >= c.indexedFrom
              /\ c.deleted[l] # None /\ c.deleted[l] >= c.indexedFrom =>
                    c.deletionIncluded[l] >= c.indexedFrom
              /\ \A h \in Heights : WellFormed(c.state[l][h])

(* Whether the account exists after block h.                               *)
Alive(c, l, h) == c.created[l] <= h /\ (c.deleted[l] # None => h < c.deleted[l])

(* From block to block a contract is left alone, or the foundation         *)
(* terminates its vesting, or withdraws what was unvested then.  A vesting *)
(* that was kept private "doesn't affect lockup release and duration"      *)
(* (lockup_types.rs:127): no more is unvested than is locked anyhow.       *)
ASSUME ContractsEvolve ==
    \A c \in Chains, l \in Lockups, h \in Heights :
        h > 0 /\ Alive(c, l, h - 1) /\ Alive(c, l, h) =>
            Evolves(c.state[l][h - 1], c.state[l][h], c.time[h],
                    c.version[l] \in BuggyVersions)

(* The tokens of the contracts that exist are different tokens, and none   *)
(* of them are the foundation's.                                           *)
Held(c, l, h)     == c.state[l][h].amount - c.state[l][h].withdrawn
AllHeld(c, h)     ==
    Sets!MapThenSumSet(LAMBDA l : Held(c, l, h), {l \in Lockups : Alive(c, l, h)})

ASSUME LockupsAreBacked ==
    \A c \in Chains, h \in Heights : AllHeld(c, h) + FoundationLocked <= TotalSupply

VARIABLES
    chain,    \* the chain of this behaviour
    final,    \* the node's final height
    stored,   \* the highest height in the table blocks (one below indexedFrom: none)
    handled,  \* the height up to which the table accounts is complete
    pc,       \* what the loop does next
    day,      \* day_to_compute
    block,    \* the block the value is computed for
    supply,   \* the value computed for it
    table,    \* the table aggregated__circulating_supply
    errors, restarts

loop  == <<pc, day, block, supply>>
index == <<stored, handled>>
vars  == <<chain, final, index, loop, table, errors, restarts>>

NoSupply == [height |-> 0, lockups |-> {}, locked |-> 0, circulating |-> 0]

StartOfDay(t) == t - (t % Day)
(* TenMinutes stands for the ten minutes and the fraction of a second that *)
(* the whole seconds of mod.rs:40-45 leave.                                *)
FirstDay == StartOfDay(TransfersEnabled) + Day + TenMinutes

Init ==
    /\ chain \in Chains
    /\ final = 0
    /\ stored = chain.indexedFrom - 1 /\ handled = chain.indexedFrom - 1
    /\ pc = "wait" /\ day = FirstDay /\ block = 0 /\ supply = NoSupply
    /\ table = {}
    /\ errors = 0 /\ restarts = 0

-----------------------------------------------------------------------------
(* The node and the handler beside the loop.                               *)
Finalize ==
    /\ final < LastHeight
    /\ \A h \in chain.indexedFrom..(final + 1) :
          handled < h => chain.time[final + 1] - chain.time[h] <= MaxLag
    /\ final' = final + 1
    /\ UNCHANGED <<chain, index, loop, table, errors, restarts>>

(* One handler: the row of a block is there before its accounts are.       *)
StoreBlock ==
    /\ stored < final /\ stored = handled
    /\ stored' = stored + 1
    /\ UNCHANGED <<chain, final, handled, loop, table, errors, restarts>>

StoreAccounts ==
    /\ handled < stored
    /\ handled' = stored
    /\ UNCHANGED <<chain, final, stored, loop, table, errors, restarts>>

-----------------------------------------------------------------------------
(* Bug: the ten minutes after midnight are not waited for.                 *)
LoadedAtMidnight == chain.time[final] > StartOfDay(day)

(* wait_for_loading_needed_blocks                                          *)
Loaded == chain.time[final] > day

SleepUntilLoaded ==
    /\ pc = "wait" /\ ~Loaded
    /\ UNCHANGED vars

WaitForBlocks ==
    /\ pc = "wait" /\ Loaded
    /\ pc' = "check"
    /\ UNCHANGED <<chain, final, index, day, block, supply, table, errors, restarts>>

(* get_latest_block_before_timestamp                                       *)
Before(t, top) == {h \in chain.indexedFrom..top : chain.time[h] <= t}
IsLatest(h, H) == h \in H /\ \A g \in H : g <= h

NextDay == day' = day + Day /\ pc' = "wait"
SameDay == day' = day /\ pc' = "wait"

(* Only this loop writes the table: reading the block and looking for its  *)
(* value may be one step.                                                  *)
IsComputed(h) == \E row \in table : chain.time[row.height] = chain.time[h]

(* Bug: a value that is there counts as a failure.                         *)
PrecomputedFails(h) == IsComputed(h) /\ SameDay

Precomputed(h) == IsComputed(h) /\ NextDay
Missing(h)     == ~IsComputed(h) /\ day' = day /\ pc' = "compute"

CheckDay ==
    /\ pc = "check"
    /\ \E h \in Heights :
          /\ IsLatest(h, Before(StartOfDay(day), stored))
          /\ block' = h
          /\ Precomputed(h) \/ Missing(h)
    /\ UNCHANGED <<chain, final, index, supply, table, errors, restarts>>

(* The view aggregated__lockups: it knows what was stored with the genesis *)
(* or handled since, and takes the height of a receipt's inclusion for     *)
(* that of its execution.                                                  *)
WasHandled(h)    == h \in chain.indexedFrom..handled
InView(l)        == l \in chain.fromGenesis \/ WasHandled(chain.created[l])
DeletedInView(l) == chain.deleted[l] # None /\ WasHandled(chain.deleted[l])

(* Bug: an account created in the block is not listed.                     *)
ListedBefore(l, h) ==
    /\ InView(l) /\ chain.creationIncluded[l] < h
    /\ DeletedInView(l) => chain.deletionIncluded[l] >= h

Listed(l, h) ==
    /\ InView(l) /\ chain.creationIncluded[l] <= h
    /\ DeletedInView(l) => chain.deletionIncluded[l] >= h

ListedLockups(h) == {l \in Lockups : Listed(l, h)}

(* What the node answers about the state after block h.                    *)
Exists(l, h) == Alive(chain, l, h)
IsKnown(version) == version \in BuggyVersions \cup FixedVersions
Readable(l, h)   == Exists(l, h) /\ IsKnown(chain.version[l])

Locked(l, h) ==
    LockedAmount(WithTransfers(chain.state[l][h]), chain.time[h],
                 chain.version[l] \in BuggyVersions)

LockedOf(lockups, h) == Sets!MapThenSumSet(LAMBDA l : Locked(l, h), lockups)

SupplyOf(lockups, h) ==
    [height |-> h, lockups |-> lockups, locked |-> LockedOf(lockups, h),
     circulating |-> TotalSupply - FoundationLocked - LockedOf(lockups, h)]

(* compute_circulating_supply_for_block.  The node's answers about a final *)
(* block do not change: with the list they are one step.                   *)
Compute ==
    /\ pc = "compute"
    /\ \A l \in ListedLockups(block) : Readable(l, block)
    /\ supply' = SupplyOf(ListedLockups(block), block)
    /\ pc' = "store"
    /\ UNCHANGED <<chain, final, index, day, block, table, errors, restarts>>

(* add_circulating_supply: on_conflict_do_nothing, as often as it takes.   *)
AddSupply ==
    /\ pc = "store"
    /\ table' = IF \E row \in table : row.height = supply.height
                THEN table ELSE table \cup {supply}
    /\ NextDay
    /\ UNCHANGED <<chain, final, index, block, supply, errors, restarts>>

(* Bug: the next day is tried after a failure.                             *)
RetryNext == NextDay

(* The same day is tried again after two hours.                            *)
RetryDay == SameDay

(* The query of the blocks found nothing.                                  *)
NoBlock ==
    /\ pc = "check"
    /\ Before(StartOfDay(day), stored) = {}
    /\ RetryDay
    /\ UNCHANGED <<chain, final, index, block, supply, table, errors, restarts>>

(* The node has no state of a listed account, or its version is unknown.   *)
Unreadable ==
    /\ pc = "compute"
    /\ \E l \in ListedLockups(block) : ~Readable(l, block)
    /\ RetryDay
    /\ UNCHANGED <<chain, final, index, block, supply, table, errors, restarts>>

QueryFails ==
    /\ pc \in {"check", "compute"}
    /\ errors < MaxErrors
    /\ errors' = errors + 1
    /\ RetryDay
    /\ UNCHANGED <<chain, final, index, block, supply, table, restarts>>

(* The loop begins with the first day again.                               *)
Restart ==
    /\ restarts < MaxRestarts
    /\ restarts' = restarts + 1
    /\ pc' = "wait" /\ day' = FirstDay /\ block' = 0 /\ supply' = NoSupply
    /\ UNCHANGED <<chain, final, index, table, errors>>

LoopStep == WaitForBlocks \/ CheckDay \/ Compute \/ AddSupply \/ NoBlock \/ Unreadable

Next ==
    \/ Finalize \/ StoreBlock \/ StoreAccounts
    \/ SleepUntilLoaded \/ LoopStep \/ QueryFails \/ Restart

Spec == Init /\ [][Next]_vars

Fairness ==
    /\ WF_vars(Finalize) /\ WF_vars(StoreBlock) /\ WF_vars(StoreAccounts)
    /\ WF_vars(LoopStep)

FairSpec == Spec /\ Fairness
-----------------------------------------------------------------------------
Rows == [height : Heights, lockups : SUBSET Lockups, locked : Int, circulating : Int]

TypeOK ==
    /\ chain \in Chains
    /\ final \in Heights
    /\ stored \in -1..LastHeight /\ handled \in -1..LastHeight
    /\ pc \in {"wait", "check", "compute", "store"}
    /\ day \in Nat
    /\ block \in Heights
    /\ supply \in Rows
    /\ table \subseteq Rows
    /\ errors \in 0..MaxErrors /\ restarts \in 0..MaxRestarts

(* The midnights after which a value is computed, and the last block of    *)
(* the day before: of the whole chain, not of what is known so far.        *)
Midnights == {t \in Times : t % Day = 0 /\ FirstDay - TenMinutes <= t}
IsLastBlock(h, t) == IsLatest(h, Before(t, LastHeight))

(* Every value is the one of the last block of a day (mod.rs:34), however  *)
(* the index lags, as long as its lag is within the ten minutes.           *)
LastBlockOfDay ==
    \A row \in table : \E h \in Heights :
        /\ row.height = h
        /\ \E t \in Midnights : IsLastBlock(h, t)

(* Created and deleted without delay.                                      *)
Prompt(l) ==
    /\ chain.creationIncluded[l] = chain.created[l]
    /\ chain.deleted[l] # None => chain.deletionIncluded[l] = chain.deleted[l]

(* The index saw where the account comes from.                             *)
Indexed(l) == l \in chain.fromGenesis \/ chain.created[l] >= chain.indexedFrom

(* A value counts all lockup accounts that exist after its block and no    *)
(* other, also the ones that this very block created, as far as they were  *)
(* created and deleted without delay and the index saw where they come     *)
(* from.                                                                   *)
NoLockupMissed ==
    \A row \in table : \A l \in Lockups :
        Prompt(l) /\ Indexed(l) => (l \in row.lockups <=> Exists(l, row.height))

(* The loop never leaves a day behind without a value for its last block,  *)
(* whatever failed or was done before a restart.                           *)
EarlierDaysComputed ==
    \A t \in Midnights :
        t + TenMinutes < day => \E row \in table : IsLastBlock(row.height, t)

(* The unsigned subtraction of what is locked never wraps (mod.rs:185).    *)
SupplyFits ==
    \A row \in table : row.circulating \in 0..TotalSupply

(* The same lockups never lock more on a later day: neither the cliff, nor *)
(* the end of the lockup, nor a termination gives anything back.           *)
LockedNeverGrows ==
    \A r1, r2 \in table :
        r1.height < r2.height /\ r1.lockups = r2.lockups => r2.locked <= r1.locked

(* A day that can be computed, after days that can, is computed in the     *)
(* end: its last block is indexed, and of every lockup account that the    *)
(* view gives for it the node knows the state and the code the version.    *)
Computable(h) ==
    \A l \in Lockups :
        /\ Indexed(l) /\ chain.creationIncluded[l] <= h
        /\ chain.deleted[l] # None /\ chain.deleted[l] >= chain.indexedFrom =>
              chain.deletionIncluded[l] >= h
        => Readable(l, h)

ComputableUpTo(t) ==
    /\ t + TenMinutes < chain.time[LastHeight]
    /\ \A u \in Midnights :
          u <= t => \E h \in Heights : IsLastBlock(h, u) /\ Computable(h)

EveryDayComputed ==
    \A t \in Midnights :
        ComputableUpTo(t) ~> \E row \in table : IsLastBlock(row.height, t)
=============================================================================
