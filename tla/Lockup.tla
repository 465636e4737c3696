------------------------------- MODULE Lockup --------------------------------
(***************************************************************************)
(* What is locked in a lockup contract at a time, computed from the state  *)
(* of the contract (lockup.rs, lockup_types.rs under                       *)
(* src/src/aggregated/circulating_supply/).  Times are u64 nanoseconds     *)
(* that saturate; the products of amounts and times are U256 and exact.    *)
(***************************************************************************)
EXTENDS Integers

CONSTANTS
    MaxTime,           \* u64::MAX
    TransfersEnabled,  \* TRANSFERS_ENABLED
    None

ASSUME LockupConstants ==
    /\ MaxTime \in Nat
    /\ TransfersEnabled \in 0..MaxTime
    /\ None \notin Nat

Times == 0..MaxTime

PlusTime(a, b) == IF a + b > MaxTime THEN MaxTime ELSE a + b  \* saturating_add
Minus(a, b)    == IF a > b THEN a - b ELSE 0                  \* saturating_sub
Larger(a, b)   == IF a < b THEN b ELSE a                      \* std::cmp::max

-----------------------------------------------------------------------------
(* The state of a contract: LockupInformation and VestingInformation.      *)
(* What a kind of vesting does not use is 0; transfers is None before the  *)
(* vote on transfers was checked by the owner.                             *)
VestingKinds == {"None", "VestingHash", "VestingSchedule", "Terminating"}

ContractStates ==
    [amount : Nat, withdrawn : Nat, duration : Times, release : Times \cup {None},
     timestamp : Times \cup {None}, transfers : Times \cup {None},
     vesting : [kind : VestingKinds, start : Times, cliff : Times, end : Times,
                unvested : Nat]]

(* What the contract itself sees to: a schedule is in order, and tokens are *)
(* withdrawn only after the vesting was terminated.                        *)
WellFormed(c) ==
    /\ c \in ContractStates
    /\ c.withdrawn <= c.amount
    /\ c.vesting.kind = "VestingSchedule" =>
          /\ c.vesting.start <= c.vesting.cliff /\ c.vesting.cliff <= c.vesting.end
          /\ c.vesting.start < c.vesting.end
          /\ c.withdrawn = 0
    /\ c.vesting.kind = "Terminating" => c.vesting.unvested + c.withdrawn <= c.amount

(* get_lockup_contract_state does not rely on the owner's check.           *)
WithTransfers(c) == [c EXCEPT !.transfers = TransfersEnabled]

-----------------------------------------------------------------------------
(* Bug: the vesting is linear before the cliff, too.                       *)
UnvestedWithoutCliff(amount, vs, t) ==
    IF t >= vs.end THEN 0 ELSE (amount * (vs.end - t)) \div (vs.end - vs.start)

(* Bug: before the cliff nothing is left to vest.                          *)
UnvestedAfterCliff(amount, vs, t) ==
    IF t < vs.cliff \/ t >= vs.end THEN 0
    ELSE (amount * (vs.end - t)) \div (vs.end - vs.start)

ScheduleUnvested(amount, vs, t) ==
    CASE t < vs.cliff -> amount
      [] t >= vs.cliff /\ t >= vs.end -> 0
      [] OTHER -> (amount * (vs.end - t)) \div (vs.end - vs.start)

UnvestedAmount(c, t) ==
    CASE c.vesting.kind = "VestingSchedule" -> ScheduleUnvested(c.amount, c.vesting, t)
      [] c.vesting.kind = "Terminating" -> c.vesting.unvested
      [] OTHER -> 0

LockupTimestamp(c) ==
    Larger(PlusTime(c.transfers, c.duration), IF c.timestamp = None THEN 0 ELSE c.timestamp)

(* The first version of the contract releases from the vote on, not from   *)
(* the end of the lockup.                                                  *)
StartLockup(c, hasBug) == IF hasBug THEN c.transfers ELSE LockupTimestamp(c)
EndTimestamp(c, start) == PlusTime(start, c.release)

UnreleasedAmount(c, t, start) ==
    IF c.release = None \/ t >= EndTimestamp(c, start) THEN 0
    ELSE (c.amount * (EndTimestamp(c, start) - t)) \div c.release

LockedFrom(c, t, start) ==
    IF c.transfers # None /\ LockupTimestamp(c) <= t
    THEN Larger(Minus(UnreleasedAmount(c, t, start), c.withdrawn), UnvestedAmount(c, t))
    ELSE c.amount - c.withdrawn

LockedAmount(c, t, hasBug) == LockedFrom(c, t, StartLockup(c, hasBug))

-----------------------------------------------------------------------------
(* What becomes of a contract in a block at the time t (the contract's own *)
(* code, and the docs of lockup_types.rs).  The owner's check of the vote  *)
(* on transfers makes no difference to what is read.                       *)
TerminatedIn(c, d, t, hasBug) ==
    /\ c.vesting.kind \in {"VestingSchedule", "VestingHash"}
    /\ d = [c EXCEPT !.vesting = d.vesting]
    /\ d.vesting.kind = "Terminating"
    /\ IF c.vesting.kind = "VestingSchedule"
       THEN d.vesting.unvested = UnvestedAmount(c, t)
       ELSE d.vesting.unvested <= LockedAmount(c, t, hasBug)

(* In parts or at once.                                                    *)
WithdrawnFrom(c, d) ==
    /\ c.vesting.kind = "Terminating"
    /\ \E part \in 1..c.vesting.unvested :
          /\ d = [c EXCEPT !.vesting = d.vesting, !.withdrawn = @ + part]
          /\ \/ d.vesting = [c.vesting EXCEPT !.unvested = @ - part]
             \/ part = c.vesting.unvested /\ d.vesting.kind = "None"

Evolves(before, after, t, hasBug) ==
    LET c == WithTransfers(before)
        d == WithTransfers(after)
    IN  d = c \/ TerminatedIn(c, d, t, hasBug) \/ WithdrawnFrom(c, d)
=============================================================================
