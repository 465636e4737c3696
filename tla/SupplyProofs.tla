---------------------------- MODULE SupplyProofs -----------------------------
(***************************************************************************)
(* What holds of the loop for every chain, any days, and any number of     *)
(* failing queries and restarts, as long as the index lags no further      *)
(* behind the node than the ten minutes the loop waits; and what holds of  *)
(* the values it stores however far the index lags.  First the amount that *)
(* is locked in one contract, for all amounts, times and schedules.        *)
(***************************************************************************)
EXTENDS CirculatingSupply, FiniteSetTheorems, TLAPS

-----------------------------------------------------------------------------
(* Division of natural numbers.                                            *)
LEMMA DivisionFacts ==
    ASSUME NEW p \in Nat, NEW r \in Nat \ {0}
    PROVE  /\ p \div r \in Nat
           /\ r * (p \div r) <= p
           /\ p < r * (p \div r) + r
<1>1. p \div r \in Nat
  BY SMT
<1>2. r * (p \div r) <= p
  BY SMT
<1>3. p < r * (p \div r) + r
  BY SMT
<1> QED
  BY <1>1, <1>2, <1>3

(* A product grows with a factor.                                          *)
LEMMA FactorOrder ==
    ASSUME NEW a \in Nat, NEW x \in Nat, NEW y \in Nat, x <= y
    PROVE  /\ a * x \in Nat /\ a * y \in Nat
           /\ a * x <= a * y
  BY SMT

(* A quotient grows with its dividend.                                     *)
LEMMA DivisionOrder ==
    ASSUME NEW p \in Nat, NEW q \in Nat, NEW r \in Nat \ {0}, p <= q
    PROVE  p \div r <= q \div r
<1> DEFINE x == p \div r
           y == q \div r
<1>1. x \in Nat /\ y \in Nat /\ r * x <= p /\ q < r * y + r
  BY DivisionFacts
<1> HIDE DEF x, y
<1>2. SUFFICES ASSUME y + 1 <= x PROVE FALSE
  BY <1>1 DEF x, y
<1>3. r * (y + 1) <= r * x
  BY <1>1, <1>2, FactorOrder
<1>4. r * (y + 1) = r * y + r
  BY <1>1, SMT
<1>5. r * x \in Nat /\ r * y \in Nat
  BY <1>1, SMT
<1> QED
  BY <1>1, <1>3, <1>4, <1>5

(* A part of an amount that is linear in the time left of a total is at    *)
(* most the amount (lockup.rs:144 and 200).                                *)
LEMMA LinearPart ==
    ASSUME NEW a \in Nat, NEW left \in Nat, NEW total \in Nat \ {0}, left <= total
    PROVE  /\ (a * left) \div total \in Nat
           /\ (a * left) \div total <= a
<1> DEFINE x == (a * left) \div total
<1>1. a * left \in Nat /\ a * total \in Nat /\ a * left <= a * total
  BY FactorOrder
<1>2. x \in Nat /\ total * x <= a * left
  BY <1>1, DivisionFacts
<1> HIDE DEF x
<1>3. SUFFICES ASSUME a + 1 <= x PROVE FALSE
  BY <1>2 DEF x
<1>4. total * (a + 1) <= total * x
  BY <1>2, <1>3, FactorOrder
<1>5. total * (a + 1) = a * total + total
  BY SMT
<1>6. total * x \in Nat
  BY <1>2, SMT
<1> QED
  BY <1>1, <1>2, <1>4, <1>5, <1>6

(* It shrinks with the time that is left.                                  *)
LEMMA LinearPartShrinks ==
    ASSUME NEW a \in Nat, NEW less \in Nat, NEW more \in Nat, NEW total \in Nat \ {0},
           less <= more
    PROVE  (a * less) \div total <= (a * more) \div total
<1>1. a * less \in Nat /\ a * more \in Nat /\ a * less <= a * more
  BY FactorOrder
<1> QED
  BY <1>1, DivisionOrder
-----------------------------------------------------------------------------
(* A contract as the computation reads it: transfers are enabled.          *)
Readied(c) == WellFormed(c) /\ c.transfers # None

(* Whatever the owner has checked, the computation reads a time.           *)
LEMMA ReadiedByReading ==
    ASSUME NEW c, WellFormed(c)
    PROVE  /\ Readied(WithTransfers(c))
           /\ WithTransfers(c).amount = c.amount
           /\ WithTransfers(c).withdrawn = c.withdrawn
<1>1. TransfersEnabled \in Times /\ TransfersEnabled # None
  BY LockupConstants DEF Times
<1>2. c \in ContractStates
  BY DEF WellFormed
<1> DEFINE d == WithTransfers(c)
<1>3. /\ d \in ContractStates /\ d.transfers = TransfersEnabled
      /\ d.amount = c.amount /\ d.withdrawn = c.withdrawn /\ d.vesting = c.vesting
  BY <1>1, <1>2 DEF ContractStates, WithTransfers
<1> HIDE DEF d
<1>4. Readied(d)
  BY <1>1, <1>3 DEF Readied, WellFormed
<1> QED
  BY <1>3, <1>4 DEF d

(* The types of its fields, one by one.                                    *)
LEMMA FieldTypes ==
    ASSUME NEW c, Readied(c)
    PROVE  /\ c.amount \in Nat /\ c.withdrawn \in Nat /\ c.withdrawn <= c.amount
           /\ c.duration \in Times
           /\ c.release # None => c.release \in Times
           /\ c.timestamp # None => c.timestamp \in Times
           /\ c.transfers \in Times
           /\ c.vesting.start \in Times /\ c.vesting.cliff \in Times
           /\ c.vesting.end \in Times /\ c.vesting.unvested \in Nat
  BY DEF Readied, WellFormed, ContractStates

(* Times are bounded natural numbers.                                      *)
LEMMA TimesAreNaturals == Times \subseteq Nat /\ \A t \in Times : t <= MaxTime
  BY LockupConstants DEF Times

(* The times a release may start at: the end of the lockup or before.      *)
Starts(c) == {start \in Times : start <= LockupTimestamp(c)}

(* The end of the lockup and of the release are times.                     *)
LEMMA TimestampFacts ==
    ASSUME NEW c, Readied(c)
    PROVE  /\ LockupTimestamp(c) \in Times
           /\ c.transfers <= LockupTimestamp(c)
           /\ \A start \in Starts(c) :
                 c.release # None =>
                     /\ EndTimestamp(c, start) \in Times
                     /\ EndTimestamp(c, start) <= start + c.release
<1>1. /\ c.duration \in Times /\ c.transfers \in Times
      /\ c.timestamp # None => c.timestamp \in Times
      /\ c.release # None => c.release \in Times
  BY FieldTypes
<1>2. LockupTimestamp(c) \in Times /\ c.transfers <= LockupTimestamp(c)
  BY <1>1, LockupConstants DEF LockupTimestamp, PlusTime, Larger, Times
<1>3. ASSUME NEW start \in Starts(c), c.release # None
      PROVE  /\ EndTimestamp(c, start) \in Times
             /\ EndTimestamp(c, start) <= start + c.release
  BY <1>1, <1>3, LockupConstants DEF EndTimestamp, PlusTime, Times, Starts
<1> QED
  BY <1>2, <1>3

(* While something is left to release, the time left is part of the        *)
(* duration of the release.                                                *)
Releasing(c, t, start) == c.release # None /\ t < EndTimestamp(c, start)

LEMMA TimeLeft ==
    ASSUME NEW c, Readied(c), NEW start \in Starts(c), NEW t \in Times,
           LockupTimestamp(c) <= t, Releasing(c, t, start)
    PROVE  /\ EndTimestamp(c, start) - t \in Nat
           /\ c.release \in Nat \ {0}
           /\ EndTimestamp(c, start) - t <= c.release
<1>1. c.release # None /\ t < EndTimestamp(c, start)
  BY DEF Releasing
<1>2. start \in Times /\ start <= LockupTimestamp(c)
  BY DEF Starts
<1>3. LockupTimestamp(c) \in Times /\ EndTimestamp(c, start) \in Times
      /\ EndTimestamp(c, start) <= start + c.release
  BY <1>1, TimestampFacts
<1>4. c.release \in Times
  BY <1>1, FieldTypes
<1>5. /\ start \in Nat /\ LockupTimestamp(c) \in Nat /\ EndTimestamp(c, start) \in Nat
      /\ c.release \in Nat /\ t \in Nat
  BY <1>2, <1>3, <1>4, TimesAreNaturals
<1> QED
  BY <1>1, <1>2, <1>3, <1>5

(* What is not released yet is at most the amount of the contract          *)
(* (lockup.rs:144: "The unreleased amount can't be larger").               *)
THEOREM UnreleasedFits ==
    ASSUME NEW c, Readied(c), NEW start \in Starts(c), NEW t \in Times,
           LockupTimestamp(c) <= t
    PROVE  UnreleasedAmount(c, t, start) \in Nat /\ UnreleasedAmount(c, t, start) <= c.amount
<1>1. c.amount \in Nat
  BY FieldTypes
<1>2. CASE Releasing(c, t, start)
  <2>1. /\ EndTimestamp(c, start) - t \in Nat /\ c.release \in Nat \ {0}
        /\ EndTimestamp(c, start) - t <= c.release
    BY <1>2, TimeLeft
  <2>2. EndTimestamp(c, start) \in Nat /\ t \in Nat
    BY <1>2, TimestampFacts, TimesAreNaturals DEF Releasing
  <2>3. ~(c.release = None \/ t >= EndTimestamp(c, start))
    BY <1>2, <2>2 DEF Releasing
  <2>4. UnreleasedAmount(c, t, start)
            = (c.amount * (EndTimestamp(c, start) - t)) \div c.release
    BY <2>3, Zenon DEF UnreleasedAmount
  <2> QED
    BY <1>1, <2>1, <2>4, LinearPart
<1>3. CASE ~Releasing(c, t, start)
  <2>1. c.release # None => EndTimestamp(c, start) \in Nat /\ t \in Nat
    BY TimestampFacts, TimesAreNaturals
  <2>2. c.release = None \/ t >= EndTimestamp(c, start)
    BY <1>3, <2>1 DEF Releasing
  <2>3. UnreleasedAmount(c, t, start) = 0
    BY <2>2 DEF UnreleasedAmount
  <2> QED
    BY <1>1, <2>3
<1> QED
  BY <1>2, <1>3

(* What is unvested and what was withdrawn are a part of the amount.       *)
LEMMA UnvestedFits ==
    ASSUME NEW c, Readied(c), NEW t \in Times
    PROVE  UnvestedAmount(c, t) \in Nat /\ UnvestedAmount(c, t) + c.withdrawn <= c.amount
<1>1. /\ c.amount \in Nat /\ c.withdrawn \in Nat /\ c.withdrawn <= c.amount
      /\ c.vesting.start \in Nat /\ c.vesting.cliff \in Nat /\ c.vesting.end \in Nat
      /\ c.vesting.unvested \in Nat /\ t \in Nat
  BY FieldTypes, TimesAreNaturals
<1>2. CASE c.vesting.kind = "VestingSchedule"
  <2>1. /\ c.vesting.start <= c.vesting.cliff /\ c.vesting.start < c.vesting.end
        /\ c.withdrawn = 0
    BY <1>2 DEF Readied, WellFormed
  <2>2. UnvestedAmount(c, t) = ScheduleUnvested(c.amount, c.vesting, t)
    BY <1>2 DEF UnvestedAmount
  <2>3. CASE c.vesting.cliff <= t /\ t < c.vesting.end
    <3>1. ScheduleUnvested(c.amount, c.vesting, t) =
            (c.amount * (c.vesting.end - t)) \div (c.vesting.end - c.vesting.start)
      BY <1>1, <2>3 DEF ScheduleUnvested
    <3>2. /\ c.vesting.end - t \in Nat /\ c.vesting.end - c.vesting.start \in Nat \ {0}
          /\ c.vesting.end - t <= c.vesting.end - c.vesting.start
      BY <1>1, <2>1, <2>3
    <3>3. /\ ScheduleUnvested(c.amount, c.vesting, t) \in Nat
          /\ ScheduleUnvested(c.amount, c.vesting, t) <= c.amount
      BY <1>1, <3>1, <3>2, LinearPart
    <3> QED
      BY <1>1, <2>1, <2>2, <3>3
  <2>4. CASE ~(c.vesting.cliff <= t /\ t < c.vesting.end)
    <3>1. ScheduleUnvested(c.amount, c.vesting, t) \in {0, c.amount}
      BY <1>1, <2>4 DEF ScheduleUnvested
    <3> QED
      BY <1>1, <2>1, <2>2, <3>1
  <2> QED
    BY <2>3, <2>4
<1>3. CASE c.vesting.kind = "Terminating"
  <2>1. UnvestedAmount(c, t) = c.vesting.unvested
    BY <1>3 DEF UnvestedAmount
  <2>2. c.vesting.unvested + c.withdrawn <= c.amount
    BY <1>3 DEF Readied, WellFormed
  <2> QED
    BY <1>1, <2>1, <2>2
<1>4. CASE c.vesting.kind \notin {"VestingSchedule", "Terminating"}
  <2>1. UnvestedAmount(c, t) = 0
    BY <1>4 DEF UnvestedAmount
  <2> QED
    BY <1>1, <2>1
<1> QED
  BY <1>2, <1>3, <1>4

(* What is locked and what was withdrawn are a part of the amount.         *)
LEMMA LockedFromFits ==
    ASSUME NEW c, Readied(c), NEW start \in Starts(c), NEW t \in Times
    PROVE  /\ LockedFrom(c, t, start) \in Nat
           /\ LockedFrom(c, t, start) + c.withdrawn <= c.amount
<1>1. c.amount \in Nat /\ c.withdrawn \in Nat /\ c.withdrawn <= c.amount
  BY FieldTypes
<1>2. CASE LockupTimestamp(c) <= t
  <2> DEFINE u == UnreleasedAmount(c, t, start)
             v == UnvestedAmount(c, t)
  <2>1. u \in Nat /\ u <= c.amount
    BY <1>2, UnreleasedFits
  <2>2. v \in Nat /\ v + c.withdrawn <= c.amount
    BY UnvestedFits
  <2>3. LockedFrom(c, t, start) = Larger(Minus(u, c.withdrawn), v)
    BY <1>2 DEF LockedFrom, Readied
  <2> HIDE DEF u, v
  <2> QED
    BY <1>1, <2>1, <2>2, <2>3 DEF Larger, Minus
<1>3. CASE ~(LockupTimestamp(c) <= t)
  <2>1. LockedFrom(c, t, start) = c.amount - c.withdrawn
    BY <1>3 DEF LockedFrom
  <2> QED
    BY <1>1, <2>1
<1> QED
  BY <1>2, <1>3
-----------------------------------------------------------------------------
(* As time goes by, less is left to release ...                            *)
LEMMA UnreleasedShrinks ==
    ASSUME NEW c, Readied(c), NEW start \in Starts(c), NEW t \in Times, NEW u \in Times,
           t <= u, LockupTimestamp(c) <= t
    PROVE  UnreleasedAmount(c, u, start) <= UnreleasedAmount(c, t, start)
<1>1. /\ c.amount \in Nat /\ t \in Nat /\ u \in Nat
      /\ c.release # None => EndTimestamp(c, start) \in Nat
  BY FieldTypes, TimestampFacts, TimesAreNaturals
<1>a. LockupTimestamp(c) <= u
  <2>1. LockupTimestamp(c) \in Nat
    BY TimestampFacts, TimesAreNaturals
  <2> QED
    BY <1>1, <2>1
<1>2. CASE Releasing(c, u, start)
  <2>1. EndTimestamp(c, start) \in Nat /\ c.release # None
    BY <1>1, <1>2 DEF Releasing
  <2>2. Releasing(c, t, start)
    BY <1>1, <1>2, <2>1 DEF Releasing
  <2>3. /\ EndTimestamp(c, start) - t \in Nat /\ EndTimestamp(c, start) - u \in Nat
        /\ c.release \in Nat \ {0}
    BY <1>2, <1>a, <2>2, TimeLeft
  <2>4. EndTimestamp(c, start) - u <= EndTimestamp(c, start) - t
    BY <1>1, <2>1
  <2>5. ~(t >= EndTimestamp(c, start)) /\ ~(u >= EndTimestamp(c, start))
    BY <1>1, <1>2, <2>1, <2>2 DEF Releasing
  <2>6. /\ UnreleasedAmount(c, t, start)
             = (c.amount * (EndTimestamp(c, start) - t)) \div c.release
        /\ UnreleasedAmount(c, u, start)
             = (c.amount * (EndTimestamp(c, start) - u)) \div c.release
    BY <2>1, <2>5, Zenon DEF UnreleasedAmount
  <2> QED
    BY <1>1, <2>3, <2>4, <2>6, LinearPartShrinks
<1>3. CASE ~Releasing(c, u, start)
  <2>1. c.release # None => EndTimestamp(c, start) \in Nat
    BY TimestampFacts, TimesAreNaturals
  <2>2. c.release = None \/ u >= EndTimestamp(c, start)
    BY <1>1, <1>3, <2>1 DEF Releasing
  <2>3. UnreleasedAmount(c, u, start) = 0
    BY <2>2 DEF UnreleasedAmount
  <2> QED
    BY <2>3, UnreleasedFits
<1> QED
  BY <1>2, <1>3

(* ... and less is unvested, also when the cliff is reached.               *)
LEMMA UnvestedShrinks ==
    ASSUME NEW c, Readied(c), NEW t \in Times, NEW u \in Times, t <= u
    PROVE  UnvestedAmount(c, u) <= UnvestedAmount(c, t)
<1>1. /\ c.amount \in Nat /\ c.withdrawn \in Nat
      /\ c.vesting.start \in Nat /\ c.vesting.cliff \in Nat /\ c.vesting.end \in Nat
      /\ t \in Nat /\ u \in Nat
  BY FieldTypes, TimesAreNaturals
<1>2. /\ UnvestedAmount(c, t) \in Nat /\ UnvestedAmount(c, u) \in Nat
      /\ UnvestedAmount(c, u) <= c.amount
  BY <1>1, UnvestedFits
<1>3. CASE c.vesting.kind = "VestingSchedule"
  <2> DEFINE S(x) == ScheduleUnvested(c.amount, c.vesting, x)
  <2>1. c.vesting.start < c.vesting.end /\ c.vesting.start <= c.vesting.cliff
    BY <1>3 DEF Readied, WellFormed
  <2>2. UnvestedAmount(c, t) = S(t) /\ UnvestedAmount(c, u) = S(u)
    BY <1>3 DEF UnvestedAmount
  <2>3. CASE t < c.vesting.cliff
    <3>1. S(t) = c.amount
      BY <1>1, <2>3 DEF ScheduleUnvested
    <3> QED
      BY <1>2, <2>2, <3>1
  <2>4. CASE c.vesting.cliff <= t /\ c.vesting.end <= u
    <3>1. S(u) = 0
      BY <1>1, <2>4 DEF ScheduleUnvested
    <3> QED
      BY <1>2, <2>2, <3>1
  <2>5. CASE c.vesting.cliff <= t /\ u < c.vesting.end
    <3>1. /\ S(t) = (c.amount * (c.vesting.end - t)) \div (c.vesting.end - c.vesting.start)
          /\ S(u) = (c.amount * (c.vesting.end - u)) \div (c.vesting.end - c.vesting.start)
      BY <1>1, <2>5 DEF ScheduleUnvested
    <3>2. /\ c.vesting.end - t \in Nat /\ c.vesting.end - u \in Nat
          /\ c.vesting.end - u <= c.vesting.end - t
          /\ c.vesting.end - c.vesting.start \in Nat \ {0}
      BY <1>1, <2>1, <2>5
    <3>3. S(u) <= S(t)
      BY <1>1, <3>1, <3>2, LinearPartShrinks
    <3> QED
      BY <2>2, <3>3
  <2> QED
    BY <1>1, <2>3, <2>4, <2>5
<1>4. CASE c.vesting.kind # "VestingSchedule"
  <2>1. UnvestedAmount(c, t) = UnvestedAmount(c, u)
    BY <1>4 DEF UnvestedAmount
  <2> QED
    BY <1>2, <2>1
<1> QED
  BY <1>3, <1>4

(* A contract that is left alone never locks more as time goes by.         *)
LEMMA LockedFromShrinks ==
    ASSUME NEW c, Readied(c), NEW start \in Starts(c), NEW t \in Times, NEW u \in Times,
           t <= u
    PROVE  LockedFrom(c, u, start) <= LockedFrom(c, t, start)
<1>1. /\ c.amount \in Nat /\ c.withdrawn \in Nat /\ c.withdrawn <= c.amount
      /\ t \in Nat /\ u \in Nat /\ LockupTimestamp(c) \in Nat
  BY FieldTypes, TimestampFacts, TimesAreNaturals
<1>2. CASE LockupTimestamp(c) <= t
  <2> DEFINE rt == UnreleasedAmount(c, t, start)
             ru == UnreleasedAmount(c, u, start)
             vt == UnvestedAmount(c, t)
             vu == UnvestedAmount(c, u)
  <2>1. LockupTimestamp(c) <= u
    BY <1>1, <1>2
  <2>2. rt \in Nat /\ ru \in Nat /\ ru <= rt
    BY <1>2, <2>1, UnreleasedFits, UnreleasedShrinks
  <2>3. vt \in Nat /\ vu \in Nat /\ vu <= vt
    BY UnvestedFits, UnvestedShrinks
  <2>4. /\ LockedFrom(c, t, start) = Larger(Minus(rt, c.withdrawn), vt)
        /\ LockedFrom(c, u, start) = Larger(Minus(ru, c.withdrawn), vu)
    BY <1>2, <2>1 DEF LockedFrom, Readied
  <2> HIDE DEF rt, ru, vt, vu
  <2> QED
    BY <1>1, <2>2, <2>3, <2>4 DEF Larger, Minus
<1>3. CASE ~(LockupTimestamp(c) <= t)
  <2>1. LockedFrom(c, t, start) = c.amount - c.withdrawn
    BY <1>3 DEF LockedFrom
  <2>2. LockedFrom(c, u, start) \in Nat /\ LockedFrom(c, u, start) + c.withdrawn <= c.amount
    BY LockedFromFits
  <2> QED
    BY <1>1, <2>1, <2>2
<1> QED
  BY <1>2, <1>3

(* The later the release starts, the more is locked.                       *)
LEMMA LaterStartLocksMore ==
    ASSUME NEW c, Readied(c), NEW t \in Times,
           NEW early \in Starts(c), NEW late \in Starts(c), early <= late
    PROVE  LockedFrom(c, t, early) <= LockedFrom(c, t, late)
<1>1. /\ c.amount \in Nat /\ c.withdrawn \in Nat /\ c.withdrawn <= c.amount
      /\ t \in Nat /\ early \in Nat /\ late \in Nat
      /\ c.release # None => c.release \in Nat
  BY FieldTypes, TimesAreNaturals DEF Starts
<1>2. CASE LockupTimestamp(c) <= t
  <2> DEFINE re == UnreleasedAmount(c, t, early)
             rl == UnreleasedAmount(c, t, late)
             v  == UnvestedAmount(c, t)
  <2>1. re \in Nat /\ rl \in Nat /\ v \in Nat
    BY <1>2, UnreleasedFits, UnvestedFits
  <2>2. re <= rl
    <3>1. c.release # None =>
              /\ EndTimestamp(c, early) \in Nat /\ EndTimestamp(c, late) \in Nat
              /\ EndTimestamp(c, early) <= EndTimestamp(c, late)
      <4>1. c.release # None =>
                EndTimestamp(c, early) \in Nat /\ EndTimestamp(c, late) \in Nat
        BY TimestampFacts, TimesAreNaturals
      <4> QED
        BY <1>1, <4>1, LockupConstants DEF EndTimestamp, PlusTime
    <3>2. CASE Releasing(c, t, early)
      <4>1. Releasing(c, t, late)
        BY <1>1, <3>1, <3>2 DEF Releasing
      <4>2. /\ EndTimestamp(c, early) - t \in Nat /\ EndTimestamp(c, late) - t \in Nat
            /\ EndTimestamp(c, early) - t <= EndTimestamp(c, late) - t
            /\ c.release \in Nat \ {0}
        BY <1>1, <1>2, <3>1, <3>2, <4>1, TimeLeft DEF Releasing
      <4>3. /\ re = (c.amount * (EndTimestamp(c, early) - t)) \div c.release
            /\ rl = (c.amount * (EndTimestamp(c, late) - t)) \div c.release
        BY <1>1, <3>1, <3>2, <4>1 DEF UnreleasedAmount, Releasing
      <4> QED
        BY <1>1, <4>2, <4>3, LinearPartShrinks
    <3>3. CASE ~Releasing(c, t, early)
      <4>1. c.release = None \/ t >= EndTimestamp(c, early)
        BY <1>1, <3>1, <3>3 DEF Releasing
      <4>2. re = 0
        BY <4>1 DEF UnreleasedAmount
      <4> QED
        BY <2>1, <4>2
    <3> QED
      BY <3>2, <3>3
  <2>3. /\ LockedFrom(c, t, early) = Larger(Minus(re, c.withdrawn), v)
        /\ LockedFrom(c, t, late) = Larger(Minus(rl, c.withdrawn), v)
    BY <1>2 DEF LockedFrom, Readied
  <2> HIDE DEF re, rl, v
  <2> QED
    BY <1>1, <2>1, <2>2, <2>3 DEF Larger, Minus
<1>3. CASE ~(LockupTimestamp(c) <= t)
  <2>1. LockedFrom(c, t, early) = LockedFrom(c, t, late)
    BY <1>3 DEF LockedFrom
  <2>2. LockedFrom(c, t, late) \in Nat
    BY LockedFromFits
  <2> QED
    BY <2>1, <2>2
<1> QED
  BY <1>2, <1>3
-----------------------------------------------------------------------------
(* Both versions of the contract start the release by the end of the lockup. *)
LEMMA StartsOfVersions ==
    ASSUME NEW c, Readied(c)
    PROVE  /\ c.transfers \in Starts(c) /\ LockupTimestamp(c) \in Starts(c)
           /\ \A hasBug \in BOOLEAN :
                 StartLockup(c, hasBug) = c.transfers
                     \/ StartLockup(c, hasBug) = LockupTimestamp(c)
<1>1. c.transfers \in Starts(c) /\ LockupTimestamp(c) \in Starts(c)
  <2>1. c.transfers \in Times /\ LockupTimestamp(c) \in Times
    BY FieldTypes, TimestampFacts
  <2>2. LockupTimestamp(c) \in Nat /\ c.transfers <= LockupTimestamp(c)
    BY <2>1, TimestampFacts, TimesAreNaturals
  <2> QED
    BY <2>1, <2>2 DEF Starts
<1>2. \A hasBug \in BOOLEAN :
          StartLockup(c, hasBug) = c.transfers \/ StartLockup(c, hasBug) = LockupTimestamp(c)
  BY Zenon DEF StartLockup
<1> QED
  BY <1>1, <1>2, Zenon

(* Whatever is locked and what the foundation has withdrawn are together   *)
(* at most the amount of the contract: the unsigned subtractions of        *)
(* lockup.rs:169 and mod.rs:185 never wrap.                                *)
THEOREM LockedFits ==
    ASSUME NEW c, Readied(c), NEW hasBug \in BOOLEAN, NEW t \in Times
    PROVE  /\ LockedAmount(c, t, hasBug) \in Nat
           /\ LockedAmount(c, t, hasBug) + c.withdrawn <= c.amount
<1>1. StartLockup(c, hasBug) \in Starts(c)
  BY StartsOfVersions, Zenon
<1>2. /\ LockedFrom(c, t, StartLockup(c, hasBug)) \in Nat
      /\ LockedFrom(c, t, StartLockup(c, hasBug)) + c.withdrawn <= c.amount
  BY <1>1, LockedFromFits, Zenon
<1> QED
  BY <1>2, Zenon DEF LockedAmount

(* A contract that is left alone never locks more as time goes by: not     *)
(* at the end of the lockup, not at the cliff or the end of the vesting.   *)
THEOREM LockedShrinks ==
    ASSUME NEW c, Readied(c), NEW hasBug \in BOOLEAN, NEW t \in Times, NEW u \in Times,
           t <= u
    PROVE  LockedAmount(c, u, hasBug) <= LockedAmount(c, t, hasBug)
<1>1. StartLockup(c, hasBug) \in Starts(c)
  BY StartsOfVersions, Zenon
<1> QED
  BY <1>1, LockedFromShrinks, Zenon DEF LockedAmount

(* The first version of the contract, whose release starts too early,      *)
(* never locks more than the corrected one.                                *)
THEOREM BugLocksLess ==
    ASSUME NEW c, Readied(c), NEW t \in Times
    PROVE  LockedAmount(c, t, TRUE) <= LockedAmount(c, t, FALSE)
<1>1. StartLockup(c, TRUE) = c.transfers /\ StartLockup(c, FALSE) = LockupTimestamp(c)
  BY Zenon DEF StartLockup
<1>2. c.transfers <= LockupTimestamp(c)
  BY TimestampFacts
<1>3. LockedFrom(c, t, c.transfers) <= LockedFrom(c, t, LockupTimestamp(c))
  BY <1>2, StartsOfVersions, LaterStartLocksMore, Zenon
<1> QED
  BY <1>1, <1>3, Zenon DEF LockedAmount
-----------------------------------------------------------------------------
(* A termination keeps what is locked, or lowers it ...                    *)
LEMMA TerminationLocksNoMore ==
    ASSUME NEW c, Readied(c), NEW d, Readied(d), NEW hasBug \in BOOLEAN, NEW t \in Times,
           TerminatedIn(c, d, t, hasBug)
    PROVE  LockedAmount(d, t, hasBug) <= LockedAmount(c, t, hasBug)
<1> DEFINE start == StartLockup(c, hasBug)
           r == UnreleasedAmount(c, t, start)
           u == d.vesting.unvested
<1>1. /\ d.amount = c.amount /\ d.withdrawn = c.withdrawn /\ d.duration = c.duration
      /\ d.release = c.release /\ d.timestamp = c.timestamp /\ d.transfers = c.transfers
  <2>1. d = [c EXCEPT !.vesting = d.vesting]
    BY DEF TerminatedIn
  <2>2. c \in ContractStates
    BY DEF Readied, WellFormed
  <2> QED
    BY <2>1, <2>2 DEF ContractStates
<1>2. LockupTimestamp(d) = LockupTimestamp(c) /\ StartLockup(d, hasBug) = start
  BY <1>1 DEF LockupTimestamp, StartLockup
<1>3. start \in Starts(c)
  BY StartsOfVersions, Zenon
<1>4. c.amount \in Nat /\ c.withdrawn \in Nat /\ u \in Nat
  BY FieldTypes
<1>5. CASE LockupTimestamp(c) <= t
  <2>1. UnreleasedAmount(d, t, start) = r /\ r \in Nat
    BY <1>1, <1>3, <1>5, UnreleasedFits DEF UnreleasedAmount, EndTimestamp
  <2>2. UnvestedAmount(d, t) = u
    BY DEF UnvestedAmount, TerminatedIn
  <2>3. /\ LockedAmount(c, t, hasBug) = Larger(Minus(r, c.withdrawn), UnvestedAmount(c, t))
        /\ LockedAmount(d, t, hasBug) = Larger(Minus(r, c.withdrawn), u)
    BY <1>1, <1>2, <1>5, <2>1, <2>2 DEF LockedAmount, LockedFrom, Readied
  <2>4. c.vesting.kind = "VestingSchedule" => u = UnvestedAmount(c, t)
    BY DEF TerminatedIn
  <2>5. c.vesting.kind # "VestingSchedule" => u <= LockedAmount(c, t, hasBug)
    BY DEF TerminatedIn
  <2>6. UnvestedAmount(c, t) \in Nat /\ Minus(r, c.withdrawn) \in Nat
    BY <1>4, <2>1, UnvestedFits DEF Minus
  <2> HIDE DEF r, u
  <2> QED
    BY <1>4, <2>3, <2>4, <2>5, <2>6 DEF Larger
<1>6. CASE ~(LockupTimestamp(c) <= t)
  <2>1. LockedAmount(d, t, hasBug) = LockedAmount(c, t, hasBug)
    BY <1>1, <1>2, <1>6 DEF LockedAmount, LockedFrom
  <2>2. LockedAmount(c, t, hasBug) \in Nat
    BY LockedFits
  <2> QED
    BY <2>1, <2>2
<1> QED
  BY <1>5, <1>6

(* ... and so does a withdrawal of what was unvested, or of a part of it.  *)
LEMMA WithdrawalLocksNoMore ==
    ASSUME NEW c, Readied(c), NEW d, Readied(d), NEW hasBug \in BOOLEAN, NEW t \in Times,
           WithdrawnFrom(c, d)
    PROVE  LockedAmount(d, t, hasBug) <= LockedAmount(c, t, hasBug)
<1> DEFINE start == StartLockup(c, hasBug)
           r == UnreleasedAmount(c, t, start)
           u == c.vesting.unvested
           w == c.withdrawn
<1>0. PICK part \in 1..u :
          /\ d = [c EXCEPT !.vesting = d.vesting, !.withdrawn = @ + part]
          /\ \/ d.vesting = [c.vesting EXCEPT !.unvested = @ - part]
             \/ part = u /\ d.vesting.kind = "None"
  BY DEF WithdrawnFrom
<1>1. /\ d.amount = c.amount /\ d.withdrawn = w + part /\ d.duration = c.duration
      /\ d.release = c.release /\ d.timestamp = c.timestamp /\ d.transfers = c.transfers
  <2>1. c \in ContractStates
    BY DEF Readied, WellFormed
  <2> QED
    BY <1>0, <2>1 DEF ContractStates
<1>2. LockupTimestamp(d) = LockupTimestamp(c) /\ StartLockup(d, hasBug) = start
  BY <1>1 DEF LockupTimestamp, StartLockup
<1>3. start \in Starts(c)
  BY StartsOfVersions, Zenon
<1>4. c.amount \in Nat /\ w \in Nat /\ u \in Nat /\ part \in Nat /\ part <= u
  BY <1>0, FieldTypes
<1>5. CASE LockupTimestamp(c) <= t
  <2>1. UnreleasedAmount(d, t, start) = r /\ r \in Nat
    BY <1>1, <1>3, <1>5, UnreleasedFits DEF UnreleasedAmount, EndTimestamp
  <2>2. UnvestedAmount(d, t) = u - part /\ UnvestedAmount(c, t) = u
    <3>1. c.vesting.kind = "Terminating" /\ UnvestedAmount(c, t) = u
      BY DEF UnvestedAmount, WithdrawnFrom
    <3>2. CASE d.vesting = [c.vesting EXCEPT !.unvested = @ - part]
      <4>1. c \in ContractStates
        BY DEF Readied, WellFormed
      <4>2. d.vesting.kind = "Terminating" /\ d.vesting.unvested = u - part
        BY <3>1, <3>2, <4>1 DEF ContractStates
      <4> QED
        BY <3>1, <4>2 DEF UnvestedAmount
    <3>3. CASE part = u /\ d.vesting.kind = "None"
      BY <1>4, <3>1, <3>3 DEF UnvestedAmount
    <3> QED
      BY <1>0, <3>2, <3>3
  <2>3. /\ LockedAmount(c, t, hasBug) = Larger(Minus(r, w), u)
        /\ LockedAmount(d, t, hasBug) = Larger(Minus(r, w + part), u - part)
    BY <1>1, <1>2, <1>5, <2>1, <2>2 DEF LockedAmount, LockedFrom, Readied
  <2> HIDE DEF r, u, w
  <2> QED
    BY <1>4, <2>1, <2>3 DEF Larger, Minus
<1>6. CASE ~(LockupTimestamp(c) <= t)
  <2>1. /\ LockedAmount(c, t, hasBug) = c.amount - w
        /\ LockedAmount(d, t, hasBug) = c.amount - (w + part)
    BY <1>1, <1>2, <1>6 DEF LockedAmount, LockedFrom
  <2> HIDE DEF u, w
  <2> QED
    BY <1>4, <2>1
<1> QED
  BY <1>5, <1>6

(* Whatever becomes of a contract from one block to the next, it never     *)
(* locks more after it.                                                    *)
THEOREM EvolvingLocksNoMore ==
    ASSUME NEW before, WellFormed(before), NEW after, WellFormed(after),
           NEW hasBug \in BOOLEAN, NEW t \in Times, NEW u \in Times, t <= u,
           Evolves(before, after, u, hasBug)
    PROVE  LockedAmount(WithTransfers(after), u, hasBug)
               <= LockedAmount(WithTransfers(before), t, hasBug)
<1> DEFINE c == WithTransfers(before)
           d == WithTransfers(after)
<1>1. Readied(c) /\ Readied(d)
  BY ReadiedByReading
<1>2. d = c \/ TerminatedIn(c, d, u, hasBug) \/ WithdrawnFrom(c, d)
  BY DEF Evolves
<1> HIDE DEF c, d
<1>3. /\ LockedAmount(c, t, hasBug) \in Nat /\ LockedAmount(c, u, hasBug) \in Nat
      /\ LockedAmount(d, u, hasBug) \in Nat
  BY <1>1, LockedFits, Zenon
<1>4. LockedAmount(c, u, hasBug) <= LockedAmount(c, t, hasBug)
  BY <1>1, LockedShrinks, Zenon
<1>5. LockedAmount(d, u, hasBug) <= LockedAmount(c, u, hasBug)
  BY <1>1, <1>2, <1>3, TerminationLocksNoMore, WithdrawalLocksNoMore
<1>6. LockedAmount(d, u, hasBug) <= LockedAmount(c, t, hasBug)
  BY <1>3, <1>4, <1>5
<1> QED
  BY <1>6 DEF c, d
-----------------------------------------------------------------------------
(* Remainders.                                                             *)
LEMMA Remainder ==
    ASSUME NEW r \in Nat \ {0}, NEW q \in Nat, NEW m \in 0..(r - 1)
    PROVE  (q * r + m) % r = m
<1> DEFINE p == q * r + m
           x == p \div r
<1>1. q * r \in Nat /\ p \in Nat /\ x \in Nat
  BY SMT
<1>2. (p % r) = p - r * x /\ (p % r) \in 0..(r - 1)
  BY <1>1, SMT
<1>3. x = q
  <2>1. CASE x < q
    <3>1. q - x - 1 \in Nat /\ r * (q - x - 1) \in Nat
      BY <1>1, <2>1, SMT
    <3>2. q * r - r * x - r = r * (q - x - 1)
      BY <1>1, SMT
    <3> QED
      BY <1>1, <1>2, <3>1, <3>2
  <2>2. CASE q < x
    <3>1. x - q - 1 \in Nat /\ r * (x - q - 1) \in Nat
      BY <1>1, <2>2, SMT
    <3>2. r * x - q * r - r = r * (x - q - 1)
      BY <1>1, SMT
    <3> QED
      BY <1>1, <1>2, <3>1, <3>2
  <2> QED
    BY <1>1, <2>1, <2>2
<1> QED
  BY <1>1, <1>2, <1>3, SMT

(* A day to compute is ten minutes past a midnight.                        *)
DayToCompute(d) == \E n \in Nat : d = n * Day + TenMinutes

(* The first day is one to compute ...                                     *)
LEMMA FirstDayFacts == FirstDay \in Nat /\ TenMinutes <= FirstDay /\ DayToCompute(FirstDay)
<1>1. Day \in Nat \ {0} /\ TenMinutes \in Nat /\ TransfersEnabled \in Nat
  BY SupplyConstants, LockupConstants
<1> DEFINE n == TransfersEnabled \div Day
<1>2. n \in Nat /\ TransfersEnabled - (TransfersEnabled % Day) = n * Day
  BY <1>1, SMT
<1>3. FirstDay = n * Day + Day + TenMinutes
  BY <1>2 DEF FirstDay, StartOfDay
<1>4. n * Day + Day = (n + 1) * Day /\ n * Day \in Nat
  BY <1>1, <1>2, SMT
<1>5. FirstDay = (n + 1) * Day + TenMinutes /\ n + 1 \in Nat
  BY <1>2, <1>3, <1>4
<1>6. FirstDay \in Nat /\ TenMinutes <= FirstDay
  BY <1>1, <1>3, <1>4
<1> QED
  BY <1>5, <1>6 DEF DayToCompute

(* ... and so is the day after one.                                        *)
LEMMA NextDayFacts ==
    ASSUME NEW d \in Nat, DayToCompute(d)
    PROVE  d + Day \in Nat /\ DayToCompute(d + Day)
<1>1. Day \in Nat \ {0} /\ TenMinutes \in Nat
  BY SupplyConstants
<1>2. PICK n \in Nat : d = n * Day + TenMinutes
  BY DEF DayToCompute
<1>3. n * Day + Day = (n + 1) * Day /\ n * Day \in Nat
  BY <1>1, SMT
<1>4. d + Day = (n + 1) * Day + TenMinutes
  BY <1>1, <1>2, <1>3
<1> QED
  BY <1>1, <1>4 DEF DayToCompute

(* The ten minutes before are the start of the day.                        *)
LEMMA MidnightFacts ==
    ASSUME NEW d \in Nat, DayToCompute(d)
    PROVE  /\ StartOfDay(d) = d - TenMinutes
           /\ d - TenMinutes \in Nat
           /\ (d - TenMinutes) % Day = 0
<1>1. Day \in Nat \ {0} /\ TenMinutes \in 0..(Day - 1) /\ 0 \in 0..(Day - 1)
  BY SupplyConstants
<1>2. PICK n \in Nat : d = n * Day + TenMinutes
  BY DEF DayToCompute
<1>3. n * Day \in Nat
  BY <1>1, SMT
<1>4. (n * Day + TenMinutes) % Day = TenMinutes /\ (n * Day + 0) % Day = 0
  BY <1>1, Remainder
<1> QED
  BY <1>1, <1>2, <1>3, <1>4 DEF StartOfDay

(* Between a midnight to compute and the next there is no midnight.        *)
LEMMA NoMidnightBetween ==
    ASSUME NEW d \in Nat, DayToCompute(d), NEW t \in Nat, (t % Day) = 0,
           t + TenMinutes < d + Day
    PROVE  t <= d - TenMinutes
<1>1. Day \in Nat \ {0} /\ TenMinutes \in Nat
  BY SupplyConstants
<1>2. PICK n \in Nat : d = n * Day + TenMinutes
  BY DEF DayToCompute
<1> DEFINE k == t \div Day
<1>3. k \in Nat /\ t = k * Day
  BY <1>1, SMT
<1> HIDE DEF k
<1>4. n * Day \in Nat /\ k * Day \in Nat
  BY <1>1, <1>3, SMT
<1>5. k * Day < n * Day + Day
  BY <1>1, <1>2, <1>3, <1>4
<1>6. CASE k <= n
  <2>1. k * Day <= n * Day
    BY <1>1, <1>3, <1>6, SMT
  <2> QED
    BY <1>1, <1>2, <1>3, <1>4, <2>1
<1>7. CASE n + 1 <= k
  <2>1. (n + 1) * Day <= k * Day /\ (n + 1) * Day = n * Day + Day
    BY <1>1, <1>3, <1>7, SMT
  <2> QED
    BY <1>1, <1>4, <1>5, <2>1
<1> QED
  BY <1>3, <1>6, <1>7

-----------------------------------------------------------------------------
(* The invariant: what the waiting has established, and what is therefore  *)
(* known of the block and of its value.                                    *)
Types ==
    /\ chain \in Chains
    /\ final \in Heights
    /\ stored \in Int /\ handled \in Int /\ handled <= stored
    /\ day \in Nat /\ FirstDay <= day /\ DayToCompute(day)
    /\ pc \in {"wait", "check", "compute", "store"}

(* The lag of the index.                                                   *)
Lag == \A h \in chain.indexedFrom..final :
           handled < h => chain.time[final] - chain.time[h] <= MaxLag

LockupsRight(row) ==
    \A l \in Lockups :
        Prompt(l) /\ Indexed(l) => (l \in row.lockups <=> Exists(l, row.height))

LoopKnows ==
    /\ pc # "wait" => Loaded
    /\ pc \in {"compute", "store"} =>
          block \in Heights /\ IsLastBlock(block, day - TenMinutes)
    /\ pc = "store" => supply.height = block /\ LockupsRight(supply)

Loop == Types /\ Lag /\ LoopKnows

Days == LastBlockOfDay /\ NoLockupMissed /\ EarlierDaysComputed

(* What a chain is made of.                                                *)
LEMMA ChainFacts ==
    ASSUME Types
    PROVE  /\ LastHeight \in Nat /\ Day \in Nat \ {0} /\ TenMinutes \in Nat
           /\ MaxLag \in Nat /\ MaxTime \in Nat /\ TenMinutes <= FirstDay
           /\ FirstDay \in Nat
           /\ final \in 0..LastHeight
           /\ chain.indexedFrom \in 0..LastHeight
           /\ \A h \in Heights : chain.time[h] \in Nat /\ chain.time[h] <= MaxTime
           /\ \A g, h \in Heights : g < h => chain.time[g] < chain.time[h]
<1>1. /\ LastHeight \in Nat /\ Day \in Nat \ {0} /\ TenMinutes \in Nat
      /\ MaxLag \in Nat /\ MaxTime \in Nat
  BY SupplyConstants, LockupConstants
<1>2. final \in 0..LastHeight
  BY DEF Types, Heights
<1>3. chain \in ChainShape
  BY ChainsAreChains DEF Types
<1>4. chain.time \in [Heights -> Times] /\ chain.indexedFrom \in 0..LastHeight
  BY <1>3 DEF ChainShape, Heights
<1>5. \A h \in Heights : chain.time[h] \in Nat /\ chain.time[h] <= MaxTime
  BY <1>1, <1>4 DEF Times
<1>6. \A g, h \in Heights : g < h => chain.time[g] < chain.time[h]
  BY ChainsAreChains DEF Types
<1> QED
  BY <1>1, <1>2, <1>4, <1>5, <1>6, FirstDayFacts

(* Where they are defined, the heights of a lockup account are numbers.    *)
LEMMA LifeFacts ==
    ASSUME Types, NEW l \in Lockups
    PROVE  /\ chain.created[l] \in Nat /\ chain.creationIncluded[l] \in Nat
           /\ chain.deleted[l] # None =>
                 chain.deleted[l] \in Nat /\ chain.deletionIncluded[l] \in Nat
<1>1. chain \in ChainShape /\ LastHeight \in Nat
  BY ChainsAreChains, SupplyConstants DEF Types
<1>2. /\ chain.created[l] \in Heights /\ chain.creationIncluded[l] \in Heights
      /\ chain.deleted[l] \in Heights \cup {None}
  BY <1>1 DEF ChainShape
<1>3. chain.deleted[l] # None => chain.deletionIncluded[l] \in 0..chain.deleted[l]
  BY ChainsAreChains DEF Types
<1> QED
  BY <1>1, <1>2, <1>3 DEF Heights

(* A block that is not handled yet is less than ten minutes behind the     *)
(* node: once the blocks are loaded it is not before the midnight.         *)
LEMMA HandledBefore ==
    ASSUME Types, Lag, Loaded, MaxLag <= TenMinutes,
           NEW g \in Heights, chain.indexedFrom <= g,
           chain.time[g] <= day - TenMinutes
    PROVE  g <= handled
<1>1. g \in Int /\ day \in Nat /\ handled \in Int
  BY ChainFacts DEF Types, Heights
<1>2. chain.time[g] \in Nat /\ chain.time[final] \in Nat /\ final \in Heights
  BY ChainFacts DEF Types
<1>3. chain.time[g] + TenMinutes <= day /\ day < chain.time[final]
  BY <1>1, <1>2, ChainFacts DEF Loaded
<1>4. g <= final
  <2>1. final < g => chain.time[final] < chain.time[g]
    BY <1>2, ChainFacts
  <2> QED
    BY <1>1, <1>2, <1>3, <2>1, ChainFacts
<1>5. g \in chain.indexedFrom..final
  BY <1>1, <1>4, ChainFacts
<1>6. handled < g => chain.time[final] - chain.time[g] <= MaxLag
  BY <1>5 DEF Lag
<1> QED
  BY <1>1, <1>2, <1>3, <1>6, ChainFacts

(* The last block in the index is then the last one of the chain, and it   *)
(* was handled.                                                            *)
LEMMA LatestIsLast ==
    ASSUME Types, Lag, Loaded, MaxLag <= TenMinutes,
           NEW h \in Heights, IsLatest(h, Before(StartOfDay(day), stored))
    PROVE  IsLastBlock(h, day - TenMinutes)
<1>1. StartOfDay(day) = day - TenMinutes /\ h \in Int /\ stored \in Int /\ handled <= stored
  BY MidnightFacts, ChainFacts DEF Types, Heights
<1>2. h \in Before(day - TenMinutes, LastHeight)
  BY <1>1, ChainFacts DEF IsLatest, Before, Heights
<1>3. ASSUME NEW g \in Before(day - TenMinutes, LastHeight)
      PROVE  g <= h
  <2>1. g \in Heights /\ g \in Int /\ chain.indexedFrom <= g /\ chain.time[g] <= day - TenMinutes
    BY <1>3, ChainFacts DEF Before, Heights
  <2>2. g <= handled
    BY <2>1, HandledBefore
  <2>3. g \in Before(StartOfDay(day), stored)
    BY <1>1, <2>1, <2>2, ChainFacts DEF Before, Types
  <2> QED
    BY <2>3 DEF IsLatest
<1> QED
  BY <1>2, <1>3 DEF IsLastBlock, IsLatest

(* A list that can be read is the list of the accounts that exist.         *)
LEMMA ListIsRight ==
    ASSUME Types, Lag, Loaded, MaxLag <= TenMinutes,
           block \in Heights, IsLastBlock(block, day - TenMinutes),
           \A l \in ListedLockups(block) : Readable(l, block)
    PROVE  LockupsRight(SupplyOf(ListedLockups(block), block))
<1>1. block <= handled /\ block \in Int /\ handled \in Int
  <2>1. chain.indexedFrom <= block /\ chain.time[block] <= day - TenMinutes
    BY ChainFacts DEF IsLastBlock, IsLatest, Before
  <2> QED
    BY <2>1, HandledBefore, ChainFacts DEF Types, Heights
<1>2. ASSUME NEW l \in Lockups, Prompt(l), Indexed(l)
      PROVE  l \in ListedLockups(block) <=> Exists(l, block)
  <2>1. l \in ListedLockups(block) => Exists(l, block)
    BY DEF Readable
  <2>2. ASSUME Exists(l, block) PROVE Listed(l, block)
    <3>1. InView(l) /\ chain.creationIncluded[l] <= block
      BY <1>1, <1>2, <2>2, LifeFacts, ChainFacts
         DEF Exists, Alive, Prompt, Indexed, InView, WasHandled
    <3>2. DeletedInView(l) => chain.deletionIncluded[l] >= block
      BY <1>1, <1>2, <2>2, LifeFacts DEF Exists, Alive, Prompt, DeletedInView
    <3> QED
      BY <3>1, <3>2 DEF Listed
  <2> QED
    BY <2>1, <2>2 DEF ListedLockups
<1> QED
  BY <1>2 DEF LockupsRight, SupplyOf
-----------------------------------------------------------------------------
(* The invariant holds at the start ...                                    *)
LEMMA LoopInit == Init => Loop
<1> SUFFICES ASSUME Init PROVE Loop
  OBVIOUS
<1>1. chain \in Chains /\ final = 0 /\ stored = chain.indexedFrom - 1 /\ handled = stored
      /\ pc = "wait" /\ day = FirstDay
  BY DEF Init
<1>2. chain.indexedFrom \in 0..LastHeight /\ LastHeight \in Nat
  BY <1>1, ChainsAreChains, SupplyConstants DEF ChainShape, Heights
<1>3. Types
  BY <1>1, <1>2, FirstDayFacts DEF Types, Heights
<1>4. Lag
  <2>1. \A h \in chain.indexedFrom..final : h = final
    BY <1>1, <1>2
  <2> QED
    BY <1>1, <1>3, <2>1, ChainFacts DEF Lag, Heights
<1>5. LoopKnows
  BY <1>1 DEF LoopKnows
<1> QED
  BY <1>3, <1>4, <1>5 DEF Loop

(* The node and the handler.                                               *)
LEMMA LoopBeside ==
    ASSUME Loop, Finalize \/ StoreBlock \/ StoreAccounts
    PROVE  Loop'
<1> USE DEF Loop
<1>1. CASE Finalize
  <2>1. final' = final + 1 /\ final < LastHeight
        /\ UNCHANGED <<chain, stored, handled, pc, day, block, supply>>
    BY <1>1 DEF Finalize, index, loop
  <2>2. final' \in Heights /\ final \in Heights /\ final < final'
    BY <2>1, ChainFacts DEF Heights
  <2>3. Types'
    BY <2>1, <2>2 DEF Types
  <2>4. Lag'
    BY <1>1, <2>1 DEF Finalize, Lag
  <2>5. Loaded => Loaded'
    <3>1. chain.time[final] < chain.time[final'] /\ day \in Nat
          /\ chain.time[final] \in Nat /\ chain.time[final'] \in Nat
      BY <2>2, ChainFacts DEF Types
    <3> QED
      BY <2>1, <3>1 DEF Loaded
  <2>6. LockupsRight(supply)' <=> LockupsRight(supply)
    BY <2>1 DEF LockupsRight, Prompt, Indexed, Exists, Alive
  <2>7. LoopKnows'
    BY <2>1, <2>5, <2>6 DEF LoopKnows, IsLastBlock, IsLatest, Before
  <2> QED
    BY <2>3, <2>4, <2>7
<1>2. CASE StoreBlock \/ StoreAccounts
  <2>1. UNCHANGED <<chain, final, pc, day, block, supply>>
    BY <1>2 DEF StoreBlock, StoreAccounts, loop
  <2>2. stored' \in Int /\ handled' \in Int /\ handled' <= stored' /\ handled <= handled'
    BY <1>2 DEF StoreBlock, StoreAccounts, Types
  <2>3. Types'
    BY <2>1, <2>2 DEF Types
  <2>4. Lag'
    BY <2>1, <2>2, ChainFacts DEF Lag, Types
  <2>5. LoopKnows'
    BY <2>1 DEF LoopKnows, Loaded, IsLastBlock, IsLatest, Before, LockupsRight, Prompt, Indexed, Exists, Alive
  <2> QED
    BY <2>3, <2>4, <2>5
<1> QED
  BY <1>1, <1>2

(* A new day or the same one again: all that is known is the day.          *)
LEMMA LoopAgain ==
    ASSUME Loop, UNCHANGED <<chain, final, stored, handled>>, pc' = "wait",
           day' \in {day, day + Day, FirstDay}
    PROVE  Loop'
<1> USE DEF Loop
<1>1. day' \in Nat /\ FirstDay <= day' /\ DayToCompute(day')
  BY FirstDayFacts, NextDayFacts, ChainFacts DEF Types
<1>2. Types'
  BY <1>1 DEF Types
<1>3. Lag' /\ LoopKnows'
  BY DEF Lag, LoopKnows
<1> QED
  BY <1>2, <1>3

(* ... and is kept by every step, if the lag is within the ten minutes.    *)
LEMMA LoopSteps ==
    ASSUME Loop, MaxLag <= TenMinutes, [Next]_vars
    PROVE  Loop'
<1>1. CASE Finalize \/ StoreBlock \/ StoreAccounts
  BY <1>1, LoopBeside
<1>2. CASE WaitForBlocks
  BY <1>2 DEF WaitForBlocks, Loop, Types, Lag, LoopKnows, Loaded, index
<1>3. CASE CheckDay
  <2>1. PICK h \in Heights : /\ IsLatest(h, Before(StartOfDay(day), stored))
                             /\ block' = h
                             /\ Precomputed(h) \/ Missing(h)
    BY <1>3 DEF CheckDay
  <2>2. pc = "check" /\ UNCHANGED <<chain, final, stored, handled, supply>>
    BY <1>3 DEF CheckDay, index
  <2>3. CASE Precomputed(h)
    BY <2>2, <2>3, LoopAgain DEF Precomputed, NextDay
  <2>4. CASE Missing(h)
    <3>1. day' = day /\ pc' = "compute"
      BY <2>4 DEF Missing
    <3>2. Loaded /\ Types /\ Lag
      BY <2>2 DEF Loop, LoopKnows
    <3>3. IsLastBlock(h, day - TenMinutes)
      BY <2>1, <3>2, LatestIsLast
    <3>4. IsLastBlock(block, day - TenMinutes)'
      BY <2>1, <2>2, <3>1, <3>3 DEF IsLastBlock, IsLatest, Before
    <3>5. LoopKnows'
      BY <2>1, <2>2, <3>1, <3>2, <3>4 DEF LoopKnows, Loaded
    <3> QED
      BY <2>2, <3>1, <3>2, <3>5 DEF Loop, Types, Lag
  <2> QED
    BY <2>1, <2>3, <2>4
<1>4. CASE Compute
  <2>1. /\ pc = "compute" /\ pc' = "store"
        /\ supply' = SupplyOf(ListedLockups(block), block)
        /\ UNCHANGED <<chain, final, stored, handled, day, block>>
        /\ \A l \in ListedLockups(block) : Readable(l, block)
    BY <1>4 DEF Compute, index
  <2>2. Types /\ Lag /\ Loaded /\ block \in Heights /\ IsLastBlock(block, day - TenMinutes)
    BY <2>1 DEF Loop, LoopKnows
  <2>3. LockupsRight(SupplyOf(ListedLockups(block), block))
    BY <2>1, <2>2, ListIsRight
  <2>4. LockupsRight(supply)'
    BY <2>1, <2>3 DEF LockupsRight, Prompt, Indexed, Exists, Alive
  <2>5. supply'.height = block
    BY <2>1 DEF SupplyOf
  <2>6. LoopKnows'
    BY <2>1, <2>2, <2>4, <2>5 DEF LoopKnows, Loaded, IsLastBlock, IsLatest, Before
  <2> QED
    BY <2>1, <2>2, <2>6 DEF Loop, Types, Lag
<1>5. CASE AddSupply \/ NoBlock \/ Unreadable \/ QueryFails \/ Restart
  <2>1. UNCHANGED <<chain, final, stored, handled>> /\ pc' = "wait"
        /\ day' \in {day, day + Day, FirstDay}
    BY <1>5 DEF AddSupply, NoBlock, Unreadable, QueryFails, Restart,
                NextDay, SameDay, RetryDay, index
  <2> QED
    BY <2>1, LoopAgain
<1>6. CASE SleepUntilLoaded \/ UNCHANGED vars
  <2>1. UNCHANGED <<chain, final, stored, handled, pc, day, block, supply>>
    BY <1>6 DEF SleepUntilLoaded, vars, index, loop
  <2> QED
    BY <2>1 DEF Loop, Types, Lag, LoopKnows, Loaded, IsLastBlock, IsLatest, Before,
                LockupsRight, Prompt, Indexed, Exists, Alive
<1> QED
  BY <1>1, <1>2, <1>3, <1>4, <1>5, <1>6 DEF Next, LoopStep
-----------------------------------------------------------------------------
(* Whoever stays at a day or begins again with the first leaves no day     *)
(* behind.                                                                 *)
LEMMA SameDays ==
    ASSUME Types, Types', Days, UNCHANGED <<chain, table>>, day' \in {day, FirstDay}
    PROVE  Days'
<1>1. LastBlockOfDay' /\ NoLockupMissed'
  BY DEF Days, LastBlockOfDay, NoLockupMissed, IsLastBlock, IsLatest, Before, Prompt, Indexed, Exists, Alive
<1>2. EarlierDaysComputed'
  <2>1. CASE day' = day
    BY <2>1 DEF Days, EarlierDaysComputed, IsLastBlock, IsLatest, Before
  <2>2. CASE day' = FirstDay
    <3>1. \A t \in Midnights : ~(t + TenMinutes < day')
      <4>1. \A t \in Midnights : t \in Nat /\ FirstDay - TenMinutes <= t
        BY LockupConstants DEF Midnights, Times
      <4> QED
        BY <2>2, <4>1, ChainFacts
    <3> QED
      BY <3>1 DEF EarlierDaysComputed
  <2> QED
    BY <2>1, <2>2
<1> QED
  BY <1>1, <1>2 DEF Days

(* The next day: the table has a value for the block of this one.          *)
LEMMA NextDays ==
    ASSUME Types, LoopKnows, pc # "wait", Days,
           UNCHANGED chain, day' = day + Day, table \subseteq table',
           NEW h \in Heights, IsLastBlock(h, day - TenMinutes),
           \E row \in table' : row.height = h,
           \A row \in table' \ table : row.height = h /\ LockupsRight(row)
    PROVE  Days'
<1>1. /\ day - TenMinutes \in Midnights
  <2>1. day - TenMinutes \in Nat /\ ((day - TenMinutes) % Day) = 0
    BY MidnightFacts DEF Types
  <2>2. day < MaxTime /\ FirstDay <= day /\ day \in Nat
    <3>1. chain.time[final] \in Nat /\ chain.time[final] <= MaxTime
      BY ChainFacts DEF Types
    <3> QED
      BY <3>1, ChainFacts DEF LoopKnows, Loaded, Types
  <2>3. day - TenMinutes \in Times /\ FirstDay - TenMinutes <= day - TenMinutes
    BY <2>1, <2>2, ChainFacts DEF Times
  <2> QED
    BY <2>1, <2>3 DEF Midnights
<1>2. \A g \in Heights, t \in Midnights : IsLastBlock(g, t)' <=> IsLastBlock(g, t)
  BY DEF IsLastBlock, IsLatest, Before
<1>3. LastBlockOfDay'
  <2>1. ASSUME NEW row \in table'
        PROVE  \E g \in Heights : /\ row.height = g
                                  /\ \E t \in Midnights : IsLastBlock(g, t)
    <3>1. CASE row \in table
      BY <3>1 DEF Days, LastBlockOfDay
    <3>2. CASE row \notin table
      BY <1>1, <3>2
    <3> QED
      BY <3>1, <3>2
  <2> QED
    BY <1>2, <2>1 DEF LastBlockOfDay
<1>4. NoLockupMissed'
  <2>1. \A row \in table' : LockupsRight(row)
    BY DEF Days, NoLockupMissed, LockupsRight
  <2> QED
    BY <2>1 DEF NoLockupMissed, LockupsRight, Prompt, Indexed, Exists, Alive
<1>5. EarlierDaysComputed'
  <2>1. ASSUME NEW t \in Midnights, t + TenMinutes < day'
        PROVE  \E row \in table' : IsLastBlock(row.height, t)'
    <3>1. t \in Nat /\ (t % Day) = 0 /\ day \in Nat /\ TenMinutes \in Nat
      BY LockupConstants, ChainFacts DEF Midnights, Times, Types
    <3>2. CASE t + TenMinutes < day
      <4>1. PICK row \in table : IsLastBlock(row.height, t)
        BY <3>2 DEF Days, EarlierDaysComputed
      <4>2. IsLastBlock(row.height, t)'
        BY <4>1 DEF IsLastBlock, IsLatest, Before
      <4> QED
        BY <4>2
    <3>3. CASE ~(t + TenMinutes < day)
      <4>1. t <= day - TenMinutes
        BY <2>1, <3>1, NoMidnightBetween DEF Types
      <4>2. t = day - TenMinutes
        BY <3>1, <3>3, <4>1
      <4>3. IsLastBlock(h, t)'
        BY <4>2 DEF IsLastBlock, IsLatest, Before
      <4> QED
        BY <4>3
    <3> QED
      BY <3>2, <3>3
  <2> QED
    BY <2>1 DEF EarlierDaysComputed
<1> QED
  BY <1>3, <1>4, <1>5 DEF Days

(* Every step keeps what is said of the days ...                           *)
LEMMA DaysStep ==
    ASSUME Loop, Loop', Days, MaxLag <= TenMinutes, [Next]_vars
    PROVE  Days'
<1>1. Types /\ Types' /\ Lag /\ LoopKnows
  BY DEF Loop
<1>2. CASE CheckDay
  <2>1. PICK h \in Heights : /\ IsLatest(h, Before(StartOfDay(day), stored))
                             /\ Precomputed(h) \/ Missing(h)
    BY <1>2 DEF CheckDay
  <2>2. pc = "check" /\ UNCHANGED <<chain, table>>
    BY <1>2 DEF CheckDay
  <2>3. CASE Missing(h)
    BY <1>1, <2>2, <2>3, SameDays DEF Missing
  <2>4. CASE Precomputed(h)
    <3>1. IsLastBlock(h, day - TenMinutes)
      BY <1>1, <2>1, <2>2, LatestIsLast DEF LoopKnows
    <3>2. PICK row \in table : chain.time[row.height] = chain.time[h]
      BY <2>4 DEF Precomputed, IsComputed
    <3>3. row.height \in Heights
      BY <3>2 DEF Days, LastBlockOfDay
    <3>4. row.height = h
      <4>1. /\ row.height < h => chain.time[row.height] < chain.time[h]
            /\ h < row.height => chain.time[h] < chain.time[row.height]
            /\ chain.time[h] \in Nat /\ h \in Int /\ row.height \in Int
        BY <1>1, <3>3, ChainFacts DEF Heights
      <4> QED
        BY <3>2, <4>1
    <3> QED
      BY <1>1, <2>2, <2>4, <3>1, <3>2, <3>4, NextDays DEF Precomputed, NextDay
  <2> QED
    BY <2>1, <2>3, <2>4
<1>3. CASE AddSupply
  <2>1. /\ pc = "store" /\ day' = day + Day /\ UNCHANGED chain
        /\ table' = IF \E row \in table : row.height = supply.height
                    THEN table ELSE table \cup {supply}
    BY <1>3 DEF AddSupply, NextDay
  <2>2. /\ block \in Heights /\ IsLastBlock(block, day - TenMinutes)
        /\ supply.height = block /\ LockupsRight(supply)
    BY <1>1, <2>1 DEF LoopKnows
  <2>3. /\ table \subseteq table'
        /\ \E row \in table' : row.height = block
        /\ \A row \in table' \ table : row.height = block /\ LockupsRight(row)
    BY <2>1, <2>2
  <2> QED
    BY <1>1, <2>1, <2>2, <2>3, NextDays
<1>4. CASE \/ Finalize \/ StoreBlock \/ StoreAccounts \/ WaitForBlocks \/ Compute
           \/ NoBlock \/ Unreadable \/ QueryFails \/ Restart
           \/ SleepUntilLoaded \/ UNCHANGED vars
  <2>1. UNCHANGED <<chain, table>> /\ day' \in {day, FirstDay}
    BY <1>4 DEF Finalize, StoreBlock, StoreAccounts, WaitForBlocks, Compute, NoBlock,
                Unreadable, QueryFails, Restart, SleepUntilLoaded, SameDay, RetryDay,
                vars, loop
  <2> QED
    BY <1>1, <2>1, SameDays
<1> QED
  BY <1>2, <1>3, <1>4 DEF Next, LoopStep

(* ... which holds at the start.                                           *)
LEMMA DaysInit == Init => Loop /\ Days
<1> SUFFICES ASSUME Init PROVE Days
  BY LoopInit
<1>1. table = {} /\ day = FirstDay
  BY DEF Init
<1>2. \A t \in Midnights : t \in Nat /\ FirstDay - TenMinutes <= t
  BY LockupConstants DEF Midnights, Times
<1>3. \A t \in Midnights : ~(t + TenMinutes < day)
  BY <1>1, <1>2, FirstDayFacts, SupplyConstants
<1> QED
  BY <1>1, <1>3 DEF Days, LastBlockOfDay, NoLockupMissed, EarlierDaysComputed

(* What holds of the table in every state.                                 *)
LEMMA DaysInvariant ==
    ASSUME MaxLag <= TenMinutes
    PROVE  Spec => []Days
<1>1. Init => Loop /\ Days
  BY DaysInit
<1>2. Loop /\ Days /\ [Next]_vars => (Loop /\ Days)'
  BY LoopSteps, DaysStep
<1> QED
  BY <1>1, <1>2, PTL DEF Spec

(* As long as the index lags no further than the ten minutes, every value  *)
(* is the one of the last block of a day ...                               *)
THEOREM ValuesOfLastBlocks ==
    ASSUME MaxLag <= TenMinutes
    PROVE  Spec => []LastBlockOfDay
<1>1. Days => LastBlockOfDay
  BY DEF Days
<1> QED
  BY <1>1, DaysInvariant, PTL

(* ... and counts the lockup accounts that exist after that block, as far  *)
(* as they were created and deleted without delay ...                      *)
THEOREM ValuesCountLockups ==
    ASSUME MaxLag <= TenMinutes
    PROVE  Spec => []NoLockupMissed
<1>1. Days => NoLockupMissed
  BY DEF Days
<1> QED
  BY <1>1, DaysInvariant, PTL

(* ... and no day is left behind without a value.                          *)
THEOREM NoDayLeftBehind ==
    ASSUME MaxLag <= TenMinutes
    PROVE  Spec => []EarlierDaysComputed
<1>1. Days => EarlierDaysComputed
  BY DEF Days
<1> QED
  BY <1>1, DaysInvariant, PTL
-----------------------------------------------------------------------------
(* Sums over finite sets.  The library's sum is a recursive function: of a *)
(* chosen element and of the sum of the rest.                              *)
Pick(s) == CHOOSE x \in s : TRUE
IsSum(sum, w, S) ==
    sum = [s \in SUBSET S |-> IF s = {} THEN 0 ELSE w[Pick(s)] + sum[s \ {Pick(s)}]]

(* Induction over finite sets: of the sets that break a rule, one contains *)
(* no other.                                                               *)
LEMMA SmallestSet ==
    ASSUME NEW S, IsFiniteSet(S), NEW T, T \subseteq SUBSET S, T # {}
    PROVE  \E s \in T : \A r \in T : r \subseteq s => r = s
<1>1. FiniteSubsetsOf(S) = SUBSET S
  BY FS_FiniteSubsetsOfFinite
<1>2. \E s \in T : \A r \in T : ~(<<r, s>> \in StrictSubsetOrdering(S))
  BY <1>1, FS_StrictSubsetOrderingWellFounded, WFMin
<1>3. PICK s \in T : \A r \in T : <<r, s>> \notin StrictSubsetOrdering(S)
  BY <1>2
<1>4. \A r \in T : r \subseteq s => r = s
  BY <1>3 DEF StrictSubsetOrdering
<1> QED
  BY <1>4

(* The same for numbers.                                                   *)
LEMMA SmallestNumber ==
    ASSUME NEW T, T \subseteq Nat, T # {}
    PROVE  \E n \in T : \A m \in T : n <= m
<1>1. \E n \in T : \A m \in T : ~(<<m, n>> \in OpToRel(<, Nat))
  BY NatLessThanWellFounded, WFMin, Zenon
<1>2. PICK n \in T : \A m \in T : <<m, n>> \notin OpToRel(<, Nat)
  BY <1>1, Zenon
<1>3. \A m \in T : ~(m < n)
  BY <1>2 DEF OpToRel
<1> QED
  BY <1>3

(* The rule of the sum.                                                    *)
LEMMA SumRule ==
    ASSUME NEW S, NEW w, NEW sum, IsSum(sum, w, S), NEW s \in SUBSET S
    PROVE  /\ s = {} => sum[s] = 0
           /\ s # {} => /\ Pick(s) \in s
                        /\ sum[s] = w[Pick(s)] + sum[s \ {Pick(s)}]
<1>1. sum[s] = IF s = {} THEN 0 ELSE w[Pick(s)] + sum[s \ {Pick(s)}]
  BY DEF IsSum
<1>2. s # {} => Pick(s) \in s
  BY DEF Pick
<1> QED
  BY <1>1, <1>2

(* Two sums agree on the sets they share.                                  *)
LEMMA SumsAgree ==
    ASSUME NEW S, IsFiniteSet(S), NEW T, S \subseteq T, NEW w, NEW f, NEW g,
           IsSum(f, w, S), IsSum(g, w, T)
    PROVE  \A s \in SUBSET S : f[s] = g[s]
<1> DEFINE Bad == {s \in SUBSET S : f[s] # g[s]}
<1>1. SUFFICES ASSUME Bad # {} PROVE FALSE
  OBVIOUS
<1>2. PICK s \in Bad : \A r \in Bad : r \subseteq s => r = s
  <2>1. Bad \subseteq SUBSET S
    OBVIOUS
  <2> HIDE DEF Bad
  <2> QED
    BY <1>1, <2>1, SmallestSet
<1>3. s \in SUBSET S /\ s \in SUBSET T /\ f[s] # g[s]
  OBVIOUS
<1>4. s # {}
  BY <1>3, SumRule
<1> DEFINE r == s \ {Pick(s)}
<1>5. /\ Pick(s) \in s /\ f[s] = w[Pick(s)] + f[r] /\ g[s] = w[Pick(s)] + g[r]
  BY <1>3, <1>4, SumRule
<1>6. r \in SUBSET S /\ r \subseteq s /\ r # s
  BY <1>3, <1>5
<1>7. f[r] = g[r]
  BY <1>2, <1>6
<1> QED
  BY <1>3, <1>5, <1>7

(* There is a sum over every finite set.                                   *)
LEMMA SumExists ==
    ASSUME NEW S, IsFiniteSet(S), NEW w
    PROVE  \E sum : IsSum(sum, w, S)
<1> DEFINE Bad == {s \in SUBSET S : ~ \E sum : IsSum(sum, w, s)}
<1>1. SUFFICES ASSUME Bad # {} PROVE FALSE
  OBVIOUS
<1>2. PICK s \in Bad : \A r \in Bad : r \subseteq s => r = s
  <2>1. Bad \subseteq SUBSET S
    OBVIOUS
  <2> HIDE DEF Bad
  <2> QED
    BY <1>1, <2>1, SmallestSet
<1> DEFINE G(r) == CHOOSE sum : IsSum(sum, w, r)
           p == Pick(s)
           sum == [r \in SUBSET s |->
                      IF r = s THEN (IF s = {} THEN 0 ELSE w[p] + G(s \ {p})[s \ {p}])
                      ELSE G(r)[r]]
<1>3. ASSUME NEW r \in SUBSET s, r # s
      PROVE  IsSum(G(r), w, r)
  <2>1. \E x : IsSum(x, w, r)
    BY <1>2, <1>3
  <2> QED
    BY <2>1
<1>4. \A r \in SUBSET s : IsFiniteSet(r)
  BY FS_Subset
<1> HIDE DEF G, Bad
<1>5. ASSUME NEW r \in SUBSET s
      PROVE  sum[r] = IF r = {} THEN 0 ELSE w[Pick(r)] + sum[r \ {Pick(r)}]
  <2> DEFINE q == r \ {Pick(r)}
  <2>1. CASE r = {}
    <3>1. CASE r = s
      BY <2>1, <3>1
    <3>2. CASE r # s
      <4>1. G(r)[r] = 0
        BY <1>3, <2>1, <3>2, SumRule
      <4> QED
        BY <2>1, <3>2, <4>1
    <3> QED
      BY <3>1, <3>2
  <2>2. CASE r # {}
    <3>1. Pick(r) \in r
      BY <2>2 DEF Pick
    <3>2. q \in SUBSET s /\ q # s /\ q \subseteq r
      BY <3>1
    <3>3. sum[q] = G(q)[q]
      BY <3>2
    <3>4. CASE r = s
      BY <2>2, <3>3, <3>4
    <3>5. CASE r # s
      <4>1. G(r)[r] = w[Pick(r)] + G(r)[q]
        BY <1>3, <2>2, <3>5, SumRule
      <4>2. IsSum(G(q), w, q) /\ IsSum(G(r), w, r)
        BY <1>3, <3>2, <3>5
      <4>3. IsFiniteSet(q) /\ q \in SUBSET q
        BY <1>4, <3>2
      <4>4. G(q)[q] = G(r)[q]
        BY <3>2, <4>2, <4>3, SumsAgree
      <4>5. sum[r] = G(r)[r]
        BY <3>5
      <4> QED
        BY <2>2, <3>3, <4>1, <4>4, <4>5
    <3> QED
      BY <3>4, <3>5
  <2> QED
    BY <2>1, <2>2
<1>6. IsSum(sum, w, s)
  <2>1. sum = [r \in SUBSET s |-> sum[r]]
    OBVIOUS
  <2>2. \A r \in SUBSET s : sum[r] = IF r = {} THEN 0 ELSE w[Pick(r)] + sum[r \ {Pick(r)}]
    BY <1>5
  <2> HIDE DEF sum
  <2> QED
    BY <2>1, <2>2 DEF IsSum
<1> QED
  BY <1>2, <1>6 DEF Bad

(* The library's sum is the sum.                                           *)
LEMMA LockedOfIsSum ==
    ASSUME NEW S, IsFiniteSet(S), NEW h, NEW w,
           \A l \in S : w[l] = Locked(l, h)
    PROVE  \E sum : IsSum(sum, w, S) /\ LockedOf(S, h) = sum[S]
<1> DEFINE it == CHOOSE f : f = [s \in SUBSET S |->
                     IF s = {} THEN 0
                     ELSE LET x == CHOOSE x \in s : TRUE IN Locked(x, h) + f[s \ {x}]]
<1>1. LockedOf(S, h) = it[S]
  BY DEF LockedOf, Sets!MapThenSumSet, Sets!MapThenFoldSet
<1>2. PICK sum : IsSum(sum, w, S)
  BY SumExists
<1>3. sum = [s \in SUBSET S |->
                IF s = {} THEN 0
                ELSE LET x == CHOOSE x \in s : TRUE IN Locked(x, h) + sum[s \ {x}]]
  <2>1. ASSUME NEW s \in SUBSET S, s # {}
        PROVE  w[Pick(s)] = Locked(Pick(s), h)
    <3>1. Pick(s) \in S
      BY <2>1 DEF Pick
    <3> QED
      BY <3>1
  <2> QED
    BY <1>2, <2>1 DEF IsSum, Pick
<1>4. it = [s \in SUBSET S |->
                IF s = {} THEN 0
                ELSE LET x == CHOOSE x \in s : TRUE IN Locked(x, h) + it[s \ {x}]]
  BY <1>3, ZenonT(20)
<1> HIDE DEF it
<1>5. IsSum(it, w, S)
  <2>1. ASSUME NEW s \in SUBSET S, s # {}
        PROVE  w[Pick(s)] = Locked(Pick(s), h)
    <3>1. Pick(s) \in S
      BY <2>1 DEF Pick
    <3> QED
      BY <3>1
  <2> QED
    BY <1>4, <2>1 DEF IsSum, Pick
<1> QED
  BY <1>1, <1>5

(* The same of what the contracts hold.                                    *)
LEMMA AllHeldIsSum ==
    ASSUME NEW c, NEW h, NEW w,
           \A l \in Lockups : w[l] = Held(c, l, h)
    PROVE  LET S == {l \in Lockups : Alive(c, l, h)}
           IN  \E sum : IsSum(sum, w, S) /\ AllHeld(c, h) = sum[S]
<1> DEFINE S == {l \in Lockups : Alive(c, l, h)}
           it == CHOOSE f : f = [s \in SUBSET S |->
                     IF s = {} THEN 0
                     ELSE LET x == CHOOSE x \in s : TRUE IN Held(c, x, h) + f[s \ {x}]]
<1>1. AllHeld(c, h) = it[S]
  BY DEF AllHeld, Sets!MapThenSumSet, Sets!MapThenFoldSet
<1>2. IsFiniteSet(S) /\ S \subseteq Lockups
  BY SupplyConstants, FS_Subset
<1> HIDE DEF S
<1>3. PICK sum : IsSum(sum, w, S)
  BY <1>2, SumExists
<1>4. ASSUME NEW s \in SUBSET S, s # {}
      PROVE  w[Pick(s)] = Held(c, Pick(s), h)
  <2>1. Pick(s) \in Lockups
    BY <1>2, <1>4 DEF Pick
  <2> QED
    BY <2>1
<1>5. sum = [s \in SUBSET S |->
                IF s = {} THEN 0
                ELSE LET x == CHOOSE x \in s : TRUE IN Held(c, x, h) + sum[s \ {x}]]
  BY <1>3, <1>4 DEF IsSum, Pick
<1>6. it = [s \in SUBSET S |->
                IF s = {} THEN 0
                ELSE LET x == CHOOSE x \in s : TRUE IN Held(c, x, h) + it[s \ {x}]]
  BY <1>5, ZenonT(20)
<1> HIDE DEF it
<1>7. IsSum(it, w, S)
  BY <1>4, <1>6 DEF IsSum, Pick
<1> QED
  BY <1>1, <1>7 DEF S

(* A sum of numbers is a number.                                           *)
LEMMA SumType ==
    ASSUME NEW S, IsFiniteSet(S), NEW w, \A x \in S : w[x] \in Nat,
           NEW f, IsSum(f, w, S)
    PROVE  \A s \in SUBSET S : f[s] \in Nat
<1> DEFINE Bad == {s \in SUBSET S : f[s] \notin Nat}
<1>1. SUFFICES ASSUME Bad # {} PROVE FALSE
  OBVIOUS
<1>2. PICK s \in Bad : \A r \in Bad : r \subseteq s => r = s
  <2>1. Bad \subseteq SUBSET S
    OBVIOUS
  <2> HIDE DEF Bad
  <2> QED
    BY <1>1, <2>1, SmallestSet
<1>3. s \in SUBSET S /\ f[s] \notin Nat
  OBVIOUS
<1>4. s # {}
  <2>1. s = {} => f[s] = 0
    BY <1>3, SumRule
  <2> QED
    BY <1>3, <2>1
<1> DEFINE r == s \ {Pick(s)}
<1>5. Pick(s) \in s /\ f[s] = w[Pick(s)] + f[r]
  BY <1>3, <1>4, SumRule
<1>6. f[r] \in Nat
  BY <1>2, <1>3, <1>5
<1>7. w[Pick(s)] \in Nat
  BY <1>3, <1>5
<1> HIDE DEF r
<1> QED
  BY <1>3, <1>5, <1>6, <1>7

(* The order in which a sum is taken makes no difference.                  *)
LEMMA SumOfOne ==
    ASSUME NEW S, IsFiniteSet(S), NEW w, \A x \in S : w[x] \in Nat,
           NEW f, IsSum(f, w, S)
    PROVE  \A s \in SUBSET S : \A x \in s : f[s] = w[x] + f[s \ {x}]
<1> DEFINE Bad == {s \in SUBSET S : \E x \in s : f[s] # w[x] + f[s \ {x}]}
<1>1. SUFFICES ASSUME Bad # {} PROVE FALSE
  OBVIOUS
<1>2. PICK s \in Bad : \A r \in Bad : r \subseteq s => r = s
  <2>1. Bad \subseteq SUBSET S
    OBVIOUS
  <2> HIDE DEF Bad
  <2> QED
    BY <1>1, <2>1, SmallestSet
<1>3. PICK x \in s : f[s] # w[x] + f[s \ {x}]
  OBVIOUS
<1>4. s \in SUBSET S /\ s # {}
  OBVIOUS
<1> DEFINE p == Pick(s)
<1>5. p \in s /\ f[s] = w[p] + f[s \ {p}]
  BY <1>4, SumRule
<1>6. x # p
  BY <1>3, <1>5
<1> DEFINE q == s \ {p}
           r == s \ {x}
<1>7. q \in SUBSET S /\ r \in SUBSET S /\ q # s /\ r # s /\ x \in q /\ p \in r
  BY <1>4, <1>5, <1>6
<1>8. f[q] = w[x] + f[q \ {x}] /\ f[r] = w[p] + f[r \ {p}]
  BY <1>2, <1>7
<1>9. q \ {x} = r \ {p}
  OBVIOUS
<1>10. /\ w[x] \in Nat /\ w[p] \in Nat /\ f[q \ {x}] \in Nat
  <2>1. q \ {x} \in SUBSET S
    BY <1>7
  <2>2. f[q \ {x}] \in Nat
    BY <2>1, SumType
  <2> QED
    BY <1>4, <1>5, <2>2
<1>11. f[r] = w[p] + f[q \ {x}]
  BY <1>8, <1>9
<1> HIDE DEF p, q, r
<1>12. f[s] = w[x] + f[r]
  BY <1>5, <1>8, <1>10, <1>11 DEF q
<1> QED
  BY <1>3, <1>12 DEF r

(* A smaller sum: of less, or of fewer.                                    *)
LEMMA SumOrder ==
    ASSUME NEW S, IsFiniteSet(S), NEW w, NEW v, NEW f, NEW g,
           \A x \in S : w[x] \in Nat /\ v[x] \in Nat /\ w[x] <= v[x],
           IsSum(f, w, S), IsSum(g, v, S)
    PROVE  \A s \in SUBSET S : f[s] <= g[s]
<1> DEFINE Bad == {s \in SUBSET S : ~(f[s] <= g[s])}
<1>1. SUFFICES ASSUME Bad # {} PROVE FALSE
  OBVIOUS
<1>2. PICK s \in Bad : \A r \in Bad : r \subseteq s => r = s
  <2>1. Bad \subseteq SUBSET S
    OBVIOUS
  <2> HIDE DEF Bad
  <2> QED
    BY <1>1, <2>1, SmallestSet
<1>3. s \in SUBSET S /\ ~(f[s] <= g[s])
  OBVIOUS
<1>4. s # {}
  <2>1. s = {} => f[s] = 0 /\ g[s] = 0
    BY <1>3, SumRule
  <2> QED
    BY <1>3, <2>1
<1> DEFINE p == Pick(s)
           r == s \ {p}
<1>5. p \in s /\ f[s] = w[p] + f[r] /\ g[s] = v[p] + g[r]
  BY <1>3, <1>4, SumRule
<1>6. r \in SUBSET S /\ f[r] <= g[r]
  BY <1>2, <1>3, <1>5
<1>7. f[r] \in Nat /\ g[r] \in Nat
  BY <1>6, SumType
<1>8. w[p] \in Nat /\ v[p] \in Nat /\ w[p] <= v[p]
  BY <1>3, <1>5
<1> HIDE DEF p, r
<1> QED
  BY <1>3, <1>5, <1>6, <1>7, <1>8

LEMMA SumOfFewer ==
    ASSUME NEW S, IsFiniteSet(S), NEW w, \A x \in S : w[x] \in Nat,
           NEW f, IsSum(f, w, S), NEW s \in SUBSET S
    PROVE  f[s] <= f[S]
<1> DEFINE Bad == {t \in SUBSET S : s \subseteq t /\ ~(f[s] <= f[t])}
<1>1. SUFFICES ASSUME Bad # {} PROVE FALSE
  OBVIOUS
<1>2. PICK t \in Bad : \A r \in Bad : r \subseteq t => r = t
  <2>1. Bad \subseteq SUBSET S
    OBVIOUS
  <2> HIDE DEF Bad
  <2> QED
    BY <1>1, <2>1, SmallestSet
<1>3. t \in SUBSET S /\ s \subseteq t /\ ~(f[s] <= f[t])
  OBVIOUS
<1>4. f[s] \in Nat /\ f[t] \in Nat
  BY <1>3, SumType
<1>5. PICK x \in t : x \notin s
  <2>1. s # t
    BY <1>3, <1>4
  <2> QED
    BY <1>3, <2>1
<1> DEFINE r == t \ {x}
<1>6. r \in SUBSET S /\ s \subseteq r /\ r # t /\ r \subseteq t
  BY <1>3, <1>5
<1>7. f[s] <= f[r]
  BY <1>2, <1>6
<1>8. f[t] = w[x] + f[r]
  BY <1>3, <1>5, SumOfOne
<1>9. f[r] \in Nat /\ w[x] \in Nat
  BY <1>3, <1>6, SumType
<1> HIDE DEF r
<1> QED
  BY <1>3, <1>4, <1>7, <1>8, <1>9

-----------------------------------------------------------------------------
(* Every value stored, and the one about to be, is computed from lockup    *)
(* accounts that exist: a computation that cannot read one of them fails.  *)
ValueRight(row) ==
    /\ row.height \in Heights
    /\ row.lockups \subseteq {l \in Lockups : Exists(l, row.height)}
    /\ row = SupplyOf(row.lockups, row.height)

Values == table \cup (IF pc = "store" THEN {supply} ELSE {})

ValuesRight ==
    /\ chain \in Chains
    /\ pc = "compute" => block \in Heights
    /\ \A row \in Values : ValueRight(row)

(* The invariant holds at the start ...                                    *)
LEMMA ValuesInit == Init => ValuesRight
  BY DEF Init, ValuesRight, Values

(* A value is about a chain, which does not change.                        *)
LEMMA ValueStays ==
    ASSUME UNCHANGED chain, NEW row
    PROVE  ValueRight(row) => ValueRight(row)'
<1>1. \A l \in Lockups, h \in Heights : Exists(l, h)' <=> Exists(l, h)
  BY DEF Exists
<1>2. \A l, h : Locked(l, h)' = Locked(l, h)
  BY DEF Locked
<1>3. \A L, h : SupplyOf(L, h)' = SupplyOf(L, h)
  BY DEF SupplyOf, LockedOf, Locked, Sets!MapThenSumSet, Sets!MapThenFoldSet
<1> QED
  BY <1>1, <1>3 DEF ValueRight

(* ... and is kept by every step.                                          *)
LEMMA ValuesStep ==
    ASSUME ValuesRight, [Next]_vars
    PROVE  ValuesRight'
<1>1. CASE Compute
  <2> DEFINE S == ListedLockups(block)
  <2>1. /\ pc = "compute" /\ pc' = "store" /\ UNCHANGED <<chain, table>>
        /\ supply' = SupplyOf(S, block)
        /\ \A l \in S : Readable(l, block)
    BY <1>1 DEF Compute
  <2>2. block \in Heights /\ S \subseteq {l \in Lockups : Exists(l, block)}
    BY <2>1 DEF ValuesRight, ListedLockups, Readable
  <2> HIDE DEF S
  <2>3. SupplyOf(S, block).lockups = S /\ SupplyOf(S, block).height = block
    BY DEF SupplyOf
  <2>4. ValueRight(SupplyOf(S, block))
    BY <2>2, <2>3 DEF ValueRight
  <2>5. \A row \in Values' : ValueRight(row)
    BY <2>1, <2>4 DEF ValuesRight, Values
  <2> QED
    BY <2>1, <2>5, ValueStays DEF ValuesRight
<1>2. CASE AddSupply
  <2>1. /\ pc = "store" /\ pc' = "wait" /\ UNCHANGED chain
        /\ table' = table \/ table' = table \cup {supply}
    BY <1>2 DEF AddSupply, NextDay
  <2> QED
    BY <2>1, ValueStays DEF ValuesRight, Values
<1>3. CASE CheckDay
  <2>1. PICK h \in Heights : block' = h /\ (Precomputed(h) \/ Missing(h))
    BY <1>3 DEF CheckDay
  <2>2. UNCHANGED <<chain, table>> /\ pc' \in {"wait", "compute"}
    BY <1>3, <2>1 DEF CheckDay, Precomputed, Missing, NextDay
  <2> QED
    BY <2>1, <2>2, ValueStays DEF ValuesRight, Values
<1>4. CASE \/ Finalize \/ StoreBlock \/ StoreAccounts
           \/ SleepUntilLoaded \/ UNCHANGED vars
  <2>1. UNCHANGED <<chain, table, pc, block, supply>>
    BY <1>4 DEF Finalize, StoreBlock, StoreAccounts, SleepUntilLoaded, vars, loop
  <2> QED
    BY <2>1, ValueStays DEF ValuesRight, Values
<1>5. CASE WaitForBlocks \/ NoBlock \/ Unreadable \/ QueryFails \/ Restart
  <2>1. UNCHANGED <<chain, table>> /\ pc' \in {"wait", "check"}
    BY <1>5 DEF WaitForBlocks, NoBlock, Unreadable, QueryFails, Restart, RetryDay, SameDay
  <2> QED
    BY <2>1, ValueStays DEF ValuesRight, Values
<1> QED
  BY <1>1, <1>2, <1>3, <1>4, <1>5 DEF Next, LoopStep

(* What is known of a contract at a height.                                *)
LEMMA ContractFacts ==
    ASSUME chain \in Chains, NEW l \in Lockups, NEW h \in Heights
    PROVE  /\ WellFormed(chain.state[l][h])
           /\ chain.time[h] \in Times
           /\ Locked(l, h) \in Nat
           /\ Held(chain, l, h) \in Nat /\ Locked(l, h) <= Held(chain, l, h)
<1> DEFINE s == chain.state[l][h]
           c == WithTransfers(s)
           b == chain.version[l] \in BuggyVersions
<1>1. chain \in ChainShape /\ WellFormed(s)
  BY ChainsAreChains
<1>2. chain.time[h] \in Times
  BY <1>1 DEF ChainShape
<1>3. Readied(c) /\ c.amount = s.amount /\ c.withdrawn = s.withdrawn
  BY <1>1, ReadiedByReading
<1> HIDE DEF c
<1>4. s.amount \in Nat /\ s.withdrawn \in Nat /\ s.withdrawn <= s.amount
  BY <1>3, FieldTypes
<1>5. b \in BOOLEAN
  OBVIOUS
<1> HIDE DEF b
<1>6. LockedAmount(c, chain.time[h], b) \in Nat
      /\ LockedAmount(c, chain.time[h], b) + c.withdrawn <= c.amount
  BY <1>2, <1>3, <1>5, LockedFits, Zenon
<1>7. Locked(l, h) = LockedAmount(c, chain.time[h], b)
  BY DEF Locked, b, c
<1>8. Held(chain, l, h) = s.amount - s.withdrawn
  BY DEF Held
<1> HIDE DEF s
<1>9. Locked(l, h) \in Nat /\ Held(chain, l, h) \in Nat /\ Locked(l, h) <= Held(chain, l, h)
  BY <1>3, <1>4, <1>6, <1>7, <1>8
<1> QED
  BY <1>1, <1>2, <1>9 DEF s

(* As long as it exists, an account never locks more at a later height.    *)
LEMMA LockedAtHeights ==
    ASSUME chain \in Chains, NEW l \in Lockups, NEW g \in Heights, NEW h \in Heights,
           g <= h, Exists(l, g), Exists(l, h)
    PROVE  Locked(l, h) <= Locked(l, g)
<1>0. LastHeight \in Nat /\ g \in Nat /\ h \in Nat /\ h <= LastHeight
  BY SupplyConstants DEF Heights
<1>1. \A x \in g..h : x \in Heights /\ x \in Nat /\ Exists(l, x)
  <2>1. chain \in ChainShape
    BY ChainsAreChains
  <2>2. chain.created[l] \in Int /\ (chain.deleted[l] # None => chain.deleted[l] \in Int)
    BY <1>0, <2>1 DEF ChainShape, Heights
  <2> QED
    BY <1>0, <2>2 DEF Exists, Alive, Heights
<1> DEFINE Bad == {x \in g..h : ~(Locked(l, x) <= Locked(l, g))}
<1>2. SUFFICES ASSUME Bad # {} PROVE FALSE
  <2>1. h \in g..h
    BY <1>0
  <2> QED
    BY <2>1
<1>3. PICK x \in Bad : \A y \in Bad : x <= y
  <2>1. Bad \subseteq Nat
    BY <1>1
  <2> HIDE DEF Bad
  <2> QED
    BY <1>2, <2>1, SmallestNumber
<1>4. x \in g..h /\ ~(Locked(l, x) <= Locked(l, g))
  OBVIOUS
<1>5. \A y \in g..h : Locked(l, y) \in Nat
  BY <1>1, ContractFacts
<1>6. x # g /\ x - 1 \in g..h /\ x > 0
  <2>1. x # g
    BY <1>0, <1>4, <1>5
  <2> QED
    BY <1>0, <1>4, <2>1
<1>7. Locked(l, x - 1) <= Locked(l, g)
  BY <1>3, <1>6
<1>8. Locked(l, x) <= Locked(l, x - 1)
  <2> DEFINE b == chain.version[l] \in BuggyVersions
             before == chain.state[l][x - 1]
             after == chain.state[l][x]
             t == chain.time[x - 1]
             u == chain.time[x]
  <2>1. Evolves(before, after, u, b)
    BY <1>1, <1>4, <1>6, ContractsEvolve DEF Exists
  <2>2. WellFormed(before) /\ WellFormed(after) /\ t \in Times /\ u \in Times
    BY <1>1, <1>4, <1>6, ContractFacts
  <2>3. t <= u
    <3>1. t < u
      BY <1>1, <1>4, <1>6, ChainsAreChains
    <3>2. t \in Nat /\ u \in Nat
      BY <2>2, TimesAreNaturals
    <3> QED
      BY <3>1, <3>2
  <2>4. b \in BOOLEAN
    OBVIOUS
  <2>5. Locked(l, x) = LockedAmount(WithTransfers(after), u, b)
        /\ Locked(l, x - 1) = LockedAmount(WithTransfers(before), t, b)
    BY DEF Locked
  <2> HIDE DEF b, before, after, t, u
  <2> QED
    BY <2>1, <2>2, <2>3, <2>4, <2>5, EvolvingLocksNoMore, Zenon
<1>9. g \in g..h
  BY <1>0
<1> QED
  BY <1>4, <1>5, <1>6, <1>7, <1>8, <1>9

(* The same lockups never lock more on a later day: neither the cliff, nor *)
(* the end of the lockup, nor a termination or a withdrawal gives anything *)
(* back.  This holds however far the index lags behind the node.           *)
THEOREM LockedShrinksByDay == Spec => []LockedNeverGrows
<1>1. ASSUME ValuesRight, NEW r1 \in table, NEW r2 \in table,
             r1.height < r2.height, r1.lockups = r2.lockups
      PROVE  r2.locked <= r1.locked
  <2> DEFINE S == r1.lockups
             g == r1.height
             h == r2.height
             v == [l \in S |-> Locked(l, g)]
             w == [l \in S |-> Locked(l, h)]
  <2>1. /\ chain \in Chains /\ g \in Heights /\ h \in Heights
        /\ S \subseteq Lockups /\ \A l \in S : Exists(l, g) /\ Exists(l, h)
        /\ r1.locked = LockedOf(S, g) /\ r2.locked = LockedOf(S, h)
    BY <1>1 DEF ValuesRight, Values, ValueRight, SupplyOf
  <2>2. IsFiniteSet(S)
    BY <2>1, SupplyConstants, FS_Subset
  <2>3. g <= h
    BY <1>1, <2>1, SupplyConstants DEF Heights
  <2> HIDE DEF S, g, h
  <2>4. \A l \in S : v[l] \in Nat /\ w[l] \in Nat /\ w[l] <= v[l]
    BY <2>1, <2>3, ContractFacts, LockedAtHeights
  <2>5. PICK sum1 : IsSum(sum1, v, S) /\ LockedOf(S, g) = sum1[S]
    BY <2>2, LockedOfIsSum
  <2>6. PICK sum2 : IsSum(sum2, w, S) /\ LockedOf(S, h) = sum2[S]
    BY <2>2, LockedOfIsSum
  <2> HIDE DEF v, w
  <2>7. sum2[S] <= sum1[S]
    BY <2>2, <2>4, <2>5, <2>6, SumOrder
  <2> QED
    BY <2>1, <2>5, <2>6, <2>7
<1>2. ValuesRight => LockedNeverGrows
  BY <1>1 DEF LockedNeverGrows
<1> QED
  BY <1>2, ValuesInit, ValuesStep, PTL DEF Spec

(* The unsigned subtraction of what is locked never wraps, and no value is *)
(* above the total supply: the lockup contracts that exist are backed.     *)
THEOREM SupplyNeverWraps == Spec => []SupplyFits
<1>1. ASSUME ValuesRight, NEW row \in table
      PROVE  row.circulating \in 0..TotalSupply
  <2> DEFINE S == row.lockups
             h == row.height
             All == {l \in Lockups : Alive(chain, l, h)}
             v == [l \in Lockups |-> Held(chain, l, h)]
             w == [l \in S |-> Locked(l, h)]
  <2>1. /\ chain \in Chains /\ h \in Heights
        /\ S \subseteq All /\ All \subseteq Lockups
        /\ row.circulating = TotalSupply - FoundationLocked - LockedOf(S, h)
    BY <1>1 DEF ValuesRight, Values, ValueRight, SupplyOf, Exists
  <2>2. IsFiniteSet(All) /\ IsFiniteSet(S)
    BY <2>1, SupplyConstants, FS_Subset
  <2>3. PICK sum1 : IsSum(sum1, v, All) /\ AllHeld(chain, h) = sum1[All]
    BY AllHeldIsSum
  <2> HIDE DEF S, h, All
  <2>4. PICK sum2 : IsSum(sum2, w, S) /\ LockedOf(S, h) = sum2[S]
    BY <2>2, LockedOfIsSum
  <2>5. PICK sum3 : IsSum(sum3, v, S)
    BY <2>2, SumExists
  <2>6. \A l \in S : w[l] \in Nat /\ w[l] <= v[l]
    BY <2>1, ContractFacts
  <2>7. \A l \in All : v[l] \in Nat
    BY <2>1, ContractFacts
  <2> HIDE DEF v, w
  <2>8. S \in SUBSET S /\ S \in SUBSET All
    BY <2>1
  <2>9. sum2[S] <= sum3[S]
    BY <2>1, <2>2, <2>4, <2>5, <2>6, <2>7, <2>8, SumOrder
  <2>10. sum3[S] = sum1[S]
    BY <2>1, <2>2, <2>3, <2>5, <2>8, SumsAgree
  <2>11. sum1[S] <= sum1[All]
    BY <2>2, <2>3, <2>7, <2>8, SumOfFewer
  <2>12. sum2[S] \in Nat /\ sum1[S] \in Nat /\ sum1[All] \in Nat
    BY <2>2, <2>3, <2>4, <2>6, <2>7, <2>8, SumType
  <2>13. AllHeld(chain, h) + FoundationLocked <= TotalSupply
    BY <2>1, LockupsAreBacked
  <2>14. TotalSupply \in Nat /\ FoundationLocked \in Nat
    BY SupplyConstants
  <2> QED
    BY <2>1, <2>3, <2>4, <2>9, <2>10, <2>11, <2>12, <2>13, <2>14
<1>2. ValuesRight => SupplyFits
  BY <1>1 DEF SupplyFits
<1> QED
  BY <1>2, ValuesInit, ValuesStep, PTL DEF Spec
=============================================================================
