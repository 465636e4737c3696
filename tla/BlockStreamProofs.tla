-------------------------- MODULE BlockStreamProofs --------------------------
(***************************************************************************)
(* BlockStream keeps its types, and with one handler at a time, no delta   *)
(* of 1 and a row to continue from it leaves no block out: for every chain,*)
(* every such set of command lines and any number of interruptions.        *)
(***************************************************************************)
EXTENDS BlockStream, FiniteSetTheorems, TLAPS

(* A mark is only due for a height that was sent.                          *)
TypeInv == TypeOK /\ (unmarked => nextSend > 0)

(* A start from any natural height keeps the types.                        *)
LEMMA StartAtType ==
    ASSUME TypeInv, NEW a \in Args, NEW h \in Nat, StartAt(a, h),
           errors' \in 0..MaxErrors
    PROVE  TypeInv'
<1> USE StreamConstants DEF StartAt
<1>1. up' \in BOOLEAN /\ unmarked' \in BOOLEAN
  OBVIOUS
<1>2. unmarked' => nextSend' > 0
  OBVIOUS
<1>3. origin' \in Nat /\ nextSend' \in Nat /\ nextTake' \in Nat
  BY DEF TypeInv, TypeOK
<1>5. blind' \in BOOLEAN
  OBVIOUS
<1>4. left' \in Nat \cup {NoHeight} /\ starts' \in 0..MaxStarts
  BY DEF TypeInv, TypeOK, ArgsType
<1> QED BY <1>1, <1>2, <1>3, <1>4, <1>5 DEF TypeInv, TypeOK

(* Types are kept by every step.                                           *)
LEMMA TypeInductive == TypeInv /\ [Next]_vars => TypeInv'
<1> SUFFICES ASSUME TypeInv, [Next]_vars PROVE TypeInv'
  OBVIOUS
<1> USE StreamConstants
<1>1. CASE UNCHANGED vars
  BY <1>1 DEF vars, stream, ends, TypeInv, TypeOK
<1>2. ASSUME NEW h \in Heights, Produce(h) PROVE TypeInv'
  BY <1>2 DEF Produce, stream, ends, TypeInv, TypeOK
<1>3. ASSUME NEW h \in Heights, Take(h) PROVE TypeInv'
  BY <1>3 DEF Take, stream, ends, TypeInv, TypeOK
<1>4. ASSUME NEW h \in Heights, StoreBlock(h) PROVE TypeInv'
  BY <1>4 DEF StoreBlock, stream, ends, TypeInv, TypeOK
<1>5. ASSUME NEW h \in Heights, HandleOk(h) PROVE TypeInv'
  BY <1>5 DEF HandleOk, stream, ends, TypeInv, TypeOK
<1>6. ASSUME NEW h \in Heights, HandleErr(h) PROVE TypeInv'
  BY <1>6 DEF HandleErr, stream, ends, TypeInv, TypeOK
<1>7. ASSUME NEW a \in Args, Start(a) PROVE TypeInv'
  <2>1. PICK h \in Heights \cup {0, a.height, AfterMark} \cup
                   {SaturatingSub(x, a.delta) : x \in blockRows} : StartAt(a, h)
    BY <1>7 DEF Start
  <2>2. h \in Nat
    <3>1. a.height \in Nat /\ a.delta \in Nat /\ AfterMark \in Nat
      BY DEF TypeInv, TypeOK, ArgsType, AfterMark
    <3>2. ASSUME NEW x \in blockRows PROVE SaturatingSub(x, a.delta) \in Nat
      <4>1. x \in Nat /\ a.delta \in Nat
        BY <3>1 DEF TypeInv, TypeOK
      <4>2. \A m, n \in Nat : SaturatingSub(m, n) \in Nat
        BY DEF SaturatingSub
      <4> QED BY <4>1, <4>2
    <3> QED BY <2>1, <3>1, <3>2
  <2>3. errors' \in 0..MaxErrors
    BY <1>7 DEF Start, TypeInv, TypeOK
  <2> QED BY <2>1, <2>2, <2>3, StartAtType
<1>8. ASSUME NEW a \in Args, StartWithoutDb(a) PROVE TypeInv'
  <2>1. AfterMark \in Nat
    BY DEF TypeInv, TypeOK, AfterMark
  <2>2. errors' \in 0..MaxErrors
    BY <1>8 DEF StartWithoutDb, TypeInv, TypeOK
  <2> QED BY <1>8, <2>1, <2>2, StartAtType DEF StartWithoutDb
<1>9. ASSUME NEW h \in Heights, Send(h) PROVE TypeInv'
  BY <1>9 DEF Send, ends, TypeInv, TypeOK
<1>10. CASE Mark
  <2>1. mark' \in Nat
    BY <1>10 DEF Mark, TypeInv, TypeOK
  <2>2. ~unmarked' /\ unmarked' \in BOOLEAN
    BY <1>10 DEF Mark
  <2> QED BY <1>10, <2>1, <2>2 DEF Mark, ends, TypeInv, TypeOK
<1>11. CASE ShutDown
  BY <1>11 DEF ShutDown, stream, ends, TypeInv, TypeOK
<1>12. CASE Crash
  BY <1>12 DEF Crash, stream, ends, TypeInv, TypeOK, NoHandlers
<1> QED
  BY <1>1, <1>2, <1>3, <1>4, <1>5, <1>6, <1>7, <1>8, <1>9, <1>10, <1>11, <1>12
     DEF Next, Indexer, Node

LEMMA TypeInitial == Init => TypeInv
<1> SUFFICES ASSUME Init PROVE TypeInv
  OBVIOUS
<1> USE StreamConstants DEF Init
<1>1. up \in BOOLEAN /\ unmarked \in BOOLEAN /\ (unmarked => nextSend > 0)
  OBVIOUS
<1>2. handler \in [Heights -> {"none", "block", "rest"}]
  BY DEF NoHandlers
<1>3. errors \in 0..MaxErrors /\ starts \in 0..MaxStarts
  OBVIOUS
<1> QED BY <1>1, <1>2, <1>3 DEF TypeInv, TypeOK

(* The variables of BlockStream keep their types.                          *)
THEOREM TypeCorrect == Spec => []TypeOK
<1>1. TypeInv => TypeOK
  BY DEF TypeInv
<1> QED BY <1>1, TypeInitial, TypeInductive, PTL DEF Spec

-----------------------------------------------------------------------------
(* Under what command lines no block is left out.                          *)
Sequential ==
    /\ Concurrency = 1
    /\ \A a \in Args : a.mode = "interruption" => a.delta # 1

(* A handler runs for the last block taken only.                           *)
LastTaken ==
    \A h \in Heights : handler[h] # "none" =>
        /\ up /\ h < nextTake
        /\ \A x \in Heights : x < nextTake => x <= h

(* Below a row of the blocks table everything is handled.                  *)
RowsOnTop ==
    errors = 0 /\ ~blind =>
        \A h \in Heights, x \in blockRows : origin <= h /\ h < x => h \in handled

(* Before the first start there is nothing.                                *)
FirstStart == starts = 0 => ~up /\ blockRows = {}

GapInv == TypeInv /\ LastTaken /\ FirstStart /\ RowsOnTop /\ NoGap

(* With one handler at a time there is room only when none runs.           *)
LEMMA RoomMeansIdle ==
    ASSUME Concurrency = 1, HasRoom
    PROVE  \A h \in Heights : handler[h] = "none"
<1>1. InFlight \subseteq Heights /\ IsFiniteSet(InFlight)
  BY StreamConstants, FS_Subset DEF InFlight
<1>2. Cardinality(InFlight) = 0
  BY <1>1, FS_CardinalityType DEF HasRoom
<1>3. InFlight = {}
  BY <1>1, <1>2, FS_EmptySet
<1> QED BY <1>3 DEF InFlight

(* Wherever the stream starts, what is below is handled or given up by the *)
(* operator.                                                               *)
LEMMA StartCovers ==
    ASSUME Sequential, GapInv, NEW a \in Args, Start(a)
    PROVE  GapInv'
<1>0. TypeInv'
  BY TypeInductive DEF GapInv, Next
<1>1. PICK h \in Heights \cup {0, a.height, AfterMark} \cup
                 {SaturatingSub(x, a.delta) : x \in blockRows} :
          StartsFrom(a, h) /\ StartAt(a, h)
  BY DEF Start
<1>2. h \in Nat
  BY <1>1, StreamConstants DEF GapInv, TypeInv, TypeOK, AfterMark, SaturatingSub, ArgsType
<1>3. \A g \in Heights : handler[g] = "none" /\ handler'[g] = "none"
  BY <1>1 DEF GapInv, LastTaken, StartAt
<1>4. LastTaken'
  BY <1>3 DEF LastTaken
<1>5. errors' = errors /\ blockRows' = blockRows /\ handled' = handled /\ nextTake' = h
  BY <1>1 DEF Start, StartAt
<1>8. FirstStart'
  BY <1>1 DEF StartAt, FirstStart, GapInv, TypeInv, TypeOK
<1>6. CASE BeginsAnew(a, h)
  <2>1. origin' = h
    BY <1>1, <1>6 DEF StartAt
  <2>2. NoGap'
    BY <1>2, <1>5, <2>1, StreamConstants DEF NoGap, Covered
  <2>3. \A x \in blockRows : x < h
    BY <1>6 DEF BeginsAnew, FirstStart, GapInv
  <2>4. RowsOnTop'
    BY <1>2, <1>5, <2>1, <2>3, StreamConstants
       DEF RowsOnTop, GapInv, TypeInv, TypeOK
  <2> QED BY <1>0, <1>4, <1>8, <2>2, <2>4 DEF GapInv
<1>9. CASE blind'
  BY <1>0, <1>4, <1>8, <1>9 DEF GapInv, RowsOnTop, NoGap
<1>7. CASE ~BeginsAnew(a, h) /\ ~blind'
  <2>1. origin' = origin /\ ~blind /\ ~GoesBlind(a) /\ starts > 0
    <3>1. origin' = origin
      BY <1>1, <1>7 DEF StartAt
    <3>2. ~(blind \/ GoesBlind(a))
      BY <1>1, <1>7, Zenon DEF StartAt
    <3>3. starts > 0
      BY <1>7, StreamConstants DEF BeginsAnew, GapInv, TypeInv, TypeOK
    <3> QED BY <3>1, <3>2, <3>3
  <2>2. RowsOnTop'
    BY <1>5, <2>1 DEF RowsOnTop, GapInv
  <2>3. PICK x \in blockRows : h <= x
    <3>2. CASE a.mode = "interruption"
      <4>1. \E y \in blockRows : h = SaturatingSub(y, a.delta)
        BY <1>1, <2>1, <3>2 DEF StartsFrom, GoesBlind, Sequential
      <4> QED BY <4>1, StreamConstants
                 DEF SaturatingSub, GapInv, TypeInv, TypeOK, ArgsType
    <3>3. CASE a.mode # "interruption"
      BY <1>2, <1>7, <3>3, StreamConstants DEF BeginsAnew, GapInv, TypeInv, TypeOK
    <3> QED BY <3>2, <3>3
  <2>4. NoGap'
    <3> SUFFICES ASSUME errors = 0, NEW g \in Heights, origin <= g, g < h
                 PROVE  g \in handled
      BY <1>5, <2>1 DEF NoGap, Covered
    <3>1. g < x
      BY <1>2, <2>3, StreamConstants DEF GapInv, TypeInv, TypeOK
    <3>2. \A f \in Heights, y \in blockRows : origin <= f /\ f < y => f \in handled
      BY <2>1, Zenon DEF GapInv, RowsOnTop
    <3> QED BY <3>1, <3>2, <2>3
  <2> QED BY <1>0, <1>4, <1>8, <2>2, <2>4 DEF GapInv
<1> QED BY <1>6, <1>7, <1>9

LEMMA GapInductive == Sequential /\ GapInv /\ [Next]_vars => GapInv'
<1> SUFFICES ASSUME Sequential, GapInv, [Next]_vars PROVE GapInv'
  OBVIOUS
<1>0. TypeInv'
  BY TypeInductive DEF GapInv
<1>T. TypeOK /\ TypeOK' /\ Heights \subseteq Nat
  BY <1>0, StreamConstants DEF GapInv, TypeInv
<1> USE <1>0, <1>T DEF GapInv
<1>1. CASE UNCHANGED vars
  BY <1>1 DEF vars, stream, ends, LastTaken, FirstStart, RowsOnTop, NoGap, Covered
<1>2. ASSUME NEW h \in Heights, Produce(h) PROVE GapInv'
  BY <1>2 DEF Produce, stream, ends, LastTaken, FirstStart, RowsOnTop, NoGap, Covered
<1>3. ASSUME NEW h \in Heights, Take(h) PROVE GapInv'
  <2>1. \A x \in Heights : handler[x] = "none"
    BY <1>3, RoomMeansIdle DEF Take, Sequential
  <2>2. \A x \in Heights : x < nextTake' => x < nextTake \/ x = h
    BY <1>3 DEF Take, Channel, stream, TypeOK
  <2>3. \A x \in Heights : handler'[x] # "none" <=> x = h
    BY <1>3, <2>1 DEF Take, TypeOK
  <2>4. LastTaken'
    BY <1>3, <2>3 DEF LastTaken, Take, TypeOK
  <2>5. NoGap'
    BY <1>3, <2>1, <2>2, <2>3 DEF NoGap, Covered, Take, ends
  <2>6. RowsOnTop'
    BY <1>3 DEF RowsOnTop, Take, ends
  <2>7. FirstStart'
    BY <1>3 DEF FirstStart, Take, ends
  <2> QED BY <2>4, <2>5, <2>6, <2>7
<1>4. ASSUME NEW h \in Heights, StoreBlock(h) PROVE GapInv'
  <2>1. up /\ \A x \in Heights : x # h => handler[x] = "none"
    BY <1>4 DEF StoreBlock, LastTaken, TypeOK
  <2>2. \A x \in Heights : handler'[x] # "none" => handler[x] # "none"
    BY <1>4 DEF StoreBlock, TypeOK
  <2>3. LastTaken'
    BY <1>4, <2>2 DEF LastTaken, StoreBlock, stream
  <2>4. NoGap'
    BY <1>4 DEF NoGap, Covered, StoreBlock, ends, TypeOK
  <2>5. errors = 0 /\ ~blind => \A g \in Heights : origin <= g /\ g < h => g \in handled
    BY <1>4, <2>1 DEF NoGap, Covered, LastTaken, StoreBlock, TypeOK
  <2>6. RowsOnTop'
    BY <1>4, <2>5 DEF RowsOnTop, StoreBlock, ends
  <2>7. FirstStart'
    BY <1>4, <2>1 DEF FirstStart, StoreBlock, ends
  <2> QED BY <2>3, <2>4, <2>6, <2>7
<1>5. ASSUME NEW h \in Heights, HandleOk(h) PROVE GapInv'
  BY <1>5 DEF HandleOk, stream, ends, LastTaken, FirstStart, RowsOnTop, NoGap, Covered, TypeOK
<1>6. ASSUME NEW h \in Heights, HandleErr(h) PROVE GapInv'
  <2>1. errors' # 0
    BY <1>6 DEF HandleErr, TypeOK
  <2> QED BY <1>6, <2>1 DEF HandleErr, stream, LastTaken, FirstStart, RowsOnTop, NoGap, Covered, TypeOK
<1>7. ASSUME NEW a \in Args, Start(a) PROVE GapInv'
  BY <1>7, StartCovers
<1>8. ASSUME NEW a \in Args, StartWithoutDb(a) PROVE GapInv'
  <2>1. errors' # 0
    BY <1>8 DEF StartWithoutDb, TypeOK
  <2>2. starts' # 0
    BY <1>8, StreamConstants DEF StartWithoutDb, StartAt, TypeOK
  <2>3. LastTaken'
    BY <1>8 DEF StartWithoutDb, StartAt, LastTaken
  <2> QED BY <2>1, <2>2, <2>3 DEF FirstStart, RowsOnTop, NoGap
<1>9. ASSUME NEW h \in Heights, Send(h) PROVE GapInv'
  BY <1>9 DEF Send, ends, LastTaken, FirstStart, RowsOnTop, NoGap, Covered
<1>10. CASE Mark
  BY <1>10 DEF Mark, ends, LastTaken, FirstStart, RowsOnTop, NoGap, Covered
<1>11. CASE ShutDown
  BY <1>11 DEF ShutDown, stream, ends, LastTaken, FirstStart, RowsOnTop, NoGap, Covered, InFlight
<1>12. CASE Crash
  BY <1>12 DEF Crash, stream, ends, LastTaken, FirstStart, RowsOnTop, NoGap, Covered, NoHandlers
<1> QED
  BY <1>1, <1>2, <1>3, <1>4, <1>5, <1>6, <1>7, <1>8, <1>9, <1>10, <1>11, <1>12
     DEF Next, Indexer, Node

(* Whatever the heights, the number of interruptions, the deltas other     *)
(* than 1 and the blocks skipped by the operator: nothing between the      *)
(* origin and the stream is left out, unless a start that was to continue  *)
(* found no row (main.rs: listen_blocks, construct_near_indexer_config).   *)
THEOREM NothingLeftOut == Sequential => (Spec => []NoGap)
<1> SUFFICES ASSUME Sequential PROVE Spec => []NoGap
  OBVIOUS
<1>1. Init => GapInv
  <2> SUFFICES ASSUME Init PROVE GapInv
    OBVIOUS
  <2>1. LastTaken /\ FirstStart /\ RowsOnTop
    BY DEF Init, LastTaken, FirstStart, RowsOnTop, NoHandlers
  <2>2. NoGap
    BY DEF Init, NoGap
  <2> QED BY <2>1, <2>2, TypeInitial DEF GapInv
<1>2. GapInv /\ [Next]_vars => GapInv'
  BY GapInductive
<1>3. GapInv => NoGap
  BY DEF GapInv
<1> QED BY <1>1, <1>2, <1>3, PTL DEF Spec
=============================================================================
