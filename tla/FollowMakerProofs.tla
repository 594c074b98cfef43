-------------------------- MODULE FollowMakerProofs --------------------------
(***************************************************************************)
(* Theorems about FollowMaker for any markets and bounds.                  *)
(*                                                                         *)
(* The inductive invariant says where an order may rest, what a tick that  *)
(* is about to fill or to enter still knows of its market, and, until the  *)
(* first sweep, that nothing takes the slot it has just emptied.           *)
(***************************************************************************)
EXTENDS FollowMaker, TLAPS

\* A tick that found no position and may open one, and one that fills an order.
Entering == tick.pc \in {"route", "taker", "entering", "filling", "gate", "put"}
Filling  == tick.pc \in {"filling", "filled"}

\* An order rests on one market, and was placed.
SlotsApart ==
  /\ \A m \in Markets : slot[m] <= placed
  /\ \A m, n \in Markets : slot[m] = slot[n] /\ slot[m] # 0 => m = n

\* Whoever runs has a market, and a fill is of the market it was found on.
Placing ==
  /\ tick.pc # "idle" => here \in Markets
  /\ sweep.pc = "put" => sweep.market \in Markets
  /\ Filling => /\ tick.order \in 1..placed
                /\ \A m \in Markets : slot[m] = tick.order => m = here

\* What was filled rests no more, except while the tick that filled it goes on.
FilledAway(i) ==
  fills[i] > 0 =>
    /\ i <= placed
    /\ (At("filled") /\ tick.order = i) \/ \A m \in Markets : slot[m] # i

\* Of a market none of whose entries was cut short, what a tick read still holds.
EntersOnce ==
  \A m \in Markets \ CutMarkets :
    /\ open[m] <= 1
    /\ Entering /\ here = m => open[m] = 0

\* Of an order whose fill was not cut short, what a tick found still holds.
FillsOnce ==
  \A i \in Ids \ CutOrders :
    /\ fills[i] <= 1
    /\ At("filling") /\ tick.order = i => fills[i] = 0
    /\ FilledAway(i)

\* Until the first sweep the slot a tick emptied stays empty, so that no order is put over
\* another, and only the tick that filled it has an order beside a position.
Alone ==
  ~swept => /\ sweep = IdleSweep
            /\ tick.pc \in {"taker", "entering", "gate", "put"} => slot[here] = 0
            /\ \A i \in 1..placed : i \in gone \/ \E m \in Markets : slot[m] = i
            /\ \A m \in Markets \ CutMarkets :
                 open[m] > 0 /\ slot[m] # 0 => At("filled") /\ here = m

IInv == /\ TypeOK /\ SlotsApart /\ Placing /\ stray \subseteq cut
        /\ EntersOnce /\ FillsOnce /\ Alone

-----------------------------------------------------------------------------
(* Types.                                                                  *)

SlotsTyped  == slot \in [Markets -> Ids \cup {0}] /\ placed \in 0..MaxOrders /\ gone \subseteq Ids
LedgerTyped == open \in [Markets -> Nat] /\ fills \in [Ids -> Nat]

\* Taking an order away keeps the types of the slots.
LEMMA TakeTyped ==
  ASSUME TypeOK, NEW m \in Markets, Take(m), UNCHANGED placed
  PROVE  SlotsTyped'
<1>1. slot' \in [Markets -> Ids \cup {0}]
  BY DEF TypeOK, Take
<1>2. gone' \subseteq Ids
  BY DEF TypeOK, Take
<1> QED BY <1>1, <1>2 DEF SlotsTyped, TypeOK

\* Putting one keeps them.
LEMMA PutTyped ==
  ASSUME TypeOK, NEW m \in Markets, Put(m), UNCHANGED gone
  PROVE  SlotsTyped'
<1>1. placed' \in 0..MaxOrders /\ placed + 1 \in Ids
  BY NumbersAssumption DEF TypeOK, Put, Ids
<1>2. slot' \in [Markets -> Ids \cup {0}]
  BY <1>1 DEF TypeOK, Put
<1> QED BY <1>1, <1>2 DEF SlotsTyped, TypeOK

\* Recording a position keeps the types of the ledger.
LEMMA RecordTyped ==
  ASSUME TypeOK, NEW m \in Markets, NEW i \in Ids \cup {0}, Record(m, i)
  PROVE  LedgerTyped'
<1>1. open' \in [Markets -> Nat]
  BY DEF TypeOK, Record
<1>2. fills' \in [Ids -> Nat]
  BY DEF TypeOK, Record
<1> QED BY <1>1, <1>2 DEF LedgerTyped

\* Every step of a tick keeps the types.
LEMMA TickTyped ==
  ASSUME TypeOK, Placing, TickStep
  PROVE  TypeOK'
<1> USE DEF orders, ledger, offTick, At, Goto
<1>1. here \in Markets /\ pending \in Ids \cup {0} /\ tick.order \in Ids \cup {0}
  BY DEF TickStep, Follow, Placing, TypeOK, pending, here, Tick, TickRead, TickManage, TickClose,
         TickTaker, TickNoEntry, TickApprove, TickEnter, FollowFill, FollowRecord,
         FollowFilled, FollowExpire, FollowStay, FollowBlocked, FollowReplace, FollowPlace, FollowPut, Following
<1>2. CASE TickRead
  BY <1>2 DEF TickRead, TypeOK, Tick
<1>3. CASE TickManage
  <2>1. SlotsTyped'
    BY <1>1, <1>3, TakeTyped DEF TickManage
  <2>2. tick' \in Tick
    BY <1>3 DEF TickManage, TypeOK, Tick, IdleTick
  <2> QED BY <1>3, <2>1, <2>2 DEF TickManage, SlotsTyped, TypeOK
<1>4. CASE TickClose
  BY <1>1, <1>4 DEF TickClose, TypeOK, Tick, IdleTick
<1>5. CASE TickTaker
  <2>1. SlotsTyped'
    BY <1>1, <1>5, TakeTyped DEF TickTaker
  <2> QED BY <1>5, <2>1 DEF TickTaker, SlotsTyped, TypeOK, Tick
<1>6. CASE TickEnter
  <2>1. LedgerTyped'
    BY <1>1, <1>6, RecordTyped DEF TickEnter
  <2> QED BY <1>6, <2>1 DEF TickEnter, LedgerTyped, TypeOK, Tick, IdleTick
<1>14. CASE TickNoEntry \/ TickApprove
  BY <1>14 DEF TickNoEntry, TickApprove, TypeOK, Tick, IdleTick
<1>7. CASE FollowFill
  BY <1>1, <1>7 DEF FollowFill, TypeOK, Tick
<1>8. CASE FollowRecord
  <2>1. LedgerTyped'
    BY <1>1, <1>8, RecordTyped DEF FollowRecord
  <2> QED BY <1>8, <2>1 DEF FollowRecord, LedgerTyped, TypeOK, Tick
<1>9. CASE FollowFilled
  <2>1. slot' \in [Markets -> Ids \cup {0}] /\ gone' \subseteq Ids
    BY <1>1, <1>9 DEF FollowFilled, TypeOK
  <2> QED BY <1>9, <2>1 DEF FollowFilled, TypeOK, Tick, IdleTick
<1>10. CASE FollowExpire \/ FollowReplace
  <2>1. SlotsTyped'
    BY <1>1, <1>10, TakeTyped DEF FollowExpire, FollowReplace
  <2> QED BY <1>10, <2>1 DEF FollowExpire, FollowReplace, SlotsTyped, TypeOK, Tick
<1>11. CASE FollowStay
  BY <1>11 DEF FollowStay, TypeOK, Tick, IdleTick
<1>12. CASE FollowBlocked
  <2>1. SlotsTyped'
    BY <1>1, <1>12, TakeTyped DEF FollowBlocked, SlotsTyped, TypeOK
  <2> QED BY <1>12, <2>1 DEF FollowBlocked, SlotsTyped, TypeOK, Tick, IdleTick
<1>13. CASE FollowPlace \/ FollowPut
  <2>1. SlotsTyped'
    BY <1>1, <1>13, PutTyped DEF FollowPlace, FollowPut, SlotsTyped, TypeOK
  <2> QED BY <1>13, <2>1 DEF FollowPlace, FollowPut, SlotsTyped, TypeOK, Tick, IdleTick
<1> QED BY <1>2, <1>3, <1>4, <1>5, <1>6, <1>7, <1>8, <1>9, <1>10, <1>11, <1>12, <1>13, <1>14
        DEF TickStep, Follow

\* Every step keeps the types.
LEMMA NextTyped ==
  ASSUME TypeOK, Placing, [Next]_vars
  PROVE  TypeOK'
<1> USE DEF orders, ledger, offTick, offSweep
<1>1. ASSUME NEW m \in Markets, TickStart(m) PROVE TypeOK'
  BY <1>1 DEF TickStart, TypeOK, Tick, IdleTick
<1>2. CASE SweepStart
  BY <1>2 DEF SweepStart, TypeOK, Sweep, IdleSweep
<1>3. CASE SweepPut
  <2>1. SlotsTyped'
    BY <1>3, PutTyped DEF SweepPut, Placing, SlotsTyped, TypeOK
  <2>2. sweep' \in Sweep
    BY <1>3 DEF SweepPut, TypeOK, Sweep
  <2> QED BY <1>3, <2>1, <2>2 DEF SweepPut, SlotsTyped, TypeOK
<1>4. CASE SweepEnd
  BY <1>4 DEF SweepEnd, TypeOK, Sweep, IdleSweep
<1>5. ASSUME NEW m \in Markets, SweepSkip(m) PROVE TypeOK'
  BY <1>5 DEF SweepSkip, TypeOK, Sweep
<1>6. ASSUME NEW m \in Markets, SweepDrop(m) PROVE TypeOK'
  <2>1. SlotsTyped'
    BY <1>6, TakeTyped DEF SweepDrop
  <2>2. sweep' \in Sweep
    BY <1>6 DEF SweepDrop, TypeOK, Sweep
  <2> QED BY <1>6, <2>1, <2>2 DEF SweepDrop, SlotsTyped, TypeOK
<1>7. ASSUME NEW A \in SUBSET Markets, Discover(A) PROVE TypeOK'
  <2>1. tick.pc # "idle" => <<here, tick.order>> \in Markets \X (Ids \cup {0})
    BY DEF Placing, here, TypeOK, Tick
  <2>2. /\ cut' \subseteq Markets \X (Ids \cup {0})
        /\ stray' \subseteq Markets \X (Ids \cup {0})
    BY <1>7, <2>1 DEF Discover, CancelTick, TypeOK
  <2>3. tick' \in Tick
    BY <1>7 DEF Discover, CancelTick, IdleTick, Tick
  <2> QED BY <1>7, <2>2, <2>3 DEF Discover, TypeOK
<1>13. ASSUME NEW B \in SUBSET Markets, Block(B) PROVE TypeOK'
  BY <1>13 DEF Block, TypeOK
<1>8. ASSUME NEW s \in Markets \X (Ids \cup {0}), StrayRecord(s) PROVE TypeOK'
  <2>1. LedgerTyped'
    BY <1>8, RecordTyped DEF StrayRecord
  <2> QED BY <1>8, <2>1 DEF StrayRecord, LedgerTyped, TypeOK
<1>9. ASSUME NEW m \in Markets, OrphanClose(m) \/ CooldownElapses(m) PROVE TypeOK'
  BY <1>9 DEF OrphanClose, CooldownElapses, TypeOK
<1>10. ASSUME NEW i \in Ids, Age(i) PROVE TypeOK'
  BY <1>10 DEF Age, TypeOK
<1>11. CASE Crash
  <2>1. slot' \in [Markets -> Ids \cup {0}] /\ gone' \subseteq Ids
    BY <1>11 DEF Crash, TypeOK
  <2>2. tick' \in Tick /\ sweep' \in Sweep
    BY <1>11 DEF Crash, IdleTick, IdleSweep, Tick, Sweep
  <2> QED BY <1>11, <2>1, <2>2 DEF Crash, TypeOK
<1>12. CASE UNCHANGED vars
  BY <1>12 DEF vars, TypeOK
<1> QED BY <1>1, <1>2, <1>3, <1>4, <1>5, <1>6, <1>7, <1>8, <1>9, <1>10, <1>11, <1>12, <1>13,
       TickTyped DEF Next, SweepStep

-----------------------------------------------------------------------------
(* Where orders rest.                                                      *)

\* Taking an order away keeps the orders apart.
LEMMA TakeApart ==
  ASSUME TypeOK, SlotsApart, NEW m \in Markets, Take(m), UNCHANGED placed
  PROVE  SlotsApart'
BY NumbersAssumption DEF TypeOK, SlotsApart, Take, Ids

\* Putting a new one keeps them apart.
LEMMA PutApart ==
  ASSUME TypeOK, SlotsApart, NEW m \in Markets, Put(m)
  PROVE  SlotsApart'
<1>1. placed' = placed + 1 /\ placed \in Nat
  BY NumbersAssumption DEF TypeOK, Put
<1>2. \A n \in Markets : slot[n] \in Nat /\ slot'[n] = IF n = m THEN placed + 1 ELSE slot[n]
  BY NumbersAssumption DEF TypeOK, Put, Ids
<1> QED BY <1>1, <1>2 DEF SlotsApart

\* Every step keeps the orders apart.
LEMMA NextApart ==
  ASSUME TypeOK, SlotsApart, Placing, [Next]_vars
  PROVE  SlotsApart'
<1> USE NumbersAssumption DEF here, At, pending, Ids
<1>1. ASSUME NEW m \in Markets, TickStart(m) PROVE SlotsApart'
  BY <1>1 DEF TickStart, orders, SlotsApart
<1>2. CASE TickRead
  BY <1>2 DEF TickRead, orders, SlotsApart
<1>3. CASE TickManage
  BY <1>3, TakeApart DEF TickManage, At, Placing
<1>4. CASE TickClose
  BY <1>4 DEF TickClose, orders, SlotsApart
<1>5. CASE TickTaker
  BY <1>5, TakeApart DEF TickTaker, At, Placing
<1>6. CASE TickEnter
  BY <1>6 DEF TickEnter, orders, SlotsApart
<1>7. CASE FollowFill
  BY <1>7 DEF FollowFill, orders, SlotsApart
<1>8. CASE FollowRecord
  BY <1>8 DEF FollowRecord, orders, SlotsApart
<1>9. CASE FollowFilled
  BY <1>9 DEF FollowFilled, IdleTick, ledger, offTick, SlotsApart, TypeOK
<1>10. CASE FollowExpire
  BY <1>10, TakeApart DEF FollowExpire, At, Placing
<1>11. CASE FollowStay
  BY <1>11 DEF FollowStay, orders, SlotsApart
<1>12. CASE FollowBlocked
  BY <1>12, TakeApart DEF FollowBlocked, Following, At, Placing, SlotsApart
<1>13. CASE FollowReplace
  BY <1>13, TakeApart DEF FollowReplace, Following, At, Placing
<1>14. CASE FollowPlace
  BY <1>14, PutApart DEF FollowPlace, Following, At, Placing
<1>15. CASE FollowPut
  BY <1>15, PutApart DEF FollowPut, At, Placing, SlotsApart
<1>16. CASE SweepStart \/ SweepEnd
  BY <1>16 DEF SweepStart, SweepEnd, orders, SlotsApart
<1>17. CASE SweepPut
  BY <1>17, PutApart DEF SweepPut, Placing, SlotsApart
<1>18. ASSUME NEW m \in Markets, SweepDrop(m) PROVE SlotsApart'
  BY <1>18, TakeApart DEF SweepDrop
<1>19. ASSUME NEW m \in Markets, SweepSkip(m) \/ CooldownElapses(m) PROVE SlotsApart'
  BY <1>19 DEF SweepSkip, CooldownElapses, orders, SlotsApart
<1>20. ASSUME NEW m \in Markets, OrphanClose(m) PROVE SlotsApart'
  BY <1>20 DEF OrphanClose, orders, SlotsApart
<1>21. ASSUME NEW A \in SUBSET Markets, Discover(A) PROVE SlotsApart'
  BY <1>21 DEF Discover, orders, SlotsApart
<1>22. ASSUME NEW s \in Markets \X (Ids \cup {0}), StrayRecord(s) PROVE SlotsApart'
  BY <1>22 DEF StrayRecord, orders, SlotsApart
<1>23. ASSUME NEW i \in Ids, Age(i) PROVE SlotsApart'
  BY <1>23 DEF Age, orders, SlotsApart
<1>24. CASE Crash
  BY <1>24 DEF Crash, IdleTick, IdleSweep, ledger, SlotsApart, TypeOK
<1>26. CASE TickNoEntry \/ TickApprove
  <2>1. CASE TickNoEntry
    BY <2>1 DEF TickNoEntry, Goto, orders, SlotsApart
  <2>2. CASE TickApprove
    BY <2>2 DEF TickApprove, Goto, orders, SlotsApart
  <2> QED BY <1>26, <2>1, <2>2
<1>27. ASSUME NEW B \in SUBSET Markets, Block(B) PROVE SlotsApart'
  BY <1>27 DEF Block, orders, SlotsApart
<1>25. CASE UNCHANGED vars
  BY <1>25 DEF vars, SlotsApart
<1> QED BY <1>1, <1>2, <1>3, <1>4, <1>5, <1>6, <1>7, <1>8, <1>9, <1>10, <1>11, <1>12, <1>13,
       <1>14, <1>15, <1>16, <1>17, <1>18, <1>19, <1>20, <1>21, <1>22, <1>23, <1>24, <1>25,
       <1>26, <1>27
       DEF Next, TickStep, Follow, SweepStep

\* Every step keeps what a tick and the sweep know of their markets.
LEMMA NextPlacing ==
  ASSUME TypeOK, SlotsApart, Placing, [Next]_vars
  PROVE  Placing'
<1> USE NumbersAssumption DEF here, At, pending, Ids
<1>1. ASSUME NEW m \in Markets, TickStart(m) PROVE Placing'
  BY <1>1 DEF TickStart, offTick, Placing, Filling
<1>2. CASE TickRead
  BY <1>2 DEF TickRead, Goto, offTick, Placing, Filling
<1>3. CASE TickManage
  <2>1. tick' = IdleTick \/ (tick'.pc = "closing" /\ tick'.market = here)
    BY <1>3 DEF TickManage, TypeOK, Tick
  <2>2. here \in Markets /\ UNCHANGED sweep
    BY <1>3 DEF TickManage, offTick, Placing
  <2> QED BY <2>1, <2>2 DEF IdleTick, Placing, Filling
<1>4. CASE TickClose
  BY <1>4 DEF TickClose, IdleTick, offTick, Placing, Filling
<1>5. CASE TickTaker
  BY <1>5 DEF TickTaker, Goto, offTick, Placing, Filling
<1>6. CASE TickEnter
  BY <1>6 DEF TickEnter, IdleTick, offTick, Placing, Filling
<1>7. CASE FollowFill
  BY <1>7 DEF FollowFill, orders, offTick, Placing, SlotsApart, TypeOK
<1>8. CASE FollowRecord
  BY <1>8 DEF FollowRecord, Goto, orders, offTick, Placing, Filling
<1>9. CASE FollowFilled
  BY <1>9 DEF FollowFilled, IdleTick, offTick, Placing, Filling
<1>10. CASE FollowExpire
  BY <1>10 DEF FollowExpire, Goto, offTick, Placing, Filling
<1>11. CASE FollowStay
  BY <1>11 DEF FollowStay, IdleTick, offTick, Placing, Filling
<1>12. CASE FollowBlocked
  BY <1>12 DEF FollowBlocked, IdleTick, offTick, Placing, Filling
<1>13. CASE FollowReplace
  BY <1>13 DEF FollowReplace, Following, Goto, offTick, Placing, Filling
<1>14. CASE FollowPlace
  BY <1>14 DEF FollowPlace, IdleTick, offTick, Placing, Filling
<1>15. CASE FollowPut
  BY <1>15 DEF FollowPut, IdleTick, offTick, Placing, Filling
<1>16. CASE SweepStart \/ SweepEnd
  <2>1. UNCHANGED <<slot, placed, tick>>
    BY <1>16 DEF SweepStart, SweepEnd, orders, offSweep
  <2>2. CASE SweepStart
    <3>1. sweep'.pc = "scan"
      BY <2>2 DEF SweepStart, IdleSweep
    <3> QED BY <2>1, <3>1 DEF Placing, Filling
  <2>3. CASE SweepEnd
    BY <2>1, <2>3 DEF SweepEnd, IdleSweep, Placing, Filling
  <2> QED BY <1>16, <2>2, <2>3
<1>17. CASE SweepPut
  BY <1>17 DEF SweepPut, Put, offSweep, Placing, Filling, TypeOK
<1>18. ASSUME NEW m \in Markets, SweepDrop(m) PROVE Placing'
  BY <1>18 DEF SweepDrop, Take, offSweep, Placing, Filling
<1>19. ASSUME NEW m \in Markets, SweepSkip(m) \/ CooldownElapses(m) PROVE Placing'
  BY <1>19 DEF SweepSkip, CooldownElapses, orders, offSweep, Placing, Filling, TypeOK, Sweep
<1>20. ASSUME NEW m \in Markets, OrphanClose(m) PROVE Placing'
  BY <1>20 DEF OrphanClose, orders, Placing, Filling
<1>21. ASSUME NEW A \in SUBSET Markets, Discover(A) PROVE Placing'
  BY <1>21 DEF Discover, CancelTick, IdleTick, Placing, Filling
<1>22. ASSUME NEW s \in Markets \X (Ids \cup {0}), StrayRecord(s) PROVE Placing'
  BY <1>22 DEF StrayRecord, orders, Placing, Filling
<1>23. ASSUME NEW i \in Ids, Age(i) PROVE Placing'
  BY <1>23 DEF Age, orders, Placing, Filling
<1>24. CASE Crash
  BY <1>24 DEF Crash, IdleTick, IdleSweep, Placing, Filling
<1>26. CASE TickNoEntry \/ TickApprove
  <2>1. CASE TickNoEntry
    BY <2>1 DEF TickNoEntry, Goto, orders, offTick, IdleTick, Placing, Filling
  <2>2. CASE TickApprove
    BY <2>2 DEF TickApprove, Goto, orders, offTick, IdleTick, Placing, Filling
  <2> QED BY <1>26, <2>1, <2>2
<1>27. ASSUME NEW B \in SUBSET Markets, Block(B) PROVE Placing'
  BY <1>27 DEF Block, orders, offTick, IdleTick, Placing, Filling
<1>25. CASE UNCHANGED vars
  BY <1>25 DEF vars, Placing, Filling
<1> QED BY <1>1, <1>2, <1>3, <1>4, <1>5, <1>6, <1>7, <1>8, <1>9, <1>10, <1>11, <1>12, <1>13,
       <1>14, <1>15, <1>16, <1>17, <1>18, <1>19, <1>20, <1>21, <1>22, <1>23, <1>24, <1>25,
       <1>26, <1>27
       DEF Next, TickStep, Follow, SweepStep

-----------------------------------------------------------------------------
(* Fills and positions.                                                    *)

\* What was cut short stays on record, and an insert goes on only of what was.
LEMMA NextStrays ==
  ASSUME stray \subseteq cut, [Next]_vars
  PROVE  cut \subseteq cut' /\ stray' \subseteq cut'
<1> DEFINE Kept == cut \subseteq cut' /\ stray' \subseteq cut'
<1>1. CASE TickStep \/ \E m \in Markets : TickStart(m)
  BY <1>1 DEF TickStep, TickStart, TickRead, TickManage, TickClose, TickTaker, TickNoEntry,
         TickApprove, TickEnter, Follow, FollowFill, FollowRecord, FollowFilled, FollowExpire,
         FollowStay, FollowBlocked, FollowReplace, FollowPlace, FollowPut, offTick
<1>2. CASE SweepStart \/ SweepStep
  BY <1>2 DEF SweepStart, SweepStep, SweepPut, SweepEnd, SweepSkip, SweepDrop, offSweep
<1>3. ASSUME NEW A \in SUBSET Markets, Discover(A) PROVE Kept
  BY <1>3 DEF Discover, CancelTick
<1>4. ASSUME NEW s \in Markets \X (Ids \cup {0}), StrayRecord(s) PROVE Kept
  BY <1>4 DEF StrayRecord
<1>5. ASSUME NEW m \in Markets, OrphanClose(m) \/ CooldownElapses(m) PROVE Kept
  BY <1>5 DEF OrphanClose, CooldownElapses
<1>6. ASSUME NEW B \in SUBSET Markets, Block(B) PROVE Kept
  BY <1>6 DEF Block
<1>7. CASE Crash \/ \E i \in Ids : Age(i)
  BY <1>7 DEF Crash, Age
<1>8. CASE UNCHANGED vars
  BY <1>8 DEF vars
<1> QED BY <1>1, <1>2, <1>3, <1>4, <1>5, <1>6, <1>7, <1>8 DEF Next

\* Every step keeps what a tick that enters has read of its market.
LEMMA NextEntersOnce ==
  ASSUME TypeOK, Placing, stray \subseteq cut, EntersOnce, [Next]_vars
  PROVE  EntersOnce'
<1> SUFFICES ASSUME NEW n \in Markets, n \notin CutMarkets'
             PROVE  open'[n] <= 1 /\ (Entering' /\ here' = n => open'[n] = 0)
  BY DEF EntersOnce
<1>0. n \notin CutMarkets
  BY NextStrays DEF CutMarkets
<1>a. open[n] <= 1 /\ (Entering /\ here = n => open[n] = 0) /\ open[n] \in Nat
  BY <1>0 DEF EntersOnce, TypeOK
<1> DEFINE Once == open'[n] <= 1 /\ (Entering' /\ here' = n => open'[n] = 0)
<1> USE DEF here, At
<1>1. ASSUME NEW m \in Markets, TickStart(m) PROVE Once
  BY <1>1, <1>a DEF TickStart, orders, ledger, offTick, IdleTick, Entering
<1>2. CASE TickRead
  BY <1>2, <1>a DEF TickRead, Goto, orders, ledger, offTick, Entering, TypeOK, Tick
<1>3. CASE TickManage
  BY <1>3, <1>a DEF TickManage, Take, IdleTick, ledger, offTick, Entering, TypeOK, Tick
<1>4. CASE TickClose
  BY <1>4, <1>a DEF TickClose, IdleTick, orders, offTick, Entering, TypeOK
<1>5. CASE TickTaker
  BY <1>5, <1>a DEF TickTaker, Take, Goto, ledger, offTick, Entering
<1>6. CASE TickEnter
  <2>1. here \in Markets /\ Entering
    BY <1>6 DEF TickEnter, Placing, Entering
  <2>2. open'[n] = IF n = here THEN open[n] + 1 ELSE open[n]
    BY <1>6, <2>1 DEF TickEnter, Record, TypeOK
  <2> QED BY <1>6, <1>a, <2>1, <2>2 DEF TickEnter, IdleTick, Entering
<1>7. CASE FollowFill
  BY <1>7, <1>a DEF FollowFill, orders, ledger, offTick, Entering
<1>8. CASE FollowRecord
  <2>1. here \in Markets /\ Entering
    BY <1>8 DEF FollowRecord, Placing, Entering
  <2>2. open'[n] = IF n = here THEN open[n] + 1 ELSE open[n]
    BY <1>8, <2>1 DEF FollowRecord, Record, TypeOK
  <2>3. ~Entering'
    BY <1>8 DEF FollowRecord, Goto, Entering, TypeOK, Tick
  <2> QED BY <1>a, <2>1, <2>2, <2>3
<1>9. CASE FollowFilled
  BY <1>9, <1>a DEF FollowFilled, IdleTick, ledger, offTick, Entering
<1>10. CASE FollowExpire
  BY <1>10, <1>a DEF FollowExpire, Take, Goto, ledger, offTick, Entering
<1>11. CASE FollowStay
  BY <1>11, <1>a DEF FollowStay, IdleTick, Following, orders, ledger, offTick, Entering
<1>12. CASE FollowBlocked
  BY <1>12, <1>a DEF FollowBlocked, Take, IdleTick, Following, ledger, offTick, Entering
<1>13. CASE FollowReplace
  BY <1>13, <1>a DEF FollowReplace, Take, Following, Goto, ledger, offTick, Entering
<1>14. CASE FollowPlace
  BY <1>14, <1>a DEF FollowPlace, Put, IdleTick, Following, ledger, offTick, Entering
<1>15. CASE FollowPut
  BY <1>15, <1>a DEF FollowPut, Put, IdleTick, ledger, offTick, Entering
<1>16. CASE SweepStart \/ SweepEnd
  BY <1>16, <1>a DEF SweepStart, SweepEnd, orders, offSweep, ledger, Entering
<1>17. CASE SweepPut
  BY <1>17, <1>a DEF SweepPut, Put, offSweep, ledger, Entering
<1>18. ASSUME NEW m \in Markets, SweepDrop(m) PROVE Once
  BY <1>18, <1>a DEF SweepDrop, Take, offSweep, ledger, Entering
<1>19. ASSUME NEW m \in Markets, SweepSkip(m) \/ CooldownElapses(m) PROVE Once
  BY <1>19, <1>a DEF SweepSkip, CooldownElapses, orders, offSweep, ledger, Entering
<1>20. ASSUME NEW m \in Markets, OrphanClose(m) PROVE Once
  BY <1>20, <1>a DEF OrphanClose, orders, Entering, TypeOK
<1>21. ASSUME NEW A \in SUBSET Markets, Discover(A) PROVE Once
  BY <1>21, <1>a DEF Discover, CancelTick, IdleTick, orders, ledger, Entering
<1>22. ASSUME NEW s \in Markets \X (Ids \cup {0}), StrayRecord(s) PROVE Once
  <2>1. s[1] # n
    BY <1>22, <1>0 DEF StrayRecord, CutMarkets
  <2>2. open'[n] = open[n] /\ tick' = tick
    BY <1>22, <2>1 DEF StrayRecord, Record, TypeOK
  <2> QED BY <1>a, <2>2 DEF Entering
<1>23. ASSUME NEW i \in Ids, Age(i) PROVE Once
  BY <1>23, <1>a DEF Age, orders, ledger, Entering
<1>24. CASE Crash
  BY <1>24, <1>a DEF Crash, IdleTick, ledger, Entering
<1>25. CASE UNCHANGED vars
  BY <1>25, <1>a DEF vars, Entering
<1>26. CASE TickNoEntry \/ TickApprove
  <2>1. CASE TickNoEntry
    BY <2>1, <1>a DEF TickNoEntry, Goto, IdleTick, orders, ledger, offTick, Entering
  <2>2. CASE TickApprove
    BY <2>2, <1>a DEF TickApprove, Goto, IdleTick, orders, ledger, offTick, Entering
  <2> QED BY <1>26, <2>1, <2>2
<1>27. ASSUME NEW B \in SUBSET Markets, Block(B) PROVE Once
  BY <1>27, <1>a DEF Block, orders, ledger, Entering
<1> QED BY <1>1, <1>2, <1>3, <1>4, <1>5, <1>6, <1>7, <1>8, <1>9, <1>10, <1>11, <1>12, <1>13,
       <1>14, <1>15, <1>16, <1>17, <1>18, <1>19, <1>20, <1>21, <1>22, <1>23, <1>24, <1>25,
       <1>26, <1>27
       DEF Next, TickStep, Follow, SweepStep

\* Every step keeps what a tick that fills has found of its order.
LEMMA NextFillsOnce ==
  ASSUME TypeOK, SlotsApart, Placing, stray \subseteq cut, FillsOnce, [Next]_vars
  PROVE  FillsOnce'
<1> SUFFICES ASSUME NEW j \in Ids, j \notin CutOrders'
             PROVE  /\ fills'[j] <= 1
                    /\ At("filling")' /\ tick'.order = j => fills'[j] = 0
                    /\ FilledAway(j)'
  BY DEF FillsOnce
<1>0. j \notin CutOrders
  BY NextStrays DEF CutOrders
<1>a. /\ fills[j] <= 1 /\ fills[j] \in Nat /\ j \in Nat /\ j # 0
      /\ At("filling") /\ tick.order = j => fills[j] = 0
      /\ FilledAway(j)
  BY <1>0, NumbersAssumption DEF FillsOnce, TypeOK, Ids
<1> DEFINE Once == /\ fills'[j] <= 1
                   /\ At("filling")' /\ tick'.order = j => fills'[j] = 0
                   /\ FilledAway(j)'
<1> USE NumbersAssumption DEF here, At, pending, Ids
<1>1. ASSUME NEW m \in Markets, TickStart(m) PROVE Once
  BY <1>1, <1>a DEF TickStart, orders, ledger, offTick, IdleTick, FilledAway
<1>2. CASE TickRead
  BY <1>2, <1>a DEF TickRead, Goto, orders, ledger, offTick, FilledAway
<1>3. CASE TickManage
  BY <1>3, <1>a DEF TickManage, Take, IdleTick, ledger, offTick, FilledAway, TypeOK, Tick
<1>4. CASE TickClose
  BY <1>4, <1>a DEF TickClose, IdleTick, orders, offTick, FilledAway
<1>5. CASE TickTaker
  BY <1>5, <1>a DEF TickTaker, Take, Goto, ledger, offTick, FilledAway
<1>6. CASE TickEnter
  <2>1. UNCHANGED <<slot, placed, fills>> /\ tick.pc = "entering" /\ tick' = IdleTick
    BY <1>6 DEF TickEnter, Record, orders, Placing
  <2> QED BY <1>a, <2>1 DEF IdleTick, FilledAway
<1>7. CASE FollowFill
  BY <1>7, <1>a DEF FollowFill, orders, ledger, offTick, FilledAway, Placing, TypeOK, Tick
<1>8. CASE FollowRecord
  BY <1>8, <1>a DEF FollowRecord, Record, Goto, orders, offTick, FilledAway, Placing, Filling,
         TypeOK
<1>9. CASE FollowFilled
  BY <1>9, <1>a DEF FollowFilled, IdleTick, ledger, offTick, FilledAway, Placing, Filling,
         TypeOK
<1>10. CASE FollowExpire
  BY <1>10, <1>a DEF FollowExpire, Take, Goto, ledger, offTick, FilledAway
<1>11. CASE FollowStay
  BY <1>11, <1>a DEF FollowStay, IdleTick, Following, orders, ledger, offTick, FilledAway
<1>12. CASE FollowBlocked
  BY <1>12, <1>a DEF FollowBlocked, Take, IdleTick, Following, ledger, offTick, FilledAway, TypeOK
<1>13. CASE FollowReplace
  BY <1>13, <1>a DEF FollowReplace, Take, Following, Goto, ledger, offTick, FilledAway
<1>14. CASE FollowPlace
  BY <1>14, <1>a DEF FollowPlace, Put, IdleTick, Following, ledger, offTick, FilledAway, TypeOK
<1>15. CASE FollowPut
  BY <1>15, <1>a DEF FollowPut, Put, IdleTick, ledger, offTick, FilledAway, TypeOK
<1>16. CASE SweepStart \/ SweepEnd
  BY <1>16, <1>a DEF SweepStart, SweepEnd, orders, offSweep, ledger, FilledAway
<1>17. CASE SweepPut
  BY <1>17, <1>a DEF SweepPut, Put, offSweep, ledger, FilledAway, TypeOK, Placing
<1>18. ASSUME NEW m \in Markets, SweepDrop(m) PROVE Once
  BY <1>18, <1>a DEF SweepDrop, Take, offSweep, ledger, FilledAway
<1>19. ASSUME NEW m \in Markets, SweepSkip(m) \/ CooldownElapses(m) PROVE Once
  BY <1>19, <1>a DEF SweepSkip, CooldownElapses, orders, offSweep, ledger, FilledAway
<1>20. ASSUME NEW m \in Markets, OrphanClose(m) PROVE Once
  BY <1>20, <1>a DEF OrphanClose, orders, FilledAway
<1>21. ASSUME NEW A \in SUBSET Markets, Discover(A) PROVE Once
  <2>1. At("filled") => tick.order \in CutOrders'
    <3>1. At("filled") => <<here, tick.order>> \in cut'
      BY <1>21 DEF Discover, CancelTick
    <3> QED BY <3>1 DEF CutOrders
  <2>2. UNCHANGED <<orders, ledger>> /\ tick' = IdleTick
    BY <1>21 DEF Discover, CancelTick
  <2> QED BY <1>a, <2>1, <2>2 DEF orders, ledger, IdleTick, FilledAway
<1>22. ASSUME NEW s \in Markets \X (Ids \cup {0}), StrayRecord(s) PROVE Once
  <2>1. s[2] # j
    BY <1>22, <1>0 DEF StrayRecord, CutOrders
  <2>2. fills'[j] = fills[j] /\ UNCHANGED <<slot, placed, tick>>
    BY <1>22, <2>1 DEF StrayRecord, Record, orders, TypeOK
  <2> QED BY <1>a, <2>2 DEF FilledAway
<1>23. ASSUME NEW i \in Ids, Age(i) PROVE Once
  BY <1>23, <1>a DEF Age, orders, ledger, FilledAway
<1>24. CASE Crash
  BY <1>24, <1>a DEF Crash, IdleTick, ledger, FilledAway
<1>25. CASE UNCHANGED vars
  BY <1>25, <1>a DEF vars, FilledAway
<1>26. CASE TickNoEntry \/ TickApprove
  <2>1. CASE TickNoEntry
    BY <2>1, <1>a DEF TickNoEntry, Goto, IdleTick, orders, ledger, offTick, FilledAway
  <2>2. CASE TickApprove
    BY <2>2, <1>a DEF TickApprove, Goto, IdleTick, orders, ledger, offTick, FilledAway
  <2> QED BY <1>26, <2>1, <2>2
<1>27. ASSUME NEW B \in SUBSET Markets, Block(B) PROVE Once
  BY <1>27, <1>a DEF Block, orders, ledger, FilledAway
<1> QED BY <1>1, <1>2, <1>3, <1>4, <1>5, <1>6, <1>7, <1>8, <1>9, <1>10, <1>11, <1>12, <1>13,
       <1>14, <1>15, <1>16, <1>17, <1>18, <1>19, <1>20, <1>21, <1>22, <1>23, <1>24, <1>25,
       <1>26, <1>27
       DEF Next, TickStep, Follow, SweepStep

-----------------------------------------------------------------------------
(* Before the first sweep.                                                 *)

\* Every step keeps the slots of a tick to itself.
LEMMA NextAlone ==
  ASSUME TypeOK, SlotsApart, Placing, stray \subseteq cut, EntersOnce, Alone, [Next]_vars
  PROVE  Alone'
<1> USE NumbersAssumption DEF here, At, pending, Ids
<1>0. CutMarkets \subseteq CutMarkets'
  BY NextStrays DEF CutMarkets
<1>1. ASSUME NEW m \in Markets, TickStart(m) PROVE Alone'
  BY <1>1, <1>0 DEF TickStart, orders, ledger, offTick, Alone
<1>2. CASE TickRead
  BY <1>2, <1>0 DEF TickRead, Goto, orders, ledger, offTick, Alone
<1>3. CASE TickManage
  BY <1>3, <1>0 DEF TickManage, Take, IdleTick, ledger, offTick, Alone, TypeOK, Tick
<1>4. CASE TickClose
  BY <1>4, <1>0 DEF TickClose, IdleTick, orders, offTick, Alone
<1>5. CASE TickTaker
  BY <1>5, <1>0 DEF TickTaker, Take, Goto, ledger, offTick, Alone, Placing, TypeOK
<1>6. CASE TickEnter
  BY <1>6, <1>0 DEF TickEnter, Record, IdleTick, orders, ledger, offTick, Alone, TypeOK
<1>7. CASE FollowFill
  BY <1>7, <1>0 DEF FollowFill, orders, ledger, offTick, Alone
<1>8. CASE FollowRecord
  BY <1>8, <1>0 DEF FollowRecord, Record, Goto, orders, offTick, Alone
<1>9. CASE FollowFilled
  BY <1>9, <1>0 DEF FollowFilled, IdleTick, ledger, offTick, Alone, TypeOK
<1>10. CASE FollowExpire
  BY <1>10, <1>0 DEF FollowExpire, Take, Goto, ledger, offTick, Alone, Placing, TypeOK
<1>11. CASE FollowStay
  BY <1>11, <1>0 DEF FollowStay, IdleTick, Following, orders, ledger, offTick, Alone
<1>12. CASE FollowBlocked
  BY <1>12, <1>0 DEF FollowBlocked, Take, IdleTick, Following, ledger, offTick, Alone, TypeOK
<1>13. CASE FollowReplace
  BY <1>13, <1>0 DEF FollowReplace, Take, Following, Goto, ledger, offTick, Alone, Placing, TypeOK
<1>14. CASE FollowPlace
  BY <1>14, <1>0 DEF FollowPlace, Put, IdleTick, Following, held, ledger, offTick, Alone,
         EntersOnce, Entering, Placing, TypeOK
<1>15. CASE FollowPut
  BY <1>15, <1>0 DEF FollowPut, Put, IdleTick, ledger, offTick, Alone, EntersOnce, Entering,
         SlotsApart, Placing, TypeOK
<1>16. CASE SweepStart \/ SweepEnd
  BY <1>16, <1>0 DEF SweepStart, SweepEnd, IdleSweep, Alone
<1>17. CASE SweepPut
  BY <1>17, <1>0 DEF SweepPut, IdleSweep, Alone
<1>18. ASSUME NEW m \in Markets, SweepDrop(m) PROVE Alone'
  BY <1>18, <1>0 DEF SweepDrop, IdleSweep, Alone
<1>19. ASSUME NEW m \in Markets, SweepSkip(m) \/ CooldownElapses(m) PROVE Alone'
  <2>1. ~swept => ~SweepSkip(m)
    BY DEF SweepSkip, IdleSweep, Alone
  <2>2. CASE CooldownElapses(m)
    BY <2>2, <1>0 DEF CooldownElapses, orders, ledger, Alone
  <2>3. CASE SweepSkip(m)
    BY <2>1, <2>3 DEF SweepSkip, Alone
  <2> QED BY <1>19, <2>2, <2>3
<1>20. ASSUME NEW m \in Markets, OrphanClose(m) PROVE Alone'
  BY <1>20, <1>0 DEF OrphanClose, orders, Alone
<1>21. ASSUME NEW A \in SUBSET Markets, Discover(A) PROVE Alone'
  <2>1. At("filled") => here \in CutMarkets'
    <3>1. At("filled") => <<here, tick.order>> \in cut'
      BY <1>21 DEF Discover, CancelTick
    <3> QED BY <3>1 DEF CutMarkets
  <2>2. UNCHANGED <<orders, ledger, sweep, swept>> /\ tick' = IdleTick
    BY <1>21 DEF Discover, CancelTick
  <2> QED BY <1>0, <2>1, <2>2 DEF orders, ledger, IdleTick, Alone
<1>22. ASSUME NEW s \in Markets \X (Ids \cup {0}), StrayRecord(s) PROVE Alone'
  BY <1>22, <1>0 DEF StrayRecord, orders, Alone, CutMarkets, Record, TypeOK
<1>23. ASSUME NEW i \in Ids, Age(i) PROVE Alone'
  BY <1>23, <1>0 DEF Age, orders, ledger, Alone
<1>24. CASE Crash
  BY <1>24, <1>0 DEF Crash, IdleTick, Alone
<1>25. CASE UNCHANGED vars
  BY <1>25, <1>0 DEF vars, Alone
<1>26. CASE TickNoEntry \/ TickApprove
  <2>1. CASE TickNoEntry
    BY <2>1, <1>0 DEF TickNoEntry, Goto, IdleTick, orders, ledger, offTick, Alone
  <2>2. CASE TickApprove
    BY <2>2, <1>0 DEF TickApprove, Goto, IdleTick, orders, ledger, offTick, Alone
  <2> QED BY <1>26, <2>1, <2>2
<1>27. ASSUME NEW B \in SUBSET Markets, Block(B) PROVE Alone'
  BY <1>27, <1>0 DEF Block, orders, ledger, Alone
<1> QED BY <1>1, <1>2, <1>3, <1>4, <1>5, <1>6, <1>7, <1>8, <1>9, <1>10, <1>11, <1>12, <1>13,
       <1>14, <1>15, <1>16, <1>17, <1>18, <1>19, <1>20, <1>21, <1>22, <1>23, <1>24, <1>25,
       <1>26, <1>27
       DEF Next, TickStep, Follow, SweepStep

-----------------------------------------------------------------------------
(* The theorems.                                                           *)

\* The invariant holds in every reachable state.
LEMMA Invariance == Spec => []IInv
<1>1. Init => IInv
  <2> SUFFICES ASSUME Init PROVE IInv
    OBVIOUS
  <2>1. TypeOK
    <3>1. IdleTick \in Tick /\ IdleSweep \in Sweep
      BY DEF IdleTick, IdleSweep, Tick, Sweep
    <3>2. /\ slot \in [Markets -> Ids \cup {0}]
          /\ open \in [Markets -> Nat] /\ fills \in [Ids -> Nat]
      BY DEF Init
    <3>3. placed \in 0..MaxOrders
      BY NumbersAssumption DEF Init
    <3> QED BY <3>1, <3>2, <3>3 DEF Init, TypeOK
  <2>2. SlotsApart /\ Placing
    BY DEF Init, SlotsApart, Placing, Filling, IdleTick, IdleSweep
  <2>3. stray \subseteq cut /\ EntersOnce /\ FillsOnce
    BY DEF Init, EntersOnce, FillsOnce, FilledAway, Entering, IdleTick, At
  <2>4. Alone
    BY DEF Init, Alone, IdleTick
  <2> QED BY <2>1, <2>2, <2>3, <2>4 DEF IInv
<1>2. IInv /\ [Next]_vars => IInv'
  BY NextTyped, NextApart, NextPlacing, NextStrays, NextEntersOnce, NextFillsOnce, NextAlone
     DEF IInv
<1> QED BY <1>1, <1>2, PTL DEF Spec

\* The state is well formed.
THEOREM TypeCorrect == Spec => []TypeOK
BY Invariance, PTL DEF IInv

\* An order fills at most once and a market has at most one position, however the ticks,
\* the freshness loop and discovery interleave, unless one of its own entries was cut short
\* (_handle_follow_maker, _paper_execute_for_strategy, _maker_freshness_loop).
THEOREM EachOrderFillsOnce == Spec => []OneFillOnePosition
<1>1. IInv => OneFillOnePosition
  BY DEF IInv, EntersOnce, FillsOnce, OneFillOnePosition
<1> QED BY <1>1, Invariance, PTL

\* Without the freshness loop, no order rests beside a position between ticks, on a market
\* none of whose entries was cut short
\* (_handle_follow_maker, _paper_execute_for_strategy).
THEOREM PositionsSupersedeOrders == Spec => []NoOrderBesidePosition
<1>1. IInv => NoOrderBesidePosition
  BY DEF IInv, TypeOK, Alone, NoOrderBesidePosition, At, Ids
<1> QED BY <1>1, Invariance, PTL

\* Without the freshness loop, no order is put over another
\* (_handle_follow_maker).
THEOREM OrdersAreNotLost == Spec => []NoOrderLost
<1>1. IInv => NoOrderLost
  BY DEF IInv, Alone, NoOrderLost
<1> QED BY <1>1, Invariance, PTL
=============================================================================
