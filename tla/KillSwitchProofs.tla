-------------------------- MODULE KillSwitchProofs --------------------------
(***************************************************************************)
(* Theorems about KillSwitch for any strategies, limits and bounds.        *)
(***************************************************************************)
EXTENDS KillSwitch, SequenceTheorems, TLAPS

\* A row of a closed position.
Closed == [s : Strategies, pnl : {-1, 1}, today : BOOLEAN]
RowsTyped == /\ open \in [Strategies -> Nat] /\ day \in [Strategies -> Int]
             /\ closes \in Seq(Closed)
\* The shapes of the decision tick.
Ticks == [todo : SUBSET Strategies, counted : SUBSET Strategies, held : Nat,
          entry : SUBSET Strategies]

\* Closing a position keeps the table well formed, wherever the row is stamped.
LEMMA CloseTyped ==
  ASSUME TypeOK, NEW s \in Strategies, NEW pnl \in {-1, 1}, NEW today \in BOOLEAN, NEW k,
         Close(s, pnl, today, k)
  PROVE  RowsTyped'
<1> DEFINE r == [s |-> s, pnl |-> pnl, today |-> today]
<1>1. r \in Closed
  BY DEF Closed
<1>2. closes \in Seq(Closed) /\ k \in 0..Len(closes)
  BY DEF TypeOK, Close, Fits, Closed
<1>3. closes' \in Seq(Closed)
  <2>1. closes' = SubSeq(closes, 1, k) \o <<r>> \o SubSeq(closes, k + 1, Len(closes))
    <3>1. closes' = InsertAt(closes, k + 1, r)
      BY DEF Close
    <3>2. closes' = SubSeq(closes, 1, (k + 1) - 1) \o <<r>> \o SubSeq(closes, k + 1, Len(closes))
      BY <3>1 DEF InsertAt
    <3>3. (k + 1) - 1 = k
      BY <1>2
    <3> QED BY <3>2, <3>3
  <2> HIDE DEF r
  <2>2. SubSeq(closes, 1, k) \in Seq(Closed) /\ SubSeq(closes, k + 1, Len(closes)) \in Seq(Closed)
    BY <1>2
  <2> QED BY <1>1, <2>1, <2>2
<1>4. open' \in [Strategies -> Nat]
  BY DEF TypeOK, Close
<1>5. day' \in [Strategies -> Int]
  BY DEF TypeOK, Close
<1> QED BY <1>3, <1>4, <1>5 DEF RowsTyped

\* Booking a position keeps the table well formed.
LEMMA BookTyped ==
  ASSUME TypeOK, NEW s \in Strategies, Book(s)
  PROVE  RowsTyped'
BY DEF TypeOK, Book, RowsTyped, Closed

\* Midnight and pruning keep the table well formed.
LEMMA HistoryTyped ==
  ASSUME TypeOK, NewDay \/ Prune
  PROVE  RowsTyped'
<1>1. closes \in Seq(Closed)
  BY DEF TypeOK, Closed
<1>2. CASE NewDay
  <2>1. closes' = [i \in 1..Len(closes) |-> [closes[i] EXCEPT !.today = FALSE]]
    BY <1>2 DEF NewDay
  <2>2. ASSUME NEW i \in 1..Len(closes) PROVE [closes[i] EXCEPT !.today = FALSE] \in Closed
    <3>1. closes[i] \in Closed
      BY <1>1
    <3> QED BY <3>1 DEF Closed
  <2>3. closes' \in Seq(Closed)
    <3>1. Len(closes) \in Nat /\ closes' \in [1..Len(closes) -> Closed]
      BY <1>1, <2>1, <2>2
    <3> QED BY <3>1, SeqDef
  <2>4. day' \in [Strategies -> Int]
    BY <1>2 DEF NewDay, Zero
  <2>5. open' \in [Strategies -> Nat]
    BY <1>2 DEF NewDay, TypeOK
  <2> QED BY <2>3, <2>4, <2>5 DEF RowsTyped
<1>3. CASE Prune
  <2>1. closes # <<>> /\ closes' = SubSeq(closes, 1, Len(closes) - 1)
    BY <1>3 DEF Prune, Front
  <2>2. closes' \in Seq(Closed)
    BY <1>1, <2>1
  <2> QED BY <1>3, <2>2 DEF Prune, TypeOK, RowsTyped
<1> QED BY <1>2, <1>3

-----------------------------------------------------------------------------
\* An entry of the tick is counted.
LEMMA EnterTyped ==
  ASSUME TypeOK, NEW s \in Strategies, Enter(s)
  PROVE  RowsTyped' /\ late' \in [Strategies -> Nat]
<1>1. RowsTyped'
  BY BookTyped DEF Enter
<1>2. late' \in [Strategies -> Nat]
  BY DEF Enter, TypeOK
<1> QED BY <1>1, <1>2

\* A strategy that is done leaves the others.
LEMMA DoneTyped ==
  ASSUME TypeOK, NEW s, Done(s)
  PROVE  /\ tick' \in Ticks
         /\ tick'.entry = {} /\ tick'.counted = {} /\ tick'.todo = tick.todo \ {s}
BY DEF TypeOK, Ticks, Done, IdleTick

\* Every step of a decision tick keeps the types.
LEMMA TickTyped ==
  ASSUME TypeOK, Tick
  PROVE  TypeOK'
<1> USE DEF offRows, rows
<1>1. CASE TickStart
  BY <1>1 DEF TickStart, TypeOK, IdleTick
<1>2. ASSUME NEW s \in Strategies, NEW pnl \in {-1, 1}, TickExit(s, pnl) PROVE TypeOK'
  <2>1. RowsTyped' /\ tick' \in Ticks /\ UNCHANGED late
    BY <1>2, CloseTyped, DoneTyped DEF TickExit, Close
  <2> QED BY <1>2, <2>1 DEF TickExit, TypeOK, RowsTyped, Closed, Ticks
<1>3. ASSUME NEW s \in Strategies, TickSkip(s) PROVE TypeOK'
  <2>1. tick' \in Ticks
    BY <1>3, DoneTyped DEF TickSkip
  <2> QED BY <1>3, <2>1 DEF TickSkip, TypeOK, Ticks
<1>4. ASSUME NEW s \in Strategies, TickCount(s) \/ TickDecide(s) \/ TickPenny(s) PROVE TypeOK'
  <2>1. /\ UNCHANGED <<rows, resting, offRows>>
        /\ \/ tick' = [tick EXCEPT !.entry = {s}]
           \/ tick' = [tick EXCEPT !.counted = {s}, !.held = open[s]]
           \/ tick' = [tick EXCEPT !.counted = {}, !.held = 0, !.entry = {s}]
    BY <1>4 DEF TickCount, TickDecide, TickPenny
  <2>2. tick \in Ticks /\ open[s] \in Nat
    BY DEF TypeOK, Ticks
  <2>3. tick' \in Ticks
    <3>1. CASE tick' = [tick EXCEPT !.entry = {s}]
      BY <2>2, <3>1 DEF Ticks
    <3>2. CASE tick' = [tick EXCEPT !.counted = {s}, !.held = open[s]]
      BY <2>2, <3>2 DEF Ticks
    <3>3. CASE tick' = [tick EXCEPT !.counted = {}, !.held = 0, !.entry = {s}]
      BY <2>2, <3>3 DEF Ticks
    <3> QED BY <2>1, <3>1, <3>2, <3>3
  <2> QED BY <2>1, <2>3 DEF TypeOK, Ticks
<1>5. ASSUME NEW s \in Strategies, TickBook(s) PROVE TypeOK'
  <2>1. RowsTyped' /\ late' \in [Strategies -> Nat] /\ tick' \in Ticks
    BY <1>5, EnterTyped, DoneTyped DEF TickBook
  <2> QED BY <1>5, <2>1 DEF TickBook, TypeOK, RowsTyped, Closed, Ticks
<1>6. ASSUME NEW s \in Strategies, TickRest(s) PROVE TypeOK'
  <2>1. tick' \in Ticks
    BY <1>6, DoneTyped DEF TickRest
  <2> QED BY <1>6, <2>1 DEF TickRest, TypeOK, Ticks
<1>7. ASSUME NEW s \in Strategies, TickFill(s) PROVE TypeOK'
  <2>1. RowsTyped' /\ late' \in [Strategies -> Nat] /\ tick' \in Ticks
    BY <1>7, EnterTyped, DoneTyped DEF TickFill
  <2> QED BY <1>7, <2>1 DEF TickFill, TypeOK, RowsTyped, Closed, Ticks
<1> QED BY <1>1, <1>2, <1>3, <1>4, <1>5, <1>6, <1>7 DEF Tick

\* Every step keeps the types.
LEMMA NextTyped ==
  ASSUME TypeOK, [Next]_vars
  PROVE  TypeOK'
<1> USE DEF offRows, rows
<1>1. CASE Tick
  BY <1>1, TickTyped
<1>2. CASE Cancel
  <2>1. stray' \in [Strategies -> Nat]
    <3>1. \A x \in Strategies : stray[x] + (IF x \in tick.entry THEN 1 ELSE 0) \in Nat
      BY DEF TypeOK
    <3> QED BY <1>2, <3>1 DEF Cancel
  <2>2. tick' \in Ticks
    BY <1>2 DEF Cancel, IdleTick, Ticks
  <2> QED BY <1>2, <2>1, <2>2 DEF Cancel, TypeOK, Ticks
<1>3. ASSUME NEW s \in Strategies, StrayBook(s) PROVE TypeOK'
  <2>1. RowsTyped'
    BY <1>3, BookTyped DEF StrayBook
  <2>2. stray' \in [Strategies -> Nat] /\ extra' \in [Strategies -> Nat]
    BY <1>3 DEF StrayBook, TypeOK
  <2> QED BY <1>3, <2>1, <2>2 DEF StrayBook, TypeOK, RowsTyped, Closed
<1>4. ASSUME NEW s \in Strategies, NEW pnl \in {-1, 1}, NEW today \in BOOLEAN, NEW k,
             OrphanClose(s, pnl, today, k)
      PROVE  TypeOK'
  <2>1. RowsTyped'
    BY <1>4, CloseTyped DEF OrphanClose
  <2> QED BY <1>4, <2>1 DEF OrphanClose, Close, TypeOK, RowsTyped, Closed
<1>5. CASE DeskDecide
  BY <1>5 DEF DeskDecide, TypeOK
<1>6. CASE DeskBook
  <2>1. RowsTyped'
    BY <1>6, BookTyped, StrategiesAssumption DEF DeskBook
  <2>2. extra' \in [Strategies -> Nat]
    BY <1>6, StrategiesAssumption DEF DeskBook, TypeOK
  <2> QED BY <1>6, <2>1, <2>2 DEF DeskBook, TypeOK, RowsTyped, Closed
<1>7. CASE LiveFails
  BY <1>7, StrategiesAssumption DEF LiveFails, TypeOK
<1>8. CASE Heartbeat
  <2>1. switch' \in {"none", "rejected", "streak"}
    BY <1>8 DEF Heartbeat, Follow, Reason
  <2>2. late' \in [Strategies -> Nat]
    BY <1>8 DEF Heartbeat, TypeOK, Zero
  <2> QED BY <1>8, <2>1, <2>2 DEF Heartbeat, TypeOK
<1>9. CASE NewDay \/ Prune
  <2>1. RowsTyped'
    BY <1>9, HistoryTyped
  <2>2. rejected' \in [Strategies -> Nat]
    <3>1. CASE NewDay
      BY <3>1 DEF NewDay, Zero
    <3>2. CASE Prune
      BY <3>2 DEF Prune, TypeOK
    <3> QED BY <1>9, <3>1, <3>2
  <2> QED BY <1>9, <2>1, <2>2 DEF NewDay, Prune, TypeOK, RowsTyped, Closed
<1>10. CASE Restart
  BY <1>10 DEF Restart, TypeOK, IdleTick, Zero
<1>11. CASE UNCHANGED vars
  BY <1>11 DEF vars, TypeOK
<1> QED BY <1>1, <1>2, <1>3, <1>4, <1>5, <1>6, <1>7, <1>8, <1>9, <1>10, <1>11 DEF Next

\* Every variable keeps its type in every behaviour; no count of rows goes below zero.
THEOREM TypeCorrect == Spec => []TypeOK
<1>1. Init => TypeOK
  <2> SUFFICES ASSUME Init PROVE TypeOK
    OBVIOUS
  <2>1. closes \in Seq(Closed)
    BY EmptySeq DEF Init
  <2>2. Zero \in [Strategies -> Nat] /\ Zero \in [Strategies -> Int]
    BY DEF Zero
  <2>3. tick \in Ticks
    BY DEF Init, IdleTick, Ticks
  <2> QED BY <2>1, <2>2, <2>3 DEF Init, TypeOK, Closed, Ticks
<1>2. TypeOK /\ [Next]_vars => TypeOK'
  BY NextTyped
<1> QED BY <1>1, <1>2, PTL DEF Spec

-----------------------------------------------------------------------------
(* The limits.  An entry is decided before it is booked: between the two,  *)
(* a strategy must have room for one position more, of its count as of its *)
(* losses.  Before that a taker has counted its positions: what it holds   *)
(* by the time it decides exceeds the count by what others booked.         *)

Spare(s) == IF s \in tick.entry THEN 1 ELSE 0
Room == /\ \A s \in Takers \cup Pennies : open[s] + Spare(s) <= MaxConcurrent + extra[s]
        /\ \A s \in Takers : Worst(s) >= Budget(s) + Spare(s)
Counts == /\ tick.counted \subseteq Takers
          /\ \A s \in tick.counted : open[s] <= tick.held + extra[s] /\ tick.entry = {}

\* The limits and the accounts are numbers.
LEMMA Numbers ==
  ASSUME TypeOK
  PROVE  /\ DailyLimit \in Nat /\ DailyLimit >= 1 /\ MaxConcurrent \in Nat /\ MaxConcurrent >= 1
         /\ \A x \in Strategies : open[x] \in Nat /\ day[x] \in Int /\ extra[x] \in Nat
BY LimitsAssumption DEF TypeOK

\* Takers and penny strategies are strategies.
LEMMA Entering == Takers \subseteq Strategies /\ Pennies \subseteq Strategies
BY DEF Strategies

\* Room leaves both limits kept.
LEMMA RoomLimits ==
  ASSUME TypeOK, Room
  PROVE  DailyLossBounded /\ ConcurrencyBounded
<1>1. ASSUME NEW x \in Takers PROVE Worst(x) >= Budget(x)
  BY Numbers, Entering DEF Room, Spare, Worst, Budget
<1>2. ASSUME NEW x \in Takers \cup Pennies PROVE open[x] <= MaxConcurrent + extra[x]
  BY Numbers, Entering DEF Room, Spare
<1> QED BY <1>1, <1>2 DEF DailyLossBounded, ConcurrencyBounded

\* With nothing held and nothing lost there is room.
LEMMA InitRoom == Init => Room
BY LimitsAssumption DEF Init, Room, Spare, Zero, IdleTick, Worst, Budget, Strategies

\* A close loses no more than the position was counted for.
LEMMA CloseRoom ==
  ASSUME TypeOK, Room, NEW s \in Strategies, NEW pnl \in {-1, 1}, NEW today \in BOOLEAN, NEW k,
         Close(s, pnl, today, k), tick'.entry = tick.entry, UNCHANGED extra
  PROVE  Room'
<1>1. \A x \in Strategies : open'[x] <= open[x]
  BY DEF Close, TypeOK
<1>2. ASSUME NEW x \in Strategies PROVE Worst(x)' >= Worst(x) /\ Worst(x)' \in Int
  <2>1. /\ open'[x] = open[x] - IF x = s THEN 1 ELSE 0
        /\ \/ day'[x] = day[x]
           \/ x = s /\ day'[x] = day[x] + pnl
    BY DEF Close, TypeOK
  <2>2. open[x] \in Nat /\ day[x] \in Int /\ pnl >= -1 /\ pnl \in Int
    BY DEF TypeOK
  <2> QED BY <2>1, <2>2 DEF Worst
<1>3. \A x \in Strategies : Spare(x)' = Spare(x) /\ Budget(x)' = Budget(x)
  BY DEF Spare, Budget
<1>4. ASSUME NEW x \in Takers \cup Pennies PROVE open'[x] + Spare(x)' <= MaxConcurrent + extra'[x]
  <2>1. open[x] + Spare(x) <= MaxConcurrent + extra[x] /\ open'[x] \in Int
    BY Entering DEF Room, Close, TypeOK
  <2> QED BY <1>1, <1>3, <2>1, Numbers, Entering DEF Spare
<1>5. ASSUME NEW x \in Takers PROVE Worst(x)' >= Budget(x)' + Spare(x)'
  <2>1. Worst(x) >= Budget(x) + Spare(x) /\ Worst(x)' \in Int
    BY <1>2, Entering DEF Room
  <2> QED BY <1>2, <1>3, <2>1, Numbers, Entering DEF Spare, Worst, Budget
<1> QED BY <1>4, <1>5 DEF Room

\* What is booked beside the tick is counted apart.
LEMMA ExtraRoom ==
  ASSUME TypeOK, Room, NEW s \in Strategies, Book(s), extra' = [extra EXCEPT ![s] = @ + 1],
         UNCHANGED tick
  PROVE  Room'
<1>1. \A x \in Strategies : open'[x] = open[x] + IF x = s THEN 1 ELSE 0
  BY DEF Book, TypeOK
<1>2. \A x \in Strategies : extra'[x] = extra[x] + IF x = s THEN 1 ELSE 0
  BY DEF TypeOK
<1>3. \A x \in Strategies : day'[x] = day[x] /\ Spare(x)' = Spare(x)
  BY DEF Book, Spare
<1>4. ASSUME NEW x \in Takers \cup Pennies PROVE open'[x] + Spare(x)' <= MaxConcurrent + extra'[x]
  BY <1>1, <1>2, <1>3, Numbers, Entering DEF Room, Spare
<1>5. ASSUME NEW x \in Takers PROVE Worst(x)' >= Budget(x)' + Spare(x)'
  BY <1>1, <1>2, <1>3, Numbers, Entering DEF Room, Spare, Worst, Budget
<1> QED BY <1>4, <1>5 DEF Room

\* A step that books and closes nothing and decides on no entry leaves the room there is.
LEMMA FrameRoom ==
  ASSUME TypeOK, Room, UNCHANGED <<open, day, extra>>, tick'.entry \subseteq tick.entry
  PROVE  Room'
<1>1. \A x \in Strategies : Spare(x)' <= Spare(x) /\ Spare(x) \in {0, 1} /\ Spare(x)' \in {0, 1}
  BY DEF Spare
<1>2. \A x \in Strategies : Worst(x)' = Worst(x) /\ Budget(x)' = Budget(x)
  BY DEF Worst, Budget
<1>3. ASSUME NEW x \in Takers \cup Pennies PROVE open'[x] + Spare(x)' <= MaxConcurrent + extra'[x]
  BY <1>1, Numbers, Entering DEF Room
<1>4. ASSUME NEW x \in Takers PROVE Worst(x)' >= Budget(x)' + Spare(x)'
  <2>1. Worst(x) \in Int /\ Budget(x) \in Int
    BY Numbers, Entering DEF Worst, Budget
  <2> QED BY <1>1, <1>2, <2>1, Entering DEF Room
<1> QED BY <1>3, <1>4 DEF Room

\* At midnight the losses are gone, and what is held fits the budget of a day.
LEMMA NewDayRoom ==
  ASSUME TypeOK, Room, NewDay
  PROVE  Room'
<1>1. \A x \in Strategies : Spare(x)' = Spare(x) /\ Spare(x) \in {0, 1} /\ Budget(x)' = Budget(x)
  BY DEF NewDay, Spare, Budget
<1>2. \A x \in Strategies : Worst(x)' = 0 - open[x]
  BY DEF NewDay, Worst, Zero
<1>3. ASSUME NEW x \in Takers PROVE Worst(x)' >= Budget(x)' + Spare(x)'
  <2>1. open[x] + Spare(x) <= MaxConcurrent + extra[x]
    BY DEF Room
  <2> QED BY <1>1, <1>2, <2>1, Numbers, Entering DEF Budget
<1>4. \A x \in Strategies : open'[x] = open[x] /\ extra'[x] = extra[x]
  BY DEF NewDay
<1> QED BY <1>1, <1>3, <1>4, Entering DEF Room

\* A tick decides on an entry only with room for it, and books what it decided on.
LEMMA TickRoom ==
  ASSUME TypeOK, Room, Counts, Tick
  PROVE  Room'
<1> USE DEF offRows, rows
<1>1. CASE TickStart
  BY <1>1, FrameRoom DEF TickStart, IdleTick
<1>2. ASSUME NEW s \in Strategies, NEW pnl \in {-1, 1}, TickExit(s, pnl) PROVE Room'
  <2>1. tick'.entry = tick.entry
    BY <1>2, DoneTyped DEF TickExit, Turn
  <2> QED BY <1>2, <2>1, CloseRoom DEF TickExit
<1>3. ASSUME NEW s \in Strategies, TickSkip(s) \/ TickRest(s) PROVE Room'
  <2>1. tick'.entry = {} /\ UNCHANGED <<open, day, extra>>
    BY <1>3, DoneTyped DEF TickSkip, TickRest
  <2> QED BY <2>1, FrameRoom
<1>4. ASSUME NEW s \in Strategies, TickDecide(s) PROVE Room'
  <2>1. /\ s \in Takers /\ s \notin Pennies
        /\ open[s] <= tick.held + extra[s] /\ tick.held \in Nat /\ tick.entry = {}
    BY <1>4, StrategiesAssumption DEF TickDecide, Counts, TypeOK
  <2>2. tick'.entry = {s} /\ UNCHANGED <<open, day, extra>>
    BY <1>4 DEF TickDecide, TypeOK
  <2>3. day[s] > -DailyLimit /\ tick.held < MaxConcurrent
    BY <1>4 DEF TickDecide, Approved
  <2>5. open[s] + 1 <= MaxConcurrent + extra[s]
    BY <2>1, <2>3, Numbers
  <2>6. Worst(s) >= Budget(s) + 1
    BY <2>3, <2>5, Numbers DEF Worst, Budget
  <2>7. Worst(s)' >= Budget(s)' + Spare(s)' /\ open'[s] + Spare(s)' <= MaxConcurrent + extra'[s]
    BY <2>2, <2>5, <2>6 DEF Worst, Budget, Spare
  <2>4. \A x \in Strategies \ {s} : Spare(x) = 0 /\ Spare(x)' = 0
    BY <2>1, <2>2 DEF Spare
  <2> QED BY <2>2, <2>7, <2>4 DEF Room, Worst, Budget, Strategies
<1>5. ASSUME NEW s \in Strategies, TickPenny(s) PROVE Room'
  <2>1. tick.entry = {} /\ tick'.entry = {s} /\ UNCHANGED <<open, day, extra>>
    BY <1>5 DEF TickPenny, Turn, TypeOK
  <2>2. s \notin Takers /\ open[s] < MaxConcurrent
    BY <1>5, StrategiesAssumption DEF TickPenny
  <2>3. open'[s] + Spare(s)' <= MaxConcurrent + extra'[s]
    BY <2>1, <2>2, LimitsAssumption DEF TypeOK, Spare
  <2>4. \A x \in Strategies \ {s} : Spare(x) = 0 /\ Spare(x)' = 0
    BY <2>1 DEF Spare
  <2> QED BY <2>1, <2>2, <2>3, <2>4 DEF Room, Worst, Budget, Strategies
<1>6. ASSUME NEW s \in Strategies, TickBook(s) PROVE Room'
  <2>1. tick.entry = {s} /\ tick'.entry = {} /\ UNCHANGED <<day, extra>>
    BY <1>6, DoneTyped DEF TickBook, Enter, Book
  <2>2. \A x \in Strategies : open'[x] = open[x] + Spare(x) /\ Spare(x)' = 0
    BY <1>6, <2>1 DEF TickBook, Enter, Book, TypeOK, Spare
  <2>3. \A x \in Strategies : Spare(x) \in {0, 1}
    BY DEF Spare
  <2>4. ASSUME NEW x \in Takers \cup Pennies PROVE open'[x] + Spare(x)' <= MaxConcurrent + extra'[x]
    BY <2>1, <2>2, <2>3, Numbers, Entering DEF Room
  <2>5. ASSUME NEW x \in Takers PROVE Worst(x)' >= Budget(x)' + Spare(x)'
    BY <2>1, <2>2, <2>3, Numbers, Entering DEF Room, Worst, Budget
  <2> QED BY <2>4, <2>5 DEF Room
<1>7. ASSUME NEW s \in Strategies, TickFill(s) PROVE Room'
  <2>1. tick'.entry = tick.entry /\ UNCHANGED <<day, extra>>
    BY <1>7, DoneTyped DEF TickFill, Turn, Enter, Book
  <2>2. s \notin Takers \cup Pennies
    BY <1>7, StrategiesAssumption DEF TickFill, TypeOK
  <2>3. \A x \in Takers \cup Pennies : open'[x] = open[x] /\ Spare(x)' = Spare(x)
    BY <1>7, <2>1, <2>2 DEF TickFill, Enter, Book, TypeOK, Spare, Strategies
  <2> QED BY <2>1, <2>3 DEF Room, Worst, Budget
<1>8. ASSUME NEW s \in Strategies, TickCount(s) PROVE Room'
  <2>1. tick'.entry = tick.entry /\ UNCHANGED <<open, day, extra>>
    BY <1>8 DEF TickCount, TypeOK
  <2> QED BY <2>1, FrameRoom
<1> QED BY <1>1, <1>2, <1>3, <1>4, <1>5, <1>6, <1>7, <1>8 DEF Tick

\* Every step leaves room.
LEMMA NextRoom ==
  ASSUME TypeOK, Room, Counts, [Next]_vars
  PROVE  Room'
<1> USE DEF offRows, rows
<1>1. CASE Tick
  BY <1>1, TickRoom
<1>2. CASE Cancel
  BY <1>2, FrameRoom DEF Cancel, IdleTick
<1>3. ASSUME NEW s \in Strategies, StrayBook(s) PROVE Room'
  BY <1>3, ExtraRoom DEF StrayBook
<1>4. ASSUME NEW s \in Strategies, NEW pnl \in {-1, 1}, NEW today \in BOOLEAN, NEW k,
             OrphanClose(s, pnl, today, k)
      PROVE  Room'
  BY <1>4, CloseRoom DEF OrphanClose
<1>5. CASE DeskDecide \/ LiveFails \/ Heartbeat \/ Prune
  BY <1>5, FrameRoom DEF DeskDecide, LiveFails, Heartbeat, Prune
<1>6. CASE DeskBook
  BY <1>6, ExtraRoom, StrategiesAssumption DEF DeskBook
<1>7. CASE NewDay
  BY <1>7, NewDayRoom
<1>8. CASE Restart
  BY <1>8, FrameRoom DEF Restart, IdleTick
<1>9. CASE UNCHANGED vars
  BY <1>9, FrameRoom DEF vars
<1> QED BY <1>1, <1>2, <1>3, <1>4, <1>5, <1>6, <1>7, <1>8, <1>9 DEF Next

\* A step that leaves the tick alone, and books only what it counts, keeps the count.
LEMMA BesideCounts ==
  ASSUME TypeOK, Counts, UNCHANGED tick,
         \A x \in Strategies : open'[x] - extra'[x] <= open[x] - extra[x],
         \A x \in Strategies : open'[x] \in Nat /\ extra'[x] \in Nat
  PROVE  Counts'
<1>1. ASSUME NEW x \in tick.counted PROVE open'[x] <= tick.held + extra'[x]
  BY <1>1, Numbers, Entering DEF Counts, TypeOK
<1> QED BY <1>1 DEF Counts

\* Every step keeps the count, or starts from none.
LEMMA NextCounts ==
  ASSUME TypeOK, Counts, [Next]_vars
  PROVE  Counts'
<1> USE DEF offRows, rows
<1>t. TypeOK'
  BY NextTyped
<1>n. \A x \in Strategies : open'[x] \in Nat /\ extra'[x] \in Nat
  BY <1>t DEF TypeOK
<1>1. CASE Tick
  <2>1. CASE TickStart
    BY <2>1 DEF TickStart, IdleTick, Counts
  <2>2. ASSUME NEW s \in Strategies,
               \/ TickExit(s, -1) \/ TickExit(s, 1) \/ TickSkip(s)
               \/ TickBook(s) \/ TickRest(s) \/ TickFill(s)
        PROVE  Counts'
    <3>1. Done(s)
      BY <2>2 DEF TickExit, TickSkip, TickBook, TickRest, TickFill
    <3> QED BY <3>1, DoneTyped DEF Counts
  <2>3. ASSUME NEW s \in Strategies, TickCount(s) PROVE Counts'
    <3>1. /\ s \in Takers /\ tick.entry = {}
          /\ tick' = [tick EXCEPT !.counted = {s}, !.held = open[s]]
          /\ UNCHANGED <<open, extra>>
      BY <2>3 DEF TickCount, Turn
    <3>2. tick'.counted = {s} /\ tick'.held = open[s] /\ tick'.entry = {}
      BY <3>1 DEF TypeOK
    <3>3. open[s] <= open[s] + extra[s]
      BY Numbers
    <3> QED BY <3>1, <3>2, <3>3 DEF Counts
  <2>4. ASSUME NEW s \in Strategies, TickDecide(s) \/ TickPenny(s) PROVE Counts'
    <3>1. tick'.counted = {}
      BY <2>4 DEF TickDecide, TickPenny, Turn, TypeOK
    <3> QED BY <3>1 DEF Counts
  <2> QED BY <1>1, <2>1, <2>2, <2>3, <2>4 DEF Tick
<1>2. CASE Cancel \/ Restart
  BY <1>2 DEF Cancel, Restart, IdleTick, Counts
<1>3. ASSUME NEW s \in Strategies, Book(s), extra' = [extra EXCEPT ![s] = @ + 1], UNCHANGED tick
      PROVE  Counts'
  <2>1. \A x \in Strategies : /\ open'[x] = open[x] + IF x = s THEN 1 ELSE 0
                              /\ extra'[x] = extra[x] + IF x = s THEN 1 ELSE 0
    BY <1>3 DEF Book, TypeOK
  <2> QED BY <1>3, <1>n, <2>1, Numbers, BesideCounts
<1>4. ASSUME NEW s \in Strategies, StrayBook(s) PROVE Counts'
  BY <1>3, <1>4 DEF StrayBook
<1>5. CASE DeskBook
  BY <1>3, <1>5, StrategiesAssumption DEF DeskBook
<1>6. ASSUME NEW s \in Strategies, NEW pnl \in {-1, 1}, NEW today \in BOOLEAN, NEW k,
             OrphanClose(s, pnl, today, k)
      PROVE  Counts'
  <2>1. \A x \in Strategies : open'[x] <= open[x] /\ extra'[x] = extra[x]
    BY <1>6 DEF OrphanClose, Close, TypeOK
  <2>2. UNCHANGED tick
    BY <1>6 DEF OrphanClose
  <2> QED BY <1>n, <2>1, <2>2, Numbers, BesideCounts
<1>7. CASE \/ DeskDecide \/ LiveFails \/ Heartbeat \/ NewDay \/ Prune \/ UNCHANGED vars
  BY <1>7 DEF DeskDecide, LiveFails, Heartbeat, NewDay, Prune, vars, Counts
<1> QED BY <1>1, <1>2, <1>4, <1>5, <1>6, <1>7 DEF Next

\* There is room for what was decided in every reachable state.
LEMMA SpecRoom == Spec => [](TypeOK /\ Room /\ Counts)
<1>1. Init => Room /\ Counts
  <2>1. Init => Counts
    BY DEF Init, IdleTick, Counts
  <2> QED BY <2>1, InitRoom
<1>2. TypeOK /\ Room /\ Counts /\ [Next]_vars => Room' /\ Counts'
  BY NextRoom, NextCounts
<1> QED BY <1>1, <1>2, TypeCorrect, PTL DEF Spec

\* A taker's loss of a day, its open positions counted as lost, exceeds its budget by no more
\* than the positions it may hold and those booked beside the tick.
THEOREM DailyLossIsBounded == Spec => []DailyLossBounded
<1>1. TypeOK /\ Room => DailyLossBounded
  BY RoomLimits
<1> QED BY <1>1, SpecRoom, PTL

\* A taker or penny strategy holds no more positions than it may, but for those booked beside
\* the tick.
THEOREM ConcurrencyIsBounded == Spec => []ConcurrencyBounded
<1>1. TypeOK /\ Room => ConcurrencyBounded
  BY RoomLimits
<1> QED BY <1>1, SpecRoom, PTL

-----------------------------------------------------------------------------
(* The switch.  What a tick may still enter under it is what it has still  *)
(* to run: a strategy that has entered has had its turn, and no other tick *)
(* begins before the switch is off.                                        *)

Spent == /\ tick.counted \subseteq tick.todo /\ tick.entry \subseteq tick.todo
         /\ \A s \in Strategies : \/ late[s] = 0
                                  \/ late[s] = 1 /\ switch # "none" /\ s \notin tick.todo

\* The steps of a tick: an entry takes the turn of its strategy.
LEMMA TickSpent ==
  ASSUME TypeOK, Spent, Tick
  PROVE  Spent'
<1> USE DEF offRows, rows
<1>1. CASE TickStart
  BY <1>1 DEF TickStart, IdleTick, Spent
<1>2. ASSUME NEW s \in Strategies, Done(s), UNCHANGED <<late, switch>> PROVE Spent'
  BY <1>2, DoneTyped DEF Spent
<1>3. ASSUME NEW s \in Strategies, NEW pnl \in {-1, 1}, TickExit(s, pnl) PROVE Spent'
  BY <1>2, <1>3 DEF TickExit, Close
<1>4. ASSUME NEW s \in Strategies, TickSkip(s) \/ TickRest(s) PROVE Spent'
  BY <1>2, <1>4 DEF TickSkip, TickRest
<1>5. ASSUME NEW s \in Strategies, TickCount(s) \/ TickDecide(s) \/ TickPenny(s) PROVE Spent'
  <2>1. s \in tick.todo /\ UNCHANGED <<late, switch>>
    BY <1>5 DEF TickCount, TickDecide, TickPenny, Turn, Spent
  <2>2. /\ tick'.todo = tick.todo
        /\ tick'.counted \subseteq tick.counted \cup {s} /\ tick'.entry \subseteq tick.entry \cup {s}
    <3>1. CASE TickCount(s)
      BY <3>1 DEF TickCount, TypeOK
    <3>2. CASE TickDecide(s)
      BY <3>2 DEF TickDecide, TypeOK
    <3>3. CASE TickPenny(s)
      BY <3>3 DEF TickPenny, TypeOK
    <3> QED BY <1>5, <3>1, <3>2, <3>3
  <2> QED BY <2>1, <2>2 DEF Spent
<1>6. ASSUME NEW s \in Strategies, TickBook(s) \/ TickFill(s) PROVE Spent'
  <2>1. s \in tick.todo /\ Enter(s) /\ Done(s) /\ UNCHANGED switch
    BY <1>6 DEF TickBook, TickFill, Turn, Spent
  <2>2. late[s] = 0
    BY <2>1 DEF Spent
  <2>3. /\ late'[s] = (IF switch = "none" THEN 0 ELSE 1)
        /\ \A x \in Strategies \ {s} : late'[x] = late[x]
    BY <2>1, <2>2 DEF Enter, TypeOK
  <2>4. /\ tick'.entry = {} /\ tick'.counted = {} /\ tick'.todo = tick.todo \ {s}
    BY <2>1, DoneTyped
  <2> QED BY <2>1, <2>3, <2>4 DEF Spent
<1> QED BY <1>1, <1>3, <1>4, <1>5, <1>6 DEF Tick

\* Every step: the count of what was entered under the switch goes when the switch does.
LEMMA NextSpent ==
  ASSUME TypeOK, Spent, [Next]_vars
  PROVE  Spent'
<1> USE DEF offRows, rows
<1>1. CASE Tick
  BY <1>1, TickSpent
<1>2. CASE Cancel
  BY <1>2 DEF Cancel, IdleTick, Spent
<1>3. CASE Heartbeat
  BY <1>3 DEF Heartbeat, Zero, Spent
<1>4. CASE Restart
  BY <1>4 DEF Restart, IdleTick, Zero, Spent
<1>5. ASSUME UNCHANGED <<tick, late, switch>> PROVE Spent'
  BY <1>5 DEF Spent
<1>6. ASSUME NEW s \in Strategies, StrayBook(s) PROVE Spent'
  BY <1>5, <1>6 DEF StrayBook
<1>7. ASSUME NEW s \in Strategies, NEW pnl \in {-1, 1}, NEW today \in BOOLEAN, NEW k,
             OrphanClose(s, pnl, today, k)
      PROVE  Spent'
  BY <1>5, <1>7 DEF OrphanClose, Close
<1>8. CASE DeskDecide \/ DeskBook \/ LiveFails \/ NewDay \/ Prune \/ UNCHANGED vars
  BY <1>5, <1>8 DEF DeskDecide, DeskBook, LiveFails, NewDay, Prune, vars
<1> QED BY <1>1, <1>2, <1>3, <1>4, <1>6, <1>7, <1>8 DEF Next

\* While the switch is on no strategy enters twice, whatever the ticks, the cancels, the
\* restarts and the operator do: only the tick it found under way may still enter.
THEOREM EntriesStop == Spec => []StopEndsEntries
<1>1. Init => Spent
  BY DEF Init, IdleTick, Zero, Spent
<1>2. TypeOK /\ Spent /\ [Next]_vars => Spent'
  BY NextSpent
<1>3. TypeOK /\ Spent => StopEndsEntries
  <2> SUFFICES ASSUME Spent, NEW s \in Strategies PROVE late[s] <= 1
    BY DEF StopEndsEntries
  <2> QED BY DEF Spent
<1> QED BY <1>1, <1>2, <1>3, TypeCorrect, PTL DEF Spec
=============================================================================
