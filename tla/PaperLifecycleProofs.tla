------------------------ MODULE PaperLifecycleProofs ------------------------
(***************************************************************************)
(* Theorems about PaperLifecycle for any number of markets, rows, cancelled *)
(* ticks, crashes and manual closes, any ladder and any thresholds.        *)
(***************************************************************************)
EXTENDS PaperLifecycle, FiniteSetTheorems, TLAPS

\* Positions, calls, ticks and discovery cycles that exist name a market and a row
\* that exist.
RowsNamed  == \A r \in Rows : rows[r].status # "absent" => rows[r].market \in Markets
CallsNamed == \A t \in Threads : /\ op[t].kind # "none" => op[t].market \in Markets
                                 /\ op[t].state = "read" => op[t].row \in Rows
TickNamed  == /\ tick.pc # "idle" => tick.market \in Markets
              /\ tick.pc \in {"manage", "tranche", "closing", "report"} => tick.row \in Rows
DiscNamed  == /\ \A r \in disc.todo : rows[r].status # "absent"
              /\ disc.pc \in {"orphan", "report"}
                   => disc.row \in Rows /\ rows[disc.row].status # "absent"

Typed == TypeOK /\ RowsNamed /\ CallsNamed /\ TickNamed /\ DiscNamed

\* The initial state has its shapes, and nothing in it names anything yet.
LEMMA InitTyped == Init => Typed
BY BoundsAssumption
   DEF Init, Typed, TypeOK, RowsNamed, CallsNamed, TickNamed, DiscNamed, Row, Op, Pc, Tick,
       Disc, Extras, StopLimit, Absent, NoOp, NoExtras, NoStop, IdleTick, IdleDisc, Rows, Threads

-----------------------------------------------------------------------------
(* The values the actions build.                                           *)

\* A thread without a call holds a well-formed call of kind "none".
LEMMA NoOpTyped == NoOp \in Op /\ NoOp.kind = "none" /\ NoOp.state = "queued"
BY DEF NoOp, Op

\* close_position is called on the market it names and starts queued.
LEMMA CloseOpTyped ==
  ASSUME NEW m \in Markets
  PROVE  /\ CloseOp(m) \in Op
         /\ CloseOp(m).kind = "close" /\ CloseOp(m).market = m /\ CloseOp(m).state = "queued"
BY NoOpTyped DEF CloseOp, Op

\* record_execution is called on the market it names and starts queued.
LEMMA InsertOpTyped ==
  ASSUME NEW m \in Markets
  PROVE  /\ InsertOp(m) \in Op
         /\ InsertOp(m).kind = "insert" /\ InsertOp(m).market = m /\ InsertOp(m).state = "queued"
BY NoOpTyped DEF InsertOp, Op

\* A tranche is a no-op, a full close or a split of the market it is asked for.
LEMMA TrancheOpTyped ==
  ASSUME NEW m \in Markets, NEW part \in Int, NEW whole \in Int, NEW k \in Nat
  PROVE  /\ TrancheOp(m, part, whole, k) \in Op
         /\ TrancheOp(m, part, whole, k).kind \in {"none", "close", "partial"}
         /\ TrancheOp(m, part, whole, k).kind # "none" => TrancheOp(m, part, whole, k).market = m
         /\ TrancheOp(m, part, whole, k).state = "queued"
<1>1. CASE part >= whole
  BY <1>1, CloseOpTyped DEF TrancheOp
<1>2. CASE part < whole /\ part > 0
  <2>1. whole \in Nat \ {0} /\ ~(part >= whole) BY <1>2
  <2>2. PartialOp(m, part, whole, k) \in Op BY <2>1, NoOpTyped DEF PartialOp, Op
  <2>3. /\ PartialOp(m, part, whole, k).kind = "partial"
        /\ PartialOp(m, part, whole, k).market = m
        /\ PartialOp(m, part, whole, k).state = "queued"
    BY NoOpTyped DEF PartialOp, Op
  <2> QED BY <1>2, <2>1, <2>2, <2>3 DEF TrancheOp
<1>3. CASE part < whole /\ part <= 0
  BY <1>3, NoOpTyped DEF TrancheOp
<1> QED BY <1>1, <1>2, <1>3

\* A tick at rest has the shape of a tick.
LEMMA IdleTickTyped == IdleTick \in Tick /\ IdleTick.pc = "idle"
BY DEF IdleTick, Tick, Pc

\* Moving the tick on changes nothing but its place.
LEMMA GotoTyped ==
  ASSUME tick \in Tick, NEW s \in Pc, Goto(s)
  PROVE  /\ tick' \in Tick /\ tick'.pc = s
         /\ tick'.market = tick.market /\ tick'.row = tick.row
         /\ tick'.size = tick.size /\ tick'.step = tick.step
BY DEF Goto, Tick

\* The ladder and trail state at a price belongs to the position being managed.
LEMMA SeenTyped ==
  ASSUME TypeOK, here \in Markets, tick.row \in Rows, NEW p \in Nat
  PROVE  /\ Seen(p) \in Extras
         /\ Seen(p).owner = IF extras[here].owner = 0 THEN tick.row ELSE extras[here].owner
<1> DEFINE e == IF extras[here].owner = 0 THEN Hydrated ELSE extras[here]
<1>1. Hydrated \in Extras /\ Hydrated.owner = tick.row
  <2>1. NoExtras \in Extras BY DEF NoExtras, Extras
  <2>2. /\ tick.row \in Rows \cup {0} /\ rows[tick.row].tranches \in Nat
        /\ tick.size + rows[tick.row].split \in Int
    BY DEF TypeOK, Tick, Row
  <2> QED BY <2>1, <2>2 DEF Hydrated, Extras
<1>2. extras[here] \in Extras
  BY DEF TypeOK
<1>3. e \in Extras
  BY <1>1, <1>2
<1>4. Larger(e.peak, p) \in Nat
  BY <1>3 DEF Larger, Extras
<1>5. Seen(p) = [e EXCEPT !.peak = Larger(e.peak, p)]
  BY DEF Seen
<1> QED BY <1>1, <1>3, <1>4, <1>5 DEF Extras

\* The trailing-stop bookkeeping keeps the shape of the ladder state.
LEMMA TrailedTyped ==
  ASSUME TypeOK, here \in Markets, tick.row \in Rows, NEW p \in Nat
  PROVE  Trailed(p) \in Extras /\ Trailed(p).owner = Seen(p).owner
BY SeenTyped DEF Trailed, Extras

-----------------------------------------------------------------------------
(* Portfolio calls.                                                        *)

\* The SELECT of a portfolio call remembers a row that exists.
LEMMA ReadOpenRowTyped ==
  ASSUME Typed, NEW t \in Threads, ReadOpenRow(t)
  PROVE  Typed'
<1>1. op' \in [Threads -> Op] /\ CallsNamed'
  <2>1. CASE op' = [op EXCEPT ![t] = NoOp]
    BY <2>1, NoOpTyped DEF Typed, TypeOK, CallsNamed
  <2>2. ASSUME NEW r \in OpenRows(op[t].market),
               op' = [op EXCEPT ![t] = [@ EXCEPT !.state = "read", !.row = r,
                                             !.size = rows[r].size]]
        PROVE  op' \in [Threads -> Op] /\ CallsNamed'
    <3> DEFINE c == [op[t] EXCEPT !.state = "read", !.row = r, !.size = rows[r].size]
    <3>1. op[t] \in Op /\ rows[r] \in Row /\ r \in Rows BY DEF Typed, TypeOK, OpenRows
    <3>2. c \in Op /\ c.kind = op[t].kind /\ c.market = op[t].market /\ c.row = r
      BY <3>1 DEF Op, Row
    <3> QED BY <2>2, <3>1, <3>2 DEF Typed, TypeOK, CallsNamed
  <2> QED BY <2>1, <2>2 DEF ReadOpenRow
<1>2. UNCHANGED <<rows, used, recent, offLoop>> BY DEF ReadOpenRow
<1> QED BY <1>1, <1>2 DEF Typed, TypeOK, RowsNamed, TickNamed, DiscNamed, offLoop, memory, bounds

\* Closing rows keeps the table well formed.
LEMMA ClosePositionTyped ==
  ASSUME Typed, NEW t \in Threads, ClosePosition(t)
  PROVE  Typed'
<1>1. op' \in [Threads -> Op] /\ CallsNamed'
  BY NoOpTyped DEF Typed, TypeOK, CallsNamed, ClosePosition
<1>2. /\ rows' \in [Rows -> Row]
      /\ \A r \in Rows : /\ rows'[r].market = rows[r].market
                         /\ rows[r].status = "absent" <=> rows'[r].status = "absent"
  BY DEF Typed, TypeOK, Row, ClosePosition, OpenRows
<1>3. recent' \subseteq Markets
  BY DEF Typed, TypeOK, CallsNamed, ClosePosition
<1>4. UNCHANGED <<used, offLoop>> BY DEF ClosePosition
<1>5. RowsNamed' /\ DiscNamed'
  BY <1>2, <1>4 DEF Typed, TypeOK, RowsNamed, DiscNamed, Disc, offLoop
<1> QED BY <1>1, <1>2, <1>3, <1>4, <1>5 DEF Typed, TypeOK, TickNamed, offLoop, memory, bounds

\* A split resizes open rows of its market and books on the row it read.
LEMMA PartialCloseRows ==
  ASSUME Typed, NEW t \in Threads, PartialClosePosition(t)
  PROVE  /\ rows' \in [Rows -> Row]
         /\ \A r \in Rows : /\ rows'[r].market = rows[r].market
                            /\ rows'[r].status = rows[r].status
                            /\ r \notin OpenRows(op[t].market) => rows'[r].size = rows[r].size
<1> DEFINE c == op[t]
           portion == (c.size * c.num) \div c.den
           shrunk(r) == IF r \in OpenRows(c.market)
                        THEN [rows[r] EXCEPT !.size = c.size - portion] ELSE rows[r]
<1>1. c.size \in Int /\ portion \in Int /\ c.step \in Nat
  BY DEF Typed, TypeOK, Op
<1>2. \A r \in Rows : /\ shrunk(r) \in Row
                      /\ shrunk(r).market = rows[r].market
                      /\ shrunk(r).status = rows[r].status
                      /\ r \notin OpenRows(c.market) => shrunk(r).size = rows[r].size
  BY <1>1 DEF Typed, TypeOK, Row
<1>3. rows' = [r \in Rows |->
                 IF r = c.row THEN [shrunk(r) EXCEPT !.split = @ + portion,
                                      !.tranches = @ + 1, !.steps = @ \cup {c.step}]
                 ELSE shrunk(r)]
  BY DEF PartialClosePosition
<1> HIDE DEF portion, shrunk
<1>4. ASSUME NEW r \in Rows
      PROVE  LET new == [shrunk(r) EXCEPT !.split = @ + portion, !.tranches = @ + 1,
                                          !.steps = @ \cup {c.step}]
             IN /\ new \in Row /\ new.market = shrunk(r).market
                /\ new.status = shrunk(r).status /\ new.size = shrunk(r).size
  <2>1. /\ shrunk(r).split + portion \in Int /\ shrunk(r).tranches + 1 \in Nat
        /\ shrunk(r).steps \cup {c.step} \in SUBSET Nat
    BY <1>1, <1>2 DEF Row
  <2> HIDE DEF c
  <2> QED BY <1>2, <2>1 DEF Row
<1> QED BY <1>2, <1>3, <1>4

\* A tranche keeps the table well formed.
LEMMA PartialClosePositionTyped ==
  ASSUME Typed, NEW t \in Threads, PartialClosePosition(t)
  PROVE  Typed'
<1>1. op' \in [Threads -> Op] /\ CallsNamed'
  BY NoOpTyped DEF Typed, TypeOK, CallsNamed, PartialClosePosition
<1>2. UNCHANGED <<used, recent, offLoop>> BY DEF PartialClosePosition
<1>3. RowsNamed' /\ DiscNamed'
  BY <1>2, PartialCloseRows DEF Typed, TypeOK, RowsNamed, DiscNamed, Disc, offLoop
<1> QED BY <1>1, <1>2, <1>3, PartialCloseRows DEF Typed, TypeOK, TickNamed, offLoop, memory, bounds

\* An insert takes the next free row for a market that exists.
LEMMA RecordExecutionTyped ==
  ASSUME Typed, NEW t \in Threads, RecordExecution(t)
  PROVE  Typed'
<1> DEFINE new == [Absent EXCEPT !.market = op[t].market, !.status = "open", !.size = Size]
<1>1. op' \in [Threads -> Op] /\ CallsNamed'
  BY NoOpTyped DEF Typed, TypeOK, CallsNamed, RecordExecution
<1>2. new \in Row /\ new.status = "open" /\ new.market \in Markets
  <2>1. Absent \in Row BY DEF Absent, Row
  <2>2. op[t].market \in Markets BY DEF Typed, CallsNamed, RecordExecution
  <2>3. Size \in Int BY SizeAssumption
  <2> QED BY <2>1, <2>2, <2>3 DEF Row
<1>3. rows' = [rows EXCEPT ![used + 1] = new] /\ used' = used + 1 /\ used < MaxRows
  BY DEF RecordExecution
<1>4. rows' \in [Rows -> Row] /\ RowsNamed'
  BY <1>2, <1>3 DEF Typed, TypeOK, RowsNamed
<1>5. used' \in 0..MaxRows
  BY <1>3, BoundsAssumption DEF Typed, TypeOK
<1>6. UNCHANGED <<recent, offLoop>> BY DEF RecordExecution
<1>7. DiscNamed'
  BY <1>2, <1>3, <1>6 DEF Typed, TypeOK, DiscNamed, Disc, offLoop
<1> QED BY <1>1, <1>4, <1>5, <1>6, <1>7 DEF Typed, TypeOK, TickNamed, offLoop, memory, bounds

\* Every step of a worker thread keeps the shapes.
LEMMA ThreadStepTyped ==
  ASSUME Typed, NEW t \in Threads, ThreadStep(t)
  PROVE  Typed'
BY ReadOpenRowTyped, ClosePositionTyped, PartialClosePositionTyped, RecordExecutionTyped
   DEF ThreadStep

-----------------------------------------------------------------------------
(* The decision pipeline.                                                  *)

\* A tick step is typed when what it writes is.
LEMMA TickFrame ==
  ASSUME Typed, tick' \in Tick, TickNamed', op' \in [Threads -> Op], CallsNamed',
         extras' \in [Markets -> Extras], stopRest' \in [Markets -> StopLimit],
         cooling' \subseteq Markets, UNCHANGED <<rows, offTick>>
  PROVE  Typed'
BY DEF Typed, TypeOK, RowsNamed, DiscNamed, offTick, bounds

\* Handing a well-formed call to the thread of the tick keeps the shapes.
LEMMA CallTyped ==
  ASSUME Typed, NEW c \in Op, c.kind # "none" => c.market \in Markets, c.state = "queued",
         Call(c)
  PROVE  op' \in [Threads -> Op] /\ CallsNamed'
BY DEF Typed, TypeOK, CallsNamed, Call

\* Forgetting a position keeps the shapes of ladder state and stop limit.
LEMMA ForgetTyped ==
  ASSUME Typed, Forget(here)
  PROVE  extras' \in [Markets -> Extras] /\ stopRest' \in [Markets -> StopLimit]
<1>1. NoExtras \in Extras /\ NoStop \in StopLimit
  BY DEF NoExtras, Extras, NoStop, StopLimit
<1> QED BY <1>1 DEF Typed, TypeOK, Forget

\* A tick starts on a market that exists.
LEMMA TickStartTyped ==
  ASSUME Typed, NEW m \in Markets, TickStart(m)
  PROVE  Typed'
<1>1. tick' \in Tick /\ tick'.pc = "read" /\ tick'.market = m
  BY IdleTickTyped DEF TickStart, Tick, Pc
<1>2. TickNamed'
  BY <1>1 DEF TickNamed
<1>3. UNCHANGED <<rows, op, memory, offTick>> BY DEF TickStart
<1> QED BY <1>1, <1>2, <1>3, TickFrame DEF Typed, TypeOK, CallsNamed, memory

\* The read at the head of the tick remembers a row that exists, or none.
LEMMA TickReadTyped ==
  ASSUME Typed, TickRead
  PROVE  Typed'
<1>1. UNCHANGED <<rows, op, memory, offTick>> BY DEF TickRead
<1>2. tick' \in Tick /\ TickNamed'
  <2>1. CASE Goto("enter")
    BY <2>1, GotoTyped DEF Typed, TypeOK, TickNamed, TickRead, Pc
  <2>2. ASSUME NEW r \in OpenRows(here),
               tick' = [tick EXCEPT !.pc = "manage", !.row = r, !.size = rows[r].size]
        PROVE  tick' \in Tick /\ TickNamed'
    <3>1. r \in Rows /\ rows[r].size \in Int /\ tick \in Tick
      BY DEF Typed, TypeOK, OpenRows, Row
    <3>2. tick.market \in Markets BY DEF Typed, TickNamed, TickRead
    <3>3. tick' \in Tick /\ tick'.market = tick.market /\ tick'.row = r
      BY <2>2, <3>1 DEF Tick, Pc
    <3> QED BY <3>1, <3>2, <3>3 DEF TickNamed
  <2> QED BY <2>1, <2>2 DEF TickRead
<1> QED BY <1>1, <1>2, TickFrame DEF Typed, TypeOK, CallsNamed, memory

\* The take-profit ladder asks for a tranche of a step that exists.
LEMMA ManageLadderTyped ==
  ASSUME Typed, NEW p \in Prices, ManageLadder(p)
  PROVE  Typed'
<1> DEFINE k      == Seen(p).tranches + 1
           target == (Ladder[k].num * Seen(p).original) \div Parts
<1>1. here \in Markets /\ tick.row \in Rows /\ p \in Nat /\ tick \in Tick
  BY PriceAssumption DEF Typed, TypeOK, TickNamed, ManageLadder, Managing, here
<1>2. Seen(p) \in Extras
  BY <1>1, SeenTyped DEF Typed
<1>3. k \in 1..Len(Ladder) /\ k \in Nat /\ Seen(p).original \in Int
  BY <1>2, LadderAssumption DEF ManageLadder, LadderDue, Extras
<1>4. Ladder[k].num \in Nat
  <2> HIDE DEF k
  <2> DEFINE S == [at : Nat, num : Nat]
  <2>1. Ladder \in Seq(S) BY LadderAssumption
  <2>2. \A e \in S : e.num \in Nat OBVIOUS
  <2> HIDE DEF S
  <2>3. Ladder[k] \in S BY <1>3, <2>1
  <2> QED BY <2>2, <2>3
<1>5. target \in Int
  BY <1>3, <1>4, SizeAssumption
<1>6. /\ Call(TrancheOp(here, target, tick.size, k)) /\ SetExtras(Seen(p))
      /\ tick' = [tick EXCEPT !.pc = "tranche", !.step = k]
      /\ UNCHANGED <<rows, stopRest, cooling, offTick>>
  BY DEF ManageLadder
<1> HIDE DEF k, target
<1>7. op' \in [Threads -> Op] /\ CallsNamed'
  <2>1. tick.size \in Int BY <1>1 DEF Tick
  <2> DEFINE c == TrancheOp(here, target, tick.size, k)
  <2>2. c \in Op /\ (c.kind # "none" => c.market \in Markets) /\ c.state = "queued"
    BY <1>1, <1>3, <1>5, <2>1, TrancheOpTyped
  <2> HIDE DEF c
  <2>3. Call(c) BY <1>6 DEF c
  <2> QED BY <2>2, <2>3, CallTyped
<1>8. tick' \in Tick /\ TickNamed'
  <2>1. [tick EXCEPT !.pc = "tranche", !.step = k] \in Tick
    BY <1>1, <1>3 DEF Tick, Pc
  <2>2. tick'.pc = "tranche" /\ tick'.market = here /\ tick'.row = tick.row
    BY <1>1, <1>6 DEF Tick, here
  <2> QED BY <1>1, <1>6, <2>1, <2>2 DEF TickNamed
<1>9. extras' \in [Markets -> Extras]
  BY <1>2, <1>6 DEF SetExtras, Typed, TypeOK
<1> QED BY <1>6, <1>7, <1>8, <1>9, TickFrame DEF Typed, TypeOK

\* What a managing step has at hand.
LEMMA ManagingTyped ==
  ASSUME Typed, NEW p \in Prices, Managing(p)
  PROVE  /\ here \in Markets /\ tick.row \in Rows /\ p \in Nat /\ tick \in Tick
         /\ Seen(p) \in Extras /\ Trailed(p) \in Extras
         /\ [Seen(p) EXCEPT !.below = @ + 1] \in Extras
<1>1. here \in Markets /\ tick.row \in Rows /\ p \in Nat /\ tick \in Tick
  BY PriceAssumption DEF Typed, TypeOK, TickNamed, Managing, here
<1>2. Seen(p) \in Extras /\ Trailed(p) \in Extras
  BY <1>1, SeenTyped, TrailedTyped DEF Typed
<1>3. Seen(p).below + 1 \in Nat
  BY <1>2 DEF Extras
<1> DEFINE e == Seen(p)
<1>4. [e EXCEPT !.below = @ + 1] \in Extras
  <2>1. e \in Extras /\ e.below + 1 \in Nat BY <1>2, <1>3
  <2> HIDE DEF e
  <2> QED BY <2>1 DEF Extras
<1> QED BY <1>1, <1>2, <1>4

\* A step that starts the full close of the position it manages.
LEMMA StartCloseTyped ==
  ASSUME Typed, NEW p \in Prices, Managing(p), StartClose,
         NEW e \in Extras, SetExtras(e), stopRest' \in [Markets -> StopLimit],
         UNCHANGED <<rows, cooling, offTick>>
  PROVE  Typed'
<1>1. here \in Markets /\ tick.row \in Rows /\ tick \in Tick
  BY ManagingTyped
<1>2. op' \in [Threads -> Op] /\ CallsNamed'
  BY <1>1, CloseOpTyped, CallTyped DEF StartClose
<1>3. tick' \in Tick /\ TickNamed'
  BY <1>1, GotoTyped DEF StartClose, TickNamed, Pc, here
<1>4. extras' \in [Markets -> Extras]
  BY DEF SetExtras, Typed, TypeOK
<1> QED BY <1>2, <1>3, <1>4, TickFrame DEF Typed, TypeOK

\* A step that ends the tick with the position still open.
LEMMA StayTyped ==
  ASSUME Typed, tick' = IdleTick, extras' \in [Markets -> Extras],
         stopRest' \in [Markets -> StopLimit], cooling' \subseteq Markets,
         UNCHANGED <<rows, op, offTick>>
  PROVE  Typed'
<1>1. tick' \in Tick /\ TickNamed'
  BY IdleTickTyped DEF TickNamed
<1> QED BY <1>1, TickFrame DEF Typed, TypeOK, CallsNamed

\* Posting, ageing or dropping one stop limit keeps the shapes.
LEMMA SetStopTyped ==
  ASSUME Typed, NEW s \in StopLimit, SetStop(s)
  PROVE  stopRest' \in [Markets -> StopLimit]
BY DEF SetStop, Typed, TypeOK

\* Replacing the ladder state of one market keeps the shapes.
LEMMA SetExtrasTyped ==
  ASSUME Typed, NEW e \in Extras, SetExtras(e)
  PROVE  extras' \in [Markets -> Extras]
BY DEF SetExtras, Typed, TypeOK

\* Every branch of the exit ladder keeps the shapes.
LEMMA ManageTyped ==
  ASSUME Typed, TickManage
  PROVE  Typed'
<1>1. NoStop \in StopLimit BY DEF NoStop, StopLimit
<1>2. CASE ManageBlind
  BY <1>2, StayTyped DEF ManageBlind, memory, Typed, TypeOK
<1>3. ASSUME NEW p \in Prices, ManageTrail(p) PROVE Typed'
  BY <1>3, ManagingTyped, StartCloseTyped DEF ManageTrail, Typed, TypeOK
<1>4. ASSUME NEW p \in Prices, ManageStopRest(p) PROVE Typed'
  BY <1>1, <1>4, ManagingTyped, StartCloseTyped, SetStopTyped DEF ManageStopRest, PastTrail
<1>5. ASSUME NEW p \in Prices, ManageStopWait(p) PROVE Typed'
  <2> DEFINE s == [stopRest[here] EXCEPT !.waited = @ + 1]
  <2>1. s \in StopLimit
    <3>1. here \in Markets /\ stopRest[here] \in StopLimit
      BY <1>5, ManagingTyped DEF ManageStopWait, PastTrail, Typed, TypeOK
    <3> QED BY <3>1 DEF StopLimit
  <2>2. SetStop(s) BY <1>5 DEF ManageStopWait
  <2> HIDE DEF s
  <2>3. stopRest' \in [Markets -> StopLimit] /\ extras' \in [Markets -> Extras]
    BY <1>5, <2>1, <2>2, SetStopTyped, SetExtrasTyped, ManagingTyped DEF ManageStopWait, PastTrail
  <2> QED BY <1>5, <2>3, StayTyped DEF ManageStopWait, Typed, TypeOK
<1>6. ASSUME NEW p \in Prices, ManageStopPost(p) PROVE Typed'
  <2> DEFINE s == [owner |-> tick.row, size |-> tick.size, waited |-> 0]
  <2>1. s \in StopLimit
    BY <1>6, ManagingTyped DEF ManageStopPost, PastTrail, StopLimit, Tick
  <2>2. SetStop(s) BY <1>6 DEF ManageStopPost
  <2> HIDE DEF s
  <2>3. stopRest' \in [Markets -> StopLimit] /\ extras' \in [Markets -> Extras]
    BY <1>6, <2>1, <2>2, SetStopTyped, SetExtrasTyped, ManagingTyped DEF ManageStopPost, PastTrail
  <2> QED BY <1>6, <2>3, StayTyped DEF ManageStopPost, Typed, TypeOK
<1>7. ASSUME NEW p \in Prices, ManageExit(p) PROVE Typed'
  BY <1>1, <1>7, ManagingTyped, StartCloseTyped, SetStopTyped
     DEF ManageExit, StopSettled, PastTrail
<1>8. ASSUME NEW p \in Prices, ManageHold(p) PROVE Typed'
  <2>1. stopRest' \in [Markets -> StopLimit] /\ extras' \in [Markets -> Extras]
    BY <1>1, <1>8, SetStopTyped, SetExtrasTyped, ManagingTyped
       DEF ManageHold, StopSettled, PastTrail
  <2> QED BY <1>8, <2>1, StayTyped DEF ManageHold, Typed, TypeOK
<1> QED BY <1>2, <1>3, <1>4, <1>5, <1>6, <1>7, <1>8, ManageLadderTyped DEF TickManage

\* The steps that end a tranche, a close or an entry.
LEMMA TickRestTyped ==
  ASSUME Typed,
         TickTrancheDone \/ TickCloseDone \/ TickEnter \/ TickSubmit \/ TickInserted
  PROVE  Typed'
<1>1. NoStop \in StopLimit BY DEF NoStop, StopLimit
<1>2. CASE TickTrancheDone
  <2>1. stopRest' \in [Markets -> StopLimit]
    BY <1>1, <1>2, SetStopTyped DEF TickTrancheDone
  <2>2. extras' \in [Markets -> Extras]
    <3>1. here \in Markets /\ tick.step \in Nat
      BY <1>2 DEF Typed, TypeOK, TickNamed, TickTrancheDone, Tick, here
    <3> DEFINE e == [extras[here] EXCEPT !.tranches = tick.step]
    <3>2. extras[here] \in Extras BY <3>1 DEF Typed, TypeOK
    <3>3. e \in Extras BY <3>1, <3>2 DEF Extras
    <3>4. UNCHANGED extras \/ SetExtras(e) BY <1>2 DEF TickTrancheDone
    <3> QED BY <3>3, <3>4, SetExtrasTyped DEF Typed, TypeOK
  <2> QED BY <1>2, <2>1, <2>2, StayTyped DEF TickTrancheDone, Typed, TypeOK
<1>3. CASE TickCloseDone
  <2>1. here \in Markets BY <1>3 DEF Typed, TickNamed, TickCloseDone, here
  <2>2. tick' \in Tick /\ TickNamed'
    BY <1>3, GotoTyped DEF TickCloseDone, Typed, TypeOK, TickNamed, Pc
  <2>3. cooling' \subseteq Markets
    BY <1>3, <2>1 DEF TickCloseDone, Typed, TypeOK
  <2> QED BY <1>3, <2>2, <2>3, ForgetTyped, TickFrame
          DEF TickCloseDone, Typed, TypeOK, CallsNamed
<1>4. CASE TickNoEntry
  BY <1>4, ForgetTyped, StayTyped DEF TickNoEntry, Typed, TypeOK
<1>5. CASE TickApprove
  <2>1. tick' \in Tick /\ TickNamed'
    BY <1>5, GotoTyped DEF TickApprove, Typed, TypeOK, TickNamed, Pc
  <2> QED BY <1>5, <2>1, ForgetTyped, TickFrame DEF TickApprove, Typed, TypeOK, CallsNamed
<1>6. ASSUME tick.pc \in {"enter", "approved"}, Call(InsertOp(here)), Goto("inserting")
      PROVE  tick' \in Tick /\ TickNamed' /\ op' \in [Threads -> Op] /\ CallsNamed'
  <2>1. here \in Markets BY <1>6 DEF Typed, TickNamed, here
  <2>2. tick' \in Tick /\ TickNamed'
    BY <1>6, GotoTyped DEF Typed, TypeOK, TickNamed, Pc
  <2> QED BY <1>6, <2>1, <2>2, InsertOpTyped, CallTyped
<1>7. CASE TickMakerFill
  BY <1>6, <1>7, ForgetTyped, TickFrame DEF TickMakerFill, Typed, TypeOK
<1>8. CASE TickSubmit
  BY <1>6, <1>8, TickFrame DEF TickSubmit, memory, Typed, TypeOK
<1>9. CASE TickInserted
  BY <1>9, StayTyped DEF TickInserted, memory, Typed, TypeOK
<1> QED BY <1>2, <1>3, <1>4, <1>5, <1>7, <1>8, <1>9 DEF TickEnter

\* The position_closed event touches one counter of one row.
LEMMA ReportTyped ==
  ASSUME Typed, NEW r \in Rows, rows' = [rows EXCEPT ![r].events = @ + 1]
  PROVE  /\ rows' \in [Rows -> Row]
         /\ \A s \in Rows : /\ rows'[s].market = rows[s].market
                            /\ rows'[s].status = rows[s].status
                            /\ rows'[s].size = rows[s].size
                            /\ rows'[s].split = rows[s].split
                            /\ rows'[s].tranches = rows[s].tranches
                            /\ rows'[s].steps = rows[s].steps
<1>1. rows[r] \in Row /\ rows[r].events + 1 \in Nat BY DEF Typed, TypeOK, Row
<1>2. [rows[r] EXCEPT !.events = rows[r].events + 1] \in Row BY <1>1 DEF Row
<1> QED BY <1>1, <1>2 DEF Typed, TypeOK, Row

\* Logging the close counts an event on a row that exists.
LEMMA TickReportTyped ==
  ASSUME Typed, TickReport
  PROVE  Typed'
<1>1. tick.row \in Rows BY DEF Typed, TickNamed, TickReport
<1>2. /\ rows' \in [Rows -> Row]
      /\ \A s \in Rows : rows'[s].market = rows[s].market /\ rows'[s].status = rows[s].status
  BY <1>1, ReportTyped DEF TickReport
<1>3. UNCHANGED <<op, memory, offTick>> /\ tick' = IdleTick BY DEF TickReport
<1>4. RowsNamed' /\ DiscNamed'
  BY <1>2, <1>3 DEF Typed, TypeOK, RowsNamed, DiscNamed, Disc, offTick
<1>5. tick' \in Tick /\ TickNamed'
  BY <1>3, IdleTickTyped DEF TickNamed
<1> QED BY <1>2, <1>3, <1>4, <1>5 DEF Typed, TypeOK, CallsNamed, offTick, memory, bounds

\* Every step of the tick keeps the shapes.
LEMMA TickStepTyped == ASSUME Typed, TickStep PROVE Typed'
BY TickReadTyped, ManageTyped, TickRestTyped, TickReportTyped DEF TickStep

-----------------------------------------------------------------------------
(* The discovery cycle.                                                    *)

\* A discovery cycle at rest has the shape of a cycle.
LEMMA IdleDiscTyped == IdleDisc \in Disc /\ IdleDisc.pc = "idle" /\ IdleDisc.todo = {}
BY DEF IdleDisc, Disc

\* A discovery step that only moves the cycle keeps the shapes.
LEMMA DiscFrame ==
  ASSUME Typed, disc' \in Disc, DiscNamed', op' \in [Threads -> Op], CallsNamed',
         UNCHANGED <<rows, tick, active, memory, abandoned, offDisc>>
  PROVE  Typed'
BY DEF Typed, TypeOK, RowsNamed, TickNamed, offDisc, memory, bounds

\* The rows a reconcile step looks at exist, and so do their markets.
LEMMA ScanTyped ==
  ASSUME Typed, NEW r \in Rows, DiscScan(r)
  PROVE  Typed'
<1>1. /\ Scanning(r) /\ disc \in Disc /\ Done(r) \in Disc /\ rows[r].market \in Markets
      /\ rows[r].status # "absent" /\ Done(r).todo = disc.todo \ {r} /\ Done(r).pc = disc.pc
  BY DEF DiscScan, DiscPass, DiscPin, DiscOrphan, Scanning, Done, Typed, TypeOK, DiscNamed,
         RowsNamed, Disc
<1>2. CASE DiscPass(r)
  BY <1>1, <1>2, DiscFrame DEF DiscPass, Scanning, Typed, TypeOK, CallsNamed, DiscNamed
<1>3. CASE DiscPin(r)
  <2> DEFINE d == Done(r)
  <2>1. d.keep \cup {rows[r].market} \in SUBSET Markets /\ d \in Disc BY <1>1 DEF Disc
  <2>2. disc' = [d EXCEPT !.keep = @ \cup {rows[r].market}] BY <1>3 DEF DiscPin
  <2>3. d.todo = disc.todo \ {r} /\ d.pc = "scan" BY <1>1 DEF Scanning
  <2> HIDE DEF d
  <2>4. disc' \in Disc /\ disc'.todo = disc.todo \ {r} /\ disc'.pc = "scan"
    BY <2>1, <2>2, <2>3 DEF Disc
  <2> QED BY <1>3, <2>4, DiscFrame DEF DiscPin, Typed, TypeOK, CallsNamed, DiscNamed
<1>4. CASE DiscOrphan(r)
  <2> DEFINE d == Done(r)
  <2>1. d \in Disc /\ d.todo = disc.todo \ {r} BY <1>1
  <2>2. disc' = [d EXCEPT !.pc = "orphan", !.row = r] BY <1>4 DEF DiscOrphan
  <2> HIDE DEF d
  <2>3. disc' \in Disc /\ disc'.todo = disc.todo \ {r} /\ disc'.row = r
    BY <2>1, <2>2 DEF Disc
  <2>4. DiscNamed'
    BY <1>1, <1>4, <2>3 DEF DiscOrphan, DiscNamed, Typed
  <2>5. op' = [op EXCEPT ![DiscThread] = CloseOp(rows[r].market)] BY <1>4 DEF DiscOrphan
  <2>6. op' \in [Threads -> Op] /\ CallsNamed'
    BY <1>1, <2>5, CloseOpTyped DEF Typed, TypeOK, CallsNamed
  <2> QED BY <1>4, <2>3, <2>4, <2>6, DiscFrame DEF DiscOrphan
<1> QED BY <1>2, <1>3, <1>4 DEF DiscScan

\* The orphan close asks for a close on the market of a row that exists.
LEMMA OrphanTyped ==
  ASSUME Typed, DiscOrphanDone \/ DiscReport
  PROVE  Typed'
<1>1. disc.row \in Rows /\ rows[disc.row].market \in Markets /\ disc \in Disc
  BY DEF DiscOrphanDone, DiscReport, Typed, TypeOK, DiscNamed, RowsNamed
<1>2. CASE DiscOrphanDone
  <2>1. disc' = [disc EXCEPT !.pc = "report"] BY <1>2 DEF DiscOrphanDone
  <2>2. disc' \in Disc /\ disc'.todo = disc.todo /\ disc'.row = disc.row
    BY <1>1, <2>1 DEF Disc
  <2>3. NoExtras \in Extras /\ NoStop \in StopLimit
    BY DEF NoExtras, Extras, NoStop, StopLimit
  <2>4. /\ extras' \in [Markets -> Extras] /\ stopRest' \in [Markets -> StopLimit]
        /\ cooling' \subseteq Markets
    BY <1>1, <1>2, <2>3 DEF DiscOrphanDone, Forget, Typed, TypeOK
  <2>5. DiscNamed' BY <1>1, <1>2, <2>2 DEF DiscOrphanDone, DiscNamed, Typed
  <2> QED BY <1>2, <2>2, <2>4, <2>5
          DEF DiscOrphanDone, Typed, TypeOK, RowsNamed, CallsNamed, TickNamed, offDisc, bounds
<1>3. CASE DiscReport
  <2>1. disc' = [disc EXCEPT !.pc = "scan", !.row = 0] BY <1>3 DEF DiscReport
  <2>2. disc' \in Disc /\ disc'.todo = disc.todo /\ disc'.pc = "scan"
    BY <1>1, <2>1 DEF Disc
  <2>3. /\ rows' \in [Rows -> Row]
        /\ \A s \in Rows : rows'[s].market = rows[s].market /\ rows'[s].status = rows[s].status
    BY <1>1, <1>3, ReportTyped DEF DiscReport
  <2>4. RowsNamed' /\ DiscNamed'
    BY <2>2, <2>3 DEF Typed, TypeOK, RowsNamed, DiscNamed, Disc
  <2> QED BY <1>3, <2>2, <2>3, <2>4
          DEF DiscReport, Typed, TypeOK, CallsNamed, TickNamed, offDisc, memory, bounds
<1> QED BY <1>2, <1>3

\* Cancelling the subscriber: the tick is gone, its call is dropped or detached.
LEMMA CancelTyped ==
  ASSUME Typed, CancelTick
  PROVE  /\ tick' \in Tick /\ TickNamed' /\ op' \in [Threads -> Op] /\ CallsNamed'
         /\ abandoned' \subseteq Markets
<1>1. tick' \in Tick /\ TickNamed'
  BY IdleTickTyped DEF CancelTick, TickNamed
<1>2. op' \in [Threads -> Op] /\ CallsNamed'
  <2>1. CASE op' = [op EXCEPT ![TickThread] = NoOp]
    BY <2>1, NoOpTyped DEF Typed, TypeOK, CallsNamed
  <2>2. ASSUME NEW d \in Detached,
               op' = [op EXCEPT ![d] = op[TickThread], ![TickThread] = NoOp]
        PROVE  op' \in [Threads -> Op] /\ CallsNamed'
    <3>1. d \in Threads /\ TickThread \in Threads /\ d # TickThread
      BY ThreadsAssumption DEF Threads
    <3>2. op[TickThread] \in Op BY <3>1 DEF Typed, TypeOK
    <3>3. \A t \in Threads : op'[t] = IF t = TickThread THEN NoOp
                                      ELSE IF t = d THEN op[TickThread] ELSE op[t]
      BY <2>2, <3>1 DEF Typed, TypeOK
    <3> QED BY <2>2, <3>1, <3>2, <3>3, NoOpTyped DEF Typed, TypeOK, CallsNamed
  <2> QED BY <2>1, <2>2 DEF CancelTick
<1>3. abandoned' \subseteq Markets
  <2>1. TickThread \in Threads BY DEF Threads
  <2>2. tick.pc \in {"tranche", "closing", "inserting"} => here \in Markets
    BY DEF Typed, TickNamed, here
  <2>3. op[TickThread].kind # "none" => op[TickThread].market \in Markets
    BY <2>1 DEF Typed, CallsNamed
  <2> QED BY <2>2, <2>3 DEF CancelTick, Typed, TypeOK
<1> QED BY <1>1, <1>2, <1>3

\* Every step of the discovery cycle keeps the shapes.
LEMMA DiscStepTyped == ASSUME Typed, DiscStep PROVE Typed'
<1>1. disc \in Disc BY DEF Typed, TypeOK
<1>2. CASE DiscList
  <2> DEFINE open == {r \in Rows : rows[r].status = "open"}
  <2>1. open \in SUBSET Rows /\ disc' = [disc EXCEPT !.pc = "scan", !.todo = open]
    BY <1>2 DEF DiscList
  <2>2. \A r \in open : rows[r].status # "absent" OBVIOUS
  <2> HIDE DEF open
  <2>3. disc' \in Disc /\ disc'.pc = "scan" /\ disc'.todo = open BY <1>1, <2>1 DEF Disc
  <2>4. DiscNamed' BY <1>2, <2>2, <2>3 DEF DiscList, DiscNamed
  <2> QED BY <1>2, <2>3, <2>4, DiscFrame DEF DiscList, Typed, TypeOK, CallsNamed
<1>3. CASE DiscSwap
  <2>1. disc' \in Disc /\ DiscNamed'
    BY <1>3, IdleDiscTyped DEF DiscSwap, DiscNamed
  <2>2. active' \subseteq Markets BY <1>1, <1>3 DEF DiscSwap, Disc
  <2>3. /\ tick' \in Tick /\ TickNamed' /\ op' \in [Threads -> Op] /\ CallsNamed'
        /\ abandoned' \subseteq Markets
    BY <1>3, CancelTyped DEF DiscSwap, Typed, TypeOK, TickNamed, CallsNamed
  <2> QED BY <1>3, <2>1, <2>2, <2>3
          DEF DiscSwap, Typed, TypeOK, RowsNamed, offDisc, memory, bounds
<1> QED BY <1>2, <1>3, ScanTyped, OrphanTyped DEF DiscStep

-----------------------------------------------------------------------------
(* The environment, and the theorem.                                       *)

\* A discovery cycle starts with markets that exist.
LEMMA DiscStartTyped ==
  ASSUME Typed, NEW F \in SUBSET Markets, DiscStart(F)
  PROVE  Typed'
<1>1. disc' \in Disc /\ disc'.pc = "list" /\ disc'.todo = {}
  BY IdleDiscTyped DEF DiscStart, Disc
<1>2. DiscNamed' BY <1>1 DEF DiscNamed
<1> QED BY <1>1, <1>2, DiscFrame DEF DiscStart, Typed, TypeOK, CallsNamed

\* The operator closes on a market that exists.
LEMMA ManualCloseTyped ==
  ASSUME Typed, NEW m \in Markets, ManualClose(m)
  PROVE  Typed'
<1>1. op' \in [Threads -> Op] /\ CallsNamed'
  <2>1. /\ CloseOp(m) \in Op /\ CloseOp(m).kind = "close"
        /\ CloseOp(m).market = m /\ CloseOp(m).state = "queued"
    BY CloseOpTyped
  <2>2. op' = [op EXCEPT ![OperThread] = CloseOp(m)] /\ rows' = rows
    BY DEF ManualClose
  <2> HIDE DEF CloseOp
  <2>3. op' \in [Threads -> Op]
    BY <2>1, <2>2 DEF Typed, TypeOK
  <2>4. \A t \in Threads : t # OperThread => op'[t] = op[t]
    BY <2>2 DEF Typed, TypeOK
  <2>5. op'[OperThread] = CloseOp(m) \/ OperThread \notin Threads
    BY <2>2 DEF Typed, TypeOK
  <2> QED BY <2>1, <2>3, <2>4, <2>5 DEF Typed, CallsNamed
<1> QED BY <1>1 DEF ManualClose, Typed, TypeOK, RowsNamed, TickNamed, DiscNamed, memory

\* A crash leaves a well-formed table and an empty daemon.
LEMMA CrashTyped == ASSUME Typed, Crash PROVE Typed'
<1>1. op' \in [Threads -> Op] /\ CallsNamed'
  BY NoOpTyped DEF Crash, Typed, TypeOK, CallsNamed
<1>2. NoExtras \in Extras /\ NoStop \in StopLimit
  BY DEF NoExtras, Extras, NoStop, StopLimit
<1>3. tick' \in Tick /\ TickNamed' /\ disc' \in Disc /\ DiscNamed'
  BY IdleTickTyped, IdleDiscTyped DEF Crash, TickNamed, DiscNamed
<1> QED BY <1>1, <1>2, <1>3 DEF Crash, Typed, TypeOK, RowsNamed

\* Every step keeps the shapes.
LEMMA NextTyped == ASSUME Typed, [Next]_vars PROVE Typed'
<1>1. ASSUME NEW m \in Markets, Age(m) \/ CooldownElapses(m) PROVE Typed'
  BY <1>1 DEF Age, CooldownElapses, Typed, TypeOK, RowsNamed, CallsNamed, TickNamed,
              DiscNamed, callVars, memory, bounds
<1>2. CASE UNCHANGED vars
  BY <1>2 DEF vars, Typed, TypeOK, RowsNamed, CallsNamed, TickNamed, DiscNamed
<1> QED BY <1>1, <1>2, ThreadStepTyped, TickStartTyped, TickStepTyped, DiscStartTyped,
           DiscStepTyped, ManualCloseTyped, CrashTyped DEF Next

\* The state keeps its shapes, and whatever exists in it names things that exist.
THEOREM TypeCorrect == Spec => []TypeOK
<1>1. Typed => TypeOK BY DEF Typed
<1> QED BY InitTyped, NextTyped, <1>1, PTL DEF Spec

-----------------------------------------------------------------------------
(***************************************************************************)
(* One open row per market, and the in-memory state that belongs to it:    *)
(* the inductive invariant behind OneOpenPosition, LadderStateFresh and    *)
(* StopSizedToPosition.                                                    *)
(*                                                                         *)
(* A market is live until a cancelled tick leaves a call behind on it.  On *)
(* a live market only the current tick inserts or splits, it looks before  *)
(* it inserts, and it forgets the previous position before the next.       *)
(***************************************************************************)
Live == Markets \ abandoned
At(m, pcs) == tick.market = m /\ tick.pc \in pcs

\* Who may insert and split.
OnlyTickInserts ==
  /\ op[TickThread].kind = "insert" => At(op[TickThread].market, {"inserting"})
  /\ op[TickThread].kind = "partial" => At(op[TickThread].market, {"tranche"})
  /\ \A t \in Threads \ {TickThread} :
        op[t].kind \in {"insert", "partial"} => op[t].market \notin Live

\* What the tick relies on while it is under way.
TickLooked ==
  /\ \A m \in Live : At(m, {"enter", "approved"}) => OpenRows(m) = {}
  /\ \A m \in Live : op[TickThread].kind = "insert" /\ op[TickThread].market = m
                       => OpenRows(m) = {}
  /\ \A m \in Live : At(m, {"manage"})
                       => \A r \in OpenRows(m) : r = tick.row /\ rows[r].size = tick.size
  /\ \A m \in Live : At(m, {"approved", "inserting"})
                       => extras[m].owner = 0 /\ stopRest[m].owner = 0

\* The stop limit is right except between a tranche and its bookkeeping.
StopSized ==
  \A m \in Live :
     stopRest[m].owner # 0 /\ ~(At(m, {"tranche"}) /\ op[TickThread] = NoOp)
       => \A r \in OpenRows(m) : r = stopRest[m].owner /\ rows[r].size = stopRest[m].size

Owned == /\ Typed /\ OneOpenPosition /\ LadderStateFresh
         /\ OnlyTickInserts /\ TickLooked /\ StopSized

\* With no position there is nothing to own.
LEMMA InitOwned == Init => Owned
<1> SUFFICES ASSUME Init PROVE Owned OBVIOUS
<1>1. /\ \A r \in Rows : rows[r].status = "absent"
      /\ \A t \in Threads : op[t].kind = "none"
      /\ \A m \in Markets : extras[m].owner = 0 /\ stopRest[m].owner = 0
      /\ tick.pc = "idle"
  BY DEF Init, Absent, NoOp, NoExtras, NoStop, IdleTick
<1>2. \A m \in Markets : OpenRows(m) = {} BY <1>1 DEF OpenRows
<1>3. TickThread \in Threads BY DEF Threads
<1> QED BY <1>1, <1>2, <1>3, InitTyped
        DEF Owned, OneOpenPosition, LadderStateFresh, OnlyTickInserts, TickLooked, StopSized,
            Live, At

-----------------------------------------------------------------------------
(* Portfolio calls.                                                        *)

\* Reading a row disturbs no ownership.
LEMMA ReadOpenRowOwned ==
  ASSUME Owned, NEW t \in Threads, ReadOpenRow(t)
  PROVE  Owned'
<1>1. Typed' BY ReadOpenRowTyped DEF Owned
<1>2. UNCHANGED <<rows, tick, extras, stopRest, abandoned>>
  BY DEF ReadOpenRow, offLoop, memory
<1>3. /\ op[t].kind \in {"close", "partial"}
      /\ \A u \in Threads \ {t} : op'[u] = op[u]
      /\ \/ op'[t].market = op[t].market /\ op'[t].kind = op[t].kind
         \/ op'[t] = NoOp /\ OpenRows(op[t].market) = {}
  <2>1. CASE OpenRows(op[t].market) = {} /\ op' = [op EXCEPT ![t] = NoOp]
    BY <2>1, NoOpTyped DEF ReadOpenRow, Owned, Typed, TypeOK
  <2>2. ASSUME NEW r \in OpenRows(op[t].market),
               op' = [op EXCEPT ![t] = [@ EXCEPT !.state = "read", !.row = r,
                                             !.size = rows[r].size]]
        PROVE  /\ \A u \in Threads \ {t} : op'[u] = op[u]
               /\ op'[t].market = op[t].market /\ op'[t].kind = op[t].kind
    <3> DEFINE c == [op[t] EXCEPT !.state = "read", !.row = r, !.size = rows[r].size]
    <3>1. c.kind = op[t].kind /\ c.market = op[t].market
      BY DEF Owned, Typed, TypeOK, Op
    <3>2. op' = [op EXCEPT ![t] = c] BY <2>2
    <3> HIDE DEF c
    <3> QED BY <3>1, <3>2 DEF Owned, Typed, TypeOK
  <2>3. /\ op[t].kind \in {"close", "partial"}
        /\ \/ OpenRows(op[t].market) = {} /\ op' = [op EXCEPT ![t] = NoOp]
           \/ \E r \in OpenRows(op[t].market) :
                 op' = [op EXCEPT ![t] = [@ EXCEPT !.state = "read", !.row = r,
                                                   !.size = rows[r].size]]
    BY DEF ReadOpenRow
  <2> QED BY <2>1, <2>2, <2>3
<1>4. TickThread \in Threads BY DEF Threads
<1>5. OneOpenPosition' /\ LadderStateFresh'
  BY <1>2 DEF Owned, OneOpenPosition, LadderStateFresh, OpenRows
<1>6. OnlyTickInserts'
  BY <1>2, <1>3, <1>4, NoOpTyped DEF Owned, OnlyTickInserts, Live, At
<1>7. TickLooked'
  BY <1>2, <1>3, <1>4, NoOpTyped DEF Owned, TickLooked, Live, At, OpenRows
<1>8. StopSized'
  BY <1>2, <1>3, <1>4, NoOpTyped DEF Owned, OnlyTickInserts, StopSized, Live, At, OpenRows
<1> QED BY <1>1, <1>5, <1>6, <1>7, <1>8 DEF Owned

\* A close leaves fewer open rows: what was owned stays owned.
LEMMA ClosePositionOwned ==
  ASSUME Owned, NEW t \in Threads, ClosePosition(t)
  PROVE  Owned'
<1>1. Typed' BY ClosePositionTyped DEF Owned
<1>2. UNCHANGED <<tick, extras, stopRest, abandoned>>
  BY DEF ClosePosition, offLoop, memory
<1>3. /\ op[t].kind = "close" /\ op'[t] = NoOp /\ op'[t].kind = "none"
      /\ \A u \in Threads \ {t} : op'[u] = op[u]
  BY NoOpTyped DEF ClosePosition, Owned, Typed, TypeOK
<1>4. \A m \in Markets : \A r \in OpenRows(m)' : r \in OpenRows(m) /\ rows'[r] = rows[r]
  BY DEF ClosePosition, OpenRows, Owned, Typed, TypeOK, Row
<1>6. TickThread \in Threads BY DEF Threads
<1>7. OneOpenPosition' /\ LadderStateFresh'
  BY <1>2, <1>4 DEF Owned, OneOpenPosition, LadderStateFresh
<1>8. OnlyTickInserts'
  BY <1>2, <1>3, <1>6 DEF Owned, OnlyTickInserts, Live, At
<1>9. TickLooked'
  BY <1>2, <1>3, <1>4, <1>6 DEF Owned, TickLooked, Live, At
<1>10. StopSized'
  BY <1>2, <1>3, <1>4, <1>6 DEF Owned, StopSized, Live, At
<1> QED BY <1>1, <1>7, <1>8, <1>9, <1>10 DEF Owned

\* A tranche shrinks the row of its caller only; its stop limit is settled in the step after.
LEMMA PartialClosePositionOwned ==
  ASSUME Owned, NEW t \in Threads, PartialClosePosition(t)
  PROVE  Owned'
<1>1. Typed' BY PartialClosePositionTyped DEF Owned
<1>2. UNCHANGED <<tick, extras, stopRest, abandoned>>
  BY DEF PartialClosePosition, offLoop, memory
<1>3. /\ op[t].kind = "partial" /\ op'[t] = NoOp /\ op'[t].kind = "none"
      /\ \A u \in Threads \ {t} : op'[u] = op[u]
  BY NoOpTyped DEF PartialClosePosition, Owned, Typed, TypeOK
<1>4. \A r \in Rows : /\ rows'[r].market = rows[r].market /\ rows'[r].status = rows[r].status
                      /\ r \notin OpenRows(op[t].market) => rows'[r].size = rows[r].size
  BY PartialCloseRows DEF Owned
<1>5. \A m \in Markets : OpenRows(m)' = OpenRows(m)
  BY <1>4 DEF OpenRows
<1>6. \A m \in Markets \ {op[t].market} : \A r \in OpenRows(m) : rows'[r].size = rows[r].size
  BY <1>4 DEF OpenRows
<1>7. TickThread \in Threads BY DEF Threads
<1>8. OneOpenPosition' /\ LadderStateFresh'
  BY <1>2, <1>5 DEF Owned, OneOpenPosition, LadderStateFresh
<1>9. OnlyTickInserts'
  BY <1>2, <1>3, <1>7 DEF Owned, OnlyTickInserts, Live, At
<1>10. op[t].market \in Live => t = TickThread /\ At(op[t].market, {"tranche"})
  BY <1>3 DEF Owned, OnlyTickInserts
<1>11. TickLooked'
  BY <1>2, <1>3, <1>5, <1>6, <1>7, <1>10 DEF Owned, TickLooked, Live, At
<1>12. StopSized'
  BY <1>2, <1>3, <1>5, <1>6, <1>7, <1>10 DEF Owned, StopSized, Live, At
<1> QED BY <1>1, <1>8, <1>9, <1>11, <1>12 DEF Owned

\* The insert finds the market without an open row, because the tick looked.
LEMMA RecordExecutionOwned ==
  ASSUME Owned, NEW t \in Threads, RecordExecution(t)
  PROVE  Owned'
<1>1. Typed' BY RecordExecutionTyped DEF Owned
<1>2. UNCHANGED <<tick, extras, stopRest, abandoned>>
  BY DEF RecordExecution, offLoop, memory
<1>3. /\ op[t].kind = "insert" /\ op'[t] = NoOp /\ op'[t].kind = "none"
      /\ \A u \in Threads \ {t} : op'[u] = op[u]
  BY NoOpTyped DEF RecordExecution, Owned, Typed, TypeOK
<1>4. \A r \in Rows \ {used + 1} : rows'[r] = rows[r]
  BY DEF RecordExecution, Owned, Typed, TypeOK
<1>5. used + 1 \in Rows => rows'[used + 1].market = op[t].market
  <2> DEFINE new == [Absent EXCEPT !.market = op[t].market, !.status = "open", !.size = Size]
  <2>1. new.market = op[t].market BY DEF Absent
  <2>2. rows' = [rows EXCEPT ![used + 1] = new] BY DEF RecordExecution
  <2> HIDE DEF new
  <2> QED BY <2>1, <2>2 DEF Owned, Typed, TypeOK
<1>6. \A m \in Markets \ {op[t].market} : \A r \in OpenRows(m)' :
         r \in OpenRows(m) /\ rows'[r] = rows[r]
  BY <1>4, <1>5 DEF OpenRows
<1>7. \A m \in Markets : OpenRows(m) = {} => \A r \in OpenRows(m)' : r = used + 1
  BY <1>4 DEF OpenRows
<1>8. TickThread \in Threads BY DEF Threads
<1>9. op[t].market \in Live
        => /\ t = TickThread /\ At(op[t].market, {"inserting"}) /\ OpenRows(op[t].market) = {}
           /\ extras[op[t].market].owner = 0 /\ stopRest[op[t].market].owner = 0
  BY <1>3 DEF Owned, OnlyTickInserts, TickLooked, At
<1>10. OneOpenPosition'
  BY <1>2, <1>6, <1>7, <1>9 DEF Owned, OneOpenPosition, Live
<1>11. LadderStateFresh'
  BY <1>2, <1>6, <1>9 DEF Owned, LadderStateFresh, Live
<1>12. OnlyTickInserts'
  BY <1>2, <1>3, <1>8 DEF Owned, OnlyTickInserts, Live, At
<1>13. TickLooked'
  BY <1>2, <1>3, <1>6, <1>8, <1>9 DEF Owned, TickLooked, Live, At
<1>14. StopSized'
  BY <1>2, <1>3, <1>6, <1>8, <1>9 DEF Owned, StopSized, Live, At
<1> QED BY <1>1, <1>10, <1>11, <1>12, <1>13, <1>14 DEF Owned

-----------------------------------------------------------------------------
(* The decision pipeline.                                                  *)

\* Starting a tick touches no position.
LEMMA TickStartOwned ==
  ASSUME Owned, NEW m \in Markets, TickStart(m)
  PROVE  Owned'
<1>1. Typed' BY TickStartTyped DEF Owned
<1>2. UNCHANGED <<rows, op, extras, stopRest, abandoned>> /\ tick.pc = "idle" /\ tick'.pc = "read"
  BY DEF TickStart, offTick, memory, IdleTick
<1>3. op[TickThread].kind \notin {"insert", "partial"}
  BY <1>2 DEF Owned, OnlyTickInserts, At
<1> QED BY <1>1, <1>2, <1>3
        DEF Owned, OneOpenPosition, LadderStateFresh, OnlyTickInserts, TickLooked, StopSized,
            Live, At, OpenRows

\* After its read the tick goes on to enter only if no row was open.
LEMMA TickReadOwned ==
  ASSUME Owned, TickRead
  PROVE  Owned'
<1>1. Typed' BY TickReadTyped DEF Owned
<1>2. UNCHANGED <<rows, op, extras, stopRest, abandoned>> /\ tick.pc = "read"
  BY DEF TickRead, offTick, memory
<1>3. op[TickThread].kind \notin {"insert", "partial"}
  BY <1>2 DEF Owned, OnlyTickInserts, At
<1>4. /\ tick'.market = tick.market
      /\ \/ tick'.pc = "enter" /\ OpenRows(tick.market) = {}
         \/ /\ tick'.pc = "manage" /\ tick'.row \in OpenRows(tick.market)
            /\ tick'.size = rows[tick'.row].size
  BY DEF TickRead, Goto, here, Owned, Typed, TypeOK, Tick
<1>5. \A m \in Live : At(m, {"manage"})'
        => \A r \in OpenRows(m) : r = tick'.row /\ rows[r].size = tick'.size
  BY <1>4 DEF Owned, OneOpenPosition, Live, At
<1> QED BY <1>1, <1>2, <1>3, <1>4, <1>5
        DEF Owned, OneOpenPosition, LadderStateFresh, OnlyTickInserts, TickLooked, StopSized,
            Live, At, OpenRows

\* A managing step keeps or adopts the open position's own ladder state, and lets the
\* stop limit be, drops it or posts it for the shares it read.
LEMMA ManageFrame ==
  ASSUME Owned, Typed', tick.pc = "manage",
         UNCHANGED <<rows, abandoned>>,
         tick'.pc \in {"idle", "closing", "tranche"},
         \A u \in Threads \ {TickThread} : op'[u] = op[u],
         \/ op'[TickThread].kind \in {"none", "close"}
         \/ /\ op'[TickThread].kind = "partial" /\ op'[TickThread].market = here
            /\ tick'.market = here /\ tick'.pc = "tranche",
         \A m \in Markets : \/ extras'[m].owner = extras[m].owner
                            \/ m = here /\ extras'[m].owner = tick.row,
         \A m \in Markets : \/ stopRest'[m].owner = 0
                            \/ /\ stopRest'[m].owner = stopRest[m].owner
                               /\ stopRest'[m].size = stopRest[m].size
                            \/ /\ m = here /\ stopRest'[m].owner = tick.row
                               /\ stopRest'[m].size = tick.size
  PROVE  Owned'
<1>1. \A m \in Markets : OpenRows(m)' = OpenRows(m) BY DEF OpenRows
<1>2. \A m \in Live : m = here => \A r \in OpenRows(m) : r = tick.row /\ rows[r].size = tick.size
  BY DEF Owned, TickLooked, At, here
<1>3. OneOpenPosition' BY <1>1 DEF Owned, OneOpenPosition
<1>4. LadderStateFresh' BY <1>1, <1>2 DEF Owned, LadderStateFresh, Live
<1>5. OnlyTickInserts' BY DEF Owned, OnlyTickInserts, Live, At
<1>6. TickLooked' BY <1>1 DEF TickLooked, At
<1>7. StopSized' BY <1>1, <1>2 DEF Owned, StopSized, Live, At
<1> QED BY <1>3, <1>4, <1>5, <1>6, <1>7 DEF Owned

\* Every branch of the exit ladder keeps ownership.
LEMMA ManageOwned ==
  ASSUME Owned, TickManage
  PROVE  Owned'
<1> USE DEF Owned
<1>1. Typed' BY ManageTyped
<1>2. TickThread \in Threads BY DEF Threads
<1>3. CASE ManageBlind
  <2>1. UNCHANGED <<rows, abandoned, op, extras, stopRest>> /\ tick'.pc = "idle" /\ tick.pc = "manage"
    BY <1>3, IdleTickTyped DEF ManageBlind, memory, offTick
  <2>2. op[TickThread].kind \in {"none", "close"}
    BY <1>2, <2>1 DEF OnlyTickInserts, At, Typed, TypeOK, Op
  <2> QED BY <1>1, <2>1, <2>2, ManageFrame
<1> DEFINE Own(e) == e.owner = IF extras[here].owner = 0 THEN tick.row ELSE extras[here].owner
<1>4. ASSUME NEW p \in Prices, Managing(p)
      PROVE  /\ here \in Markets /\ Own(Seen(p)) /\ Own(Trailed(p))
             /\ Own([Seen(p) EXCEPT !.below = @ + 1])
             /\ Seen(p) \in Extras /\ Trailed(p) \in Extras
             /\ [Seen(p) EXCEPT !.below = @ + 1] \in Extras
  <2>1. here \in Markets /\ tick.row \in Rows /\ p \in Nat BY <1>4, ManagingTyped
  <2>2. Own(Seen(p)) /\ Own(Trailed(p)) BY <2>1, SeenTyped, TrailedTyped DEF Typed
  <2>3. [Seen(p) EXCEPT !.below = @ + 1].owner = Seen(p).owner
    BY <1>4, ManagingTyped DEF Extras
  <2> QED BY <1>4, <2>1, <2>2, <2>3, ManagingTyped
<1>5. ASSUME NEW e \in Extras, Own(e), SetExtras(e), here \in Markets
      PROVE  \A m \in Markets : \/ extras'[m].owner = extras[m].owner
                                \/ m = here /\ extras'[m].owner = tick.row
  BY <1>5 DEF SetExtras, Typed, TypeOK
<1>6. ASSUME StartClose, here \in Markets
      PROVE  /\ tick'.pc = "closing" /\ op'[TickThread].kind = "close"
             /\ \A u \in Threads \ {TickThread} : op'[u] = op[u]
  BY <1>2, <1>6, CloseOpTyped, GotoTyped DEF StartClose, Call, Typed, TypeOK, Pc
<1>7. ASSUME SetStop(NoStop), here \in Markets
      PROVE  \A m \in Markets : stopRest'[m].owner = 0 \/ stopRest'[m] = stopRest[m]
  BY <1>7 DEF SetStop, NoStop, Typed, TypeOK
<1>8. ASSUME tick' = IdleTick, op' = op, tick.pc = "manage"
      PROVE  tick'.pc = "idle" /\ op'[TickThread].kind \in {"none", "close"}
  BY <1>2, <1>8, IdleTickTyped DEF OnlyTickInserts, At, Typed, TypeOK, Op
<1> HIDE DEF Own
<1>9. ASSUME NEW p \in Prices, ManageTrail(p) PROVE Owned'
  <2>1. Managing(p) /\ UNCHANGED <<rows, abandoned, stopRest>> /\ tick.pc = "manage"
    BY <1>9 DEF ManageTrail, Managing, offTick
  <2> QED BY <1>1, <1>4, <1>5, <1>6, <1>9, <2>1, ManageFrame DEF ManageTrail
<1>10. ASSUME NEW p \in Prices, ManageStopRest(p) \/ ManageExit(p) PROVE Owned'
  <2>1. /\ Managing(p) /\ UNCHANGED <<rows, abandoned>> /\ tick.pc = "manage"
        /\ SetExtras(Trailed(p)) /\ SetStop(NoStop) /\ StartClose
    BY <1>10 DEF ManageStopRest, ManageExit, StopSettled, PastTrail, Managing, offTick
  <2> QED BY <1>1, <1>4, <1>5, <1>6, <1>7, <2>1, ManageFrame
<1>11. ASSUME NEW p \in Prices, ManageHold(p) PROVE Owned'
  <2>1. /\ Managing(p) /\ UNCHANGED <<rows, abandoned>> /\ tick.pc = "manage"
        /\ SetExtras(Trailed(p)) /\ SetStop(NoStop) /\ tick' = IdleTick /\ op' = op
    BY <1>11 DEF ManageHold, StopSettled, PastTrail, Managing, offTick
  <2> QED BY <1>1, <1>4, <1>5, <1>7, <1>8, <2>1, ManageFrame
<1>12. ASSUME NEW p \in Prices, ManageStopWait(p) PROVE Owned'
  <2>1. /\ Managing(p) /\ UNCHANGED <<rows, abandoned>> /\ tick.pc = "manage"
        /\ SetExtras(Trailed(p)) /\ tick' = IdleTick /\ op' = op
    BY <1>12 DEF ManageStopWait, PastTrail, Managing, offTick
  <2>2. \A m \in Markets : /\ stopRest'[m].owner = stopRest[m].owner
                           /\ stopRest'[m].size = stopRest[m].size
    BY <1>4, <1>12, <2>1 DEF ManageStopWait, SetStop, Typed, TypeOK, StopLimit
  <2> QED BY <1>1, <1>4, <1>5, <1>8, <2>1, <2>2, ManageFrame
<1>13. ASSUME NEW p \in Prices, ManageStopPost(p) PROVE Owned'
  <2>1. /\ Managing(p) /\ UNCHANGED <<rows, abandoned>> /\ tick.pc = "manage"
        /\ SetExtras(Trailed(p)) /\ tick' = IdleTick /\ op' = op
    BY <1>13 DEF ManageStopPost, PastTrail, Managing, offTick
  <2>2. \A m \in Markets : \/ stopRest'[m] = stopRest[m]
                           \/ /\ m = here /\ stopRest'[m].owner = tick.row
                              /\ stopRest'[m].size = tick.size
    BY <1>4, <1>13, <2>1 DEF ManageStopPost, SetStop, Typed, TypeOK
  <2> QED BY <1>1, <1>4, <1>5, <1>8, <2>1, <2>2, ManageFrame
<1>14. ASSUME NEW p \in Prices, ManageLadder(p) PROVE Owned'
  <2>1. /\ Managing(p) /\ UNCHANGED <<rows, abandoned, stopRest>> /\ tick.pc = "manage"
        /\ SetExtras(Seen(p)) /\ tick'.pc = "tranche" /\ tick'.market = here
    BY <1>14 DEF ManageLadder, Managing, offTick, here, Typed, TypeOK, Tick
  <2>2. /\ \A u \in Threads \ {TickThread} : op'[u] = op[u]
        /\ \/ op'[TickThread].kind \in {"none", "close"}
           \/ op'[TickThread].kind = "partial" /\ op'[TickThread].market = here
    <3> DEFINE k      == Seen(p).tranches + 1
               target == (Ladder[k].num * Seen(p).original) \div Parts
               c      == TrancheOp(here, target, tick.size, k)
    <3>1. Call(c) BY <1>14 DEF ManageLadder
    <3>2. c.kind \in {"none", "close"} \/ (c.kind = "partial" /\ c.market = here)
      <4> HIDE DEF k, target
      <4>1. /\ PartialOp(here, target, tick.size, k).kind = "partial"
            /\ PartialOp(here, target, tick.size, k).market = here
        BY NoOpTyped DEF PartialOp, Op
      <4>2. here \in Markets BY <1>4, <2>1
      <4>3. CloseOp(here).kind = "close" /\ NoOp.kind = "none"
        BY <4>2, NoOpTyped, CloseOpTyped
      <4>4. c \in {CloseOp(here), PartialOp(here, target, tick.size, k), NoOp}
        BY DEF TrancheOp
      <4> HIDE DEF c
      <4> QED BY <4>1, <4>3, <4>4
    <3> HIDE DEF c
    <3> QED BY <1>2, <3>1, <3>2 DEF Call, Typed, TypeOK
  <2> QED BY <1>1, <1>4, <1>5, <2>1, <2>2, ManageFrame DEF At
<1> QED BY <1>3, <1>9, <1>10, <1>11, <1>12, <1>13, <1>14 DEF TickManage

\* After a tranche the stop limit that was sized before it is gone.
LEMMA TickTrancheDoneOwned ==
  ASSUME Owned, TickTrancheDone
  PROVE  Owned'
<1> USE DEF Owned
<1>1. Typed' BY TickRestTyped
<1>2. UNCHANGED <<rows, op, abandoned>> /\ tick'.pc = "idle" /\ here \in Markets
      /\ op[TickThread] = NoOp
  BY IdleTickTyped DEF TickTrancheDone, offTick, Typed, TickNamed, here
<1>3. \A m \in Markets : extras'[m].owner = extras[m].owner
  BY <1>2 DEF TickTrancheDone, SetExtras, Typed, TypeOK, Extras
<1>4. /\ stopRest'[here].owner = 0
      /\ \A m \in Markets : m # here => stopRest'[m] = stopRest[m]
  BY <1>2 DEF TickTrancheDone, SetStop, NoStop, Typed, TypeOK
<1> QED BY <1>1, <1>2, <1>3, <1>4, NoOpTyped
        DEF OneOpenPosition, LadderStateFresh, OnlyTickInserts, TickLooked, StopSized,
            Live, At, OpenRows, here

\* What forgetting a position does.
LEMMA ForgetOwned ==
  ASSUME Owned, NEW m \in Markets, Forget(m)
  PROVE  \A n \in Markets :
           /\ extras'[n].owner = 0 \/ (n # m /\ extras'[n] = extras[n])
           /\ stopRest'[n].owner = 0 \/ (n # m /\ stopRest'[n] = stopRest[n])
<1>1. NoExtras.owner = 0 /\ NoStop.owner = 0 BY DEF NoExtras, NoStop
<1> QED BY <1>1 DEF Forget, Owned, Typed, TypeOK

\* After a close the ladder state and the stop limit of the market are forgotten.
LEMMA TickCloseDoneOwned ==
  ASSUME Owned, TickCloseDone
  PROVE  Owned'
<1> USE DEF Owned
<1>1. Typed' BY TickRestTyped
<1>2. /\ UNCHANGED <<rows, op, abandoned>> /\ tick'.pc = "report" /\ here \in Markets
      /\ op[TickThread] = NoOp /\ tick.pc = "closing"
  BY GotoTyped DEF TickCloseDone, offTick, Typed, TypeOK, TickNamed, Pc, here
<1>3. \A n \in Markets :
           /\ extras'[n].owner = 0 \/ extras'[n] = extras[n]
           /\ stopRest'[n].owner = 0 \/ stopRest'[n] = stopRest[n]
  BY <1>2, ForgetOwned DEF TickCloseDone
<1> QED BY <1>1, <1>2, <1>3, NoOpTyped
        DEF OneOpenPosition, LadderStateFresh, OnlyTickInserts, TickLooked, StopSized,
            Live, At, OpenRows

\* An event changes neither what is open nor its size.
LEMMA ReportRows ==
  ASSUME Owned, NEW r \in Rows, rows' = [rows EXCEPT ![r].events = @ + 1]
  PROVE  /\ \A m \in Markets : OpenRows(m)' = OpenRows(m)
         /\ \A s \in Rows : rows'[s].size = rows[s].size
BY ReportTyped DEF Owned, OpenRows

\* Logging the close touches no position.
LEMMA TickReportOwned ==
  ASSUME Owned, TickReport
  PROVE  Owned'
<1> USE DEF Owned
<1>1. Typed' BY TickReportTyped
<1>2. UNCHANGED <<op, extras, stopRest, abandoned>> /\ tick'.pc = "idle" /\ tick.pc = "report"
      /\ tick.row \in Rows
  BY IdleTickTyped DEF TickReport, offTick, memory, Typed, TickNamed
<1>3. /\ \A m \in Markets : OpenRows(m)' = OpenRows(m) /\ OpenRows(m) \subseteq Rows
      /\ \A s \in Rows : rows'[s].size = rows[s].size
  BY <1>2, ReportRows DEF TickReport, OpenRows
<1>4. op[TickThread].kind \notin {"insert", "partial"}
  BY <1>2 DEF OnlyTickInserts, At
<1> QED BY <1>1, <1>2, <1>3, <1>4
        DEF OneOpenPosition, LadderStateFresh, OnlyTickInserts, TickLooked, StopSized, Live, At

\* Between its look at the table and its insert the tick keeps its knowledge that nothing is open.
LEMMA TickEnterOwned ==
  ASSUME Owned, TickEnter
  PROVE  Owned'
<1> USE DEF Owned
<1>1. Typed' BY TickRestTyped
<1>2. /\ UNCHANGED <<rows, abandoned>> /\ tick.pc = "enter" /\ here \in Markets
      /\ here = tick.market /\ Forget(here)
  BY DEF TickEnter, TickNoEntry, TickApprove, TickMakerFill, offTick, Typed, TickNamed, here
<1>3. \A n \in Markets :
           /\ extras'[n].owner = 0 \/ (n # here /\ extras'[n] = extras[n])
           /\ stopRest'[n].owner = 0 \/ (n # here /\ stopRest'[n] = stopRest[n])
  BY <1>2, ForgetOwned
<1>4. op[TickThread].kind \notin {"insert", "partial"}
  BY <1>2 DEF OnlyTickInserts, At
<1>5. here \in Live => OpenRows(here) = {}
  BY <1>2 DEF TickLooked, At
<1>6. CASE TickNoEntry
  <2>1. tick'.pc = "idle" /\ op' = op BY <1>6, IdleTickTyped DEF TickNoEntry
  <2> QED BY <1>1, <1>2, <1>3, <1>4, <2>1
          DEF OneOpenPosition, LadderStateFresh, OnlyTickInserts, TickLooked, StopSized,
              Live, At, OpenRows
<1>7. CASE TickApprove
  <2>1. tick'.pc = "approved" /\ tick'.market = here /\ op' = op
    BY <1>2, <1>7, GotoTyped DEF TickApprove, Pc, Typed, TypeOK
  <2> QED BY <1>1, <1>2, <1>3, <1>4, <1>5, <2>1
          DEF OneOpenPosition, LadderStateFresh, OnlyTickInserts, TickLooked, StopSized,
              Live, At, OpenRows
<1>8. CASE TickMakerFill
  <2>1. tick'.pc = "inserting" /\ tick'.market = here
    BY <1>2, <1>8, GotoTyped DEF TickMakerFill, Pc, Typed, TypeOK
  <2>2. /\ \A u \in Threads \ {TickThread} : op'[u] = op[u]
        /\ op'[TickThread].kind = "insert" /\ op'[TickThread].market = here
    BY <1>2, <1>8, InsertOpTyped DEF TickMakerFill, Call, Typed, TypeOK, Threads
  <2> QED BY <1>1, <1>2, <1>3, <1>4, <1>5, <2>1, <2>2
          DEF OneOpenPosition, LadderStateFresh, OnlyTickInserts, TickLooked, StopSized,
              Live, At, OpenRows
<1> QED BY <1>6, <1>7, <1>8 DEF TickEnter

\* Submitting the entry hands one insert to the thread of the tick.
LEMMA TickSubmitOwned ==
  ASSUME Owned, TickSubmit
  PROVE  Owned'
<1> USE DEF Owned
<1>1. Typed' BY TickRestTyped
<1>2. /\ UNCHANGED <<rows, abandoned, extras, stopRest>> /\ tick.pc = "approved"
      /\ here \in Markets /\ here = tick.market
  BY DEF TickSubmit, offTick, memory, Typed, TickNamed, here
<1>3. tick'.pc = "inserting" /\ tick'.market = here
  BY <1>2, GotoTyped DEF TickSubmit, Pc, Typed, TypeOK
<1>4. /\ \A u \in Threads \ {TickThread} : op'[u] = op[u]
      /\ op'[TickThread].kind = "insert" /\ op'[TickThread].market = here
  BY <1>2, InsertOpTyped DEF TickSubmit, Call, Typed, TypeOK, Threads
<1>5. op[TickThread].kind \notin {"insert", "partial"}
  BY <1>2 DEF OnlyTickInserts, At
<1> QED BY <1>1, <1>2, <1>3, <1>4, <1>5
        DEF OneOpenPosition, LadderStateFresh, OnlyTickInserts, TickLooked, StopSized,
            Live, At, OpenRows

\* When the insert has returned the tick ends.
LEMMA TickInsertedOwned ==
  ASSUME Owned, TickInserted
  PROVE  Owned'
<1> USE DEF Owned
<1>1. Typed' BY TickRestTyped
<1>2. /\ UNCHANGED <<rows, op, abandoned, extras, stopRest>> /\ tick.pc = "inserting"
      /\ tick'.pc = "idle" /\ op[TickThread] = NoOp
  BY IdleTickTyped DEF TickInserted, offTick, memory
<1> QED BY <1>1, <1>2, NoOpTyped
        DEF OneOpenPosition, LadderStateFresh, OnlyTickInserts, TickLooked, StopSized,
            Live, At, OpenRows

\* Every step of the tick keeps ownership.
LEMMA TickStepOwned == ASSUME Owned, TickStep PROVE Owned'
BY TickReadOwned, ManageOwned, TickTrancheDoneOwned, TickCloseDoneOwned, TickReportOwned,
   TickEnterOwned, TickSubmitOwned, TickInsertedOwned DEF TickStep

-----------------------------------------------------------------------------
(* The discovery cycle.                                                    *)

\* Steps that leave the tick alone and give some other thread at most a close.
LEMMA AsideOwned ==
  ASSUME Owned, Typed', UNCHANGED <<rows, tick, abandoned>>,
         op'[TickThread] = op[TickThread],
         \A u \in Threads \ {TickThread} : op'[u] = op[u] \/ op'[u].kind \in {"none", "close"},
         \A n \in Markets : /\ extras'[n].owner = 0 \/ extras'[n] = extras[n]
                            /\ stopRest'[n].owner = 0 \/ stopRest'[n] = stopRest[n]
  PROVE  Owned'
BY DEF Owned, OneOpenPosition, LadderStateFresh, OnlyTickInserts, TickLooked, StopSized,
       Live, At, OpenRows

\* A cancelled tick that leaves a call behind gives up its market; otherwise nothing is lost.
LEMMA CancelOwned ==
  ASSUME Owned, Typed', CancelTick, UNCHANGED <<rows, extras, stopRest>>
  PROVE  Owned'
<1> USE DEF Owned
<1>1. tick'.pc = "idle" /\ TickThread \in Threads
  BY IdleTickTyped DEF CancelTick, Threads
<1>2. Live' \subseteq Live /\ Live \subseteq Markets BY DEF CancelTick, Live
<1>3. CASE op' = [op EXCEPT ![TickThread] = NoOp]
           /\ (At(here, {"tranche"}) /\ op[TickThread] = NoOp => here \notin Live')
  <2>1. /\ op'[TickThread] = NoOp /\ op'[TickThread].kind = "none"
        /\ \A u \in Threads \ {TickThread} : op'[u] = op[u]
    BY <1>1, <1>3, NoOpTyped DEF Typed, TypeOK
  <2> QED BY <1>1, <1>2, <1>3, <2>1
          DEF OneOpenPosition, LadderStateFresh, OnlyTickInserts, TickLooked, StopSized,
              At, OpenRows, here, Live
<1>4. ASSUME NEW d \in Detached, op[TickThread].kind # "none",
             op' = [op EXCEPT ![d] = op[TickThread], ![TickThread] = NoOp],
             abandoned' = abandoned \cup {op[TickThread].market}
      PROVE  Owned'
  <2>1. d \in Threads /\ d # TickThread BY ThreadsAssumption DEF Threads
  <2>2. /\ op'[TickThread] = NoOp /\ op'[TickThread].kind = "none"
        /\ op'[d] = op[TickThread] /\ op[TickThread] # NoOp
        /\ \A u \in Threads \ {TickThread, d} : op'[u] = op[u]
    <3>1. \A t \in Threads : op'[t] = IF t = TickThread THEN NoOp
                                      ELSE IF t = d THEN op[TickThread] ELSE op[t]
      BY <1>1, <1>4, <2>1 DEF Typed, TypeOK
    <3> QED BY <1>1, <1>4, <2>1, <3>1, NoOpTyped
  <2>3. \A m \in Markets : OpenRows(m)' = OpenRows(m) BY DEF OpenRows
  <2>4. OneOpenPosition' /\ LadderStateFresh'
    BY <1>2, <2>3 DEF OneOpenPosition, LadderStateFresh, Live
  <2>5. OnlyTickInserts'
    <3>1. op'[d].market \notin Live' BY <1>4, <2>2 DEF Live
    <3>2. ASSUME NEW t \in Threads \ {TickThread, d}, op'[t].kind \in {"insert", "partial"}
          PROVE  op'[t].market \notin Live'
      <4>1. op'[t] = op[t] BY <2>2
      <4>2. op[t].market \notin Live BY <3>2, <4>1 DEF OnlyTickInserts
      <4> QED BY <1>2, <4>1, <4>2
    <3> QED BY <2>2, <3>1, <3>2 DEF OnlyTickInserts
  <2>6. TickLooked'
    BY <1>1, <1>2, <2>2, <2>3 DEF TickLooked, At
  <2>7. StopSized'
    BY <1>1, <1>2, <2>2, <2>3 DEF StopSized, At
  <2> QED BY <1>1, <2>4, <2>5, <2>6, <2>7
<1> QED BY <1>3, <1>4 DEF CancelTick, At, Live

\* Every step of the discovery cycle keeps ownership.
LEMMA DiscStepOwned == ASSUME Owned, DiscStep PROVE Owned'
<1> USE DEF Owned
<1>1. Typed' BY DiscStepTyped
<1>2. /\ DiscThread \in Threads /\ TickThread \in Threads /\ DiscThread # TickThread
  BY ThreadsAssumption DEF Threads
<1>3. CASE DiscList
  BY <1>1, <1>3, AsideOwned DEF DiscList, memory
<1>4. ASSUME NEW r \in Rows, DiscScan(r) PROVE Owned'
  <2>1. CASE DiscPass(r) \/ DiscPin(r)
    BY <1>1, <2>1, AsideOwned DEF DiscPass, DiscPin, memory
  <2>2. CASE DiscOrphan(r)
    <3>1. rows[r].market \in Markets
      BY <2>2 DEF DiscOrphan, Scanning, Typed, DiscNamed, RowsNamed
    <3>2. /\ op'[DiscThread].kind = "close"
          /\ \A u \in Threads \ {DiscThread} : op'[u] = op[u]
      BY <1>2, <2>2, <3>1, CloseOpTyped DEF DiscOrphan, Typed, TypeOK
    <3> QED BY <1>1, <1>2, <2>2, <3>2, AsideOwned DEF DiscOrphan, memory
  <2> QED BY <1>4, <2>1, <2>2 DEF DiscScan
<1>5. CASE DiscOrphanDone
  <2>1. rows[disc.row].market \in Markets
    BY <1>5 DEF DiscOrphanDone, Typed, DiscNamed, RowsNamed
  <2> QED BY <1>1, <1>5, <2>1, ForgetOwned, AsideOwned DEF DiscOrphanDone
<1>6. CASE DiscReport
  <2>1. disc.row \in Rows BY <1>6 DEF DiscReport, Typed, DiscNamed
  <2>2. /\ \A m \in Markets : OpenRows(m)' = OpenRows(m) /\ OpenRows(m) \subseteq Rows
        /\ \A s \in Rows : rows'[s].size = rows[s].size
    BY <1>6, <2>1, ReportRows DEF DiscReport, OpenRows
  <2>3. UNCHANGED <<op, tick, extras, stopRest, abandoned>>
    BY <1>6 DEF DiscReport, memory
  <2> QED BY <1>1, <2>2, <2>3
          DEF OneOpenPosition, LadderStateFresh, OnlyTickInserts, TickLooked, StopSized, Live, At
<1>7. CASE DiscSwap
  BY <1>1, <1>7, CancelOwned, AsideOwned DEF DiscSwap, memory
<1> QED BY <1>3, <1>4, <1>5, <1>6, <1>7 DEF DiscStep

-----------------------------------------------------------------------------
(* The environment, and the theorems.                                      *)

\* A crash forgets ladder state, stop limits and calls; at most one row stays open.
LEMMA CrashOwned == ASSUME Owned, Crash PROVE Owned'
<1> USE DEF Owned
<1>1. Typed' BY CrashTyped
<1>2. /\ UNCHANGED <<rows, abandoned>> /\ tick'.pc = "idle"
      /\ \A t \in Threads : op'[t] = op[t] \/ op'[t].kind = "none"
      /\ \A m \in Markets : extras'[m].owner = 0 /\ stopRest'[m].owner = 0
  BY IdleTickTyped, NoOpTyped DEF Crash, NoExtras, NoStop
<1>3. TickThread \in Threads /\ op'[TickThread].kind = "none"
  BY ThreadsAssumption, NoOpTyped DEF Crash, Threads
<1> QED BY <1>1, <1>2, <1>3
        DEF OneOpenPosition, LadderStateFresh, OnlyTickInserts, TickLooked, StopSized,
            Live, At, OpenRows

\* Every step keeps ownership.
LEMMA NextOwned == ASSUME Owned, [Next]_vars PROVE Owned'
<1>1. Typed' BY NextTyped DEF Owned
<1>2. ASSUME NEW t \in Threads, ThreadStep(t) PROVE Owned'
  BY <1>2, ReadOpenRowOwned, ClosePositionOwned, PartialClosePositionOwned,
     RecordExecutionOwned DEF ThreadStep
<1>3. ASSUME NEW m \in Markets, Age(m) \/ CooldownElapses(m) PROVE Owned'
  BY <1>1, <1>3, AsideOwned DEF Age, CooldownElapses, callVars, memory
<1>4. ASSUME NEW m \in Markets, ManualClose(m) PROVE Owned'
  <2>1. OperThread \in Threads /\ OperThread # TickThread
    BY ThreadsAssumption DEF Threads
  <2>2. /\ op'[OperThread].kind = "close"
        /\ \A u \in Threads \ {OperThread} : op'[u] = op[u]
    BY <1>4, <2>1, CloseOpTyped DEF ManualClose, Owned, Typed, TypeOK
  <2> QED BY <1>1, <1>4, <2>1, <2>2, AsideOwned DEF ManualClose, memory, Threads
<1>5. ASSUME NEW F \in SUBSET Markets, DiscStart(F) PROVE Owned'
  BY <1>1, <1>5, AsideOwned DEF DiscStart, memory
<1>6. CASE UNCHANGED vars
  BY <1>1, <1>6, AsideOwned DEF vars
<1> QED BY <1>2, <1>3, <1>4, <1>5, <1>6, TickStartOwned, TickStepOwned, DiscStepOwned, CrashOwned
        DEF Next

\* Ownership is an invariant of the specification.
LEMMA SpecOwned == Spec => []Owned
BY InitOwned, NextOwned, PTL DEF Spec

\* On a market no cancelled tick left a call behind on, at most one row is open: the
\* tick's read of the table and its later insert act as one step.
THEOREM AtMostOneOpen == Spec => []OneOpenPosition
<1>1. Owned => OneOpenPosition BY DEF Owned
<1> QED BY SpecOwned, <1>1, PTL

\* Ladder and trail state never outlives its position: the peak and the tranche count a
\* position is managed with are its own.
THEOREM LadderStateIsOwn == Spec => []LadderStateFresh
<1>1. Owned => LadderStateFresh BY DEF Owned
<1> QED BY SpecOwned, <1>1, PTL

\* A resting stop limit is for the shares still held, whatever tranches, orphan closes,
\* manual closes and crashes happen around it.
THEOREM StopLimitFits == Spec => []StopSizedToPosition
<1>1. Owned => StopSizedToPosition
  BY DEF Owned, StopSized, StopSizedToPosition, Live, At
<1> QED BY SpecOwned, <1>1, PTL

-----------------------------------------------------------------------------
(***************************************************************************)
(* PaperLifecycle implements PositionBook: the proof of BookRefined.       *)
(***************************************************************************)
\* Rows not yet inserted are empty: an entry never lands on an existing row.
TailAbsent == \A r \in Rows : r > used => rows[r].status = "absent"

\* What PositionBook sees of a row stays as it is.
SameRow(r) == /\ rows'[r].market = rows[r].market /\ rows'[r].status = rows[r].status
              /\ rows'[r].size = rows[r].size

\* What only the daemon's own bookkeeping sees of a row stays as it is.
SameSteps(r) == /\ rows'[r].split = rows[r].split /\ rows'[r].tranches = rows[r].tranches
                /\ rows'[r].steps = rows[r].steps

\* Which steps touch the table at all.
LEMMA TableSteps ==
  ASSUME Typed, [Next]_vars
  PROVE  \/ used' = used /\ \A r \in Rows : SameRow(r) /\ SameSteps(r)
         \/ \E t \in Threads : ClosePosition(t) \/ PartialClosePosition(t) \/ RecordExecution(t)
<1>1. ASSUME UNCHANGED <<rows, used>> PROVE used' = used /\ \A r \in Rows : SameRow(r) /\ SameSteps(r)
  BY <1>1 DEF SameRow, SameSteps
<1>2. CASE UNCHANGED vars BY <1>1, <1>2 DEF vars
<1>3. ASSUME NEW t \in Threads, ReadOpenRow(t) PROVE UNCHANGED <<rows, used>>
  BY <1>3 DEF ReadOpenRow
<1>4. ASSUME NEW m \in Markets, TickStart(m) \/ Age(m) \/ CooldownElapses(m) \/ ManualClose(m)
      PROVE  UNCHANGED <<rows, used>>
  BY <1>4 DEF TickStart, Age, CooldownElapses, ManualClose, offTick, callVars
<1>5. ASSUME TickStep, ~TickReport PROVE UNCHANGED <<rows, used>>
  BY <1>5 DEF TickStep, TickRead, TickManage, ManageBlind, ManageLadder, ManageTrail,
              ManageStopRest, ManageStopWait, ManageStopPost, ManageExit, ManageHold,
              TickTrancheDone, TickCloseDone, TickEnter, TickNoEntry, TickApprove,
              TickMakerFill, TickSubmit, TickInserted, offTick
<1>6. ASSUME NEW F \in SUBSET Markets, DiscStart(F) PROVE UNCHANGED <<rows, used>>
  BY <1>6 DEF DiscStart, offDisc
<1>7. ASSUME DiscStep, ~DiscReport PROVE UNCHANGED <<rows, used>>
  BY <1>7 DEF DiscStep, DiscList, DiscOrphanDone, DiscSwap, DiscScan, DiscPass, DiscPin,
              DiscOrphan, offDisc
<1>8. CASE TickReport
  BY <1>8, ReportTyped DEF TickReport, Typed, TickNamed, SameRow, SameSteps, offTick
<1>9. CASE DiscReport
  BY <1>9, ReportTyped DEF DiscReport, Typed, DiscNamed, SameRow, SameSteps, offDisc
<1>10. CASE Crash BY <1>1, <1>10 DEF Crash
<1> QED BY <1>1, <1>2, <1>3, <1>4, <1>5, <1>6, <1>7, <1>8, <1>9, <1>10 DEF Next, ThreadStep

\* What closing does to the status of each row.
LEMMA CloseRows ==
  ASSUME Typed, NEW t \in Threads, ClosePosition(t)
  PROVE  /\ used' = used
         /\ \A r \in Rows :
              /\ rows'[r].market = rows[r].market /\ rows'[r].size = rows[r].size
              /\ SameSteps(r)
              /\ rows'[r].status = IF r \in OpenRows(op[t].market) THEN "closed"
                                   ELSE rows[r].status
BY DEF ClosePosition, Typed, TypeOK, Row, SameSteps

\* What an insert does to each row: the next one opens, the others stay.
LEMMA InsertRows ==
  ASSUME Typed, NEW t \in Threads, RecordExecution(t)
  PROVE  /\ used' = used + 1 /\ used + 1 \in Rows
         /\ rows'[used + 1].status = "open" /\ rows'[used + 1].market = op[t].market
         /\ op[t].market \in Markets
         /\ rows'[used + 1].size = Size /\ rows'[used + 1].split = 0
         /\ rows'[used + 1].tranches = 0 /\ rows'[used + 1].steps = {}
         /\ \A r \in Rows \ {used + 1} : SameRow(r) /\ SameSteps(r)
<1> DEFINE new == [Absent EXCEPT !.market = op[t].market, !.status = "open", !.size = Size]
<1>1. /\ new.status = "open" /\ new.market = op[t].market /\ new.size = Size
      /\ new.split = 0 /\ new.tranches = 0 /\ new.steps = {}
  BY DEF Absent
<1>2. rows' = [rows EXCEPT ![used + 1] = new] /\ used' = used + 1 /\ used < MaxRows
  BY DEF RecordExecution
<1> HIDE DEF new
<1>3. used + 1 \in Rows BY <1>2, BoundsAssumption DEF Typed, TypeOK, Rows
<1>4. op[t].market \in Markets BY DEF Typed, CallsNamed, RecordExecution
<1> QED BY <1>1, <1>2, <1>3, <1>4 DEF Typed, TypeOK, SameRow, SameSteps

\* Rows beyond those used stay absent.
LEMMA TailStep ==
  ASSUME Typed, TailAbsent, [Next]_vars
  PROVE  TailAbsent'
<1>1. used \in Nat /\ Rows \subseteq Nat BY BoundsAssumption DEF Typed, TypeOK, Rows
<1>2. CASE used' = used /\ \A r \in Rows : SameRow(r)
  BY <1>2 DEF TailAbsent, SameRow
<1>3. ASSUME NEW t \in Threads, ClosePosition(t) PROVE TailAbsent'
  BY <1>3, CloseRows DEF TailAbsent, OpenRows
<1>4. ASSUME NEW t \in Threads, PartialClosePosition(t) PROVE TailAbsent'
  BY <1>4, PartialCloseRows DEF TailAbsent, PartialClosePosition
<1>5. ASSUME NEW t \in Threads, RecordExecution(t) PROVE TailAbsent'
  BY <1>1, <1>5, InsertRows DEF TailAbsent, SameRow
<1> QED BY <1>2, <1>3, <1>4, <1>5, TableSteps

\* The empty table is the initial book.
LEMMA InitBook == Init => TailAbsent /\ Book!BookInit
BY DEF Init, TailAbsent, Book!BookInit, Absent

\* The book and the daemon agree on which rows are open on a market.
LEMMA BookOpenIn == \A m : Book!OpenIn(m) = OpenRows(m) /\ OpenRows(m) \in SUBSET Rows
BY DEF Book!OpenIn, OpenRows

\* Every step of the daemon is a step of the book, or leaves it alone.
LEMMA StepBook ==
  ASSUME Typed, TailAbsent, [Next]_vars
  PROVE  [Book!BookNext]_(Book!bookVars)
<1>1. CASE used' = used /\ \A r \in Rows : SameRow(r)
  BY <1>1 DEF SameRow, Book!bookVars
<1>2. ASSUME NEW t \in Threads, ClosePosition(t) PROVE Book!BookNext
  <2>1. PICK m \in Markets : m = op[t].market
    BY <1>2 DEF Typed, CallsNamed, ClosePosition
  <2>2. \A r \in Rows \ OpenRows(m) : SameRow(r) BY <1>2, <2>1, CloseRows DEF SameRow
  <2>3. \A r \in OpenRows(m) : /\ r \in Rows /\ rows'[r].market = rows[r].market
                               /\ rows'[r].size = rows[r].size /\ rows'[r].status = "closed"
    BY <1>2, <2>1, CloseRows, BookOpenIn
  <2>4. used' = used BY <1>2, CloseRows
  <2>5. Book!CloseAll(m)
    BY <2>2, <2>3, <2>4 DEF Book!CloseAll, Book!Only, Book!OpenIn, OpenRows, SameRow
  <2> QED BY <2>5 DEF Book!BookNext
<1>3. ASSUME NEW t \in Threads, PartialClosePosition(t) PROVE Book!BookNext
  <2>1. PICK m \in Markets : m = op[t].market
    BY <1>3 DEF Typed, CallsNamed, PartialClosePosition
  <2>2. \A r \in Rows \ OpenRows(m) : SameRow(r)
    BY <1>3, <2>1, PartialCloseRows DEF SameRow
  <2>3. \A r \in OpenRows(m) : /\ r \in Rows /\ rows'[r].market = m
                               /\ rows'[r].status = "open"
    BY <1>3, PartialCloseRows DEF OpenRows
  <2>4. used' = used BY <1>3 DEF PartialClosePosition
  <2>5. Book!Resize(m)
    BY <2>2, <2>3, <2>4 DEF Book!Resize, Book!Only, Book!OpenIn, OpenRows, SameRow
  <2> QED BY <2>5 DEF Book!BookNext
<1>4. ASSUME NEW t \in Threads, RecordExecution(t) PROVE Book!BookNext
  <2>1. PICK m \in Markets : m = op[t].market
    BY <1>4, InsertRows
  <2>2. used \in Nat /\ rows[used + 1].status = "absent"
    BY <1>4, InsertRows DEF TailAbsent, Typed, TypeOK
  <2>3. Book!Append(m)
    BY <1>4, <2>1, <2>2, InsertRows DEF Book!Append, Book!Only, SameRow
  <2> QED BY <2>3 DEF Book!BookNext
<1> QED BY <1>1, <1>2, <1>3, <1>4, TableSteps

\* The interleaved writers implement the abstract table.
THEOREM BookImplemented == Spec => BookRefined
<1>1. Init => Typed /\ TailAbsent /\ Book!BookInit
  BY InitTyped, InitBook
<1>2. Typed /\ TailAbsent /\ [Next]_vars => Typed' /\ TailAbsent' /\ [Book!BookNext]_(Book!bookVars)
  BY NextTyped, TailStep, StepBook
<1> QED BY <1>1, <1>2, PTL DEF Spec, BookRefined, Book!BookSpec

-----------------------------------------------------------------------------
(***************************************************************************)
(* The ladder: the inductive invariant behind TrancheAtMostOnce and        *)
(* OpenRowConserved.                                                       *)
(*                                                                         *)
(* The daemon counts the steps it took twice: in the table, one row per    *)
(* tranche, and in the ladder state in memory.  The two differ only        *)
(* between the split of the row and the step of the tick that awaits it.   *)
(***************************************************************************)

\* The steps taken on a position are the first ones, and its parts add up.
Counted ==
  \A r \in Rows : rows[r].market \notin abandoned =>
     /\ rows[r].steps = 1..rows[r].tranches
     /\ rows[r].status = "open" => rows[r].size + rows[r].split = Size

\* A call that has read remembers a row of its market.
CallSound ==
  \A t \in Threads : op[t].state = "read" =>
     rows[op[t].row].status # "absent" /\ rows[op[t].row].market = op[t].market

\* The tick is between the split of the row and its own count of it.
Counting(m) == At(m, {"tranche"}) /\ op[TickThread] = NoOp

\* The split under way takes the step after the last one in the table.
SplitSound ==
  LET c == op[TickThread]
  IN c.kind = "partial" /\ c.market \in Live =>
       /\ c.step = tick.step
       /\ c.state = "queued" => \A r \in OpenRows(c.market) : rows[r].tranches + 1 = c.step
       /\ c.state = "read" => /\ rows[c.row].tranches + 1 = c.step
                              /\ \A r \in OpenRows(c.market) : r = c.row /\ rows[r].size = c.size

\* What a tick awaits in a tranche is a call on its own market.
TrancheCall ==
  tick.pc = "tranche" /\ op[TickThread] # NoOp => op[TickThread].market = tick.market

\* The ladder state in memory agrees with the table.
LadderKnown ==
  \A m \in Live : \A r \in OpenRows(m) :
     /\ extras[m].owner # 0 => extras[m].original = Size
     /\ extras[m].owner # 0 /\ ~Counting(m) => extras[m].tranches = rows[r].tranches
     /\ Counting(m) => rows[r].tranches = tick.step

Laddered == Counted /\ CallSound /\ SplitSound /\ TrancheCall /\ LadderKnown

\* With no position nothing is counted.
LEMMA InitLaddered == Init => Laddered
<1> SUFFICES ASSUME Init PROVE Laddered OBVIOUS
<1>1. /\ \A r \in Rows : /\ rows[r].status = "absent" /\ rows[r].steps = {}
                         /\ rows[r].tranches = 0
      /\ \A t \in Threads : op[t].kind = "none" /\ op[t].state = "queued"
      /\ tick.pc = "idle"
  BY DEF Init, Absent, NoOp, IdleTick
<1>2. \A m : OpenRows(m) = {} BY <1>1 DEF OpenRows
<1>3. TickThread \in Threads BY DEF Threads
<1>4. Counted
  <2>1. 1..0 = {} OBVIOUS
  <2> QED BY <1>1, <2>1 DEF Counted
<1>5. CallSound /\ SplitSound /\ TrancheCall
  BY <1>1, <1>3 DEF CallSound, SplitSound, TrancheCall
<1>6. LadderKnown BY <1>2 DEF LadderKnown, Live
<1> QED BY <1>4, <1>5, <1>6 DEF Laddered

-----------------------------------------------------------------------------
(* Steps that do not touch the ladder.                                     *)

\* The table is what it was, up to the events it logs.
SameTable == \A r \in Rows : SameRow(r) /\ SameSteps(r)

\* What is open on a market stays open.
LEMMA SameOpen == ASSUME SameTable, NEW m PROVE OpenRows(m)' = OpenRows(m)
BY DEF SameTable, SameRow, OpenRows

\* Steps beside the tick: the table stays, other threads start afresh, and ladder
\* state is at most forgotten.
LEMMA AsideLaddered ==
  ASSUME Owned, Laddered, SameTable, UNCHANGED <<tick, abandoned>>,
         op'[TickThread] = op[TickThread],
         \A u \in Threads : op'[u] = op[u] \/ op'[u].state = "queued",
         \A n \in Markets : extras'[n].owner = 0 \/ extras'[n] = extras[n]
  PROVE  Laddered'
<1> USE DEF Laddered
<1>1. \A r \in Rows : SameRow(r) /\ SameSteps(r) BY DEF SameTable
<1>2. \A m : OpenRows(m)' = OpenRows(m) BY SameOpen
<1>3. Counted' BY <1>1 DEF Counted, SameRow, SameSteps
<1>4. CallSound'
  <2> SUFFICES ASSUME NEW t \in Threads, op'[t].state = "read"
               PROVE  /\ rows'[op'[t].row].status # "absent"
                      /\ rows'[op'[t].row].market = op'[t].market
    BY DEF CallSound
  <2>1. op'[t] = op[t] BY SMT
  <2>2. op[t].row \in Rows
    BY <2>1 DEF Owned, Typed, CallsNamed
  <2> QED BY <1>1, <2>1, <2>2 DEF CallSound, SameRow
<1>5. SplitSound'
  <2> SUFFICES ASSUME op[TickThread].kind = "partial", op[TickThread].market \in Live
               PROVE  SplitSound'
    BY DEF SplitSound, Live
  <2>1. op[TickThread].state = "read" => op[TickThread].row \in Rows
    BY DEF Owned, Typed, CallsNamed, Threads
  <2>2. OpenRows(op[TickThread].market) \subseteq Rows BY DEF OpenRows
  <2> QED BY <1>1, <1>2, <2>1, <2>2 DEF SplitSound, Live, SameRow, SameSteps
<1>6. TrancheCall' BY DEF TrancheCall
<1>7. LadderKnown'
  <2>1. \A m : OpenRows(m) \subseteq Rows BY DEF OpenRows
  <2> QED BY <1>1, <1>2, <2>1 DEF LadderKnown, Counting, Live, At, SameSteps
<1> QED BY <1>3, <1>4, <1>5, <1>6, <1>7

\* Ladder state that fits every open row of its market.
Fits(e, m) == \A r \in OpenRows(m) : e.original = Size /\ e.tranches = rows[r].tranches

\* Steps of the tick outside a tranche: it starts no split, and the ladder state is
\* kept, forgotten or fits the table.
LEMMA QuietLaddered ==
  ASSUME Owned, Owned', Laddered, SameTable, UNCHANGED abandoned,
         tick.pc # "tranche", tick'.pc # "tranche",
         op'[TickThread] = op[TickThread] \/ op'[TickThread].state = "queued",
         \A u \in Threads \ {TickThread} : op'[u] = op[u],
         \A n \in Live : extras'[n].owner = 0 \/ extras'[n] = extras[n] \/ Fits(extras'[n], n)
  PROVE  Laddered'
<1> USE DEF Laddered
<1>1. \A r \in Rows : SameRow(r) /\ SameSteps(r) BY DEF SameTable
<1>2. \A m : OpenRows(m)' = OpenRows(m) /\ OpenRows(m) \subseteq Rows
  BY SameOpen DEF OpenRows
<1>3. Counted' BY <1>1 DEF Counted, SameRow, SameSteps
<1>4. CallSound'
  <2> SUFFICES ASSUME NEW t \in Threads, op'[t].state = "read"
               PROVE  /\ rows'[op'[t].row].status # "absent"
                      /\ rows'[op'[t].row].market = op'[t].market
    BY DEF CallSound
  <2>1. op'[t] = op[t] BY SMT
  <2>2. op[t].row \in Rows
    BY <2>1 DEF Owned, Typed, CallsNamed
  <2> QED BY <1>1, <2>1, <2>2 DEF CallSound, SameRow
<1>5. SplitSound' /\ TrancheCall'
  BY DEF SplitSound, TrancheCall, Owned, OnlyTickInserts, At
<1>6. LadderKnown'
  BY <1>1, <1>2 DEF LadderKnown, Counting, Live, At, SameSteps, Fits
<1> QED BY <1>3, <1>4, <1>5, <1>6

-----------------------------------------------------------------------------
(* Portfolio calls.                                                        *)

\* Reading a row: the split learns the one open row its tick manages.
LEMMA ReadOpenRowLaddered ==
  ASSUME Owned, Laddered, NEW t \in Threads, ReadOpenRow(t)
  PROVE  Laddered'
<1> USE DEF Laddered
<1>1. UNCHANGED <<rows, tick, extras, abandoned>>
  BY DEF ReadOpenRow, offLoop, memory
<1>2. \A m : OpenRows(m)' = OpenRows(m) BY <1>1 DEF OpenRows
<1>3. Counted' BY <1>1 DEF Counted
<1>4. CASE OpenRows(op[t].market) = {} /\ op' = [op EXCEPT ![t] = NoOp]
  <2>1. /\ op'[t] = NoOp /\ op'[t].kind = "none" /\ op'[t].state = "queued"
        /\ \A u \in Threads \ {t} : op'[u] = op[u]
        /\ TickThread \in Threads
    BY <1>4, NoOpTyped DEF Owned, Typed, TypeOK, Threads
  <2>2. CallSound' /\ SplitSound' /\ TrancheCall'
    BY <1>1, <1>2, <2>1 DEF CallSound, SplitSound, TrancheCall, Live
  <2>3. LadderKnown'
    BY <1>1, <1>2, <1>4, <2>1 DEF LadderKnown, Counting, Live, At, TrancheCall
  <2> QED BY <1>3, <2>2, <2>3
<1>5. ASSUME NEW r \in OpenRows(op[t].market),
             op' = [op EXCEPT ![t] = [@ EXCEPT !.state = "read", !.row = r,
                                               !.size = rows[r].size]]
      PROVE  Laddered'
  <2> DEFINE c == [op[t] EXCEPT !.state = "read", !.row = r, !.size = rows[r].size]
  <2>1. /\ c.kind = op[t].kind /\ c.market = op[t].market /\ c.step = op[t].step
        /\ c.state = "read" /\ c.row = r /\ c.size = rows[r].size
    BY DEF Owned, Typed, TypeOK, Op
  <2>2. op' = [op EXCEPT ![t] = c] BY <1>5
  <2> HIDE DEF c
  <2>3. op'[t] = c /\ \A u \in Threads \ {t} : op'[u] = op[u]
    BY <2>2 DEF Owned, Typed, TypeOK
  <2>4. /\ TickThread \in Threads /\ op[t].kind \in {"close", "partial"}
        /\ op[t].state = "queued" /\ op[t] # NoOp /\ c # NoOp
        /\ op[t].market \in Markets
    BY <2>1, NoOpTyped DEF ReadOpenRow, Threads, Owned, Typed, CallsNamed
  <2>5. r \in Rows /\ rows[r].status = "open" /\ rows[r].market = op[t].market
    BY DEF OpenRows
  <2>6. CallSound'
    BY <1>1, <2>1, <2>3, <2>5 DEF CallSound
  <2>7. SplitSound'
    <3>1. CASE t # TickThread
      <4>1. op'[TickThread] = op[TickThread] BY <2>3, <2>4, <3>1
      <4> QED BY <1>1, <1>2, <4>1 DEF SplitSound, Live
    <3>2. CASE t = TickThread /\ c.kind = "partial" /\ c.market \in Live
      <4>1. \A s \in OpenRows(c.market) : s = r
        BY <2>1, <3>2 DEF Owned, OneOpenPosition, Live
      <4>2. c.step = tick.step /\ rows[r].tranches + 1 = c.step
        BY <2>1, <2>4, <3>2 DEF SplitSound
      <4> QED BY <1>1, <1>2, <2>1, <2>3, <3>2, <4>1, <4>2 DEF SplitSound, Live
    <3>3. CASE t = TickThread /\ ~(c.kind = "partial" /\ c.market \in Live)
      BY <1>1, <2>3, <3>3 DEF SplitSound, Live
    <3> QED BY <3>1, <3>2, <3>3
  <2>8. TrancheCall'
    BY <1>1, <2>1, <2>3, <2>4 DEF TrancheCall
  <2>9. LadderKnown'
    <3>1. op'[TickThread] = NoOp <=> op[TickThread] = NoOp BY <2>3, <2>4
    <3> QED BY <1>1, <1>2, <3>1 DEF LadderKnown, Counting, Live, At
  <2> QED BY <1>3, <2>6, <2>7, <2>8, <2>9
<1> QED BY <1>4, <1>5 DEF ReadOpenRow

\* A close leaves nothing open on its market to count, and the rest as it was.
LEMMA ClosePositionLaddered ==
  ASSUME Owned, Laddered, NEW t \in Threads, ClosePosition(t)
  PROVE  Laddered'
<1> USE DEF Laddered
<1>1. UNCHANGED <<tick, extras, abandoned>>
  BY DEF ClosePosition, offLoop, memory
<1>2. /\ op[t].kind = "close" /\ op'[t] = NoOp /\ NoOp.kind = "none" /\ NoOp.state = "queued"
      /\ \A u \in Threads \ {t} : op'[u] = op[u]
      /\ op[t].market \in Markets /\ TickThread \in Threads
  BY NoOpTyped DEF ClosePosition, Owned, Typed, TypeOK, CallsNamed, Threads
<1>3. \A r \in Rows :
        /\ rows'[r].market = rows[r].market /\ rows'[r].size = rows[r].size /\ SameSteps(r)
        /\ rows'[r].status = IF r \in OpenRows(op[t].market) THEN "closed" ELSE rows[r].status
  BY CloseRows DEF Owned
<1>4. /\ \A m : m = op[t].market => OpenRows(m)' = {}
      /\ \A m : OpenRows(m)' \subseteq OpenRows(m)
      /\ \A m : OpenRows(m) \subseteq Rows
  BY <1>3 DEF OpenRows
<1>5. Counted' BY <1>1, <1>3 DEF Counted, SameSteps
<1>6. CallSound'
  <2> SUFFICES ASSUME NEW u \in Threads, op'[u].state = "read"
               PROVE  /\ rows'[op'[u].row].status # "absent"
                      /\ rows'[op'[u].row].market = op'[u].market
    BY DEF CallSound
  <2>1. op'[u] = op[u] BY <1>2
  <2>2. op[u].row \in Rows BY <1>2, <2>1 DEF Owned, Typed, CallsNamed
  <2> QED BY <1>3, <2>1, <2>2 DEF CallSound
<1>7. SplitSound'
  <2> SUFFICES ASSUME op'[TickThread].kind = "partial", op'[TickThread].market \in Live
               PROVE  SplitSound'
    BY <1>1 DEF SplitSound, Live
  <2>1. op'[TickThread] = op[TickThread] BY <1>2
  <2>2. op[TickThread].state = "read" => op[TickThread].row \in Rows
    BY <1>2, <2>1 DEF Owned, Typed, CallsNamed
  <2> QED BY <1>1, <1>3, <1>4, <2>1, <2>2 DEF SplitSound, Live, SameSteps
<1>8. TrancheCall' BY <1>1, <1>2 DEF TrancheCall
<1>9. LadderKnown'
  <2> SUFFICES ASSUME NEW m \in Live, NEW r \in OpenRows(m)'
               PROVE  /\ extras[m].owner # 0 => extras[m].original = Size
                      /\ extras[m].owner # 0 /\ ~Counting(m)'
                           => extras[m].tranches = rows'[r].tranches
                      /\ Counting(m)' => rows'[r].tranches = tick.step
    BY <1>1 DEF LadderKnown, Live
  <2>1. m # op[t].market /\ r \in OpenRows(m) /\ r \in Rows BY <1>4
  <2>2. Counting(m)' <=> Counting(m)
    BY <1>1, <1>2, <2>1 DEF Counting, At, TrancheCall
  <2> QED BY <1>3, <2>1, <2>2 DEF LadderKnown, SameSteps
<1> QED BY <1>5, <1>6, <1>7, <1>8, <1>9

\* What a split does to each row.
LEMMA SplitRows ==
  ASSUME Typed, NEW t \in Threads, PartialClosePosition(t)
  PROVE  \E portion \in Int :
           /\ portion = (op[t].size * op[t].num) \div op[t].den
           /\ \A r \in Rows :
                /\ rows'[r].market = rows[r].market /\ rows'[r].status = rows[r].status
                /\ rows'[r].size = IF r \in OpenRows(op[t].market) THEN op[t].size - portion
                                   ELSE rows[r].size
                /\ r # op[t].row => SameSteps(r)
                /\ r = op[t].row => /\ rows'[r].split = rows[r].split + portion
                                    /\ rows'[r].tranches = rows[r].tranches + 1
                                    /\ rows'[r].steps = rows[r].steps \cup {op[t].step}
<1> DEFINE c == op[t]
           portion == (c.size * c.num) \div c.den
           shrunk(r) == IF r \in OpenRows(c.market)
                        THEN [rows[r] EXCEPT !.size = c.size - portion] ELSE rows[r]
<1>1. portion \in Int BY DEF Typed, TypeOK, Op
<1>2. \A r \in Rows : /\ shrunk(r) \in Row
                      /\ shrunk(r).market = rows[r].market /\ shrunk(r).status = rows[r].status
                      /\ shrunk(r).split = rows[r].split
                      /\ shrunk(r).tranches = rows[r].tranches
                      /\ shrunk(r).steps = rows[r].steps
                      /\ shrunk(r).size = IF r \in OpenRows(c.market) THEN c.size - portion
                                          ELSE rows[r].size
  BY <1>1 DEF Typed, TypeOK, Row, Op
<1>3. rows' = [r \in Rows |->
                 IF r = c.row THEN [shrunk(r) EXCEPT !.split = @ + portion,
                                      !.tranches = @ + 1, !.steps = @ \cup {c.step}]
                 ELSE shrunk(r)]
  BY DEF PartialClosePosition
<1> HIDE DEF portion, shrunk
<1>4. ASSUME NEW r \in Rows
      PROVE  LET new == [shrunk(r) EXCEPT !.split = @ + portion, !.tranches = @ + 1,
                                          !.steps = @ \cup {c.step}]
             IN /\ new.market = shrunk(r).market /\ new.status = shrunk(r).status
                /\ new.size = shrunk(r).size /\ new.split = shrunk(r).split + portion
                /\ new.tranches = shrunk(r).tranches + 1
                /\ new.steps = shrunk(r).steps \cup {c.step}
  <2> HIDE DEF c
  <2> QED BY <1>2 DEF Row
<1>5. portion = (op[t].size * op[t].num) \div op[t].den BY DEF portion
<1>6. WITNESS portion \in Int
<1> QED BY <1>2, <1>3, <1>4, <1>5 DEF SameSteps

\* A split moves its portion from the row to its tranches and takes the next step.
LEMMA PartialClosePositionLaddered ==
  ASSUME Owned, Laddered, NEW t \in Threads, PartialClosePosition(t)
  PROVE  Laddered'
<1> USE DEF Laddered
<1> DEFINE c == op[t]
<1>1. UNCHANGED <<tick, extras, abandoned>>
  BY DEF PartialClosePosition, offLoop, memory
<1>2. /\ c.kind = "partial" /\ c.state = "read"
      /\ op'[t] = NoOp /\ NoOp.kind = "none" /\ NoOp.state = "queued"
      /\ \A u \in Threads \ {t} : op'[u] = op[u]
      /\ c.market \in Markets /\ TickThread \in Threads
      /\ c.row \in Rows
  BY NoOpTyped DEF PartialClosePosition, Owned, Typed, TypeOK, CallsNamed, Threads
<1>3. PICK portion \in Int :
        \A r \in Rows :
          /\ rows'[r].market = rows[r].market /\ rows'[r].status = rows[r].status
          /\ rows'[r].size = IF r \in OpenRows(c.market) THEN c.size - portion ELSE rows[r].size
          /\ r # c.row => SameSteps(r)
          /\ r = c.row => /\ rows'[r].split = rows[r].split + portion
                          /\ rows'[r].tranches = rows[r].tranches + 1
                          /\ rows'[r].steps = rows[r].steps \cup {c.step}
  BY SplitRows DEF Owned
<1>4. rows[c.row].status # "absent" /\ rows[c.row].market = c.market
  BY <1>2 DEF CallSound
<1>5. c.market \in Live =>
        /\ t = TickThread /\ At(c.market, {"tranche"})
        /\ c.step = tick.step /\ rows[c.row].tranches + 1 = c.step
        /\ \A r \in OpenRows(c.market) : r = c.row /\ rows[r].size = c.size
  BY <1>2 DEF SplitSound, Owned, OnlyTickInserts
<1>6. \A m : OpenRows(m)' = OpenRows(m) /\ OpenRows(m) \subseteq Rows
  BY <1>3 DEF OpenRows
<1>7. \A r \in Rows : r # c.row /\ rows[r].market \notin abandoned => rows'[r].size = rows[r].size
  BY <1>2, <1>3, <1>5 DEF OpenRows, Live
<1>8. Counted'
  <2> SUFFICES ASSUME NEW r \in Rows, rows[r].market \notin abandoned
               PROVE  /\ rows'[r].steps = 1..rows'[r].tranches
                      /\ rows[r].status = "open" => rows'[r].size + rows'[r].split = Size
    BY <1>1, <1>3 DEF Counted
  <2>1. /\ rows[r].steps = 1..rows[r].tranches
        /\ rows[r].status = "open" => rows[r].size + rows[r].split = Size
    BY DEF Counted
  <2>2. CASE r # c.row
    BY <1>3, <1>7, <2>1, <2>2 DEF SameSteps
  <2>3. CASE r = c.row
    <3>1. c.market \in Live BY <1>2, <1>4, <2>3 DEF Live
    <3>2. rows[r].tranches \in Nat /\ c.step = rows[r].tranches + 1
      BY <1>5, <2>3, <3>1 DEF Owned, Typed, TypeOK, Row
    <3>3. rows'[r].steps = rows[r].steps \cup {c.step} /\ rows'[r].tranches = c.step
      BY <1>3, <2>3, <3>2
    <3>4. 1..rows[r].tranches \cup {rows[r].tranches + 1} = 1..(rows[r].tranches + 1)
      BY <3>2
    <3>5. ASSUME rows[r].status = "open" PROVE rows'[r].size + rows'[r].split = Size
      <4>1. r \in OpenRows(c.market) BY <1>4, <2>3, <3>5 DEF OpenRows
      <4>2. rows[r].size = c.size BY <1>5, <3>1, <4>1
      <4>3. rows'[r].size = c.size - portion /\ rows'[r].split = rows[r].split + portion
        BY <1>3, <2>3, <4>1
      <4>4. c.size \in Int /\ rows[r].split \in Int
        BY DEF Owned, Typed, TypeOK, Op, Row
      <4> QED BY <2>1, <3>5, <4>2, <4>3, <4>4
    <3> QED BY <2>1, <3>2, <3>3, <3>4, <3>5
  <2> QED BY <2>2, <2>3
<1>9. CallSound'
  <2> SUFFICES ASSUME NEW u \in Threads, op'[u].state = "read"
               PROVE  /\ rows'[op'[u].row].status # "absent"
                      /\ rows'[op'[u].row].market = op'[u].market
    BY DEF CallSound
  <2>1. op'[u] = op[u] BY <1>2
  <2>2. op[u].row \in Rows BY <1>2, <2>1 DEF Owned, Typed, CallsNamed
  <2> QED BY <1>3, <2>1, <2>2 DEF CallSound
<1>10. SplitSound'
  <2> SUFFICES ASSUME op'[TickThread].kind = "partial", op'[TickThread].market \in Live
               PROVE  SplitSound'
    BY <1>1 DEF SplitSound, Live
  <2>1. op'[TickThread] = op[TickThread] /\ c.market \notin Live BY <1>2, <1>5
  <2>2. op[TickThread].state = "read" => op[TickThread].row \in Rows
    BY <1>2, <2>1 DEF Owned, Typed, CallsNamed
  <2>3. \A r \in Rows : rows[r].market = op[TickThread].market => SameSteps(r) /\ r # c.row
    BY <1>3, <1>4, <2>1
  <2>4. op[TickThread].market \notin abandoned /\ op[TickThread].market \in Markets
    BY <2>1 DEF Live
  <2>5. \A r \in OpenRows(op[TickThread].market) :
          rows'[r].size = rows[r].size /\ rows'[r].tranches = rows[r].tranches
    BY <1>7, <2>3, <2>4 DEF OpenRows, SameSteps
  <2>6. op[TickThread].state = "read"
          => rows'[op[TickThread].row].tranches = rows[op[TickThread].row].tranches
    BY <1>2, <2>2, <2>3 DEF CallSound, SameSteps
  <2> QED BY <1>1, <1>6, <2>1, <2>5, <2>6 DEF SplitSound, Live
<1>11. TrancheCall' BY <1>1, <1>2 DEF TrancheCall
<1>12. LadderKnown'
  <2> SUFFICES ASSUME NEW m \in Live, NEW r \in OpenRows(m)
               PROVE  /\ extras[m].owner # 0 => extras[m].original = Size
                      /\ extras[m].owner # 0 /\ ~Counting(m)'
                           => extras[m].tranches = rows'[r].tranches
                      /\ Counting(m)' => rows'[r].tranches = tick.step
    BY <1>1, <1>6 DEF LadderKnown, Live
  <2>1. r \in Rows /\ rows[r].market = m BY DEF OpenRows
  <2>2. CASE m = c.market
    <3>1. Counting(m)' BY <1>1, <1>2, <1>5, <2>2 DEF Counting, At
    <3>2. r = c.row BY <1>5, <2>2
    <3> QED BY <1>3, <1>5, <2>1, <2>2, <3>1, <3>2 DEF LadderKnown
  <2>3. CASE m # c.market
    <3>1. SameSteps(r) BY <1>3, <1>4, <2>1, <2>3
    <3>2. Counting(m)' <=> Counting(m)
      BY <1>1, <1>2, <2>3 DEF Counting, At, TrancheCall
    <3> QED BY <3>1, <3>2 DEF LadderKnown, SameSteps
  <2> QED BY <2>2, <2>3
<1> QED BY <1>8, <1>9, <1>10, <1>11, <1>12

\* A new position has taken no step, and nothing is known of it in memory.
LEMMA RecordExecutionLaddered ==
  ASSUME Owned, Laddered, TailAbsent, NEW t \in Threads, RecordExecution(t)
  PROVE  Laddered'
<1> USE DEF Laddered
<1>1. UNCHANGED <<tick, extras, abandoned>>
  BY DEF RecordExecution, offLoop, memory
<1>2. /\ op[t].kind = "insert"
      /\ op'[t] = NoOp /\ NoOp.kind = "none" /\ NoOp.state = "queued"
      /\ \A u \in Threads \ {t} : op'[u] = op[u]
      /\ TickThread \in Threads
  BY NoOpTyped DEF RecordExecution, Owned, Typed, TypeOK, Threads
<1> DEFINE n == used + 1
<1>3. /\ n \in Rows /\ rows'[n].status = "open" /\ rows'[n].market = op[t].market
      /\ op[t].market \in Markets
      /\ rows'[n].size = Size /\ rows'[n].split = 0
      /\ rows'[n].tranches = 0 /\ rows'[n].steps = {}
      /\ \A r \in Rows \ {n} : SameRow(r) /\ SameSteps(r)
  BY InsertRows DEF Owned
<1>4. rows[n].status = "absent"
  BY <1>3 DEF TailAbsent, Owned, Typed, TypeOK
<1> HIDE DEF n
<1>5. op[t].market \in Live
        => /\ t = TickThread /\ At(op[t].market, {"inserting"}) /\ OpenRows(op[t].market) = {}
           /\ extras[op[t].market].owner = 0
  BY <1>2 DEF Owned, OnlyTickInserts, TickLooked, At
<1>6. Counted'
  <2>1. 1..0 = {} /\ Size + 0 = Size BY SizeAssumption
  <2> QED BY <1>1, <1>3, <2>1 DEF Counted, SameRow, SameSteps
<1>7. CallSound'
  <2> SUFFICES ASSUME NEW u \in Threads, op'[u].state = "read"
               PROVE  /\ rows'[op'[u].row].status # "absent"
                      /\ rows'[op'[u].row].market = op'[u].market
    BY DEF CallSound
  <2>1. op'[u] = op[u] BY <1>2
  <2>2. op[u].row \in Rows \/ op[u].kind = "none"
    BY <1>2, <2>1 DEF Owned, Typed, CallsNamed
  <2>3. rows[op[u].row].status # "absent" /\ rows[op[u].row].market = op[u].market
    BY <2>1 DEF CallSound
  <2>4. op[u].row \in Rows \ {n}
    BY <1>4, <2>1, <2>3 DEF Owned, Typed, CallsNamed
  <2> QED BY <1>3, <2>1, <2>3, <2>4 DEF SameRow
<1>8. \A m \in Live : m # op[t].market => OpenRows(m)' = OpenRows(m) /\ n \notin OpenRows(m)
  BY <1>3, <1>4 DEF OpenRows, SameRow
<1>9. SplitSound'
  <2> SUFFICES ASSUME op'[TickThread].kind = "partial", op'[TickThread].market \in Live
               PROVE  SplitSound'
    BY <1>1 DEF SplitSound, Live
  <2>1. op'[TickThread] = op[TickThread] /\ t # TickThread BY <1>2
  <2>2. op[t].market \notin Live BY <1>5, <2>1
  <2>3. op[TickThread].state = "read" => op[TickThread].row \in Rows \ {n}
    BY <1>2, <1>4, <2>1 DEF Owned, Typed, CallsNamed, CallSound
  <2>4. \A r \in OpenRows(op[TickThread].market) : SameRow(r) /\ SameSteps(r)
    BY <1>3, <1>8, <2>1, <2>2 DEF OpenRows
  <2>5. OpenRows(op[TickThread].market)' = OpenRows(op[TickThread].market)
    BY <1>8, <2>1, <2>2
  <2>6. op[TickThread].state = "read"
          => rows'[op[TickThread].row].tranches = rows[op[TickThread].row].tranches
    BY <1>3, <2>3 DEF SameSteps
  <2> QED BY <1>1, <2>1, <2>4, <2>5, <2>6 DEF SplitSound, Live, SameRow, SameSteps
<1>10. TrancheCall' BY <1>1, <1>2 DEF TrancheCall
<1>11. LadderKnown'
  <2> SUFFICES ASSUME NEW m \in Live, NEW r \in OpenRows(m)'
               PROVE  /\ extras[m].owner # 0 => extras[m].original = Size
                      /\ extras[m].owner # 0 /\ ~Counting(m)'
                           => extras[m].tranches = rows'[r].tranches
                      /\ Counting(m)' => rows'[r].tranches = tick.step
    BY <1>1 DEF LadderKnown, Live
  <2>1. CASE m = op[t].market
    <3>1. ~Counting(m)' /\ extras[m].owner = 0
      BY <1>1, <1>5, <2>1 DEF Counting, At
    <3> QED BY <3>1
  <2>2. CASE m # op[t].market
    <3>1. r \in OpenRows(m) /\ SameSteps(r) BY <1>3, <1>8, <2>2 DEF OpenRows
    <3>2. Counting(m)' <=> Counting(m)
      BY <1>1, <1>2 DEF Counting, At, Owned, OnlyTickInserts
    <3> QED BY <3>1, <3>2 DEF LadderKnown, SameSteps
  <2> QED BY <2>1, <2>2
<1> QED BY <1>6, <1>7, <1>9, <1>10, <1>11

-----------------------------------------------------------------------------
(* The decision pipeline.                                                  *)

\* The ladder state a managing step works with fits the open position, also when it
\* was rebuilt from the table.
LEMMA SeenFits ==
  ASSUME Owned, Laddered, NEW p \in Prices, Managing(p), here \in Live
  PROVE  /\ Fits(Seen(p), here) /\ Fits(Trailed(p), here)
         /\ Fits([Seen(p) EXCEPT !.below = @ + 1], here)
<1>1. /\ here \in Markets /\ tick.row \in Rows /\ p \in Nat /\ tick.pc = "manage"
      /\ here = tick.market
  BY ManagingTyped DEF Owned, Managing, here
<1> DEFINE e == IF extras[here].owner = 0 THEN Hydrated ELSE extras[here]
<1>2. Fits(e, here)
  <2> SUFFICES ASSUME NEW r \in OpenRows(here)
               PROVE  e.original = Size /\ e.tranches = rows[r].tranches
    BY DEF Fits
  <2>1. CASE extras[here].owner # 0
    <3>1. ~Counting(here) BY <1>1 DEF Counting, At
    <3> QED BY <2>1, <3>1 DEF Laddered, LadderKnown
  <2>2. CASE extras[here].owner = 0
    <3>1. r = tick.row /\ rows[r].size = tick.size
      BY <1>1 DEF Owned, TickLooked, At
    <3>2. rows[r].size + rows[r].split = Size
      BY DEF Laddered, Counted, OpenRows, Live
    <3>3. Hydrated.original = tick.size + rows[tick.row].split
          /\ Hydrated.tranches = rows[tick.row].tranches
      BY DEF Hydrated, NoExtras
    <3> QED BY <2>2, <3>1, <3>2, <3>3
  <2> QED BY <2>1, <2>2
<1>3. e \in Extras
  <2>1. Hydrated \in Extras
    <3>1. NoExtras \in Extras BY DEF NoExtras, Extras
    <3>2. /\ rows[tick.row].tranches \in Nat /\ tick.row \in Rows \cup {0}
          /\ tick.size + rows[tick.row].split \in Int
      BY <1>1 DEF Owned, Typed, TypeOK, Tick, Row
    <3> QED BY <3>1, <3>2 DEF Hydrated, Extras
  <2> QED BY <1>1, <2>1 DEF Owned, Typed, TypeOK
<1>4. Seen(p) = [e EXCEPT !.peak = Larger(e.peak, p)] BY DEF Seen
<1> HIDE DEF e
<1>5. Seen(p).original = e.original /\ Seen(p).tranches = e.tranches
  BY <1>3, <1>4 DEF Extras
<1>6. Seen(p) \in Extras /\ Trailed(p) \in Extras
  BY ManagingTyped DEF Owned
<1>7. Trailed(p).original = e.original /\ Trailed(p).tranches = e.tranches
  BY <1>5, <1>6 DEF Trailed, Extras
<1>8. /\ [Seen(p) EXCEPT !.below = @ + 1].original = e.original
      /\ [Seen(p) EXCEPT !.below = @ + 1].tranches = e.tranches
  BY <1>5, <1>6 DEF Extras
<1> QED BY <1>2, <1>5, <1>7, <1>8 DEF Fits

\* A step of the tick that changes no row keeps the table.
LEMMA StillTable == ASSUME UNCHANGED rows PROVE SameTable
BY DEF SameTable, SameRow, SameSteps

\* Every branch of the exit ladder but the tranche: it ends the tick or starts a close.
LEMMA ManageLaddered ==
  ASSUME Owned, Laddered, TickManage, \A p \in Prices : ~ManageLadder(p)
  PROVE  Laddered'
<1>1. Owned' BY ManageOwned
<1>2. TickThread \in Threads BY DEF Threads
<1>3. CASE ManageBlind
  <2>1. UNCHANGED <<rows, abandoned, op, extras>> /\ tick'.pc = "idle" /\ tick.pc = "manage"
    BY <1>3, IdleTickTyped DEF ManageBlind, memory, offTick
  <2> QED BY <1>1, <2>1, QuietLaddered, StillTable
<1>4. ASSUME NEW p \in Prices, Managing(p), NEW e \in Extras, SetExtras(e),
             here \in Live => Fits(e, here),
             \/ StartClose
             \/ tick' = IdleTick /\ op' = op,
             UNCHANGED <<rows, abandoned>>
      PROVE  Laddered'
  <2>1. tick.pc = "manage" /\ here \in Markets BY <1>4, ManagingTyped DEF Managing, Owned
  <2>2. \A n \in Live : extras'[n] = extras[n] \/ Fits(extras'[n], n)
    BY <1>4, <2>1 DEF SetExtras, Owned, Typed, TypeOK, Live
  <2>3. /\ tick'.pc # "tranche"
        /\ op'[TickThread] = op[TickThread] \/ op'[TickThread].state = "queued"
        /\ \A u \in Threads \ {TickThread} : op'[u] = op[u]
    <3>1. CASE StartClose
      BY <1>2, <2>1, <3>1, CloseOpTyped, GotoTyped DEF StartClose, Call, Owned, Typed, TypeOK, Pc
    <3>2. CASE tick' = IdleTick /\ op' = op
      BY <3>2, IdleTickTyped
    <3> QED BY <1>4, <3>1, <3>2
  <2>4. SameTable BY <1>4, StillTable
  <2>5. tick.pc # "tranche" BY <2>1
  <2> QED BY <1>1, <1>4, <2>2, <2>3, <2>4, <2>5, QuietLaddered
<1>5. ASSUME NEW p \in Prices, ManageTrail(p) PROVE Laddered'
  <2>1. /\ Managing(p) /\ UNCHANGED <<rows, abandoned>> /\ StartClose
        /\ SetExtras([Seen(p) EXCEPT !.below = @ + 1])
    BY <1>5 DEF ManageTrail, offTick
  <2>2. [Seen(p) EXCEPT !.below = @ + 1] \in Extras
    BY <2>1, ManagingTyped DEF Owned
  <2>3. here \in Live => Fits([Seen(p) EXCEPT !.below = @ + 1], here) BY <2>1, SeenFits
  <2> QED BY <1>4, <2>1, <2>2, <2>3
<1>6. ASSUME NEW p \in Prices, \/ ManageStopRest(p) \/ ManageStopWait(p) \/ ManageStopPost(p)
                               \/ ManageExit(p) \/ ManageHold(p)
      PROVE  Laddered'
  <2>1. /\ Managing(p) /\ UNCHANGED <<rows, abandoned>> /\ SetExtras(Trailed(p))
        /\ StartClose \/ (tick' = IdleTick /\ op' = op)
    BY <1>6 DEF ManageStopRest, ManageStopWait, ManageStopPost, ManageExit, ManageHold,
                StopSettled, PastTrail, offTick
  <2>2. Trailed(p) \in Extras BY <2>1, ManagingTyped DEF Owned
  <2>3. here \in Live => Fits(Trailed(p), here) BY <2>1, SeenFits
  <2> QED BY <1>4, <2>1, <2>2, <2>3
<1> QED BY <1>3, <1>5, <1>6 DEF TickManage

\* A tranche of some size is a call on the market it is asked for.
LEMMA TrancheOpCalls ==
  ASSUME NEW m \in Markets, NEW part \in Int, NEW whole \in Int, NEW k \in Nat, part > 0
  PROVE  /\ TrancheOp(m, part, whole, k) # NoOp
         /\ TrancheOp(m, part, whole, k).market = m
         /\ TrancheOp(m, part, whole, k).kind = "partial" => TrancheOp(m, part, whole, k).step = k
<1>1. CASE part >= whole
  BY <1>1, CloseOpTyped, NoOpTyped DEF TrancheOp
<1>2. CASE ~(part >= whole)
  <2>1. /\ PartialOp(m, part, whole, k).kind = "partial"
        /\ PartialOp(m, part, whole, k).market = m /\ PartialOp(m, part, whole, k).step = k
    BY DEF PartialOp, NoOp
  <2> QED BY <1>2, <2>1, NoOpTyped DEF TrancheOp
<1> QED BY <1>1, <1>2

\* The ladder asks for the step after the last one in the table.
LEMMA ManageLadderLaddered ==
  ASSUME Owned, Laddered, NEW p \in Prices, ManageLadder(p)
  PROVE  Laddered'
<1> USE DEF Laddered
<1> DEFINE k == Seen(p).tranches + 1
           target == (Ladder[k].num * Seen(p).original) \div Parts
           c == TrancheOp(here, target, tick.size, k)
<1>1. /\ here \in Markets /\ tick.row \in Rows /\ p \in Nat /\ tick \in Tick
      /\ Seen(p) \in Extras /\ tick.pc = "manage" /\ here = tick.market /\ Managing(p)
  BY ManagingTyped DEF ManageLadder, Managing, Owned, here
<1>2. k \in Steps /\ k \in Nat /\ Seen(p).original \in Int /\ tick.size \in Int
  BY SMTT(30), <1>1, LadderAssumption DEF ManageLadder, LadderDue, Extras, Steps, Tick
<1>3. Ladder[k].num \in Nat
  <2> HIDE DEF k
  <2> DEFINE S == [at : Nat, num : Nat]
  <2>1. Ladder \in Seq(S) BY LadderAssumption
  <2>2. \A s \in S : s.num \in Nat OBVIOUS
  <2> HIDE DEF S
  <2>3. Ladder[k] \in S BY <1>2, <2>1 DEF Steps
  <2> QED BY <2>2, <2>3
<1>4. target \in Int BY <1>2, <1>3, SizeAssumption
<1>5. /\ Call(c) /\ SetExtras(Seen(p))
      /\ tick' = [tick EXCEPT !.pc = "tranche", !.step = k]
      /\ UNCHANGED <<rows, abandoned>>
  BY DEF ManageLadder, offTick
<1>6. here \in Live => \A r \in OpenRows(here) : Seen(p).original = Size /\ rows[r].tranches + 1 = k
  BY <1>1, SeenFits DEF Fits
<1>7. Seen(p).original = Size => target > 0
  BY <1>2, TrancheAssumption
<1>8. /\ c.kind \in {"none", "close", "partial"} /\ c.state = "queued"
      /\ c.kind # "none" => c.market = here
  BY <1>1, <1>2, <1>4, TrancheOpTyped
<1>9. target > 0 => /\ c # NoOp /\ c.market = here
                    /\ c.kind = "partial" => c.step = k
  BY <1>1, <1>2, <1>4, TrancheOpCalls
<1>10. c.kind = "partial" => target > 0 /\ c.step = k
  <2>1. c.kind = "partial" => target > 0
    BY <1>1, CloseOpTyped, NoOpTyped DEF TrancheOp
  <2> QED BY <1>9, <2>1
<1>11. c # NoOp => c.kind # "none"
  BY <1>1, CloseOpTyped DEF TrancheOp, PartialOp, NoOp
<1> HIDE DEF k, target, c
<1>12. /\ op'[TickThread] = c /\ TickThread \in Threads
       /\ \A u \in Threads \ {TickThread} : op'[u] = op[u]
  BY <1>5 DEF Call, Threads, Owned, Typed, TypeOK
<1>13. tick'.pc = "tranche" /\ tick'.market = here /\ tick'.step = k
  BY <1>1, <1>5 DEF Tick
<1>14. /\ extras'[here] = Seen(p)
       /\ \A n \in Markets : n # here => extras'[n] = extras[n]
  BY <1>1, <1>5 DEF SetExtras, Owned, Typed, TypeOK
<1>15. \A m : OpenRows(m)' = OpenRows(m) BY <1>5 DEF OpenRows
<1>16. Counted' /\ CallSound'
  BY <1>5, <1>8, <1>12 DEF Counted, CallSound
<1>17. SplitSound'
  BY <1>5, <1>6, <1>8, <1>10, <1>12, <1>13, <1>15 DEF SplitSound, Live
<1>18. TrancheCall' BY <1>8, <1>11, <1>12, <1>13 DEF TrancheCall
<1>19. LadderKnown'
  <2> SUFFICES ASSUME NEW m \in Live, NEW r \in OpenRows(m)
               PROVE  /\ extras'[m].owner # 0 => extras'[m].original = Size
                      /\ extras'[m].owner # 0 /\ ~Counting(m)'
                           => extras'[m].tranches = rows[r].tranches
                      /\ Counting(m)' => rows[r].tranches = tick'.step
    BY <1>5, <1>15 DEF LadderKnown, Live
  <2>1. CASE m = here
    <3>1. op'[TickThread] # NoOp BY <1>6, <1>7, <1>9, <1>12, <2>1
    <3>2. Seen(p).original = Size /\ Seen(p).tranches = rows[r].tranches
      BY <1>1, <2>1, SeenFits DEF Fits
    <3> QED BY <1>14, <2>1, <3>1, <3>2 DEF Counting
  <2>2. CASE m # here
    <3>1. ~Counting(m)' /\ ~Counting(m) BY <1>1, <1>13, <2>2 DEF Counting, At
    <3>2. extras'[m] = extras[m] BY <1>14, <2>2 DEF Live
    <3> QED BY <3>1, <3>2 DEF LadderKnown
  <2> QED BY <2>1, <2>2
<1> QED BY <1>16, <1>17, <1>18, <1>19

\* The tick counts the step the table counted before it.
LEMMA TickTrancheDoneLaddered ==
  ASSUME Owned, Laddered, TickTrancheDone
  PROVE  Laddered'
<1> USE DEF Laddered
<1>1. /\ UNCHANGED <<rows, op, abandoned>> /\ tick'.pc = "idle" /\ here \in Markets
      /\ op[TickThread] = NoOp /\ tick.pc = "tranche" /\ here = tick.market
      /\ TickThread \in Threads
  BY IdleTickTyped DEF TickTrancheDone, offTick, Owned, Typed, TickNamed, here, Threads
<1>2. /\ extras'[here].owner # 0 => /\ extras'[here].original = extras[here].original
                                    /\ extras'[here].tranches = tick.step
                                    /\ extras[here].owner # 0
      /\ \A n \in Markets : n # here => extras'[n] = extras[n]
  BY <1>1 DEF TickTrancheDone, SetExtras, Owned, Typed, TypeOK, Extras
<1>3. Counted' /\ CallSound' /\ TrancheCall'
  BY <1>1 DEF Counted, CallSound, TrancheCall
<1>4. SplitSound' BY <1>1, NoOpTyped DEF SplitSound
<1>5. \A m : OpenRows(m)' = OpenRows(m) BY <1>1 DEF OpenRows
<1>6. LadderKnown'
  BY <1>1, <1>2, <1>5 DEF LadderKnown, Counting, At, Live
<1> QED BY <1>3, <1>4, <1>6

\* Every step of the tick keeps the count.
LEMMA TickStepLaddered == ASSUME Owned, Laddered, TickStep PROVE Laddered'
<1>1. Owned' BY TickStepOwned
<1>2. TickThread \in Threads BY DEF Threads
<1>3. CASE TickRead
  <2>1. UNCHANGED <<rows, op, extras, abandoned>> /\ tick.pc = "read" /\ tick'.pc # "tranche"
    BY <1>3 DEF TickRead, Goto, offTick, memory, Owned, Typed, TypeOK, Tick
  <2> QED BY <1>1, <2>1, QuietLaddered, StillTable
<1>4. CASE TickCloseDone
  <2>1. UNCHANGED <<rows, op, abandoned>> /\ here \in Markets /\ tick.pc = "closing"
        /\ tick'.pc # "tranche" /\ Forget(here)
    BY <1>4, GotoTyped DEF TickCloseDone, offTick, Owned, Typed, TypeOK, TickNamed, Pc, here
  <2>2. \A n \in Live : extras'[n].owner = 0 \/ extras'[n] = extras[n]
    BY <2>1, ForgetOwned DEF Live
  <2> QED BY <1>1, <2>1, <2>2, QuietLaddered, StillTable
<1>5. CASE TickReport
  <2>1. /\ UNCHANGED <<op, extras, abandoned>> /\ tick.pc = "report" /\ tick'.pc = "idle"
        /\ tick.row \in Rows
    BY <1>5, IdleTickTyped DEF TickReport, offTick, memory, Owned, Typed, TickNamed
  <2>2. SameTable
    BY <1>5, <2>1, ReportTyped DEF TickReport, Owned, SameTable, SameRow, SameSteps
  <2> QED BY <1>1, <2>1, <2>2, QuietLaddered
<1>6. CASE TickEnter
  <2>1. /\ UNCHANGED <<rows, abandoned>> /\ tick.pc = "enter" /\ here \in Markets /\ Forget(here)
    BY <1>6 DEF TickEnter, TickNoEntry, TickApprove, TickMakerFill, offTick, Owned, Typed,
                TickNamed, here
  <2>2. \A n \in Live : extras'[n].owner = 0 \/ extras'[n] = extras[n]
    BY <2>1, ForgetOwned DEF Live
  <2>3. CASE TickNoEntry
    <3>1. tick'.pc = "idle" /\ op' = op BY <2>3, IdleTickTyped DEF TickNoEntry
    <3> QED BY <1>1, <2>1, <2>2, <3>1, QuietLaddered, StillTable
  <2>4. CASE TickApprove
    <3>1. tick'.pc = "approved" /\ op' = op
      BY <2>4, GotoTyped DEF TickApprove, Owned, Typed, TypeOK, Pc
    <3> QED BY <1>1, <2>1, <2>2, <3>1, QuietLaddered, StillTable
  <2>5. CASE TickMakerFill
    <3>1. /\ tick'.pc = "inserting" /\ op'[TickThread].state = "queued"
          /\ \A u \in Threads \ {TickThread} : op'[u] = op[u]
      BY <1>2, <2>1, <2>5, GotoTyped, InsertOpTyped
         DEF TickMakerFill, Call, Owned, Typed, TypeOK, Pc
    <3> QED BY <1>1, <2>1, <2>2, <3>1, QuietLaddered, StillTable
  <2> QED BY <1>6, <2>3, <2>4, <2>5 DEF TickEnter
<1>7. CASE TickSubmit
  <2>1. /\ UNCHANGED <<rows, extras, abandoned>> /\ tick.pc = "approved" /\ here \in Markets
    BY <1>7 DEF TickSubmit, offTick, memory, Owned, Typed, TickNamed, here
  <2>2. /\ tick'.pc = "inserting" /\ op'[TickThread].state = "queued"
        /\ \A u \in Threads \ {TickThread} : op'[u] = op[u]
    BY <1>2, <1>7, <2>1, GotoTyped, InsertOpTyped DEF TickSubmit, Call, Owned, Typed, TypeOK, Pc
  <2> QED BY <1>1, <2>1, <2>2, QuietLaddered, StillTable
<1>8. CASE TickInserted
  <2>1. UNCHANGED <<rows, op, extras, abandoned>> /\ tick.pc = "inserting" /\ tick'.pc = "idle"
    BY <1>8, IdleTickTyped DEF TickInserted, offTick, memory
  <2> QED BY <1>1, <2>1, QuietLaddered, StillTable
<1>9. CASE TickManage
  BY <1>9, ManageLaddered, ManageLadderLaddered
<1> QED BY <1>3, <1>4, <1>5, <1>6, <1>7, <1>8, <1>9, TickTrancheDoneLaddered DEF TickStep

-----------------------------------------------------------------------------
(* The discovery cycle, the environment, and the theorems.                 *)

\* A cancelled tick drops a split that has not started, or gives up its market.
LEMMA CancelLaddered ==
  ASSUME Owned, Laddered, CancelTick, UNCHANGED <<rows, extras>>
  PROVE  Laddered'
<1> USE DEF Laddered
<1>1. /\ tick'.pc = "idle" /\ TickThread \in Threads /\ Live' \subseteq Live
      /\ abandoned \subseteq abandoned'
  BY IdleTickTyped DEF CancelTick, Threads, Live
<1>2. \A m : OpenRows(m)' = OpenRows(m) BY DEF OpenRows
<1>3. Counted' BY <1>1 DEF Counted
<1>4. /\ op'[TickThread] = NoOp
      /\ \A u \in Threads : op'[u] = NoOp \/ \E v \in Threads : op'[u] = op[v]
      /\ \A m \in Live' : ~Counting(m)
  <2>1. CASE /\ op' = [op EXCEPT ![TickThread] = NoOp]
             /\ abandoned' = IF op[TickThread] = NoOp
                                  /\ tick.pc \in {"tranche", "closing", "inserting"}
                             THEN abandoned \cup {here} ELSE abandoned
    BY <1>1, <2>1 DEF Owned, Typed, TypeOK, Counting, At, Live, here
  <2>2. ASSUME NEW d \in Detached, op[TickThread].kind # "none",
               op' = [op EXCEPT ![d] = op[TickThread], ![TickThread] = NoOp]
        PROVE  /\ op'[TickThread] = NoOp
               /\ \A u \in Threads : op'[u] = NoOp \/ \E v \in Threads : op'[u] = op[v]
               /\ \A m \in Live' : ~Counting(m)
    <3>1. d \in Threads /\ d # TickThread BY ThreadsAssumption DEF Threads
    <3>2. \A u \in Threads : op'[u] = IF u = TickThread THEN NoOp
                                      ELSE IF u = d THEN op[TickThread] ELSE op[u]
      BY <1>1, <2>2, <3>1 DEF Owned, Typed, TypeOK
    <3>3. op[TickThread] # NoOp BY <2>2, NoOpTyped
    <3> QED BY <1>1, <3>2, <3>3 DEF Counting
  <2> QED BY <2>1, <2>2 DEF CancelTick
<1>5. CallSound'
  BY <1>4, NoOpTyped DEF CallSound
<1>6. SplitSound' /\ TrancheCall'
  BY <1>4, NoOpTyped DEF SplitSound, TrancheCall
<1>7. LadderKnown'
  BY <1>1, <1>2, <1>4 DEF LadderKnown, Counting, At
<1> QED BY <1>3, <1>5, <1>6, <1>7

\* Every step of the discovery cycle keeps the count.
LEMMA DiscStepLaddered == ASSUME Owned, Laddered, DiscStep PROVE Laddered'
<1>1. DiscThread \in Threads /\ DiscThread # TickThread
  BY ThreadsAssumption DEF Threads
<1>2. CASE DiscList
  BY <1>2, AsideLaddered, StillTable DEF DiscList, memory
<1>3. ASSUME NEW r \in Rows, DiscScan(r) PROVE Laddered'
  <2>1. CASE DiscPass(r) \/ DiscPin(r)
    BY <2>1, AsideLaddered, StillTable DEF DiscPass, DiscPin, memory
  <2>2. CASE DiscOrphan(r)
    <3>1. rows[r].market \in Markets
      BY <2>2 DEF DiscOrphan, Scanning, Owned, Typed, DiscNamed, RowsNamed
    <3>2. /\ op'[DiscThread].state = "queued"
          /\ \A u \in Threads \ {DiscThread} : op'[u] = op[u]
      BY <1>1, <2>2, <3>1, CloseOpTyped DEF DiscOrphan, Owned, Typed, TypeOK
    <3>3. TickThread \in Threads BY DEF Threads
    <3> QED BY <1>1, <2>2, <3>2, <3>3, AsideLaddered, StillTable DEF DiscOrphan, memory
  <2> QED BY <1>3, <2>1, <2>2 DEF DiscScan
<1>4. CASE DiscOrphanDone
  <2>1. rows[disc.row].market \in Markets
    BY <1>4 DEF DiscOrphanDone, Owned, Typed, DiscNamed, RowsNamed
  <2> QED BY <1>4, <2>1, ForgetOwned, AsideLaddered, StillTable DEF DiscOrphanDone
<1>5. CASE DiscReport
  <2>1. disc.row \in Rows BY <1>5 DEF DiscReport, Owned, Typed, DiscNamed
  <2>2. SameTable
    BY <1>5, <2>1, ReportTyped DEF DiscReport, Owned, SameTable, SameRow, SameSteps
  <2> QED BY <1>5, <2>2, AsideLaddered DEF DiscReport, memory
<1>6. CASE DiscSwap
  BY <1>6, CancelLaddered, AsideLaddered, StillTable DEF DiscSwap, memory
<1> QED BY <1>2, <1>3, <1>4, <1>5, <1>6 DEF DiscStep

\* After a crash the steps taken are those in the table: memory knows none.
LEMMA CrashLaddered == ASSUME Owned, Laddered, Crash PROVE Laddered'
<1> USE DEF Laddered
<1>1. /\ UNCHANGED <<rows, abandoned>> /\ tick'.pc = "idle"
      /\ \A t \in Threads : op'[t] = op[t] \/ op'[t] = NoOp
      /\ \A m \in Markets : extras'[m].owner = 0
  BY IdleTickTyped DEF Crash, NoExtras
<1>2. TickThread \in Threads /\ op'[TickThread] = NoOp
  BY ThreadsAssumption DEF Crash, Threads
<1>3. Counted' /\ CallSound' BY <1>1, NoOpTyped DEF Counted, CallSound
<1>4. SplitSound' /\ TrancheCall' BY <1>1, <1>2, NoOpTyped DEF SplitSound, TrancheCall
<1>5. LadderKnown' BY <1>1 DEF LadderKnown, Counting, At, Live
<1> QED BY <1>3, <1>4, <1>5

\* Every step keeps the count.
LEMMA NextLaddered == ASSUME Owned, Laddered, TailAbsent, [Next]_vars PROVE Laddered'
<1>1. ASSUME NEW t \in Threads, ThreadStep(t) PROVE Laddered'
  BY <1>1, ReadOpenRowLaddered, ClosePositionLaddered, PartialClosePositionLaddered,
     RecordExecutionLaddered DEF ThreadStep
<1>2. ASSUME NEW m \in Markets, TickStart(m) PROVE Laddered'
  <2>1. Owned' BY <1>2, TickStartOwned
  <2>2. UNCHANGED <<rows, op, extras, abandoned>> /\ tick.pc = "idle" /\ tick'.pc = "read"
    BY <1>2 DEF TickStart, offTick, memory, IdleTick
  <2> QED BY <2>1, <2>2, QuietLaddered, StillTable
<1>3. ASSUME NEW m \in Markets, Age(m) \/ CooldownElapses(m) PROVE Laddered'
  BY <1>3, AsideLaddered, StillTable DEF Age, CooldownElapses, callVars, memory
<1>4. ASSUME NEW m \in Markets, ManualClose(m) PROVE Laddered'
  <2>1. OperThread \in Threads /\ TickThread \in Threads /\ OperThread # TickThread
    BY ThreadsAssumption DEF Threads
  <2>2. /\ op'[OperThread].state = "queued"
        /\ \A u \in Threads \ {OperThread} : op'[u] = op[u]
    BY <1>4, <2>1, CloseOpTyped DEF ManualClose, Owned, Typed, TypeOK
  <2> QED BY <1>4, <2>1, <2>2, AsideLaddered, StillTable DEF ManualClose, memory
<1>5. ASSUME NEW F \in SUBSET Markets, DiscStart(F) PROVE Laddered'
  BY <1>5, AsideLaddered, StillTable DEF DiscStart, memory
<1>6. CASE UNCHANGED vars
  BY <1>6, AsideLaddered, StillTable DEF vars
<1> QED BY <1>1, <1>2, <1>3, <1>4, <1>5, <1>6, TickStepLaddered, DiscStepLaddered, CrashLaddered
        DEF Next

\* The count is an invariant of the specification.
LEMMA SpecLaddered == Spec => [](Owned /\ TailAbsent /\ Laddered)
<1>1. Init => Owned /\ TailAbsent /\ Laddered
  BY InitOwned, InitBook, InitLaddered
<1>2. Owned /\ TailAbsent /\ Laddered /\ [Next]_vars => (Owned /\ TailAbsent /\ Laddered)'
  BY NextOwned, TailStep, NextLaddered DEF Owned
<1> QED BY <1>1, <1>2, PTL DEF Spec

\* A ladder step is taken at most once on a position, for any ladder and any number of
\* restarts: the tick that asks for a step and the table agree on the one before it.
THEOREM StepsTakenOnce == Spec => []TrancheAtMostOnce
<1>1. Owned /\ TailAbsent /\ Laddered => TrancheAtMostOnce
  <2> SUFFICES ASSUME Owned, Laddered, NEW r \in Rows, rows[r].market \notin abandoned
               PROVE  rows[r].tranches = Cardinality(rows[r].steps)
    BY DEF TrancheAtMostOnce
  <2>1. rows[r].steps = 1..rows[r].tranches BY DEF Laddered, Counted
  <2>2. rows[r].tranches \in Nat BY DEF Owned, Typed, TypeOK, Row
  <2> DEFINE n == rows[r].tranches
  <2>3. Cardinality(1..n) = IF 1 > n THEN 0 ELSE n - 1 + 1 BY <2>2, FS_Interval
  <2> HIDE DEF n
  <2>4. Cardinality(1..n) = n BY <2>2, <2>3 DEF n
  <2> QED BY <2>1, <2>4 DEF n
<1> QED BY SpecLaddered, <1>1, PTL

\* Tranches and remainder of an open position add up to its entry: the size the split
\* computed from its read is still the size of the row when it writes.
THEOREM SizesAddUp == Spec => []OpenRowConserved
<1>1. Owned /\ TailAbsent /\ Laddered => OpenRowConserved
  BY DEF Laddered, Counted, OpenRowConserved
<1> QED BY SpecLaddered, <1>1, PTL

-----------------------------------------------------------------------------
(***************************************************************************)
(* The entry cooldown, for a ladder that leaves a runner: the inductive    *)
(* invariant behind EntryRespectsCooldown.                                 *)
(*                                                                         *)
(* A close is committed in a thread and starts the cooldown only when the  *)
(* loop goes on.  In between, the tick that closes is no tick that enters, *)
(* and the discovery cycle closes only what has run out.  A ladder that    *)
(* sells everything closes without a cooldown, hence the condition on it.  *)
(***************************************************************************)
Part(k) == (Ladder[k].num * Size) \div Parts

\* The running total of what the steps of the ladder take: the last one leaves a runner.
RunnerLeft(taken) ==
  /\ taken \in [0..Len(Ladder) -> 0..(Size - 1)] /\ taken[0] = 0
  /\ \A k \in Steps : taken[k] = taken[k - 1] + Part(k)

\* What was split off a position is what its steps take.
SplitAdds(taken) ==
  \A r \in Rows : rows[r].market \notin abandoned =>
     rows[r].tranches \in 0..Len(Ladder) /\ rows[r].split = taken[rows[r].tranches]

\* A split is of the part its step takes, out of a position of this size.
OfStep(c, size) == c.step \in Steps /\ c.num = Part(c.step) /\ c.den = size

\* The split under way is computed from the size the position still has.
SplitFits ==
  LET c == op[TickThread]
  IN c.kind = "partial" /\ c.market \in Live =>
       /\ c.state = "queued" => \A r \in OpenRows(c.market) : OfStep(c, rows[r].size)
       /\ c.state = "read" => OfStep(c, c.size)

\* The tick closes where it starts the cooldown next, or where there is nothing to close.
TickCloses ==
  LET c == op[TickThread]
  IN c.kind = "close" /\ c.market \in Live =>
       \/ At(c.market, {"closing"})
       \/ c.state = "queued" /\ OpenRows(c.market) = {}

\* The discovery cycle closes a market that has run out, and starts its cooldown next.
DiscCloses ==
  /\ op[DiscThread] # NoOp => disc.pc = "orphan" /\ op[DiscThread].market = rows[disc.row].market
  /\ disc.pc = "orphan" => phase[rows[disc.row].market] = "expired"

\* What cancelled ticks left behind runs on markets that are given up.
LeftBehind == \A d \in Detached : op[d] # NoOp => op[d].market \in abandoned

\* A close starts the cooldown as soon as its caller goes on.
Orphaned(m) == disc.pc = "orphan" /\ rows[disc.row].market = m
Cooled ==
  \A m \in Live \cap recent :
     \/ m \in cooling
     \/ At(m, {"closing"}) /\ op[TickThread] = NoOp
     \/ Orphaned(m)

Cooling(taken) ==
  SplitAdds(taken) /\ SplitFits /\ TickCloses /\ DiscCloses /\ LeftBehind /\ Cooled

\* Before the first close nothing is recent.
LEMMA InitCooling ==
  ASSUME NEW taken, RunnerLeft(taken), Init PROVE Cooling(taken)
<1>1. /\ \A t \in Threads : op[t] = NoOp
      /\ \A r \in Rows : rows[r].split = 0 /\ rows[r].tranches = 0
      /\ disc.pc = "idle" /\ recent = {}
  BY DEF Init, Absent, IdleDisc
<1>2. TickThread \in Threads /\ DiscThread \in Threads /\ Detached \subseteq Threads
  BY DEF Threads
<1>3. 0 \in 0..Len(Ladder)
  <2>1. Len(Ladder) \in Nat BY LadderAssumption
  <2> QED BY <2>1
<1>4. SplitAdds(taken) BY <1>1, <1>3 DEF SplitAdds, RunnerLeft
<1>5. SplitFits /\ TickCloses /\ DiscCloses /\ LeftBehind /\ Cooled
  BY <1>1, <1>2, NoOpTyped DEF SplitFits, TickCloses, DiscCloses, LeftBehind, Cooled
<1> QED BY <1>4, <1>5 DEF Cooling

\* The part a step takes, and what is left for it to take it from.
LEMMA PartLeaves ==
  ASSUME NEW taken, RunnerLeft(taken), NEW k \in Steps
  PROVE  /\ k \in Nat /\ k - 1 \in 0..Len(Ladder) /\ k \in 0..Len(Ladder)
         /\ Part(k) \in Int /\ taken[k - 1] \in Int
         /\ taken[k] = taken[k - 1] + Part(k)
         /\ Part(k) < Size - taken[k - 1]
<1>1. Len(Ladder) \in Nat BY LadderAssumption
<1>2. k \in Nat /\ k - 1 \in 0..Len(Ladder) /\ k \in 0..Len(Ladder)
  BY <1>1 DEF Steps
<1>3. Ladder[k].num \in Nat
  <2> DEFINE S == [at : Nat, num : Nat]
  <2>1. Ladder \in Seq(S) BY LadderAssumption
  <2>2. \A s \in S : s.num \in Nat OBVIOUS
  <2> HIDE DEF S
  <2>3. Ladder[k] \in S BY <2>1 DEF Steps
  <2> QED BY <2>2, <2>3
<1>4. Part(k) \in Int BY <1>3, SizeAssumption DEF Part
<1>5. taken[k] \in 0..(Size - 1) /\ taken[k - 1] \in 0..(Size - 1)
  BY <1>2 DEF RunnerLeft
<1>6. taken[k] = taken[k - 1] + Part(k) BY DEF RunnerLeft
<1> QED BY <1>2, <1>4, <1>5, <1>6, SizeAssumption

-----------------------------------------------------------------------------
(* Steps that close and split nothing.                                     *)

\* What was split off stays what it was, and markets are only ever given up.
LEMMA SplitAddsKept ==
  ASSUME NEW taken, SplitAdds(taken), abandoned \subseteq abandoned',
         \A r \in Rows : rows'[r].market = rows[r].market /\ SameSteps(r)
  PROVE  SplitAdds(taken)'
BY DEF SplitAdds, SameSteps

\* The calls of the tick stay sound beside it: its call and place stay, and what is open
\* on the market keeps its size.
LEMMA CallKept ==
  ASSUME SplitFits, TickCloses, op'[TickThread] = op[TickThread], UNCHANGED abandoned,
         LET m == op[TickThread].market
         IN /\ m \in Live => OpenRows(m)' \subseteq OpenRows(m)
            /\ m \in Live => \A r \in OpenRows(m)' : rows'[r].size = rows[r].size
            /\ At(m, {"closing"}) => At(m, {"closing"})'
  PROVE  SplitFits' /\ TickCloses'
<1>1. SplitFits' BY DEF SplitFits, OfStep, Live
<1>2. TickCloses' BY DEF TickCloses, Live
<1> QED BY <1>1, <1>2

\* Steps of the tick that start no close and no split, outside a close.
LEMMA QuietCooling ==
  ASSUME NEW taken, Owned, Cooling(taken), SameTable, tick.pc # "closing",
         UNCHANGED <<disc, phase, cooling, recent, abandoned>>,
         \A u \in Threads \ {TickThread} : op'[u] = op[u],
         op'[TickThread] = op[TickThread] \/ op'[TickThread].kind \in {"none", "insert"}
  PROVE  Cooling(taken)'
<1> USE DEF Cooling
<1>1. /\ \A m : OpenRows(m)' = OpenRows(m) /\ OpenRows(m) \subseteq Rows
      /\ \A r \in Rows : /\ rows'[r].market = rows[r].market /\ rows'[r].size = rows[r].size
                         /\ SameSteps(r)
  BY SameOpen DEF SameTable, SameRow, OpenRows
<1>2. SplitAdds(taken)' BY <1>1, SplitAddsKept
<1>3. SplitFits' /\ TickCloses'
  <2>1. CASE op'[TickThread] = op[TickThread]
    <3> DEFINE m == op[TickThread].market
    <3>1. OpenRows(m)' \subseteq OpenRows(m) BY <1>1, <2>1
    <3>2. \A r \in OpenRows(m)' : rows'[r].size = rows[r].size BY <1>1, <2>1
    <3> QED BY <2>1, <3>1, <3>2, CallKept DEF At
  <2>2. CASE op'[TickThread].kind \in {"none", "insert"}
    BY <2>2 DEF SplitFits, TickCloses
  <2> QED BY <2>1, <2>2
<1>4. DiscThread \in Threads \ {TickThread} /\ Detached \subseteq Threads \ {TickThread}
  BY ThreadsAssumption DEF Threads
<1>5. disc.pc = "orphan" => disc.row \in Rows BY DEF Owned, Typed, DiscNamed
<1>6. DiscCloses' BY <1>1, <1>4, <1>5 DEF DiscCloses
<1>7. LeftBehind' BY <1>4 DEF LeftBehind
<1>8. Cooled' BY <1>1, <1>5 DEF Cooled, Orphaned, At, Live
<1> QED BY <1>2, <1>3, <1>6, <1>7, <1>8

\* A close that the tick starts is followed by its cooldown.
LEMMA StartCloseCooling ==
  ASSUME NEW taken, Owned, Cooling(taken), tick.pc = "manage", here \in Markets, StartClose,
         UNCHANGED <<rows, disc, phase, cooling, recent, abandoned>>
  PROVE  Cooling(taken)'
<1> USE DEF Cooling
<1>1. \A r \in Rows : rows'[r].market = rows[r].market /\ SameSteps(r) BY DEF SameSteps
<1>2. SplitAdds(taken)' BY <1>1, SplitAddsKept
<1>3. TickThread \in Threads /\ op \in [Threads -> Op] /\ tick \in Tick /\ "closing" \in Pc
  BY DEF Threads, Owned, Typed, TypeOK, Pc
<1>4. /\ op'[TickThread].kind = "close" /\ op'[TickThread].market = here
      /\ \A u \in Threads \ {TickThread} : op'[u] = op[u]
  BY <1>3, CloseOpTyped DEF StartClose, Call
<1>5. tick'.pc = "closing" /\ tick'.market = here
  BY <1>3, GotoTyped DEF StartClose, here
<1>6. SplitFits' /\ TickCloses' BY <1>4, <1>5 DEF SplitFits, TickCloses, At
<1>7. DiscThread \in Threads \ {TickThread} /\ Detached \subseteq Threads \ {TickThread}
  BY ThreadsAssumption DEF Threads
<1>8. DiscCloses' /\ LeftBehind' BY <1>4, <1>7 DEF DiscCloses, LeftBehind
<1>9. Cooled' BY DEF Cooled, Orphaned, At, Live
<1> QED BY <1>2, <1>6, <1>8, <1>9

\* A tranche leaves a runner: with the position still open it is a split, never a close.
LEMMA ManageLadderCooling ==
  ASSUME NEW taken, RunnerLeft(taken), Owned, Laddered, Cooling(taken),
         NEW p \in Prices, ManageLadder(p)
  PROVE  Cooling(taken)'
<1> USE DEF Cooling
<1> DEFINE k == Seen(p).tranches + 1
           target == (Ladder[k].num * Seen(p).original) \div Parts
           c == TrancheOp(here, target, tick.size, k)
<1>1. /\ here \in Markets /\ tick \in Tick /\ Seen(p) \in Extras /\ tick.pc = "manage"
      /\ here = tick.market /\ Managing(p)
  BY ManagingTyped DEF ManageLadder, Managing, Owned, here
<1>2. k \in Steps /\ Seen(p).tranches \in Nat /\ Seen(p).original \in Int /\ tick.size \in Int
  BY SMTT(30), <1>1, LadderAssumption DEF ManageLadder, LadderDue, Extras, Steps, Tick
<1>3. /\ Call(c) /\ UNCHANGED <<rows, disc, phase, cooling, recent, abandoned>>
      /\ tick' = [tick EXCEPT !.pc = "tranche", !.step = k]
  BY DEF ManageLadder, offTick
<1>4. ASSUME here \in Live, NEW r \in OpenRows(here)
      PROVE  c = PartialOp(here, Part(k), rows[r].size, k)
  <2>1. Seen(p).original = Size /\ Seen(p).tranches = rows[r].tranches
    BY <1>1, <1>4, SeenFits DEF Fits
  <2>2. rows[r].size = tick.size BY <1>1, <1>4 DEF Owned, TickLooked, At
  <2>3. r \in Rows /\ rows[r].market \notin abandoned /\ rows[r].status = "open"
    BY <1>4 DEF OpenRows, Live
  <2>4. rows[r].size + rows[r].split = Size /\ rows[r].split = taken[rows[r].tranches]
    BY <2>3 DEF Laddered, Counted, SplitAdds
  <2>5. k - 1 = rows[r].tranches BY <1>2, <2>1
  <2>6. target = Part(k) BY <2>1 DEF Part
  <2>7. Part(k) > 0 BY <1>2, TrancheAssumption DEF Part
  <2>8. Part(k) \in Int /\ taken[k - 1] \in Int /\ Part(k) < Size - taken[k - 1]
    BY <1>2, PartLeaves
  <2> HIDE DEF k, target
  <2>9. tick.size = Size - taken[k - 1]
    BY <1>2, <2>2, <2>4, <2>5, <2>8, SizeAssumption
  <2>10. ~(target >= tick.size) /\ target > 0
    BY <1>2, <2>6, <2>7, <2>8, <2>9, SizeAssumption
  <2> QED BY <2>2, <2>6, <2>10 DEF TrancheOp
<1>5. c.kind # "none" => c.market = here
  BY <1>1, CloseOpTyped, NoOpTyped DEF TrancheOp, PartialOp, NoOp
<1>6. \A part, whole : /\ PartialOp(here, part, whole, k).num = part
                       /\ PartialOp(here, part, whole, k).den = whole
                       /\ PartialOp(here, part, whole, k).step = k
                       /\ PartialOp(here, part, whole, k).kind = "partial"
                       /\ PartialOp(here, part, whole, k).market = here
                       /\ PartialOp(here, part, whole, k).state = "queued"
  BY DEF PartialOp, NoOp
<1>7. c.state = "queued"
  BY <1>1, <1>6, CloseOpTyped, NoOpTyped DEF TrancheOp
<1> HIDE DEF c
<1>8. /\ op'[TickThread] = c
      /\ \A u \in Threads \ {TickThread} : op'[u] = op[u]
  BY <1>3 DEF Call, Threads, Owned, Typed, TypeOK
<1>9. \A r \in Rows : rows'[r].market = rows[r].market /\ SameSteps(r) BY <1>3 DEF SameSteps
<1>10. SplitAdds(taken)' BY <1>3, <1>9, SplitAddsKept
<1> HIDE DEF k
<1>11. \A m : OpenRows(m)' = OpenRows(m) BY <1>3 DEF OpenRows
<1>12. SplitFits'
  <2> SUFFICES ASSUME c.kind = "partial", c.market \in Live, NEW r \in OpenRows(c.market)
               PROVE  OfStep(c, rows[r].size)
    BY <1>3, <1>7, <1>8, <1>11 DEF SplitFits, Live
  <2>1. c.market = here BY <1>5
  <2> QED BY <1>2, <1>4, <1>6, <2>1 DEF OfStep
<1>13. TickCloses'
  <2> SUFFICES ASSUME c.kind = "close", c.market \in Live
               PROVE  OpenRows(c.market) = {}
    BY <1>3, <1>7, <1>8, <1>11 DEF TickCloses, Live
  <2>1. c.market = here BY <1>5
  <2> QED BY <1>4, <1>6, <2>1
<1>14. DiscThread \in Threads \ {TickThread} /\ Detached \subseteq Threads \ {TickThread}
  BY ThreadsAssumption DEF Threads
<1>15. DiscCloses' /\ LeftBehind' BY <1>3, <1>8, <1>14 DEF DiscCloses, LeftBehind
<1>16. Cooled' BY <1>1, <1>3 DEF Cooled, Orphaned, At, Live
<1> QED BY <1>10, <1>12, <1>13, <1>15, <1>16

-----------------------------------------------------------------------------
(* Portfolio calls.                                                        *)

\* Whoever awaits the call of a thread still does, and nobody forgets a close.
LEMMA CallersKept ==
  ASSUME Owned, DiscCloses, LeftBehind, NEW t \in Threads, op[t] # NoOp,
         op'[t] = NoOp \/ op'[t].market = op[t].market,
         \A u \in Threads \ {t} : op'[u] = op[u],
         \A r \in Rows : rows[r].status # "absent" => rows'[r].market = rows[r].market,
         UNCHANGED <<tick, disc, phase, cooling, abandoned>>
  PROVE  /\ DiscCloses' /\ LeftBehind'
         /\ Cooled /\ recent' \subseteq recent => Cooled'
<1>1. DiscThread \in Threads /\ TickThread \in Threads /\ Detached \subseteq Threads
  BY DEF Threads
<1>2. disc.pc = "orphan" => rows'[disc.row].market = rows[disc.row].market
  BY DEF Owned, Typed, DiscNamed
<1>3. DiscCloses' BY <1>1, <1>2 DEF DiscCloses
<1>4. LeftBehind' BY <1>1 DEF LeftBehind
<1>5. ASSUME Cooled, recent' \subseteq recent PROVE Cooled'
  <2>1. op[TickThread] = NoOp => op'[TickThread] = NoOp BY <1>1
  <2> QED BY <1>2, <1>5, <2>1 DEF Cooled, Orphaned, At, Live
<1> QED BY <1>3, <1>4, <1>5

\* Reading a row: a split learns the size its part was computed for, and a close that
\* finds something open is one that is waited for.
LEMMA ReadOpenRowCooling ==
  ASSUME NEW taken, Owned, Cooling(taken), NEW t \in Threads, ReadOpenRow(t)
  PROVE  Cooling(taken)'
<1> USE DEF Cooling
<1>1. UNCHANGED <<rows, tick, disc, phase, cooling, recent, abandoned>>
  BY DEF ReadOpenRow, offLoop, memory
<1>2. op[t].kind \in {"close", "partial"} /\ op[t].state = "queued" /\ op[t] # NoOp
  BY NoOpTyped DEF ReadOpenRow
<1>3. PICK c : /\ op' = [op EXCEPT ![t] = c]
               /\ \/ c = NoOp
                  \/ \E r \in OpenRows(op[t].market) :
                        c = [op[t] EXCEPT !.state = "read", !.row = r, !.size = rows[r].size]
  BY DEF ReadOpenRow
<1>4. op'[t] = c /\ \A u \in Threads \ {t} : op'[u] = op[u]
  BY <1>3 DEF Owned, Typed, TypeOK
<1>5. ASSUME c # NoOp
      PROVE  \E r \in OpenRows(op[t].market) :
                /\ c.kind = op[t].kind /\ c.market = op[t].market /\ c.step = op[t].step
                /\ c.num = op[t].num /\ c.den = op[t].den
                /\ c.state = "read" /\ c.size = rows[r].size
  <2>1. PICK r \in OpenRows(op[t].market) :
             c = [op[t] EXCEPT !.state = "read", !.row = r, !.size = rows[r].size]
    BY <1>3, <1>5
  <2> QED BY <2>1 DEF Owned, Typed, TypeOK, Op
<1>6. \A m : OpenRows(m)' = OpenRows(m) BY <1>1 DEF OpenRows
<1>7. SplitAdds(taken)' BY <1>1, SplitAddsKept DEF SameSteps
<1>8. SplitFits' /\ TickCloses'
  <2>1. CASE t # TickThread
    <3>1. op'[TickThread] = op[TickThread] BY <1>4, <2>1 DEF Threads
    <3> QED BY <1>1, <1>6, <3>1, CallKept DEF At
  <2>2. CASE t = TickThread /\ c = NoOp
    BY <1>4, <2>2, NoOpTyped DEF SplitFits, TickCloses
  <2>3. CASE t = TickThread /\ c # NoOp
    <3>1. PICK r \in OpenRows(op[t].market) :
                /\ c.kind = op[t].kind /\ c.market = op[t].market /\ c.step = op[t].step
                /\ c.num = op[t].num /\ c.den = op[t].den
                /\ c.state = "read" /\ c.size = rows[r].size
      BY <1>5, <2>3
    <3>2. SplitFits'
      BY <1>1, <1>2, <1>4, <2>3, <3>1 DEF SplitFits, OfStep, Live
    <3>3. TickCloses'
      BY <1>1, <1>2, <1>4, <2>3, <3>1 DEF TickCloses, Live, At
    <3> QED BY <3>2, <3>3
  <2> QED BY <2>1, <2>2, <2>3
<1>9. DiscCloses' /\ LeftBehind' /\ Cooled'
  BY <1>1, <1>2, <1>4, <1>5, CallersKept
<1> QED BY <1>7, <1>8, <1>9

\* A close that is committed is one whose caller starts the cooldown next.
LEMMA ClosePositionCooling ==
  ASSUME NEW taken, Owned, Cooling(taken), NEW t \in Threads, ClosePosition(t)
  PROVE  Cooling(taken)'
<1> USE DEF Cooling
<1>1. /\ UNCHANGED <<tick, disc, phase, cooling, abandoned>>
      /\ recent' = IF t = OperThread THEN recent ELSE recent \cup {op[t].market}
  BY DEF ClosePosition, offLoop, memory
<1>2. op[t].kind = "close" /\ op[t].state = "read" /\ op[t] # NoOp
  BY NoOpTyped DEF ClosePosition
<1>3. op'[t] = NoOp /\ \A u \in Threads \ {t} : op'[u] = op[u]
  BY DEF ClosePosition, Owned, Typed, TypeOK
<1>4. /\ \A r \in Rows : /\ rows'[r].market = rows[r].market /\ rows'[r].size = rows[r].size
                         /\ SameSteps(r)
      /\ \A m : OpenRows(m)' \subseteq OpenRows(m)
      /\ \A m : OpenRows(m)' \subseteq Rows
  BY CloseRows DEF Owned, OpenRows
<1>5. SplitAdds(taken)' BY <1>1, <1>4, SplitAddsKept
<1>6. SplitFits' /\ TickCloses'
  <2>1. CASE t # TickThread
    <3>1. op'[TickThread] = op[TickThread] BY <1>3, <2>1 DEF Threads
    <3> QED BY <1>1, <1>4, <3>1, CallKept DEF At
  <2>2. CASE t = TickThread
    BY <1>3, <2>2, NoOpTyped DEF SplitFits, TickCloses
  <2> QED BY <2>1, <2>2
<1>7. DiscCloses' /\ LeftBehind' BY <1>1, <1>2, <1>3, <1>4, CallersKept
<1>8. Cooled'
  <2> SUFFICES ASSUME NEW m \in Live, m \in recent'
               PROVE  \/ m \in cooling
                      \/ At(m, {"closing"}) /\ op'[TickThread] = NoOp
                      \/ Orphaned(m)
    BY <1>1, <1>4 DEF Cooled, At, Orphaned, Live, Owned, Typed, DiscNamed
  <2>1. CASE m \in recent
    <3>1. op[TickThread] = NoOp => op'[TickThread] = NoOp BY <1>3 DEF Threads
    <3> QED BY <2>1, <3>1 DEF Cooled
  <2>2. CASE m \notin recent
    <3>1. m = op[t].market /\ t # OperThread BY <1>1, <2>2
    <3>2. CASE t = TickThread
      BY <1>2, <1>3, <3>1, <3>2 DEF TickCloses
    <3>3. CASE t = DiscThread
      BY <1>2, <3>1, <3>3 DEF DiscCloses, Orphaned
    <3>4. CASE t \in Detached
      BY <1>2, <3>1, <3>4 DEF LeftBehind, Live
    <3> QED BY <3>1, <3>2, <3>3, <3>4 DEF Threads
  <2> QED BY <2>1, <2>2
<1> QED BY <1>5, <1>6, <1>7, <1>8

\* A part of what is left, as it is written and as it is meant.
LEMMA PartOfSize ==
  ASSUME NEW n \in Nat \ {0}, NEW x \in Int
  PROVE  (n * x) \div n = x
OBVIOUS

\* A split takes the part of its step off the position it is a step of.
LEMMA PartialClosePositionCooling ==
  ASSUME NEW taken, RunnerLeft(taken), Owned, Laddered, Cooling(taken),
         NEW t \in Threads, PartialClosePosition(t)
  PROVE  Cooling(taken)'
<1> USE DEF Cooling
<1> DEFINE c == op[t]
<1>1. UNCHANGED <<tick, disc, phase, cooling, recent, abandoned>>
  BY DEF PartialClosePosition, offLoop, memory
<1>2. /\ c.kind = "partial" /\ c.state = "read" /\ c # NoOp /\ c \in Op
      /\ c.row \in Rows /\ rows[c.row].market = c.market
      /\ c.market \in Markets
  BY NoOpTyped DEF PartialClosePosition, Owned, Typed, TypeOK, CallsNamed, Laddered, CallSound
<1>3. op'[t] = NoOp /\ \A u \in Threads \ {t} : op'[u] = op[u]
  BY DEF PartialClosePosition, Owned, Typed, TypeOK
<1>4. PICK portion \in Int :
        /\ portion = (c.size * c.num) \div c.den
        /\ \A r \in Rows :
             /\ rows'[r].market = rows[r].market /\ rows'[r].status = rows[r].status
             /\ rows'[r].size = IF r \in OpenRows(c.market) THEN c.size - portion ELSE rows[r].size
             /\ r # c.row => SameSteps(r)
             /\ r = c.row => /\ rows'[r].split = rows[r].split + portion
                             /\ rows'[r].tranches = rows[r].tranches + 1
                             /\ rows'[r].steps = rows[r].steps \cup {c.step}
  BY SplitRows DEF Owned
<1>5. \A m : OpenRows(m)' = OpenRows(m) /\ OpenRows(m) \subseteq Rows
  BY <1>4 DEF OpenRows
<1>6. c.market \in Live => /\ t = TickThread /\ OfStep(c, c.size)
                           /\ rows[c.row].tranches + 1 = c.step
  BY <1>2 DEF Owned, OnlyTickInserts, SplitFits, Laddered, SplitSound
<1>7. SplitAdds(taken)'
  <2> SUFFICES ASSUME NEW r \in Rows, rows[r].market \notin abandoned
               PROVE  /\ rows'[r].tranches \in 0..Len(Ladder)
                      /\ rows'[r].split = taken[rows'[r].tranches]
    BY <1>1, <1>4 DEF SplitAdds
  <2>1. /\ rows[r].tranches \in 0..Len(Ladder) /\ rows[r].split = taken[rows[r].tranches]
        /\ rows[r].tranches \in Nat
    BY DEF SplitAdds, Owned, Typed, TypeOK, Row
  <2>2. CASE r # c.row BY <1>4, <2>1, <2>2 DEF SameSteps
  <2>3. CASE r = c.row
    <3>1. c.market \in Live BY <1>2, <2>3 DEF Live
    <3>2. /\ c.step \in Steps /\ c.num = Part(c.step) /\ c.den = c.size
          /\ rows[r].tranches + 1 = c.step
      BY <1>6, <2>3, <3>1 DEF OfStep
    <3>3. c.size \in Nat \ {0} /\ c.num \in Int BY <1>2, <3>2 DEF Op
    <3>4. portion = Part(c.step) BY <1>4, <3>2, <3>3, PartOfSize
    <3>5. rows'[r].tranches = c.step /\ rows'[r].split = rows[r].split + Part(c.step)
      BY <1>4, <2>3, <3>2, <3>4
    <3>6. /\ c.step \in Nat /\ c.step \in 0..Len(Ladder)
          /\ taken[c.step] = taken[c.step - 1] + Part(c.step)
      BY <3>2, PartLeaves
    <3>7. c.step - 1 = rows[r].tranches BY <2>1, <3>2, <3>6
    <3> QED BY <2>1, <3>5, <3>6, <3>7
  <2> QED BY <2>2, <2>3
<1>8. SplitFits' /\ TickCloses'
  <2>1. CASE t # TickThread
    <3>1. op'[TickThread] = op[TickThread] /\ c.market \notin Live
      BY <1>3, <1>6, <2>1 DEF Threads
    <3>2. ASSUME NEW m \in Live, NEW r \in OpenRows(m) PROVE rows'[r].size = rows[r].size
      <4>1. r \in Rows /\ rows[r].market = m BY <3>2 DEF OpenRows
      <4>2. r \notin OpenRows(c.market) BY <3>1, <3>2, <4>1 DEF OpenRows
      <4> QED BY <1>4, <4>1, <4>2
    <3> QED BY <1>1, <1>5, <3>1, <3>2, CallKept DEF At
  <2>2. CASE t = TickThread
    BY <1>3, <2>2, NoOpTyped DEF SplitFits, TickCloses
  <2> QED BY <2>1, <2>2
<1>9. DiscCloses' /\ LeftBehind' /\ Cooled'
  BY <1>1, <1>2, <1>3, <1>4, CallersKept
<1> QED BY <1>7, <1>8, <1>9

\* Nothing is split off a new position.
LEMMA RecordExecutionCooling ==
  ASSUME NEW taken, RunnerLeft(taken), Owned, TailAbsent, Cooling(taken),
         NEW t \in Threads, RecordExecution(t)
  PROVE  Cooling(taken)'
<1> USE DEF Cooling
<1>1. UNCHANGED <<tick, disc, phase, cooling, recent, abandoned>>
  BY DEF RecordExecution, offLoop, memory
<1>2. op[t].kind = "insert" /\ op[t] # NoOp BY NoOpTyped DEF RecordExecution
<1>3. op'[t] = NoOp /\ \A u \in Threads \ {t} : op'[u] = op[u]
  BY DEF RecordExecution, Owned, Typed, TypeOK
<1> DEFINE n == used + 1
<1>4. /\ n \in Rows /\ rows'[n].market = op[t].market
      /\ rows'[n].split = 0 /\ rows'[n].tranches = 0
      /\ \A r \in Rows \ {n} : SameRow(r) /\ SameSteps(r)
  BY InsertRows DEF Owned
<1>5. rows[n].status = "absent"
  BY <1>4 DEF TailAbsent, Owned, Typed, TypeOK
<1> HIDE DEF n
<1>6. 0 \in 0..Len(Ladder)
  <2>1. Len(Ladder) \in Nat BY LadderAssumption
  <2> QED BY <2>1
<1>7. SplitAdds(taken)'
  BY <1>1, <1>4, <1>6 DEF SplitAdds, SameRow, SameSteps, RunnerLeft
<1>8. SplitFits' /\ TickCloses'
  <2>1. CASE t # TickThread
    <3>1. op'[TickThread] = op[TickThread] /\ op[t].market \notin Live
      BY <1>2, <1>3, <2>1 DEF Threads, Owned, OnlyTickInserts
    <3>2. \A m \in Live : /\ OpenRows(m)' \subseteq OpenRows(m)
                          /\ \A r \in OpenRows(m) : r \in Rows \ {n}
      BY <1>4, <1>5, <3>1 DEF OpenRows, SameRow
    <3>3. \A m \in Live : \A r \in OpenRows(m) : rows'[r].size = rows[r].size
      BY <1>4, <3>2 DEF SameRow
    <3> QED BY <1>1, <3>1, <3>2, <3>3, CallKept DEF At
  <2>2. CASE t = TickThread
    BY <1>3, <2>2, NoOpTyped DEF SplitFits, TickCloses
  <2> QED BY <2>1, <2>2
<1>9. \A r \in Rows : rows[r].status # "absent" => rows'[r].market = rows[r].market
  BY <1>4, <1>5 DEF SameRow
<1>10. DiscCloses' /\ LeftBehind' /\ Cooled'
  BY <1>1, <1>2, <1>3, <1>9, CallersKept
<1> QED BY <1>7, <1>8, <1>10

-----------------------------------------------------------------------------
(* The decision pipeline.                                                  *)

\* The cooldown starts where the close that was awaited is.
LEMMA TickCloseDoneCooling ==
  ASSUME NEW taken, Owned, Cooling(taken), TickCloseDone
  PROVE  Cooling(taken)'
<1> USE DEF Cooling
<1>1. /\ UNCHANGED <<rows, op, disc, phase, recent, abandoned>>
      /\ op[TickThread] = NoOp /\ cooling' = cooling \cup {here}
  BY DEF TickCloseDone, offTick
<1>2. SplitAdds(taken)' BY <1>1, SplitAddsKept DEF SameSteps
<1>3. SplitFits' /\ TickCloses' BY <1>1, NoOpTyped DEF SplitFits, TickCloses
<1>4. DiscCloses' /\ LeftBehind' BY <1>1 DEF DiscCloses, LeftBehind
<1>5. Cooled' BY <1>1 DEF Cooled, Orphaned, At, Live, here
<1> QED BY <1>2, <1>3, <1>4, <1>5

\* Every step of the tick keeps the cooldowns of what was closed.
LEMMA TickStepCooling ==
  ASSUME NEW taken, RunnerLeft(taken), Owned, Laddered, Cooling(taken), TickStep
  PROVE  Cooling(taken)'
<1>1. TickThread \in Threads /\ op \in [Threads -> Op] BY DEF Threads, Owned, Typed, TypeOK
<1>2. ASSUME TickRead \/ ManageBlind \/ TickTrancheDone \/ TickNoEntry \/ TickApprove \/ TickInserted
      PROVE  Cooling(taken)'
  <2>1. /\ UNCHANGED <<rows, op, disc, phase, cooling, recent, abandoned>>
        /\ tick.pc # "closing"
    BY <1>2 DEF TickRead, ManageBlind, TickTrancheDone, TickNoEntry, TickApprove, TickInserted,
                offTick, memory
  <2> QED BY <2>1, QuietCooling, StillTable
<1>3. ASSUME NEW p \in Prices, ManageStopWait(p) \/ ManageStopPost(p) \/ ManageHold(p)
      PROVE  Cooling(taken)'
  <2>1. /\ UNCHANGED <<rows, op, disc, phase, cooling, recent, abandoned>>
        /\ tick.pc # "closing"
    BY <1>3 DEF ManageStopWait, ManageStopPost, ManageHold, StopSettled, PastTrail, Managing,
                offTick
  <2> QED BY <2>1, QuietCooling, StillTable
<1>4. ASSUME NEW p \in Prices, ManageTrail(p) \/ ManageStopRest(p) \/ ManageExit(p)
      PROVE  Cooling(taken)'
  <2>1. /\ UNCHANGED <<rows, disc, phase, cooling, recent, abandoned>>
        /\ Managing(p) /\ StartClose
    BY <1>4 DEF ManageTrail, ManageStopRest, ManageExit, StopSettled, PastTrail, offTick
  <2>2. tick.pc = "manage" /\ here \in Markets
    BY <2>1, ManagingTyped DEF Managing, Owned
  <2> QED BY <2>1, <2>2, StartCloseCooling
<1>5. ASSUME TickMakerFill \/ TickSubmit PROVE Cooling(taken)'
  <2>1. /\ UNCHANGED <<rows, disc, phase, cooling, recent, abandoned>> /\ Call(InsertOp(here))
        /\ tick.pc \in {"enter", "approved"}
    BY <1>5 DEF TickMakerFill, TickSubmit, offTick, memory
  <2>2. InsertOp(here).kind = "insert"
    BY <2>1, InsertOpTyped DEF Owned, Typed, TickNamed, here
  <2>3. op'[TickThread].kind = "insert" /\ \A u \in Threads \ {TickThread} : op'[u] = op[u]
    BY <1>1, <2>1, <2>2 DEF Call
  <2> QED BY <2>1, <2>3, QuietCooling, StillTable
<1>6. CASE TickReport
  <2>1. /\ UNCHANGED <<op, disc, phase, cooling, recent, abandoned>> /\ tick.pc = "report"
        /\ tick.row \in Rows
    BY <1>6 DEF TickReport, offTick, memory, Owned, Typed, TickNamed
  <2>2. SameTable
    BY <1>6, <2>1, ReportTyped DEF TickReport, Owned, SameTable, SameRow, SameSteps
  <2> QED BY <2>1, <2>2, QuietCooling
<1> QED BY <1>2, <1>3, <1>4, <1>5, <1>6, TickCloseDoneCooling, ManageLadderCooling
        DEF TickStep, TickManage, TickEnter

-----------------------------------------------------------------------------
(* The discovery cycle, the environment, and the theorem.                  *)

\* Steps beside the tick and its calls leave its splits and its closes sound.
LEMMA AsideCooling ==
  ASSUME NEW taken, Cooling(taken), SameTable, UNCHANGED <<tick, abandoned>>,
         op'[TickThread] = op[TickThread]
  PROVE  SplitAdds(taken)' /\ SplitFits' /\ TickCloses'
<1> USE DEF Cooling
<1>1. /\ \A m : OpenRows(m)' = OpenRows(m) /\ OpenRows(m) \subseteq Rows
      /\ \A r \in Rows : /\ rows'[r].market = rows[r].market /\ rows'[r].size = rows[r].size
                         /\ SameSteps(r)
  BY SameOpen DEF SameTable, SameRow, OpenRows
<1>2. SplitAdds(taken)' BY <1>1, SplitAddsKept
<1>3. SplitFits' /\ TickCloses' BY <1>1, CallKept DEF At
<1> QED BY <1>2, <1>3

\* A cancelled tick gives up the market it leaves a call on, or was closing.
LEMMA CancelCooling ==
  ASSUME NEW taken, Owned, Cooling(taken), CancelTick, disc.pc # "orphan",
         disc'.pc # "orphan", UNCHANGED <<rows, phase, cooling, recent>>
  PROVE  Cooling(taken)'
<1> USE DEF Cooling
<1>1. TickThread \in Threads /\ DiscThread \in Threads /\ Detached \subseteq Threads
      /\ TickThread # DiscThread /\ TickThread \notin Detached /\ DiscThread \notin Detached
      /\ op \in [Threads -> Op]
  BY ThreadsAssumption DEF Threads, Owned, Typed, TypeOK
<1>2. abandoned \subseteq abandoned' BY DEF CancelTick
<1>3. /\ op'[TickThread] = NoOp /\ op'[DiscThread] = op[DiscThread]
      /\ \A d \in Detached : \/ op'[d] = op[d]
                             \/ op'[d].market \in abandoned'
  <2>1. CASE op' = [op EXCEPT ![TickThread] = NoOp]
    BY <1>1, <2>1
  <2>2. ASSUME NEW d \in Detached, op' = [op EXCEPT ![d] = op[TickThread], ![TickThread] = NoOp],
               abandoned' = abandoned \cup {op[TickThread].market}
        PROVE  /\ op'[TickThread] = NoOp /\ op'[DiscThread] = op[DiscThread]
               /\ \A e \in Detached : op'[e] = op[e] \/ op'[e].market \in abandoned'
    BY <1>1, <2>2
  <2> QED BY <2>1, <2>2 DEF CancelTick
<1>4. SplitAdds(taken)' BY <1>2, SplitAddsKept DEF SameSteps
<1>5. SplitFits' /\ TickCloses' BY <1>3, NoOpTyped DEF SplitFits, TickCloses
<1>6. DiscCloses' BY <1>3 DEF DiscCloses
<1>7. LeftBehind' BY <1>2, <1>3 DEF LeftBehind
<1>8. \A m \in Live' : m \in Live /\ ~(At(m, {"closing"}) /\ op[TickThread] = NoOp)
  BY <1>2, NoOpTyped DEF CancelTick, Live, At, here
<1>9. Cooled' BY <1>8 DEF Cooled, Orphaned
<1> QED BY <1>4, <1>5, <1>6, <1>7, <1>9

\* Every step of the discovery cycle keeps the cooldowns of what was closed.
LEMMA DiscStepCooling ==
  ASSUME NEW taken, Owned, Cooling(taken), DiscStep
  PROVE  Cooling(taken)'
<1> USE DEF Cooling
<1>1. /\ DiscThread \in Threads /\ DiscThread # TickThread /\ TickThread \in Threads
      /\ DiscThread \notin Detached /\ Detached \subseteq Threads
  BY ThreadsAssumption DEF Threads
<1>2. ASSUME UNCHANGED <<op, tick, phase, recent, abandoned>>, SameTable,
             \/ disc.pc # "orphan" /\ UNCHANGED cooling
             \/ /\ disc.pc = "orphan" /\ op[DiscThread] = NoOp
                /\ cooling' = cooling \cup {rows[disc.row].market},
             disc'.pc # "orphan"
      PROVE  Cooling(taken)'
  <2>1. DiscCloses' /\ LeftBehind' BY <1>2 DEF DiscCloses, LeftBehind
  <2>2. Cooled' BY <1>2 DEF Cooled, Orphaned, At, Live
  <2> QED BY <1>2, <2>1, <2>2, AsideCooling
<1>3. CASE DiscList
  <2>1. disc.pc = "list" /\ disc'.pc = "scan" /\ UNCHANGED <<rows, op, tick, phase, cooling, recent, abandoned>>
    BY <1>3 DEF DiscList, offDisc, memory, Owned, Typed, TypeOK, Disc
  <2> QED BY <1>2, <2>1, StillTable
<1>4. ASSUME NEW r \in Rows, DiscPass(r) \/ DiscPin(r) PROVE Cooling(taken)'
  <2>1. disc.pc = "scan" /\ disc'.pc = "scan" /\ UNCHANGED <<rows, op, tick, phase, cooling, recent, abandoned>>
    BY <1>4 DEF DiscPass, DiscPin, Scanning, Done, offDisc, memory, Owned, Typed, TypeOK, Disc
  <2> QED BY <1>2, <2>1, StillTable
<1>5. ASSUME NEW r \in Rows, DiscOrphan(r) PROVE Cooling(taken)'
  <2>1. rows[r].market \in Markets /\ phase[rows[r].market] = "expired"
    BY <1>5 DEF DiscOrphan, Scanning, Owned, Typed, DiscNamed, RowsNamed
  <2>2. /\ UNCHANGED <<rows, tick, phase, cooling, recent, abandoned>>
        /\ disc.pc = "scan" /\ disc'.pc = "orphan" /\ disc'.row = r
        /\ op' = [op EXCEPT ![DiscThread] = CloseOp(rows[r].market)]
    BY <1>5 DEF DiscOrphan, Scanning, Done, offDisc, memory, Owned, Typed, TypeOK, Disc
  <2>3. /\ op'[DiscThread].market = rows[r].market
        /\ \A u \in Threads \ {DiscThread} : op'[u] = op[u]
    BY <1>1, <2>1, <2>2, CloseOpTyped DEF Owned, Typed, TypeOK
  <2>4. DiscCloses' BY <2>1, <2>2, <2>3 DEF DiscCloses
  <2>5. LeftBehind' BY <1>1, <2>2, <2>3 DEF LeftBehind
  <2>6. Cooled' BY <1>1, <2>2, <2>3 DEF Cooled, Orphaned, At, Live
  <2> QED BY <1>1, <2>2, <2>3, <2>4, <2>5, <2>6, AsideCooling, StillTable
<1>6. CASE DiscOrphanDone
  <2>1. /\ UNCHANGED <<rows, op, tick, phase, recent, abandoned>>
        /\ op[DiscThread] = NoOp /\ disc.pc = "orphan" /\ disc'.pc = "report"
        /\ cooling' = cooling \cup {rows[disc.row].market}
    BY <1>6 DEF DiscOrphanDone, offDisc, Owned, Typed, TypeOK, Disc
  <2> QED BY <1>2, <2>1, StillTable
<1>7. CASE DiscReport
  <2>1. /\ UNCHANGED <<op, tick, phase, cooling, recent, abandoned>>
        /\ disc.pc = "report" /\ disc'.pc = "scan" /\ disc.row \in Rows
    BY <1>7 DEF DiscReport, offDisc, memory, Owned, Typed, TypeOK, Disc, DiscNamed
  <2>2. SameTable
    BY <1>7, <2>1, ReportTyped DEF DiscReport, Owned, SameTable, SameRow, SameSteps
  <2> QED BY <1>2, <2>1, <2>2
<1>8. CASE DiscSwap
  <2>1. /\ UNCHANGED <<rows, phase, cooling, recent>> /\ disc.pc = "scan" /\ disc'.pc = "idle"
        /\ UNCHANGED <<op, tick, abandoned>> \/ CancelTick
    BY <1>8 DEF DiscSwap, offDisc, memory, IdleDisc
  <2> QED BY <1>2, <2>1, CancelCooling, StillTable
<1> QED BY <1>3, <1>4, <1>5, <1>6, <1>7, <1>8 DEF DiscStep, DiscScan

\* Time only runs markets out, an elapsed cooldown is no recent close, a manual close is
\* none of the daemon's, and a discovery cycle starts with no close under way.
LEMMA ClockCooling ==
  ASSUME NEW taken, Owned, Cooling(taken), UNCHANGED <<rows, tick, abandoned>>,
         \A u \in Threads \ {OperThread} : op'[u] = op[u],
         disc' = disc \/ (disc.pc # "orphan" /\ disc'.pc # "orphan" /\ op[DiscThread] = NoOp),
         \A m \in Markets : phase[m] = "expired" => phase'[m] = "expired",
         \A m \in recent' : m \in recent /\ (m \in cooling => m \in cooling')
  PROVE  Cooling(taken)'
<1> USE DEF Cooling
<1>1. {TickThread, DiscThread} \cup Detached \subseteq Threads \ {OperThread}
  BY ThreadsAssumption DEF Threads
<1>2. op'[TickThread] = op[TickThread] /\ op'[DiscThread] = op[DiscThread] BY <1>1
<1>3. disc.pc = "orphan" => rows[disc.row].market \in Markets
  BY DEF Owned, Typed, DiscNamed, RowsNamed
<1>4. DiscCloses' BY <1>2, <1>3 DEF DiscCloses
<1>5. LeftBehind' BY <1>1 DEF LeftBehind
<1>6. Cooled' BY <1>2 DEF Cooled, Orphaned, At, Live
<1> QED BY <1>2, <1>4, <1>5, <1>6, AsideCooling, StillTable

\* A crash forgets the cooldowns together with the closes they follow.
LEMMA CrashCooling ==
  ASSUME NEW taken, Owned, Cooling(taken), Crash
  PROVE  Cooling(taken)'
<1> USE DEF Cooling
<1>1. /\ UNCHANGED <<rows, abandoned>> /\ disc'.pc = "idle" /\ recent' = {}
      /\ \A u \in Threads \ {OperThread} : op'[u] = NoOp
  BY DEF Crash, IdleDisc
<1>2. {TickThread, DiscThread} \cup Detached \subseteq Threads \ {OperThread}
  BY ThreadsAssumption DEF Threads
<1>3. SplitAdds(taken)' BY <1>1, SplitAddsKept DEF SameSteps
<1>4. SplitFits' /\ TickCloses' BY <1>1, <1>2, NoOpTyped DEF SplitFits, TickCloses
<1>5. DiscCloses' /\ LeftBehind' /\ Cooled'
  BY <1>1, <1>2 DEF DiscCloses, LeftBehind, Cooled
<1> QED BY <1>3, <1>4, <1>5

\* Every step keeps the cooldowns of what was closed.
LEMMA NextCooling ==
  ASSUME NEW taken, RunnerLeft(taken), Owned, TailAbsent, Laddered, Cooling(taken), [Next]_vars
  PROVE  Cooling(taken)'
<1>1. ASSUME NEW t \in Threads, ThreadStep(t) PROVE Cooling(taken)'
  BY <1>1, ReadOpenRowCooling, ClosePositionCooling, PartialClosePositionCooling,
     RecordExecutionCooling DEF ThreadStep
<1>2. ASSUME NEW m \in Markets, TickStart(m) PROVE Cooling(taken)'
  <2>1. /\ UNCHANGED <<rows, op, disc, phase, cooling, recent, abandoned>>
        /\ tick.pc # "closing"
    BY <1>2 DEF TickStart, offTick, memory
  <2> QED BY <2>1, QuietCooling, StillTable
<1>3. ASSUME NEW m \in Markets, Age(m) PROVE Cooling(taken)'
  <2>1. UNCHANGED <<rows, tick, abandoned, op, disc, recent, cooling>>
    BY <1>3 DEF Age, callVars, memory
  <2>2. \A n \in Markets : phase[n] = "expired" => phase'[n] = "expired"
    BY <1>3 DEF Age, Owned, Typed, TypeOK
  <2> QED BY <2>1, <2>2, ClockCooling
<1>4. ASSUME NEW m \in Markets, CooldownElapses(m) PROVE Cooling(taken)'
  BY <1>4, ClockCooling DEF CooldownElapses
<1>5. ASSUME NEW m \in Markets, ManualClose(m) PROVE Cooling(taken)'
  <2>1. UNCHANGED <<rows, tick, abandoned, disc, phase, recent, cooling>>
    BY <1>5 DEF ManualClose, memory
  <2>2. \A u \in Threads \ {OperThread} : op'[u] = op[u]
    BY <1>5 DEF ManualClose, Owned, Typed, TypeOK
  <2> QED BY <2>1, <2>2, ClockCooling
<1>6. ASSUME NEW F \in SUBSET Markets, DiscStart(F) PROVE Cooling(taken)'
  <2>1. /\ UNCHANGED <<rows, tick, abandoned, op, phase, recent, cooling>>
        /\ disc.pc = "idle" /\ disc'.pc = "list"
    BY <1>6 DEF DiscStart, offDisc, memory, IdleDisc
  <2>2. op[DiscThread] = NoOp BY <2>1 DEF Cooling, DiscCloses
  <2> QED BY <2>1, <2>2, ClockCooling
<1>7. CASE UNCHANGED vars BY <1>7, ClockCooling DEF vars
<1> QED BY <1>1, <1>2, <1>3, <1>4, <1>5, <1>6, <1>7, TickStepCooling, DiscStepCooling,
           CrashCooling DEF Next

\* Where an entry is let through, no close of the last cooldown is left uncounted, but for
\* one the discovery cycle is at: the tick itself is at the gate, not at a close.
LEMMA GateRespectsCooldown ==
  ASSUME NEW taken, Owned, Cooling(taken), [Next]_vars,
         tick.pc = "enter", tick'.pc = "approved", here \notin abandoned
  PROVE  here \notin recent \/ Orphaned(here)
<1>1. here \in Live BY DEF Live, Owned, Typed, TickNamed, here
<1>2. TickApprove
  <2>1. CASE UNCHANGED vars BY <2>1 DEF vars
  <2>2. ASSUME NEW t \in Threads, ThreadStep(t) PROVE FALSE
    BY <2>2 DEF ThreadStep, ReadOpenRow, ClosePosition, PartialClosePosition, RecordExecution,
                offLoop
  <2>3. ASSUME NEW m \in Markets, TickStart(m) \/ Age(m) \/ CooldownElapses(m) \/ ManualClose(m)
        PROVE  FALSE
    BY <2>3 DEF TickStart, Age, CooldownElapses, ManualClose
  <2>4. ASSUME NEW F \in SUBSET Markets, DiscStart(F) PROVE FALSE
    BY <2>4 DEF DiscStart
  <2>5. ASSUME DiscStep PROVE FALSE
    BY <2>5, IdleTickTyped DEF DiscStep, DiscList, DiscOrphanDone, DiscReport, DiscSwap, DiscScan,
       DiscPass, DiscPin, DiscOrphan, CancelTick
  <2>6. ASSUME Crash PROVE FALSE BY <2>6, IdleTickTyped DEF Crash
  <2>7. ASSUME TickStep PROVE TickApprove
    <3>1. ASSUME TickMakerFill PROVE FALSE
      BY <3>1, GotoTyped DEF TickMakerFill, Owned, Typed, TypeOK, Pc
    <3>2. ASSUME TickNoEntry PROVE FALSE BY <3>2, IdleTickTyped DEF TickNoEntry
    <3> QED BY <2>7, <3>1, <3>2 DEF TickStep, TickRead, TickManage, ManageBlind, ManageLadder,
               ManageTrail, ManageStopRest, ManageStopWait, ManageStopPost, ManageExit,
               ManageHold, StopSettled, PastTrail, Managing, TickTrancheDone, TickCloseDone,
               TickReport, TickEnter, TickSubmit, TickInserted
  <2> QED BY <2>1, <2>2, <2>3, <2>4, <2>5, <2>6, <2>7 DEF Next
<1>3. here \notin cooling BY <1>2 DEF TickApprove
<1> QED BY <1>1, <1>3 DEF Cooling, Cooled, Orphaned, At

\* A taker entry is let through only when every close the daemon made on the market is at
\* least a cooldown old, or is one the discovery cycle is just at, for every ladder that
\* leaves a runner, any thresholds, and any number of markets, crashes and manual closes.
THEOREM CooldownHolds ==
  ASSUME NEW CONSTANT taken, RunnerLeft(taken)
  PROVE  Spec => EntryRespectsCooldown
<1>1. Init => Cooling(taken) BY InitCooling
<1>2. Owned /\ TailAbsent /\ Laddered /\ Cooling(taken) /\ [Next]_vars => Cooling(taken)'
  BY NextCooling
<1>3. Owned /\ Cooling(taken) /\ [Next]_vars
        => [tick.pc = "enter" /\ tick'.pc = "approved" /\ here \notin abandoned
              => here \notin recent \/ (disc.pc = "orphan" /\ rows[disc.row].market = here)]_vars
  BY GateRespectsCooldown DEF Orphaned
<1> QED BY SpecLaddered, <1>1, <1>2, <1>3, PTL DEF Spec, EntryRespectsCooldown
=============================================================================
