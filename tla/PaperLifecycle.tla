--------------------------- MODULE PaperLifecycle ---------------------------
(***************************************************************************)
(* The life of the paper positions of one directional strategy of the      *)
(* daemon: entry, the exit ladder (take-profit tranches, trailing stop,    *)
(* stop-loss limit-out, fixed take-profit, time exits), the orphan close   *)
(* of the discovery loop, the operator's manual close from another         *)
(* process, the cancellation of the market subscriber and a daemon crash.  *)
(*                                                                         *)
(* The daemon is one asyncio loop.  Every portfolio call runs in a worker  *)
(* thread (asyncio.to_thread), so the loop is free at each call, the call  *)
(* itself is a read and a write on separate SQLite connections, and        *)
(* cancelling the caller does not stop a call that already started.        *)
(*                                                                         *)
(* Prices are levels relative to the entry of the position: one market has *)
(* one price scale, 0 is an empty book.                                    *)
(***************************************************************************)
EXTENDS Integers, Sequences, FiniteSets

CONSTANTS
  Markets,       \* markets discovery may return
  NoMarket,      \* the market of an idle tick
  MaxRows,       \* bound: rows of the positions table
  MaxCrashes,    \* bound: daemon crashes
  MaxManual,     \* bound: manual closes
  TickThread, DiscThread, OperThread,  \* the worker threads of the three callers
  Detached,      \* threads whose caller was cancelled (bound on how many at once)
  Size,          \* size of an entry
  Parts,         \* denominator of the ladder's fractions
  Ladder,        \* sequence of [at |-> price level, num |-> parts of the entry size]
  Prices,        \* exit price levels a tick may see
  EntryAt, TakeAt, ArmAt, TrailGap, StopAt, \* exit thresholds, as levels
  StopLimitAt,   \* level the stop-loss limit rests at
  ConfirmTicks,  \* paper_trail_confirmation_ticks
  StopTtl        \* paper_sl_limit_ttl_ticks; 0 switches the limit-out off

Rows    == 1..MaxRows
Threads == {TickThread, DiscThread, OperThread} \cup Detached
Steps   == 1..Len(Ladder)

ASSUME MarketsAssumption == NoMarket \notin Markets
ASSUME ThreadsAssumption ==
  /\ TickThread # DiscThread /\ TickThread # OperThread /\ DiscThread # OperThread
  /\ {TickThread, DiscThread, OperThread} \cap Detached = {}
ASSUME BoundsAssumption == MaxRows \in Nat /\ MaxCrashes \in Nat /\ MaxManual \in Nat
ASSUME SizeAssumption == Size \in Nat \ {0} /\ Parts \in Nat \ {0}
ASSUME LadderAssumption == Ladder \in Seq([at : Nat, num : Nat])
\* The parser keeps positive fractions only, and no tranche of an entry rounds to nothing.
ASSUME TrancheAssumption == \A k \in Steps : (Ladder[k].num * Size) \div Parts > 0
ASSUME PriceAssumption ==
  /\ Prices \subseteq Nat
  /\ EntryAt \in Nat /\ StopAt \in Nat /\ StopLimitAt \in Nat /\ TakeAt \in Nat /\ ArmAt \in Nat
  /\ TrailGap \in Nat /\ ConfirmTicks \in Nat \ {0} /\ StopTtl \in Nat

VARIABLES
  rows,       \* positions table: market, status, remaining size, size split off as
              \* tranches, tranches per ladder step, position_closed events
  used,       \* rows inserted so far
  op,         \* the portfolio call each thread is executing
  tick,       \* the decision pipeline (one tick at a time, under the decision lock)
  disc,       \* the discovery cycle
  active,     \* markets with a live candidate and market state
  phase,      \* time to expiry of each market
  extras,     \* _position_extras: ladder and trail state of the open position
  stopRest,   \* _pending_sl_exits: the stop-loss limit resting on a market
  cooling,    \* markets whose _last_close_at is younger than the entry cooldown
  crashes, manual,  \* how often the bounded environment actions happened
  recent,     \* history: markets the running daemon closed less than a cooldown ago
  abandoned   \* history: markets on which a cancelled tick left a call behind

vars == <<rows, used, op, tick, disc, active, phase, extras, stopRest, cooling,
          crashes, manual, recent, abandoned>>

memory == <<extras, stopRest, cooling>>
bounds == <<crashes, manual>>

-----------------------------------------------------------------------------
(* Data.                                                                   *)

Absent   == [market |-> NoMarket, status |-> "absent", size |-> 0, split |-> 0,
             tranches |-> 0, steps |-> {}, events |-> 0]
NoOp     == [kind |-> "none", state |-> "queued", market |-> NoMarket, row |-> 0,
             size |-> 0, num |-> 0, den |-> 1, step |-> 0]
NoExtras == [owner |-> 0, peak |-> 0, tranches |-> 0, original |-> 0, below |-> 0]
NoStop   == [owner |-> 0, size |-> 0, waited |-> 0]
IdleTick == [pc |-> "idle", market |-> NoMarket, row |-> 0, size |-> 0, step |-> 0,
             far |-> FALSE]
IdleDisc == [pc |-> "idle", found |-> {}, todo |-> {}, keep |-> {}, row |-> 0]

CloseOp(m)  == [NoOp EXCEPT !.kind = "close", !.market = m]
InsertOp(m) == [NoOp EXCEPT !.kind = "insert", !.market = m]
PartialOp(m, num, den, k) ==
  [NoOp EXCEPT !.kind = "partial", !.market = m, !.num = num, !.den = den, !.step = k]

OpenRows(m)  == {r \in Rows : rows[r].status = "open" /\ rows[r].market = m}
Larger(a, b) == IF a >= b THEN a ELSE b

Init ==
  /\ rows = [r \in Rows |-> Absent] /\ used = 0
  /\ op = [t \in Threads |-> NoOp]
  /\ tick = IdleTick /\ disc = IdleDisc
  /\ active = {} /\ phase = [m \in Markets |-> "far"]
  /\ extras = [m \in Markets |-> NoExtras]
  /\ stopRest = [m \in Markets |-> NoStop]
  /\ cooling = {}
  /\ crashes = 0 /\ manual = 0 /\ recent = {} /\ abandoned = {}

-----------------------------------------------------------------------------
(* Portfolio calls.  Each runs in the worker thread t; a call that returns *)
(* leaves NoOp, which is what the caller awaits.                           *)

callVars == <<rows, used, op, recent>>
offLoop  == <<tick, disc, active, phase, memory, bounds, abandoned>>

\* The SELECT at the head of close_position and partial_close_position: no open
\* row is a NOOP, otherwise any one of them (LIMIT 1) is remembered.
ReadOpenRow(t) ==
  /\ op[t].kind \in {"close", "partial"} /\ op[t].state = "queued"
  /\ \/ /\ OpenRows(op[t].market) = {}
        /\ op' = [op EXCEPT ![t] = NoOp]
     \/ \E r \in OpenRows(op[t].market) :
           op' = [op EXCEPT ![t] = [@ EXCEPT !.state = "read", !.row = r,
                                             !.size = rows[r].size]]
  /\ UNCHANGED <<rows, used, recent, offLoop>>

\* The UPDATE of close_position reaches every row of the market still open.
ClosePosition(t) ==
  /\ op[t].kind = "close" /\ op[t].state = "read"
  /\ rows' = [r \in Rows |-> IF r \in OpenRows(op[t].market)
                             THEN [rows[r] EXCEPT !.status = "closed"] ELSE rows[r]]
  /\ op' = [op EXCEPT ![t] = NoOp]
  /\ recent' = IF t = OperThread THEN recent ELSE recent \cup {op[t].market}
  /\ UNCHANGED <<used, offLoop>>

\* Slip: the UPDATE of the remainder goes by the row read, open or not.
PartialCloseByRow(t) ==
  LET c       == op[t]
      portion == (c.size * c.num) \div c.den
  IN /\ c.kind = "partial" /\ c.state = "read"
     /\ rows' = [rows EXCEPT ![c.row] = [@ EXCEPT !.size = c.size - portion,
                   !.split = @ + portion, !.tranches = @ + 1, !.steps = @ \cup {c.step}]]
     /\ op' = [op EXCEPT ![t] = NoOp]
     /\ UNCHANGED <<used, recent, offLoop>>

\* Slip: the tranche is inserted and the remainder never shrunk.
PartialCloseNoShrink(t) ==
  LET c == op[t]
  IN /\ c.kind = "partial" /\ c.state = "read"
     /\ rows' = [rows EXCEPT ![c.row] = [@ EXCEPT !.split = @ + ((c.size * c.num) \div c.den),
                   !.tranches = @ + 1, !.steps = @ \cup {c.step}]]
     /\ op' = [op EXCEPT ![t] = NoOp]
     /\ UNCHANGED <<used, recent, offLoop>>

\* The transaction of partial_close_position: shrink what is open to the size
\* computed from the read row, and insert the tranche of the read row.
PartialClosePosition(t) ==
  LET c       == op[t]
      portion == (c.size * c.num) \div c.den
      shrunk(r) == IF r \in OpenRows(c.market)
                   THEN [rows[r] EXCEPT !.size = c.size - portion] ELSE rows[r]
  IN /\ c.kind = "partial" /\ c.state = "read"
     /\ rows' = [r \in Rows |->
                   IF r = c.row THEN [shrunk(r) EXCEPT !.split = @ + portion,
                                        !.tranches = @ + 1, !.steps = @ \cup {c.step}]
                   ELSE shrunk(r)]
     /\ op' = [op EXCEPT ![t] = NoOp]
     /\ UNCHANGED <<used, recent, offLoop>>

\* record_execution of a filled paper entry.
RecordExecution(t) ==
  /\ op[t].kind = "insert" /\ used < MaxRows
  /\ rows' = [rows EXCEPT ![used + 1] =
                [Absent EXCEPT !.market = op[t].market, !.status = "open", !.size = Size]]
  /\ used' = used + 1
  /\ op' = [op EXCEPT ![t] = NoOp]
  /\ UNCHANGED <<recent, offLoop>>

ThreadStep(t) ==
  ReadOpenRow(t) \/ ClosePosition(t) \/ PartialClosePosition(t) \/ RecordExecution(t)

\* Bound: an entry is considered only while a row is left for every insert under way.
Room == used + Cardinality({t \in Threads : op[t].kind = "insert"}) < MaxRows

-----------------------------------------------------------------------------
(* The decision pipeline.                                                  *)

offTick == <<used, recent, disc, active, phase, bounds, abandoned>>
here    == tick.market
Goto(s) == tick' = [tick EXCEPT !.pc = s]
Call(c) == op' = [op EXCEPT ![TickThread] = c]
\* Slip: the stop limit is dropped and the ladder state stays.
ForgetStopOnly(m) == stopRest' = [stopRest EXCEPT ![m] = NoStop] /\ UNCHANGED extras
Forget(m) == /\ extras' = [extras EXCEPT ![m] = NoExtras]
             /\ stopRest' = [stopRest EXCEPT ![m] = NoStop]

\* A market event with the decision lock free: the time to expiry is taken here.
TickStart(m) ==
  /\ tick.pc = "idle" /\ m \in active
  /\ tick' = [IdleTick EXCEPT !.pc = "read", !.market = m, !.far = (phase[m] = "far")]
  /\ UNCHANGED <<rows, op, memory, offTick>>

\* Slip: a failing read counts as no open position.
TickReadBlind ==
  /\ tick.pc = "read"
  /\ \/ Goto("enter")
     \/ \E r \in OpenRows(here) :
           tick' = [tick EXCEPT !.pc = "manage", !.row = r, !.size = rows[r].size]
  /\ UNCHANGED <<rows, op, memory, offTick>>

\* get_open_position, in a thread: the tick goes on with the row it saw.
TickRead ==
  /\ tick.pc = "read"
  /\ \/ OpenRows(here) = {} /\ Goto("enter")
     \/ \E r \in OpenRows(here) :
           tick' = [tick EXCEPT !.pc = "manage", !.row = r, !.size = rows[r].size]
  /\ UNCHANGED <<rows, op, memory, offTick>>

\* Slip: the tranches already taken are not counted after a restart.
HydratedAfresh == [NoExtras EXCEPT !.owner = tick.row, !.original = tick.size]
\* The extras of the position, rebuilt from the table when missing, at price p.
Hydrated == [NoExtras EXCEPT !.owner = tick.row, !.tranches = rows[tick.row].tranches,
                             !.original = tick.size + rows[tick.row].split]
Seen(p) == LET e == IF extras[here].owner = 0 THEN Hydrated ELSE extras[here]
           IN [e EXCEPT !.peak = Larger(@, p)]

LadderDue(p)  == Seen(p).tranches < Len(Ladder) /\ p >= Ladder[Seen(p).tranches + 1].at
Armed(p)      == Seen(p).peak >= ArmAt
UnderTrail(p) == Armed(p) /\ p <= Larger(Seen(p).peak - TrailGap, EntryAt)
TrailDue(p)   == UnderTrail(p) /\ Seen(p).below + 1 >= ConfirmTicks
StopDue(p)    == p <= StopAt
TakeDue(p)    == p >= TakeAt /\ Seen(p).tranches = 0

\* Extras once the trailing stop has been looked at and did not fire.
Trailed(p) == [Seen(p) EXCEPT !.below = IF UnderTrail(p) THEN @ + 1
                                        ELSE IF Armed(p) THEN 0 ELSE @]
Managing(p)  == tick.pc = "manage" /\ p \in Prices /\ p > 0
PastTrail(p) == Managing(p) /\ ~LadderDue(p) /\ ~TrailDue(p)
SetExtras(e) == extras' = [extras EXCEPT ![here] = e]
SetStop(s)   == stopRest' = [stopRest EXCEPT ![here] = s]

\* Empty book: nothing to price an exit with.
ManageBlind ==
  /\ tick.pc = "manage" /\ 0 \in Prices
  /\ tick' = IdleTick
  /\ UNCHANGED <<rows, op, memory, offTick>>

\* partial_close_position: all of what is left is a full close, nothing of it a no-op.
TrancheOp(m, part, whole, k) ==
  IF part >= whole THEN CloseOp(m) ELSE IF part > 0 THEN PartialOp(m, part, whole, k) ELSE NoOp

\* 1. Take-profit ladder.
ManageLadder(p) ==
  LET k      == Seen(p).tranches + 1
      target == (Ladder[k].num * Seen(p).original) \div Parts
  IN /\ Managing(p) /\ LadderDue(p)
     /\ SetExtras(Seen(p))
     /\ Call(TrancheOp(here, target, tick.size, k))
     /\ tick' = [tick EXCEPT !.pc = "tranche", !.step = k]
     /\ UNCHANGED <<rows, stopRest, cooling, offTick>>

StartClose == Call(CloseOp(here)) /\ Goto("closing")

\* 2. Trailing stop, confirmed.
ManageTrail(p) ==
  /\ Managing(p) /\ ~LadderDue(p) /\ TrailDue(p)
  /\ SetExtras([Seen(p) EXCEPT !.below = @ + 1])
  /\ StartClose
  /\ UNCHANGED <<rows, stopRest, cooling, offTick>>

\* A resting stop limit that the bids absorb (a price at the limit is necessary,
\* depth decides), or that has waited its ticks out.
ManageStopRest(p) ==
  /\ PastTrail(p) /\ stopRest[here].owner # 0
  /\ \/ p >= StopLimitAt
     \/ StopDue(p) /\ stopRest[here].waited + 1 >= StopTtl
  /\ SetExtras(Trailed(p)) /\ SetStop(NoStop)
  /\ StartClose
  /\ UNCHANGED <<rows, cooling, offTick>>

ManageStopWait(p) ==
  /\ PastTrail(p) /\ stopRest[here].owner # 0
  /\ StopDue(p) /\ stopRest[here].waited + 1 < StopTtl
  /\ SetExtras(Trailed(p)) /\ SetStop([stopRest[here] EXCEPT !.waited = @ + 1])
  /\ tick' = IdleTick
  /\ UNCHANGED <<rows, op, cooling, offTick>>

\* First tick in stop territory: rest a limit for the shares held.
ManageStopPost(p) ==
  /\ PastTrail(p) /\ stopRest[here].owner = 0
  /\ StopDue(p) /\ StopTtl > 0
  /\ SetExtras(Trailed(p))
  /\ SetStop([owner |-> tick.row, size |-> tick.size, waited |-> 0])
  /\ tick' = IdleTick
  /\ UNCHANGED <<rows, op, cooling, offTick>>

\* No stop limit rests, or the price recovered and the resting one is cancelled.
StopSettled(p) == PastTrail(p) /\ IF StopDue(p) THEN StopTtl = 0 ELSE TRUE
ExitDue(p) == TakeDue(p) \/ StopDue(p) \/ ~tick.far

\* 3-6. Fixed take-profit, stop-loss, force exit, exit buffer.
ManageExit(p) ==
  /\ StopSettled(p) /\ ExitDue(p)
  /\ SetExtras(Trailed(p)) /\ SetStop(NoStop)
  /\ StartClose
  /\ UNCHANGED <<rows, cooling, offTick>>

ManageHold(p) ==
  /\ StopSettled(p) /\ ~ExitDue(p)
  /\ SetExtras(Trailed(p)) /\ SetStop(NoStop)
  /\ tick' = IdleTick
  /\ UNCHANGED <<rows, op, cooling, offTick>>

\* Slip: the stop limit keeps the size it had before the tranche.
TrancheKeepsStop ==
  /\ tick.pc = "tranche" /\ op[TickThread] = NoOp
  /\ IF extras[here].owner = 0 THEN UNCHANGED extras
     ELSE SetExtras([extras[here] EXCEPT !.tranches = tick.step])
  /\ tick' = IdleTick
  /\ UNCHANGED <<rows, op, stopRest, cooling, offTick>>

\* The tranche is in the table: count it and drop the stop limit sized before it.
TickTrancheDone ==
  /\ tick.pc = "tranche" /\ op[TickThread] = NoOp
  /\ IF extras[here].owner = 0 THEN UNCHANGED extras
     ELSE SetExtras([extras[here] EXCEPT !.tranches = tick.step])
  /\ SetStop(NoStop)
  /\ tick' = IdleTick
  /\ UNCHANGED <<rows, op, cooling, offTick>>

\* Slip: the close starts no cooldown.
CloseUncooled ==
  /\ tick.pc = "closing" /\ op[TickThread] = NoOp
  /\ Forget(here)
  /\ Goto("report")
  /\ UNCHANGED <<rows, op, cooling, offTick>>

\* _finalize_paper_close after its close_position.
TickCloseDone ==
  /\ tick.pc = "closing" /\ op[TickThread] = NoOp
  /\ Forget(here)
  /\ cooling' = cooling \cup {here}
  /\ Goto("report")
  /\ UNCHANGED <<rows, op, offTick>>

\* The position_closed event.
TickReport ==
  /\ tick.pc = "report"
  /\ rows' = [rows EXCEPT ![tick.row].events = @ + 1]
  /\ tick' = IdleTick
  /\ UNCHANGED <<op, memory, offTick>>

\* No open position: forget the previous one, then a gate stops the tick ...
TickNoEntry ==
  /\ tick.pc = "enter" /\ Forget(here)
  /\ tick' = IdleTick
  /\ UNCHANGED <<rows, op, cooling, offTick>>

\* ... or the cooldown, candle and risk gates let a taker entry through ...
TickApprove ==
  /\ tick.pc = "enter" /\ Forget(here)
  /\ here \notin cooling /\ tick.far /\ Room
  /\ Goto("approved")
  /\ UNCHANGED <<rows, op, cooling, offTick>>

\* ... or a resting maker order of the market is crossed; that path has no gate.
TickMakerFill ==
  /\ tick.pc = "enter" /\ Forget(here) /\ Room
  /\ Call(InsertOp(here)) /\ Goto("inserting")
  /\ UNCHANGED <<rows, cooling, offTick>>

TickSubmit ==
  /\ tick.pc = "approved"
  /\ Call(InsertOp(here)) /\ Goto("inserting")
  /\ UNCHANGED <<rows, memory, offTick>>

TickInserted ==
  /\ tick.pc = "inserting" /\ op[TickThread] = NoOp
  /\ tick' = IdleTick
  /\ UNCHANGED <<rows, op, memory, offTick>>

TickManage ==
  \/ ManageBlind
  \/ \E p \in Prices : \/ ManageLadder(p) \/ ManageTrail(p) \/ ManageStopRest(p)
                       \/ ManageStopWait(p) \/ ManageStopPost(p)
                       \/ ManageExit(p) \/ ManageHold(p)
TickEnter == TickNoEntry \/ TickApprove \/ TickMakerFill
TickStep ==
  \/ TickRead \/ TickManage \/ TickTrancheDone \/ TickCloseDone \/ TickReport
  \/ TickEnter \/ TickSubmit \/ TickInserted

-----------------------------------------------------------------------------
(* The discovery cycle (_apply_candidates).                                *)

offDisc == <<used, recent, phase, bounds>>

\* The scan returns some markets that have not run out.
DiscStart(F) ==
  /\ disc.pc = "idle" /\ \A m \in F : phase[m] # "expired"
  /\ disc' = [IdleDisc EXCEPT !.pc = "list", !.found = F]
  /\ UNCHANGED <<rows, op, tick, active, memory, abandoned, offDisc>>

\* list_open_positions, in a thread.
DiscList ==
  /\ disc.pc = "list"
  /\ disc' = [disc EXCEPT !.pc = "scan", !.todo = {r \in Rows : rows[r].status = "open"}]
  /\ UNCHANGED <<rows, op, tick, active, memory, abandoned, offDisc>>

Scanning(r) == disc.pc = "scan" /\ r \in disc.todo
Kept(m)     == m \in disc.found \cup disc.keep
Done(r)     == [disc EXCEPT !.todo = @ \ {r}]

\* The market is kept anyway, or it is unknown and fetching it fails.
DiscPass(r) ==
  /\ Scanning(r) /\ (Kept(rows[r].market) \/ rows[r].market \notin active)
  /\ disc' = Done(r)
  /\ UNCHANGED <<rows, op, tick, active, memory, abandoned, offDisc>>

\* Slip: only a market that is still in the active set is pinned.
DiscPinActive(r) ==
  /\ Scanning(r) /\ ~Kept(rows[r].market) /\ rows[r].market \in active
  /\ phase[rows[r].market] # "expired"
  /\ disc' = [Done(r) EXCEPT !.keep = @ \cup {rows[r].market}]
  /\ UNCHANGED <<rows, op, tick, active, memory, abandoned, offDisc>>

\* Not expired: pinned, the exit ladder owns the close.
DiscPin(r) ==
  /\ Scanning(r) /\ ~Kept(rows[r].market) /\ phase[rows[r].market] # "expired"
  /\ disc' = [Done(r) EXCEPT !.keep = @ \cup {rows[r].market}]
  /\ UNCHANGED <<rows, op, tick, active, memory, abandoned, offDisc>>

\* Slip: only a market that is still in the active set is closed.
OrphanOnlyActive(r) ==
  /\ Scanning(r) /\ ~Kept(rows[r].market) /\ rows[r].market \in active
  /\ phase[rows[r].market] = "expired"
  /\ disc' = [Done(r) EXCEPT !.pc = "orphan", !.row = r]
  /\ op' = [op EXCEPT ![DiscThread] = CloseOp(rows[r].market)]
  /\ UNCHANGED <<rows, tick, active, memory, abandoned, offDisc>>

\* Expired: the orphan close begins.
DiscOrphan(r) ==
  /\ Scanning(r) /\ ~Kept(rows[r].market) /\ phase[rows[r].market] = "expired"
  /\ disc' = [Done(r) EXCEPT !.pc = "orphan", !.row = r]
  /\ op' = [op EXCEPT ![DiscThread] = CloseOp(rows[r].market)]
  /\ UNCHANGED <<rows, tick, active, memory, abandoned, offDisc>>

DiscOrphanDone ==
  LET m == rows[disc.row].market
  IN /\ disc.pc = "orphan" /\ op[DiscThread] = NoOp
     /\ Forget(m) /\ cooling' = cooling \cup {m}
     /\ disc' = [disc EXCEPT !.pc = "report"]
     /\ UNCHANGED <<rows, op, tick, active, abandoned, offDisc>>

DiscReport ==
  /\ disc.pc = "report"
  /\ rows' = [rows EXCEPT ![disc.row].events = @ + 1]
  /\ disc' = [disc EXCEPT !.pc = "scan", !.row = 0]
  /\ UNCHANGED <<op, tick, active, memory, abandoned, offDisc>>

\* Cancelling the subscriber task drops the tick at its current await.  A call
\* still in the executor's queue never runs; one that started goes on by itself.
CancelTick ==
  /\ tick' = IdleTick
  /\ \/ /\ op[TickThread].state = "queued"
        /\ op' = [op EXCEPT ![TickThread] = NoOp]
        /\ abandoned' = IF op[TickThread] = NoOp
                             /\ tick.pc \in {"tranche", "closing", "inserting"}
                        THEN abandoned \cup {here} ELSE abandoned
     \/ /\ op[TickThread].kind # "none"
        /\ \E d \in Detached : /\ op[d] = NoOp
                               /\ op' = [op EXCEPT ![d] = op[TickThread],
                                                   ![TickThread] = NoOp]
        /\ abandoned' = abandoned \cup {op[TickThread].market}

\* The new active set; the subscriber restarts only when the set changed.
DiscSwap ==
  /\ disc.pc = "scan" /\ disc.todo = {}
  /\ active' = disc.found \cup disc.keep
  /\ disc' = IdleDisc
  /\ IF active' = active THEN UNCHANGED <<op, tick, abandoned>> ELSE CancelTick
  /\ UNCHANGED <<rows, memory, offDisc>>

DiscScan(r) == DiscPass(r) \/ DiscPin(r) \/ DiscOrphan(r)
DiscStep == \/ DiscList \/ DiscOrphanDone \/ DiscReport \/ DiscSwap
            \/ \E r \in Rows : DiscScan(r)

-----------------------------------------------------------------------------
(* Environment.                                                            *)

Age(m) ==
  /\ phase[m] # "expired"
  /\ phase' = [phase EXCEPT ![m] = IF @ = "far" THEN "near" ELSE "expired"]
  /\ UNCHANGED <<callVars, tick, disc, active, memory, bounds, abandoned>>

CooldownElapses(m) ==
  /\ m \in cooling \cup recent
  /\ cooling' = cooling \ {m} /\ recent' = recent \ {m}
  /\ UNCHANGED <<rows, used, op, tick, disc, active, phase, extras, stopRest, bounds, abandoned>>

\* The operator's close from the command line: another process, same database.
ManualClose(m) ==
  /\ manual < MaxManual /\ op[OperThread] = NoOp /\ OpenRows(m) # {}
  /\ op' = [op EXCEPT ![OperThread] = CloseOp(m)]
  /\ manual' = manual + 1
  /\ UNCHANGED <<rows, used, recent, tick, disc, active, phase, memory, crashes, abandoned>>

\* The daemon dies with everything it holds in memory; committed rows survive.
Crash ==
  /\ crashes < MaxCrashes
  /\ crashes' = crashes + 1
  /\ tick' = IdleTick /\ disc' = IdleDisc /\ active' = {}
  /\ cooling' = {} /\ recent' = {}
  /\ op' = [t \in Threads |-> IF t = OperThread THEN op[t] ELSE NoOp]
  /\ extras' = [m \in Markets |-> NoExtras] /\ stopRest' = [m \in Markets |-> NoStop]
  /\ UNCHANGED <<rows, used, phase, manual, abandoned>>

Next ==
  \/ \E t \in Threads : ThreadStep(t)
  \/ \E m \in Markets : TickStart(m) \/ Age(m) \/ CooldownElapses(m) \/ ManualClose(m)
  \/ TickStep
  \/ \E F \in SUBSET Markets : DiscStart(F)
  \/ DiscStep
  \/ Crash

Spec == Init /\ [][Next]_vars

\* The executor runs what it was given, the loop resumes whoever it woke, and the
\* discovery loop keeps cycling with fetches that sometimes succeed.
Fairness ==
  /\ \A t \in Threads : WF_vars(ThreadStep(t))
  /\ WF_vars(DiscStep) /\ WF_vars(\E F \in SUBSET Markets : DiscStart(F))
  /\ \A r \in Rows : SF_vars(DiscPin(r)) /\ SF_vars(DiscOrphan(r))
FairSpec == Spec /\ Fairness

-----------------------------------------------------------------------------
(* Properties.                                                             *)

Row  == [market : Markets \cup {NoMarket}, status : {"absent", "open", "closed"},
         size : Int, split : Int, tranches : Nat, steps : SUBSET Nat, events : Nat]
Op   == [kind : {"none", "close", "partial", "insert"}, state : {"queued", "read"},
         market : Markets \cup {NoMarket}, row : Rows \cup {0}, size : Int,
         num : Int, den : Nat \ {0}, step : Nat]
Pc   == {"idle", "read", "manage", "tranche", "closing", "report", "enter", "approved",
         "inserting"}
Tick == [pc : Pc, market : Markets \cup {NoMarket}, row : Rows \cup {0}, size : Int,
         step : Nat, far : BOOLEAN]
Disc == [pc : {"idle", "list", "scan", "orphan", "report"}, found : SUBSET Markets,
         todo : SUBSET Rows, keep : SUBSET Markets, row : Rows \cup {0}]

Extras == [owner : Rows \cup {0}, peak : Nat, tranches : Nat, original : Int, below : Nat]
StopLimit == [owner : Rows \cup {0}, size : Int, waited : Nat]

\* The shapes of the state.
TypeOK ==
  /\ rows \in [Rows -> Row] /\ used \in 0..MaxRows
  /\ op \in [Threads -> Op] /\ tick \in Tick /\ disc \in Disc
  /\ active \subseteq Markets /\ phase \in [Markets -> {"far", "near", "expired"}]
  /\ extras \in [Markets -> Extras] /\ stopRest \in [Markets -> StopLimit]
  /\ cooling \subseteq Markets /\ recent \subseteq Markets /\ abandoned \subseteq Markets
  /\ crashes \in Nat /\ manual \in Nat

\* The table as its readers see it.
Book == INSTANCE PositionBook WITH
          book  <- [r \in Rows |-> [market |-> rows[r].market, status |-> rows[r].status,
                                    size |-> rows[r].size]],
          count <- used

\* Every interleaving of the writers keeps what PositionBook promises: rows appear in
\* order, closes reach all that is open, and closed rows are final.
BookRefined == Book!BookSpec

\* A market holds at most one open row, whatever the orphan close, the operator and
\* crashes do in between, as long as no cancelled tick left a call behind.
OneOpenPosition ==
  \A m \in Markets \ abandoned : \A r, s \in OpenRows(m) : r = s

\* The ladder and trail state in memory belongs to the position that is open: it never
\* survives into the next position of the market.
LadderStateFresh ==
  \A m \in Markets \ abandoned :
     extras[m].owner # 0 => OpenRows(m) \subseteq {extras[m].owner}

\* A ladder step is taken at most once on a position, also across restarts, where the
\* steps taken are counted from the table.
TrancheAtMostOnce ==
  \A r \in Rows : rows[r].market \notin abandoned
                    => rows[r].tranches = Cardinality(rows[r].steps)

\* The stop-loss limit that rests is for exactly the shares still held.
StopSizedToPosition ==
  \A m \in Markets \ abandoned :
     stopRest[m].owner # 0 /\ ~(tick.market = m /\ tick.pc = "tranche")
       => \A r \in OpenRows(m) : r = stopRest[m].owner /\ rows[r].size = stopRest[m].size

\* Tranches and remainder of an open position always add up to the entry.
OpenRowConserved ==
  \A r \in Rows : rows[r].status = "open" /\ rows[r].market \notin abandoned
                    => rows[r].size + rows[r].split = Size

\* A taker entry is let through only when every close the daemon made on the market is at
\* least a cooldown old (README, PAPER_ENTRY_COOLDOWN_SECONDS).  A market that runs out
\* during a tick, which goes by the time to expiry of its start, is the exception: the
\* discovery cycle may be closing it, and starts the cooldown when that close has returned.
EntryRespectsCooldown ==
  [][tick.pc = "enter" /\ tick'.pc = "approved" /\ here \notin abandoned
       => here \notin recent \/ (disc.pc = "orphan" /\ rows[disc.row].market = here)]_vars

\* partial_close_position splits the open row: no size appears or disappears
\* (its docstring), also when the row is closed under its feet.
SplitConserves ==
  \A r \in Rows : rows[r].status # "absent" => rows[r].size + rows[r].split = Size

\* A position whose market has run out is closed eventually.
ExpiredPositionCloses ==
  \A r \in Rows :
     (rows[r].status = "open" /\ phase[rows[r].market] = "expired") ~> rows[r].status = "closed"

\* A live position whose market fell out of the active set comes back under management.
DroppedPositionReturns ==
  \A r \in Rows :
     (rows[r].status = "open" /\ rows[r].market \notin active)
       ~> (rows[r].status = "closed" \/ rows[r].market \in active)
=============================================================================
