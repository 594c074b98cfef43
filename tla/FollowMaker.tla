----------------------------- MODULE FollowMaker -----------------------------
(***************************************************************************)
(* The paper-maker order of a strategy that follows with a resting limit:  *)
(* one order per market, driven by the decision tick (fill, time to live,  *)
(* gates, re-quote) and, beside it, by the freshness loop, which re-quotes *)
(* what has drifted without waiting for an event.                          *)
(*                                                                         *)
(* Both run on one asyncio loop and lose it at every journal or portfolio  *)
(* call.  The position itself is only counted here; its life is the        *)
(* subject of PaperLifecycle.                                              *)
(***************************************************************************)
EXTENDS Integers, FiniteSets

CONSTANTS
  Markets,     \* markets discovery may return
  NoMarket,    \* the market of an idle tick or sweep
  MaxOrders,   \* bound: orders ever placed
  MaxFills,    \* bound: fills begun for one order
  MaxCrashes   \* bound: daemon crashes

Ids == 1..MaxOrders

ASSUME MarketsAssumption == NoMarket \notin Markets
ASSUME NumbersAssumption == /\ MaxOrders \in Nat /\ MaxFills \in Nat \ {0} /\ MaxCrashes \in Nat

VARIABLES
  slot,     \* _pending_makers: the order resting on each market, 0 for none
  old,      \* orders past their time to live
  placed,   \* orders placed so far
  open,     \* open positions per market
  fills,    \* fills recorded per order
  gone,     \* orders taken away: cancelled with an event, or superseded by a position
  tick,     \* the tick under the decision lock
  sweep,    \* the freshness sweep
  active,   \* markets with a live state
  blocked,  \* markets whose events lead to no decision now
  cooling,  \* markets closed less than a cooldown ago
  stray,    \* inserts <<market, order>> that cancelled ticks left running in threads
  crashes,
  swept,    \* history: the re-quote thresholds, 0 by default, were set and a sweep began
  cut       \* history: entries <<market, order>> cut short, order 0 for a taker's

vars == <<slot, old, placed, open, fills, gone, tick, sweep, active, blocked, cooling, stray,
          crashes, swept, cut>>

IdleTick  == [pc |-> "idle", market |-> NoMarket, order |-> 0]
IdleSweep == [pc |-> "idle", todo |-> {}, market |-> NoMarket, order |-> 0]

Init ==
  /\ slot = [m \in Markets |-> 0] /\ old = {} /\ placed = 0
  /\ open = [m \in Markets |-> 0] /\ fills = [i \in Ids |-> 0] /\ gone = {}
  /\ tick = IdleTick /\ sweep = IdleSweep
  /\ active = {} /\ blocked = {} /\ cooling = {} /\ stray = {} /\ crashes = 0 /\ swept = FALSE /\ cut = {}

here    == tick.market
pending == slot[here]

Take(m) == slot' = [slot EXCEPT ![m] = 0] /\ gone' = gone \cup ({slot[m]} \ {0})
Put(m)  == /\ placed < MaxOrders /\ placed' = placed + 1
           /\ slot' = [slot EXCEPT ![m] = placed + 1]
Record(m, i) == /\ open' = [open EXCEPT ![m] = @ + 1]
                /\ fills' = IF i = 0 THEN fills ELSE [fills EXCEPT ![i] = @ + 1]
At(pc)   == tick.pc = pc
Goto(pc) == tick' = [tick EXCEPT !.pc = pc]

-----------------------------------------------------------------------------
(* The tick.                                                               *)

ledger  == <<open, fills>>
orders  == <<slot, placed, gone>>
offTick == <<old, sweep, active, blocked, stray, crashes, swept, cut>>

TickStart(m) ==
  /\ At("idle") /\ m \in active \ blocked
  /\ tick' = [IdleTick EXCEPT !.pc = "read", !.market = m]
  /\ UNCHANGED <<orders, ledger, cooling, offTick>>

\* get_open_position.
TickRead ==
  /\ At("read") /\ Goto(IF open[here] > 0 THEN "manage" ELSE "route")
  /\ UNCHANGED <<orders, ledger, cooling, offTick>>

\* The open position supersedes the order, and may be closed.
TickManage ==
  /\ At("manage") /\ Take(here)
  /\ tick' \in {IdleTick, [tick EXCEPT !.pc = "closing"]}
  /\ UNCHANGED <<placed, ledger, cooling, offTick>>
TickClose ==
  /\ At("closing") /\ tick' = IdleTick
  /\ open' = [open EXCEPT ![here] = 0] /\ cooling' = cooling \cup {here}
  /\ UNCHANGED <<orders, fills, offTick>>

\* The scorer does not follow: the order goes, and a taker entry may follow ...
TickTaker ==
  /\ At("route") /\ Take(here) /\ Goto("taker")
  /\ UNCHANGED <<placed, ledger, cooling, offTick>>
TickNoEntry ==
  /\ At("taker") /\ tick' = IdleTick
  /\ UNCHANGED <<orders, ledger, cooling, offTick>>
TickApprove ==
  /\ At("taker") /\ here \notin cooling /\ Goto("entering")
  /\ UNCHANGED <<orders, ledger, cooling, offTick>>
\* ... recorded in a thread.
TickEnter ==
  /\ At("entering") /\ tick' = IdleTick /\ Record(here, 0)
  /\ UNCHANGED <<orders, cooling, offTick>>

\* Slip: the insert is tried again when its answer is late.
RecordRetried ==
  /\ At("filling") /\ Record(here, tick.order)
  /\ tick' \in {tick, [tick EXCEPT !.pc = "filled"]}
  /\ UNCHANGED <<orders, cooling, offTick>>
\* The resting order is crossed: record the fill in a thread ...
FollowFill ==
  /\ At("route") /\ pending # 0
  /\ fills[pending] + Cardinality({s \in stray : s[2] = pending}) < MaxFills
  /\ tick' = [tick EXCEPT !.pc = "filling", !.order = pending]
  /\ UNCHANGED <<orders, ledger, cooling, offTick>>
FollowRecord ==
  /\ At("filling") /\ Record(here, tick.order) /\ Goto("filled")
  /\ UNCHANGED <<orders, cooling, offTick>>
\* Slip: the filled order goes on resting.
FilledKeepsOrder ==
  /\ At("filled") /\ tick' = IdleTick
  /\ UNCHANGED <<orders, ledger, cooling, offTick>>
\* ... and take away whatever rests by then.
FollowFilled ==
  /\ At("filled") /\ tick' = IdleTick
  /\ slot' = [slot EXCEPT ![here] = 0]
  /\ gone' = gone \cup ({pending, tick.order} \ {0})
  /\ UNCHANGED <<placed, ledger, cooling, offTick>>

\* Past its time to live: cancel, and go on as if nothing rested.
FollowExpire ==
  /\ At("route") /\ pending \in old /\ Take(here) /\ Goto("gate")
  /\ UNCHANGED <<placed, ledger, cooling, offTick>>

\* What the rest of the handler holds as its order: what rested when it looked.
held == IF At("route") THEN pending ELSE 0
Following == (At("route") /\ pending \notin old) \/ At("gate")

\* Slip: an order past its time to live is kept like any other.
FollowStayOld ==
  /\ At("route") \/ At("gate")
  /\ tick' = IdleTick /\ UNCHANGED <<orders, ledger, cooling, offTick>>

\* The book is thin, or the order is within the band.
FollowStay ==
  /\ Following /\ tick' = IdleTick
  /\ UNCHANGED <<orders, ledger, cooling, offTick>>
\* A gate (cooldown, entry price, exit depth) blocks: what rests is cancelled.
FollowBlocked ==
  /\ Following /\ tick' = IdleTick
  /\ IF held = 0 THEN UNCHANGED <<slot, gone>> ELSE Take(here)
  /\ UNCHANGED <<placed, ledger, cooling, offTick>>
\* The order drifted: cancel it, then place another.
FollowReplace ==
  /\ Following /\ held # 0 /\ here \notin cooling /\ placed < MaxOrders
  /\ Take(here) /\ Goto("put")
  /\ UNCHANGED <<placed, ledger, cooling, offTick>>
\* Slip: a new order is placed over the one that rests.
PlaceOver ==
  /\ Following /\ here \notin cooling
  /\ Put(here) /\ tick' = IdleTick
  /\ UNCHANGED <<gone, ledger, cooling, offTick>>
FollowPlace ==
  /\ Following /\ held = 0 /\ here \notin cooling
  /\ Put(here) /\ tick' = IdleTick
  /\ UNCHANGED <<gone, ledger, cooling, offTick>>
FollowPut ==
  /\ At("put")
  /\ IF placed < MaxOrders THEN Put(here) ELSE UNCHANGED <<slot, placed>>
  /\ tick' = IdleTick
  /\ UNCHANGED <<gone, ledger, cooling, offTick>>

Follow == \/ FollowFill \/ FollowRecord \/ FollowFilled \/ FollowExpire \/ FollowStay
          \/ FollowBlocked \/ FollowReplace \/ FollowPlace \/ FollowPut
TickStep == \/ TickRead \/ TickManage \/ TickClose
            \/ TickTaker \/ TickNoEntry \/ TickApprove \/ TickEnter \/ Follow

-----------------------------------------------------------------------------
(* The freshness sweep.                                                    *)

offSweep == <<old, ledger, tick, active, blocked, cooling, stray, crashes, cut>>

SweepStart ==
  /\ sweep.pc = "idle" /\ swept' = TRUE
  /\ sweep' = [IdleSweep EXCEPT !.pc = "scan", !.todo = {m \in Markets : slot[m] # 0}]
  /\ UNCHANGED <<orders, offSweep>>
\* Gone, without a state, without a price, or within the band.
SweepSkip(m) ==
  /\ sweep.pc = "scan" /\ m \in sweep.todo
  /\ sweep' = [sweep EXCEPT !.todo = @ \ {m}]
  /\ UNCHANGED <<orders, swept, offSweep>>
\* Drifted: the order is popped and its cancellation logged ...
SweepDrop(m) ==
  /\ sweep.pc = "scan" /\ m \in sweep.todo /\ slot[m] # 0 /\ m \in active
  /\ placed < MaxOrders
  /\ Take(m)
  /\ sweep' = [sweep EXCEPT !.pc = "put", !.todo = @ \ {m}, !.market = m, !.order = slot[m]]
  /\ UNCHANGED <<placed, swept, offSweep>>
\* ... and the new one is put into the slot, whatever is in it by then.
SweepPut ==
  /\ sweep.pc = "put"
  /\ IF placed < MaxOrders THEN Put(sweep.market) ELSE UNCHANGED <<slot, placed>>
  /\ sweep' = [sweep EXCEPT !.pc = "scan", !.market = NoMarket, !.order = 0]
  /\ UNCHANGED <<gone, swept, offSweep>>
SweepEnd ==
  /\ sweep.pc = "scan" /\ sweep.todo = {} /\ sweep' = IdleSweep
  /\ UNCHANGED <<orders, swept, offSweep>>
SweepStep == SweepPut \/ SweepEnd \/ \E m \in Markets : SweepSkip(m) \/ SweepDrop(m)

-----------------------------------------------------------------------------
(* Discovery and environment.                                              *)

\* The active set changes and the subscriber restarts; its tick is cancelled, and an
\* insert that had started goes on in its thread.  Bound: of the inserts of one entry
\* left running at once, one is counted.
CancelTick ==
  /\ tick' = IdleTick
  /\ cut' = cut \cup (IF tick.pc \in {"entering", "filling", "filled"}
                     THEN {<<here, tick.order>>} ELSE {})
  /\ \/ UNCHANGED stray
     \/ tick.pc \in {"entering", "filling"} /\ stray' = stray \cup {<<here, tick.order>>}
Discover(A) ==
  /\ A # active /\ active' = A
  /\ CancelTick
  /\ UNCHANGED <<orders, old, ledger, sweep, blocked, cooling, crashes, swept>>
\* The kill switch goes on or off, or a market's book empties or fills: looked at when an
\* event comes, so that only what holds between ticks matters.
Block(B) ==
  /\ At("idle") /\ B # blocked /\ blocked' = B
  /\ UNCHANGED <<orders, old, ledger, tick, sweep, active, cooling, stray, crashes, cut, swept>>
StrayRecord(s) ==
  /\ s \in stray /\ stray' = stray \ {s} /\ Record(s[1], s[2])
  /\ UNCHANGED <<orders, old, tick, sweep, active, blocked, cooling, crashes, cut, swept>>
\* The discovery cycle closes the position of a resolved market; or a close that a
\* cancelled tick left in its thread lands.
OrphanClose(m) ==
  /\ open[m] > 0 /\ open' = [open EXCEPT ![m] = 0]
  /\ cooling' = cooling \cup {m}
  /\ UNCHANGED <<orders, fills, old, tick, sweep, active, blocked, stray, crashes, cut, swept>>

Age(i) ==
  /\ (\E m \in Markets : slot[m] = i) /\ i \notin old /\ old' = old \cup {i}
  /\ UNCHANGED <<orders, ledger, tick, sweep, active, blocked, cooling, stray, crashes, cut, swept>>
CooldownElapses(m) ==
  /\ m \in cooling /\ cooling' = cooling \ {m}
  /\ UNCHANGED <<orders, old, ledger, tick, sweep, active, blocked, stray, crashes, cut, swept>>
Crash ==
  /\ crashes < MaxCrashes /\ crashes' = crashes + 1
  /\ slot' = [m \in Markets |-> 0] /\ tick' = IdleTick /\ sweep' = IdleSweep
  /\ active' = {} /\ blocked' = {} /\ cooling' = {} /\ stray' = {}
  /\ gone' = gone \cup ({slot[m] : m \in Markets} \ {0})
  /\ UNCHANGED <<old, placed, ledger, cut, swept>>

Next ==
  \/ \E m \in Markets : TickStart(m) \/ OrphanClose(m) \/ CooldownElapses(m)
  \/ TickStep
  \/ SweepStart \/ SweepStep
  \/ \E A \in SUBSET Markets : Discover(A) \/ Block(A)
  \/ \E s \in Markets \X (Ids \cup {0}) : StrayRecord(s)
  \/ \E i \in Ids : Age(i)
  \/ Crash

Spec == Init /\ [][Next]_vars

\* Events keep coming, time passes, and the loop resumes whoever waits.  Which market an
\* event that finds the lock free is of, nothing decides: one may take every tick.
Fairness ==
  /\ WF_vars(TickStep) /\ WF_vars(SweepStep)
  /\ WF_vars(\E m \in Markets : TickStart(m))
  /\ \A i \in Ids : WF_vars(Age(i))
FairSpec == Spec /\ Fairness

-----------------------------------------------------------------------------
(* Properties.                                                             *)

Tick  == [pc : {"idle", "read", "manage", "closing", "route", "taker", "entering",
                "filling", "filled", "gate", "put"},
          market : Markets \cup {NoMarket}, order : Ids \cup {0}]
Sweep == [pc : {"idle", "scan", "put"}, todo : SUBSET Markets,
          market : Markets \cup {NoMarket}, order : Ids \cup {0}]

\* The shapes of the state.
TypeOK ==
  /\ slot \in [Markets -> Ids \cup {0}] /\ old \subseteq Ids /\ placed \in 0..MaxOrders
  /\ open \in [Markets -> Nat] /\ fills \in [Ids -> Nat] /\ gone \subseteq Ids
  /\ tick \in Tick /\ sweep \in Sweep
  /\ active \subseteq Markets /\ blocked \subseteq Markets /\ cooling \subseteq Markets
  /\ stray \subseteq Markets \X (Ids \cup {0}) /\ cut \subseteq Markets \X (Ids \cup {0})
  /\ crashes \in Nat /\ swept \in BOOLEAN

\* Markets and orders of an entry that was cut short.
CutMarkets == {c[1] : c \in cut}
CutOrders  == {c[2] : c \in cut}

\* An order fills at most once and a market has at most one position, with the sweep
\* re-quoting in between, as long as none of its entries was cut short by a cancellation,
\* which leaves the insert running in its thread.
OneFillOnePosition ==
  /\ \A i \in Ids \ CutOrders : fills[i] <= 1
  /\ \A m \in Markets \ CutMarkets : open[m] <= 1

\* Between ticks no order rests beside an open position (comment at the read: an open
\* position supersedes any pending maker), when the sweep is off and no entry on the
\* market was cut short.
NoOrderBesidePosition ==
  At("idle") /\ ~swept => \A m \in Markets \ CutMarkets : open[m] > 0 => slot[m] = 0

\* An order that was placed rests, or left its slot by a fill, a cancellation that was
\* logged or a position that superseded it: while no sweep has run, it is never overwritten.
NoOrderLost ==
  ~swept => \A i \in 1..placed : i \in gone \/ \E m \in Markets : slot[m] = i

\* On the one market that is active, and as long as its events lead to decisions, an order
\* does not rest forever: it fills, or its time to live ends it, since every event may.
OrderEnds ==
  \A m \in Markets, i \in Ids :
    slot[m] = i ~> (slot[m] # i \/ active # {m} \/ m \in blocked)
=============================================================================
