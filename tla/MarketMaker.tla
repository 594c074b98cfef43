----------------------------- MODULE MarketMaker -----------------------------
(***************************************************************************)
(* The market maker's resting quotes: one YES and one NO quote per market, *)
(* their fills into legs, the inventory halt, the reward accrual, and the  *)
(* discovery cycle that moves markets in and out of the scanned universe.  *)
(*                                                                         *)
(* Ticks run under the decision lock, from the market subscriber or from   *)
(* the freshness loop.  The discovery cycle runs beside them and takes     *)
(* quotes away at its own awaits; when the set of markets changes it       *)
(* cancels the subscriber, and with it the tick the subscriber runs.       *)
(***************************************************************************)
EXTENDS Integers, FiniteSets

CONSTANTS
  Markets,     \* markets the scanner may return
  NoMarket,    \* the market of an idle tick
  MaxQuotes,   \* bound: quotes ever placed
  MaxCrashes,  \* bound: daemon crashes
  MaxEvents,   \* bound: quotes placed and crashes, together
  MaxInserts,  \* bound: inserts of a quote, once a fill of it was cut short
  Callers,     \* who runs ticks: "sub", the cancellable subscriber, and "fresh"
  Size,        \* mm_size_usd
  Cap          \* mm_max_inventory_usd

Sides == {"YES", "NO"}
Ids   == 1..MaxQuotes

ASSUME MarketsAssumption == NoMarket \notin Markets
ASSUME CallersAssumption == Callers \subseteq {"sub", "fresh"}
ASSUME NumbersAssumption ==
  /\ MaxQuotes \in Nat /\ MaxCrashes \in Nat /\ MaxEvents \in Nat /\ MaxInserts \in Nat \ {0}
  /\ Size \in Nat \ {0} /\ Cap \in Nat \ {0}

VARIABLES
  quotes,    \* _pending_mm_orders: id of the resting quote and its age; id 0 is none
  earning,   \* _mm_quote_accrual: the quote whose reward is buffered under the key
  placed,    \* quotes placed so far; the id of a quote is the order id of its leg
  born,      \* market and side of each quote placed
  rows,      \* positions table: the open rows, as <<order id, which insert of it>>
  filled,    \* rows ever inserted under each order id
  bank,      \* reward_accruals: rows written for each quote
  tick,      \* the tick under the decision lock
  disc,      \* the discovery cycle
  universe,  \* _mm_market_ids
  active,    \* markets with state and candidate
  phase,     \* "open" while the scanner takes it, "late", "force" (exit), "expired"
  stray,     \* per quote, the inserts that cancelled ticks left running in threads
  crashes,
  earned,    \* history: quotes that accrued a reward
  cut        \* history: quotes whose fill or reward write a cancel or crash cut short

vars == <<quotes, earning, placed, born, rows, filled, bank, tick, disc, universe,
          active, phase, stray, crashes, earned, cut>>

NoQuote  == [id |-> 0, age |-> "young"]
IdleTick == [pc |-> "idle", loop |-> "fill", who |-> "fresh", market |-> NoMarket,
             near |-> FALSE, side |-> "YES", legs |-> {}, halt |-> {}, quote |-> 0,
             owe |-> 0, put |-> FALSE]
IdleDisc == [pc |-> "idle", back |-> "scan", todo |-> {}, pins |-> {}, next |-> {},
             drops |-> {}, leg |-> 0, owe |-> 0]

Rows(m, s)     == {r \in rows : born[r[1]] = <<m, s>>}
OpenLegs(m)    == {r[1] : r \in Rows(m, "YES") \cup Rows(m, "NO")}
Exposure(m, s) == Size * Cardinality(Rows(m, s))
Insert(i)      == /\ rows' = rows \cup {<<i, filled[i] + 1>>}
                  /\ filled' = [filled EXCEPT ![i] = @ + 1]
Room           == placed + crashes < MaxEvents
Close(i)       == rows' = {r \in rows : r[1] # i}

Init ==
  /\ quotes = [m \in Markets |-> [s \in Sides |-> NoQuote]]
  /\ earning = [m \in Markets |-> [s \in Sides |-> 0]]
  /\ placed = 0 /\ born = [i \in Ids |-> <<NoMarket, "YES">>]
  /\ rows = {} /\ filled = [i \in Ids |-> 0] /\ bank = [i \in Ids |-> 0]
  /\ tick = IdleTick /\ disc = IdleDisc
  /\ universe = {} /\ active = {} /\ phase = [m \in Markets |-> "open"]
  /\ stray = [i \in Ids |-> 0] /\ crashes = 0 /\ earned = {} /\ cut = {}

-----------------------------------------------------------------------------
(* The tick.  A tick looks at YES, then NO, in each of three loops: fills,  *)
(* placement, and the sweep that cancels what rests.                       *)

memory  == <<quotes, earning>>
table   == <<rows, filled, bank>>
offTick == <<disc, universe, active, phase, stray, crashes, cut>>

\* Taking the quote of a key away also takes the reward buffered for it.
Pop(m, s) == /\ quotes' = [quotes EXCEPT ![m][s] = NoQuote]
             /\ earning' = [earning EXCEPT ![m][s] = 0]

here       == tick.market
resting    == quotes[here][tick.side]
After(t)   == IF t.loop = "fill" THEN [t EXCEPT !.pc = "gate", !.side = "YES"] ELSE IdleTick
Advance(t) == IF t.side = "YES" THEN [t EXCEPT !.pc = t.loop, !.side = "NO"] ELSE After(t)
Loop(t, l) == [t EXCEPT !.pc = l, !.loop = l, !.side = "YES"]

\* The strategy's universe filter lets the market through.
TickStart(m, c) ==
  /\ tick.pc = "idle" /\ m \in active \cap universe
  /\ tick' = [IdleTick EXCEPT !.pc = "scored", !.who = c, !.market = m]
  /\ UNCHANGED <<memory, table, placed, born, earned, offTick>>

\* The handler begins: rewards accrue on what rests.
TickAccrue ==
  /\ tick.pc = "scored"
  /\ \E band \in SUBSET {s \in Sides : quotes[here][s].id # 0} :
        /\ earning' = [earning EXCEPT ![here] =
                        [s \in Sides |-> IF s \in band THEN quotes[here][s].id ELSE @[s]]]
        /\ earned' = earned \cup {quotes[here][s].id : s \in band}
  /\ tick' = [tick EXCEPT !.pc = "legs", !.near = phase[here] \in {"force", "expired"}]
  /\ UNCHANGED <<quotes, table, placed, born, offTick>>

\* No book to trade on: the handler returns before it touches anything.
TickNoBook ==
  /\ tick.pc = "scored"
  /\ tick' = IdleTick
  /\ UNCHANGED <<memory, table, placed, born, earned, offTick>>

\* list_open_positions_for_market; near the end the legs are to be closed.
TickLegs ==
  /\ tick.pc = "legs"
  /\ tick' = IF tick.near /\ OpenLegs(here) # {}
             THEN [tick EXCEPT !.pc = "exit", !.legs = OpenLegs(here)]
             ELSE Loop(tick, "fill")
  /\ UNCHANGED <<memory, table, placed, born, earned, offTick>>

\* Force exit of one leg by its order id, then the sweep.
TickExitLeg ==
  /\ tick.pc = "exit"
  /\ IF tick.legs = {} THEN tick' = Loop(tick, "sweep") /\ UNCHANGED rows
     ELSE \E i \in tick.legs : /\ Close(i)
                               /\ tick' = [tick EXCEPT !.legs = @ \ {i}]
  /\ UNCHANGED <<memory, filled, bank, placed, born, earned, offTick>>

\* Take the quote away and owe its reward; put: a new quote follows.
EndQuote(put) ==
  /\ resting.id # 0
  /\ Pop(here, tick.side)
  /\ tick' = [tick EXCEPT !.pc = "persist", !.owe = earning[here][tick.side], !.put = put]
  /\ UNCHANGED <<table, placed, born, earned, offTick>>

\* _persist_mm_accrual: the database row, and on with the loop.
TickPersist ==
  /\ tick.pc = "persist"
  /\ bank' = IF tick.owe = 0 THEN bank ELSE [bank EXCEPT ![tick.owe] = @ + 1]
  /\ LET t == [tick EXCEPT !.owe = 0]
     IN tick' = IF t.put THEN [t EXCEPT !.pc = "put", !.put = FALSE] ELSE Advance(t)
  /\ UNCHANGED <<memory, rows, filled, placed, born, earned, offTick>>

Stay == tick' = Advance(tick) /\ UNCHANGED <<memory, table, placed, born, earned, offTick>>

\* Fill loop: nothing rests, or it is neither crossed nor past its time to live ...
FillSkip == tick.pc = "fill" /\ resting.age = "young" /\ Stay
\* ... or it is past its time to live, too old, or crossed and refused by a guard ...
FillCancel == tick.pc = "fill" /\ EndQuote(FALSE)
\* ... or crossed and honoured: the row is inserted in a thread ...
FillStart ==
  /\ tick.pc = "fill" /\ resting.id # 0 /\ resting.age = "young" /\ ~tick.near
  /\ resting.id \in cut => filled[resting.id] + stray[resting.id] < MaxInserts
  /\ tick' = [tick EXCEPT !.pc = "filling", !.quote = resting.id]
  /\ UNCHANGED <<memory, table, placed, born, earned, offTick>>
RecordLeg ==
  /\ tick.pc = "filling"
  /\ Insert(tick.quote)
  /\ tick' = [tick EXCEPT !.pc = "filled"]
  /\ UNCHANGED <<memory, bank, placed, born, earned, offTick>>
\* Slip: the quote goes on resting after its fill.
FillKeepsQuote ==
  /\ tick.pc = "filled"
  /\ tick' = Advance([tick EXCEPT !.quote = 0])
  /\ UNCHANGED <<memory, table, placed, born, earned, offTick>>
\* ... and whatever rests under the key by then is taken away.
FillDone ==
  /\ tick.pc = "filled"
  /\ Pop(here, tick.side)
  /\ tick' = [tick EXCEPT !.pc = "persist", !.owe = earning[here][tick.side], !.quote = 0]
  /\ UNCHANGED <<table, placed, born, earned, offTick>>
TickFill == FillSkip \/ FillCancel \/ FillStart \/ RecordLeg \/ FillDone

\* The scorer abstains: sweep.  The market pays no reward: leave.  Else quote.
TickGate ==
  /\ tick.pc = "gate"
  /\ \/ tick' = Loop(tick, "sweep")
     \/ tick' = IdleTick
     \/ tick' = [tick EXCEPT !.pc = "inventory"]
  /\ UNCHANGED <<memory, table, placed, born, earned, offTick>>

\* Slip: the sides are taken for each other.
TickInventorySwapped ==
  /\ tick.pc = "inventory"
  /\ tick' = [Loop(tick, "place") EXCEPT !.halt =
                 {s \in Sides : \E o \in Sides \ {s} : Exposure(here, o) >= Cap}]
  /\ UNCHANGED <<memory, table, placed, born, earned, offTick>>

\* compute_inventory over the legs read again: a side at its cap is halted.
TickInventory ==
  /\ tick.pc = "inventory"
  /\ tick' = [Loop(tick, "place") EXCEPT !.halt = {s \in Sides : Exposure(here, s) >= Cap}]
  /\ UNCHANGED <<memory, table, placed, born, earned, offTick>>

PutQuote ==
  /\ Room /\ placed < MaxQuotes /\ placed' = placed + 1
  /\ born' = [born EXCEPT ![placed + 1] = <<here, tick.side>>]
  /\ quotes' = [quotes EXCEPT ![here][tick.side] = [id |-> placed + 1, age |-> "young"]]
  /\ earning' = [earning EXCEPT ![here][tick.side] = 0]
  /\ tick' = Advance(tick)
  /\ UNCHANGED <<table, earned, offTick>>

\* Placement loop: halted or no price, inside the hysteresis band, drifted, or empty.
PlaceSkip   == tick.pc = "place" /\ resting.id = 0 /\ Stay
PlaceCancel == tick.pc = "place" /\ EndQuote(FALSE)
PlaceKeep   == tick.pc = "place" /\ tick.side \notin tick.halt /\ resting.id # 0 /\ Stay
PlaceAgain  == tick.pc = "place" /\ tick.side \notin tick.halt /\ Room /\ placed < MaxQuotes
               /\ EndQuote(TRUE)
PlaceNew    == /\ \/ tick.pc = "place" /\ tick.side \notin tick.halt /\ resting.id = 0
                  \/ tick.pc = "put"
               /\ PutQuote
TickPlace == PlaceSkip \/ PlaceCancel \/ PlaceKeep \/ PlaceAgain \/ PlaceNew

SweepSkip   == tick.pc = "sweep" /\ resting.id = 0 /\ Stay
SweepCancel == tick.pc = "sweep" /\ EndQuote(FALSE)
TickSweep == SweepSkip \/ SweepCancel

TickStep == \/ TickAccrue \/ TickNoBook \/ TickLegs \/ TickExitLeg \/ TickPersist \/ TickFill
            \/ TickGate \/ TickInventory \/ TickPlace \/ TickSweep

-----------------------------------------------------------------------------
(* The discovery cycle (_apply_candidates), for the market maker's part.   *)

offDisc == <<placed, born, filled, phase, crashes, earned>>

DiscStart ==
  /\ disc.pc = "idle"
  /\ disc' = [IdleDisc EXCEPT !.pc = "scan", !.todo = {r[1] : r \in rows}]
  /\ UNCHANGED <<memory, rows, bank, tick, universe, active, stray, cut, offDisc>>

Scanning(i) == disc.pc = "scan" /\ i \in disc.todo
MarketOf(i) == born[i][1]

\* Pinned already, or unknown and not to be fetched.
DiscPass(i) ==
  /\ Scanning(i) /\ (MarketOf(i) \in disc.pins \/ MarketOf(i) \notin active)
  /\ disc' = [disc EXCEPT !.todo = @ \ {i}]
  /\ UNCHANGED <<memory, rows, bank, tick, universe, active, stray, cut, offDisc>>
DiscPin(i) ==
  /\ Scanning(i) /\ phase[MarketOf(i)] # "expired"
  /\ disc' = [disc EXCEPT !.todo = @ \ {i}, !.pins = @ \cup {MarketOf(i)}]
  /\ UNCHANGED <<memory, rows, bank, tick, universe, active, stray, cut, offDisc>>

\* Slip: only a market that is still in the active set is closed.
OrphanOnlyActive(i) ==
  /\ Scanning(i) /\ MarketOf(i) \in active \ disc.pins /\ phase[MarketOf(i)] = "expired"
  /\ disc' = [disc EXCEPT !.todo = @ \ {i}, !.pc = "orphan", !.leg = i]
  /\ UNCHANGED <<memory, rows, bank, tick, universe, active, stray, cut, offDisc>>

\* Resolved: the leg is closed by its order id ...
DiscOrphan(i) ==
  /\ Scanning(i) /\ MarketOf(i) \notin disc.pins /\ phase[MarketOf(i)] = "expired"
  /\ disc' = [disc EXCEPT !.todo = @ \ {i}, !.pc = "orphan", !.leg = i]
  /\ UNCHANGED <<memory, rows, bank, tick, universe, active, stray, cut, offDisc>>
\* ... and the quotes of its market are taken away.
DiscOrphanClose ==
  /\ disc.pc = "orphan"
  /\ Close(disc.leg)
  /\ disc' = [disc EXCEPT !.pc = "drop", !.back = "scan", !.leg = 0,
                          !.drops = {MarketOf(disc.leg)} \X Sides]
  /\ UNCHANGED <<memory, bank, tick, universe, active, stray, cut, offDisc>>

\* _refresh_mm_universe: the cached set, or what the scan returns.
DiscRefresh(U) ==
  /\ disc.pc = "scan" /\ disc.todo = {}
  /\ U = universe \/ \A m \in U : phase[m] = "open"
  /\ disc' = [disc EXCEPT !.pc = "drop", !.back = "swap", !.next = U,
                          !.drops = (universe \ U) \X Sides]
  /\ UNCHANGED <<memory, rows, bank, tick, universe, active, stray, cut, offDisc>>

\* Slip: the quote is dropped and its reward not written.
DiscDropUnpaid(m, s) ==
  /\ disc.pc = "drop" /\ <<m, s>> \in disc.drops
  /\ Pop(m, s)
  /\ disc' = [disc EXCEPT !.drops = @ \ {<<m, s>>}]
  /\ UNCHANGED <<rows, bank, tick, universe, active, stray, cut, offDisc>>

\* The quotes of the keys to drop, one after another.
DiscDrop(m, s) ==
  /\ disc.pc = "drop" /\ <<m, s>> \in disc.drops
  /\ Pop(m, s)
  /\ disc' = [disc EXCEPT !.drops = @ \ {<<m, s>>}, !.owe = earning[m][s],
                          !.pc = IF quotes[m][s].id = 0 THEN "drop" ELSE "persist"]
  /\ UNCHANGED <<rows, bank, tick, universe, active, stray, cut, offDisc>>
DiscPersist ==
  /\ disc.pc = "persist"
  /\ bank' = IF disc.owe = 0 THEN bank ELSE [bank EXCEPT ![disc.owe] = @ + 1]
  /\ disc' = [disc EXCEPT !.pc = "drop", !.owe = 0]
  /\ UNCHANGED <<memory, rows, tick, universe, active, stray, cut, offDisc>>
DiscDropped ==
  /\ disc.pc = "drop" /\ disc.drops = {}
  /\ disc' = [disc EXCEPT !.pc = disc.back]
  /\ UNCHANGED <<memory, rows, bank, tick, universe, active, stray, cut, offDisc>>

\* Cancelling the tick: an insert or a reward row not yet started is never written,
\* one that started is.
CancelTick ==
  /\ tick' = IdleTick
  /\ cut' = cut \cup ({tick.owe} \ {0})
                 \cup (IF tick.pc \in {"filling", "filled"} THEN {tick.quote} ELSE {})
  /\ stray' \in {stray, IF tick.pc = "filling" THEN [stray EXCEPT ![tick.quote] = @ + 1]
                                               ELSE stray}
  /\ bank' \in {bank, IF tick.owe = 0 THEN bank ELSE [bank EXCEPT ![tick.owe] = @ + 1]}

\* The new universe and active set; the subscriber restarts when the set changed, here
\* or among the markets of the other strategies.
DiscSwap ==
  /\ disc.pc = "swap"
  /\ universe' = disc.next /\ active' = disc.next \cup disc.pins
  /\ disc' = IdleDisc
  /\ \/ tick.pc # "idle" /\ tick.who = "sub" /\ CancelTick
     \/ /\ active' = active \/ tick.pc = "idle" \/ tick.who = "fresh"
        /\ UNCHANGED <<tick, cut, stray, bank>>
  /\ UNCHANGED <<memory, rows, offDisc>>

DiscStep ==
  \/ \E i \in Ids : DiscPass(i) \/ DiscPin(i) \/ DiscOrphan(i)
  \/ DiscOrphanClose \/ DiscPersist \/ DiscDropped \/ DiscSwap
  \/ \E U \in SUBSET Markets : DiscRefresh(U)
  \/ \E m \in Markets, s \in Sides : DiscDrop(m, s)

-----------------------------------------------------------------------------
(* Environment.                                                            *)

\* A detached insert of a cancelled tick.
StrayRecord(i) ==
  /\ stray[i] > 0 /\ stray' = [stray EXCEPT ![i] = @ - 1]
  /\ Insert(i)
  /\ UNCHANGED <<memory, placed, born, bank, tick, disc, universe, active, phase, crashes,
                 earned, cut>>

\* The quote exceeds mm_max_quote_age_seconds.
QuoteAges(m, s) ==
  /\ quotes[m][s].id # 0 /\ quotes[m][s].age = "young"
  /\ quotes' = [quotes EXCEPT ![m][s].age = "old"]
  /\ UNCHANGED <<earning, placed, born, table, tick, disc, universe, active, phase, stray,
                 crashes, earned, cut>>

MarketAges(m) ==
  /\ phase[m] # "expired"
  /\ phase' = [phase EXCEPT ![m] = IF @ = "open" THEN "late"
                                   ELSE IF @ = "late" THEN "force" ELSE "expired"]
  /\ UNCHANGED <<memory, placed, born, table, tick, disc, universe, active, stray, crashes,
                 earned, cut>>

\* The daemon dies: quotes and buffered rewards are gone, rows stay.
Crash ==
  /\ Room /\ crashes < MaxCrashes /\ crashes' = crashes + 1
  /\ quotes' = [m \in Markets |-> [s \in Sides |-> NoQuote]]
  /\ earning' = [m \in Markets |-> [s \in Sides |-> 0]]
  /\ tick' = IdleTick /\ disc' = IdleDisc /\ universe' = {} /\ active' = {}
  /\ stray' = [i \in Ids |-> 0]
  /\ cut' = cut \cup earned
  /\ UNCHANGED <<placed, born, table, phase, earned>>

Next ==
  \/ \E m \in Markets, c \in Callers : TickStart(m, c)
  \/ TickStep
  \/ DiscStart \/ DiscStep
  \/ \E i \in Ids : StrayRecord(i)
  \/ \E m \in Markets, s \in Sides : QuoteAges(m, s)
  \/ \E m \in Markets : MarketAges(m)
  \/ Crash

Spec == Init /\ [][Next]_vars

\* The loop resumes whoever waits, and the discovery loop keeps cycling with
\* fetches that sometimes succeed.
Fairness ==
  /\ WF_vars(TickStep) /\ WF_vars(DiscStart) /\ WF_vars(DiscStep)
  /\ \A i \in Ids : SF_vars(DiscOrphan(i))
FairSpec == Spec /\ Fairness

-----------------------------------------------------------------------------
(* Properties.                                                             *)

Age  == {"young", "old"}
Span == {"open", "late", "force", "expired"}
Tick == [pc : {"idle", "scored", "legs", "exit", "fill", "filling", "filled", "gate",
               "inventory", "place", "put", "sweep", "persist"},
         loop : {"fill", "place", "sweep"}, who : {"sub", "fresh"},
         market : Markets \cup {NoMarket}, near : BOOLEAN, side : Sides, legs : SUBSET Ids,
         halt : SUBSET Sides, quote : Ids \cup {0}, owe : Ids \cup {0}, put : BOOLEAN]
Disc == [pc : {"idle", "scan", "orphan", "drop", "persist", "swap"}, back : {"scan", "swap"},
         todo : SUBSET Ids, pins : SUBSET Markets, next : SUBSET Markets,
         drops : SUBSET (Markets \X Sides), leg : Ids \cup {0}, owe : Ids \cup {0}]

\* The shapes of the state.
TypeOK ==
  /\ quotes \in [Markets -> [Sides -> [id : Ids \cup {0}, age : Age]]]
  /\ earning \in [Markets -> [Sides -> Ids \cup {0}]]
  /\ placed \in 0..MaxQuotes /\ born \in [Ids -> (Markets \cup {NoMarket}) \X Sides]
  /\ rows \subseteq Ids \X Nat /\ filled \in [Ids -> Nat] /\ bank \in [Ids -> Nat]
  /\ tick \in Tick /\ disc \in Disc
  /\ universe \subseteq Markets /\ active \subseteq Markets
  /\ phase \in [Markets -> Span] /\ stray \in [Ids -> Nat] /\ crashes \in Nat
  /\ earned \subseteq Ids /\ cut \subseteq Ids

CutSide(m, s) == \E i \in cut : born[i] = <<m, s>>

\* The inventory cap (mm_max_inventory_usd) is overshot by less than one quote on each
\* side, whatever the discovery cycle takes away meanwhile, unless a fill of that side
\* was cut short by a cancel or a crash.
InventoryBounded ==
  \A m \in Markets, s \in Sides : ~CutSide(m, s) => Exposure(m, s) < Cap + Size

\* A quote becomes at most one leg, also when the universe exit takes the quote away
\* while its fill is being recorded.
FilledOnce == \A i \in Ids \ cut : filled[i] <= 1

\* The reward a quote earned is buffered, on its way or banked: never lost, never twice.
RewardBankedOnce ==
  \A i \in earned \ cut :
    bank[i] + (IF \E m \in Markets, s \in Sides : earning[m][s] = i THEN 1 ELSE 0)
            + (IF tick.owe = i THEN 1 ELSE 0) + (IF disc.owe = i THEN 1 ELSE 0) = 1

\* A leg whose market is resolved is closed eventually, by its order id, also across a
\* crash that forgets the market.
ResolvedLegCloses ==
  \A i \in Ids : ((\E r \in rows : r[1] = i) /\ phase[born[i][1]] = "expired")
                   ~> ~\E r \in rows : r[1] = i
=============================================================================
