-------------------------- MODULE MarketMakerProofs --------------------------
(* Theorems about the market maker's quotes, for any markets, callers,     *)
(* sizes, caps and bounds: a quote becomes one leg at most, its reward is  *)
(* banked once, and a side's inventory stays within the cap and one quote. *)
(*                                                                         *)
(* Ticks run one at a time and only they place and fill; the discovery     *)
(* cycle takes quotes and legs away under their feet.  The invariant says  *)
(* what a tick still knows of a quote it has seen, and that a side without *)
(* room has neither a quote nor a tick about to place or fill one.         *)
EXTENDS MarketMaker, FiniteSetTheorems, TLAPS

-----------------------------------------------------------------------------
(* The invariant.                                                          *)

\* A quote was placed, once, and rests nowhere but where it was; its reward is buffered
\* under the same key.
Keyed ==
  /\ \A m \in Markets, s \in Sides :
       /\ quotes[m][s].id # 0 => quotes[m][s].id <= placed /\ born[quotes[m][s].id] = <<m, s>>
       /\ earning[m][s] \in {0, quotes[m][s].id}
  /\ \A i \in 1..placed : born[i] \in Markets \X Sides
  /\ IsFiniteSet(rows) /\ \A r \in rows : r[1] <= placed
  /\ cut \cup earned \subseteq 1..placed
  /\ \A i \in Ids : (filled[i] > 0 => i <= placed) /\ (stray[i] > 0 => i \in cut)

\* A tick has a market; it knows the quote it fills, owes a reward only until it is
\* written, and puts a quote only on a side that is not halted and where none rests.
TickSound ==
  /\ tick.pc # "idle" => here \in Markets
  /\ tick.quote # 0 <=> tick.pc \in {"filling", "filled"}
  /\ tick.quote # 0 => tick.quote <= placed /\ born[tick.quote] = <<here, tick.side>>
  /\ tick.pc \in {"fill", "filling", "filled"} => tick.loop = "fill"
  /\ tick.pc = "place" => tick.loop = "place"
  /\ tick.pc \in {"idle", "gate"} => tick.loop # "place"
  /\ tick.owe # 0 => tick.pc = "persist" /\ tick.owe <= placed
  /\ tick.put => tick.pc = "persist"
  /\ tick.put \/ tick.pc = "put" =>
       tick.loop = "place" /\ tick.side \notin tick.halt /\ resting.id = 0

\* The discovery cycle handles legs there were.
DiscSound ==
  /\ disc.owe # 0 => disc.pc = "persist"
  /\ disc.todo \subseteq 1..placed
  /\ disc.pc = "orphan" => disc.leg \in 1..placed

\* What rests or is being filled has no leg yet, unless a fill of it was cut short.
Rests(i) == \E m \in Markets, s \in Sides : quotes[m][s].id = i
Unfilled ==
  \A i \in Ids \ cut :
    /\ filled[i] <= 1
    /\ Rests(i) =>
          filled[i] = 0 \/ (tick.pc = "filled" /\ tick.quote = i)
    /\ tick.pc = "filling" /\ tick.quote = i => filled[i] = 0

\* The reward of a quote is in one place from the first accrual on, and in none before; what
\* rests and has earned has it in its buffer.
Buffered(i) == \E m \in Markets, s \in Sides : earning[m][s] = i
Shares(i) == bank[i] + (IF Buffered(i) THEN 1 ELSE 0)
                     + (IF tick.owe = i THEN 1 ELSE 0) + (IF disc.owe = i THEN 1 ELSE 0)
Banked ==
  \A i \in Ids \ cut :
    /\ Shares(i) = IF i \in earned THEN 1 ELSE 0
    /\ i \in earned /\ Rests(i) => Buffered(i)

\* Where a quote rests that is not filled yet, is being filled, or may be placed, there is
\* room for one more.
Wanted(m, s) ==
  \/ quotes[m][s].id # 0 /\ ~(tick.pc = "filled" /\ here = m /\ tick.side = s)
  \/ tick.pc = "filling" /\ here = m /\ tick.side = s
  \/ tick.loop = "place" /\ here = m /\ s \notin tick.halt
Roomy ==
  \A m \in Markets, s \in Sides :
    ~CutSide(m, s) => Exposure(m, s) < Cap + Size /\ (Wanted(m, s) => Exposure(m, s) < Cap)

IInv == TypeOK /\ Keyed /\ TickSound /\ DiscSound /\ Unfilled /\ Banked /\ Roomy

-----------------------------------------------------------------------------
(* Lemmas about the model's operators.                                     *)

\* Going on in a loop, a tick keeps what it holds; it is over after the last side of the
\* last loop, and then starts anew.
LEMMA Advancing ==
  ASSUME NEW t \in Tick
  PROVE  /\ Advance(t) \in Tick
         /\ Advance(t).pc \in {"fill", "place", "sweep", "gate", "idle"}
         /\ Advance(t).pc = "idle" => Advance(t) = IdleTick
         /\ Advance(t).pc = "gate" => t.loop = "fill"
         /\ Advance(t).pc \in {"fill", "place", "sweep"} => Advance(t).pc = t.loop
         /\ Advance(t).pc # "idle" =>
              /\ Advance(t).market = t.market /\ Advance(t).loop = t.loop
              /\ Advance(t).halt = t.halt /\ Advance(t).quote = t.quote
              /\ Advance(t).owe = t.owe /\ Advance(t).put = t.put
<1>1. CASE t.side = "YES"
  <2>1. Advance(t) = [t EXCEPT !.pc = t.loop, !.side = "NO"]
    BY <1>1 DEF Advance
  <2> QED BY <2>1 DEF Tick, Sides
<1>2. CASE t.side # "YES" /\ t.loop = "fill"
  <2>1. Advance(t) = [t EXCEPT !.pc = "gate", !.side = "YES"]
    BY <1>2 DEF Advance, After
  <2> QED BY <1>2, <2>1 DEF Tick, Sides
<1>3. CASE t.side # "YES" /\ t.loop # "fill"
  <2>1. Advance(t) = IdleTick
    BY <1>3 DEF Advance, After
  <2> QED BY <2>1, MarketsAssumption DEF Tick, IdleTick, Sides
<1> QED BY <1>1, <1>2, <1>3

\* Taking the quote of a key away leaves the others.
LEMMA Popping ==
  ASSUME TypeOK, NEW m \in Markets, NEW s \in Sides, Pop(m, s)
  PROVE  /\ quotes' \in [Markets -> [Sides -> [id : Ids \cup {0}, age : Age]]]
         /\ earning' \in [Markets -> [Sides -> Ids \cup {0}]]
         /\ \A n \in Markets, u \in Sides :
              /\ quotes'[n][u].id = IF n = m /\ u = s THEN 0 ELSE quotes[n][u].id
              /\ earning'[n][u] = IF n = m /\ u = s THEN 0 ELSE earning[n][u]
<1>1. NoQuote \in [id : Ids \cup {0}, age : Age] /\ NoQuote.id = 0
  BY DEF NoQuote, Age
<1>2. quotes' = [quotes EXCEPT ![m][s] = NoQuote] /\ earning' = [earning EXCEPT ![m][s] = 0]
  BY DEF Pop
<1> QED BY <1>1, <1>2 DEF TypeOK

\* The rows of a side are finitely many, and fewer rows are less exposure.
LEMMA Counting ==
  ASSUME IsFiniteSet(rows), NEW m, NEW s
  PROVE  IsFiniteSet(Rows(m, s)) /\ Cardinality(Rows(m, s)) \in Nat /\ Exposure(m, s) \in Nat
<1>1. IsFiniteSet(Rows(m, s)) /\ Cardinality(Rows(m, s)) \in Nat
  BY FS_Subset, FS_CardinalityType DEF Rows
<1> QED BY <1>1, NumbersAssumption DEF Exposure

LEMMA Monotone ==
  ASSUME NEW a \in Nat, NEW b \in Nat, a <= b
  PROVE  Size * a <= Size * b /\ Size * (a + 1) = Size * a + Size
BY NumbersAssumption

LEMMA FewerRows ==
  ASSUME TypeOK, Keyed, rows' \subseteq rows, UNCHANGED born, NEW m, NEW s
  PROVE  Exposure(m, s)' \in Nat /\ Exposure(m, s) \in Nat /\ Exposure(m, s)' <= Exposure(m, s)
<1>1. Rows(m, s)' \subseteq Rows(m, s)
  BY DEF Rows
<1>2. IsFiniteSet(rows) /\ IsFiniteSet(rows')
  BY FS_Subset DEF Keyed
<1>3. /\ IsFiniteSet(Rows(m, s)) /\ Cardinality(Rows(m, s)) \in Nat
      /\ IsFiniteSet(Rows(m, s)') /\ Cardinality(Rows(m, s)') \in Nat
  BY <1>2, FS_Subset, FS_CardinalityType DEF Rows
<1>4. Cardinality(Rows(m, s)') <= Cardinality(Rows(m, s))
  BY <1>1, <1>3, FS_Subset
<1> QED BY <1>3, <1>4, Monotone, NumbersAssumption DEF Exposure

\* An inserted row is one more on the side its quote was placed for.
LEMMA OneMoreRow ==
  ASSUME TypeOK, Keyed, NEW i \in Ids, Insert(i), UNCHANGED born, NEW m, NEW s
  PROVE  /\ Exposure(m, s) \in Nat /\ Exposure(m, s)' \in Nat
         /\ born[i] # <<m, s>> => Exposure(m, s)' = Exposure(m, s)
         /\ Exposure(m, s)' <= Exposure(m, s) + Size
<1> DEFINE r == <<i, filled[i] + 1>>
<1>1. rows' = rows \cup {r} /\ r[1] = i
  BY DEF Insert
<1> HIDE DEF r
<1>2. Rows(m, s)' = IF born[i] = <<m, s>> THEN Rows(m, s) \cup {r} ELSE Rows(m, s)
  BY <1>1 DEF Rows
<1>3. IsFiniteSet(Rows(m, s)) /\ Cardinality(Rows(m, s)) \in Nat
  BY Counting DEF Keyed
<1>4. /\ IsFiniteSet(Rows(m, s) \cup {r}) /\ Cardinality(Rows(m, s) \cup {r}) \in Nat
      /\ Cardinality(Rows(m, s) \cup {r}) <= Cardinality(Rows(m, s)) + 1
  <2>1. /\ IsFiniteSet(Rows(m, s) \cup {r})
        /\ Cardinality(Rows(m, s) \cup {r}) = IF r \in Rows(m, s) THEN Cardinality(Rows(m, s))
                                               ELSE Cardinality(Rows(m, s)) + 1
    BY <1>3, FS_AddElement
  <2> QED BY <1>3, <2>1
<1>5. CASE born[i] = <<m, s>>
  <2>1. Exposure(m, s)' = Size * Cardinality(Rows(m, s) \cup {r})
    BY <1>2, <1>5 DEF Exposure
  <2>2. Size * Cardinality(Rows(m, s) \cup {r}) <= Size * (Cardinality(Rows(m, s)) + 1)
    BY <1>3, <1>4, Monotone
  <2>3. Size * (Cardinality(Rows(m, s)) + 1) = Size * Cardinality(Rows(m, s)) + Size
    BY <1>3, Monotone
  <2> QED BY <1>3, <1>4, <1>5, <2>1, <2>2, <2>3, NumbersAssumption DEF Exposure
<1>6. CASE born[i] # <<m, s>>
  <2>1. Exposure(m, s)' = Exposure(m, s)
    BY <1>2, <1>6 DEF Exposure
  <2> QED BY <1>3, <1>6, <2>1, NumbersAssumption DEF Exposure
<1> QED BY <1>5, <1>6

-----------------------------------------------------------------------------
(* Kinds of steps.                                                         *)

\* A tick goes on without touching anything but itself: it looks, skips, stays or leaves.
Turn ==
  /\ UNCHANGED <<memory, table, placed, born, earned, offTick>>
  /\ tick.pc \notin {"filling", "filled"} /\ tick.owe = 0
  /\ tick' \in Tick
  /\ tick'.quote = 0 /\ tick'.owe = 0 /\ ~tick'.put
  /\ tick'.pc \notin {"filling", "filled", "persist", "put"}
  /\ tick'.pc # "idle" => tick'.market \in Markets
  /\ tick'.pc \in {"fill", "place"} => tick'.loop = tick'.pc
  /\ tick'.pc \in {"idle", "gate"} => tick'.loop # "place"
  /\ tick'.loop = "place" =>
       \/ tick.loop = "place" /\ tick'.market = here /\ tick'.halt = tick.halt
       \/ tick'.halt = {s \in Sides : Exposure(tick'.market, s) >= Cap}

Turns ==
  \/ \E m \in Markets, c \in Callers : TickStart(m, c)
  \/ TickNoBook \/ TickLegs \/ FillSkip \/ TickGate \/ TickInventory
  \/ PlaceSkip \/ PlaceKeep \/ SweepSkip

LEMMA Turning == ASSUME TypeOK, TickSound, Turns PROVE Turn
<1> USE DEF Turn, here
<1>0. tick \in Tick
  BY DEF TypeOK
<1>1. ASSUME NEW m \in Markets, NEW c \in Callers, TickStart(m, c) PROVE Turn
  BY <1>1, MarketsAssumption, CallersAssumption DEF TickStart, IdleTick, Tick, Sides, TickSound
<1>2. CASE TickNoBook
  BY <1>2, MarketsAssumption DEF TickNoBook, IdleTick, Tick, Sides, TickSound
<1>3. CASE TickLegs
  <2>1. OpenLegs(here) \subseteq Ids
    BY DEF OpenLegs, Rows, TypeOK
  <2>2. /\ tick.pc = "legs" /\ UNCHANGED <<memory, table, placed, born, earned, offTick>>
        /\ \/ tick' = [tick EXCEPT !.pc = "exit", !.legs = OpenLegs(here)]
           \/ tick' = Loop(tick, "fill")
    BY <1>3 DEF TickLegs
  <2>3. CASE tick' = [tick EXCEPT !.pc = "exit", !.legs = OpenLegs(here)]
    BY <1>0, <2>1, <2>2, <2>3 DEF Tick, TickSound
  <2>4. CASE tick' = Loop(tick, "fill")
    BY <1>0, <2>2, <2>4 DEF Loop, Tick, Sides, TickSound
  <2> QED BY <2>2, <2>3, <2>4
<1>4. ASSUME Stay, tick.pc \in {"fill", "place", "sweep"} PROVE Turn
  BY <1>0, <1>4, Advancing DEF Stay, IdleTick, TickSound
<1>5. CASE TickGate
  <2>1. /\ tick.pc = "gate" /\ UNCHANGED <<memory, table, placed, born, earned, offTick>>
        /\ \/ tick' = Loop(tick, "sweep")
           \/ tick' = IdleTick
           \/ tick' = [tick EXCEPT !.pc = "inventory"]
    BY <1>5 DEF TickGate
  <2>2. CASE tick' = Loop(tick, "sweep")
    BY <1>0, <2>1, <2>2 DEF Loop, Tick, Sides, TickSound
  <2>3. CASE tick' = IdleTick
    BY <2>1, <2>3, MarketsAssumption DEF IdleTick, Tick, Sides, TickSound
  <2>4. CASE tick' = [tick EXCEPT !.pc = "inventory"]
    BY <1>0, <2>1, <2>4 DEF Tick, TickSound
  <2> QED BY <2>1, <2>2, <2>3, <2>4
<1>6. CASE TickInventory
  <2>1. /\ tick.pc = "inventory" /\ UNCHANGED <<memory, table, placed, born, earned, offTick>>
        /\ tick' = [Loop(tick, "place") EXCEPT !.halt = {s \in Sides : Exposure(here, s) >= Cap}]
    BY <1>6 DEF TickInventory
  <2> DEFINE full == {s \in Sides : Exposure(here, s) >= Cap}
  <2>2. full \in SUBSET Sides
    OBVIOUS
  <2> HIDE DEF full
  <2>3. tick' = [[tick EXCEPT !.pc = "place", !.loop = "place", !.side = "YES"] EXCEPT !.halt = full]
    BY <2>1 DEF Loop, full
  <2>4. /\ tick' \in Tick /\ tick'.halt = full /\ tick'.market = here /\ tick'.pc = "place"
        /\ tick'.loop = "place" /\ tick'.quote = tick.quote /\ tick'.owe = tick.owe /\ tick'.put = tick.put
    BY <1>0, <2>2, <2>3 DEF Tick, Sides
  <2> QED BY <2>1, <2>4 DEF TickSound, full
<1> QED BY <1>1, <1>2, <1>3, <1>4, <1>5, <1>6 DEF Turns, FillSkip, PlaceSkip, PlaceKeep, SweepSkip

\* A quote is taken away, and its reward is owed; another may follow where there is room.
Ends(put) ==
  /\ Pop(here, tick.side) /\ UNCHANGED <<table, placed, born, earned, offTick>>
  /\ here \in Markets /\ tick.side \in Sides /\ tick.owe = 0
  /\ tick.pc = "filled" => tick.quote # 0 /\ born[tick.quote] = <<here, tick.side>>
  /\ tick' \in Tick /\ tick'.pc = "persist" /\ tick'.owe = earning[here][tick.side]
  /\ tick'.market = here /\ tick'.side = tick.side /\ tick'.loop = tick.loop
  /\ tick'.halt = tick.halt /\ tick'.quote = 0 /\ tick'.put = put
  /\ tick.pc # "filling"
  /\ put => tick.loop = "place" /\ tick.side \notin tick.halt

LEMMA Ending ==
  ASSUME TypeOK, TickSound, FillCancel \/ PlaceCancel \/ PlaceAgain \/ SweepCancel \/ FillDone
  PROVE  \E put \in BOOLEAN : Ends(put)
<1>0. /\ tick \in Tick /\ here \in Markets /\ tick.side \in Sides
      /\ earning[here][tick.side] \in Ids \cup {0}
  <2>1. tick.pc \in {"fill", "place", "sweep", "filled"}
    BY DEF FillCancel, PlaceCancel, PlaceAgain, SweepCancel, FillDone
  <2>2. tick \in Tick /\ here \in Markets /\ tick.side \in Sides
    BY <2>1 DEF TypeOK, Tick, TickSound
  <2> QED BY <2>2 DEF TypeOK
<1>1. ASSUME NEW put \in BOOLEAN, EndQuote(put), tick.pc \in {"fill", "place", "sweep"},
             put => tick.pc = "place" /\ tick.side \notin tick.halt
      PROVE  Ends(put)
  <2>1. tick' = [tick EXCEPT !.pc = "persist", !.owe = earning[here][tick.side], !.put = put]
    BY <1>1 DEF EndQuote
  <2>2. /\ tick' \in Tick /\ tick'.pc = "persist" /\ tick'.owe = earning[here][tick.side]
        /\ tick'.market = here /\ tick'.side = tick.side /\ tick'.loop = tick.loop
        /\ tick'.halt = tick.halt /\ tick'.quote = tick.quote /\ tick'.put = put
    BY <1>0, <2>1 DEF Tick, here
  <2> QED BY <1>0, <1>1, <2>2 DEF EndQuote, Ends, TickSound
<1>2. CASE FillDone
  <2>1. tick' = [tick EXCEPT !.pc = "persist", !.owe = earning[here][tick.side], !.quote = 0]
    BY <1>2 DEF FillDone
  <2>2. /\ tick' \in Tick /\ tick'.pc = "persist" /\ tick'.owe = earning[here][tick.side]
        /\ tick'.market = here /\ tick'.side = tick.side /\ tick'.loop = tick.loop
        /\ tick'.halt = tick.halt /\ tick'.quote = 0 /\ tick'.put = tick.put
    BY <1>0, <2>1 DEF Tick, here
  <2>3. Ends(FALSE)
    BY <1>0, <1>2, <2>2 DEF FillDone, Ends, TickSound
  <2> QED BY <2>3
<1> QED BY <1>1, <1>2 DEF FillCancel, PlaceCancel, PlaceAgain, SweepCancel

\* The discovery cycle goes on: it starts, looks at a leg, or has its next universe.
DiscTurn ==
  /\ UNCHANGED <<memory, rows, bank, tick, universe, active, stray, cut, offDisc>>
  /\ disc' \in Disc /\ disc'.owe = 0 /\ disc.owe = 0 /\ disc'.todo \subseteq 1..placed
  /\ disc'.pc = "orphan" => disc'.leg \in 1..placed

DiscTurns ==
  \/ DiscStart \/ DiscDropped
  \/ \E i \in Ids : DiscPass(i) \/ DiscPin(i) \/ DiscOrphan(i)
  \/ \E U \in SUBSET Markets : DiscRefresh(U)

LEMMA DiscTurning == ASSUME TypeOK, Keyed, DiscSound, DiscTurns PROVE DiscTurn
<1> USE DEF DiscTurn
<1>0. disc \in Disc
  BY DEF TypeOK
<1>1. CASE DiscStart
  <2>1. {r[1] : r \in rows} \subseteq 1..placed /\ {r[1] : r \in rows} \subseteq Ids
    BY DEF Keyed, TypeOK, Ids
  <2> QED BY <1>0, <1>1, <2>1 DEF DiscStart, IdleDisc, Disc, DiscSound
<1>2. CASE DiscDropped
  BY <1>0, <1>2 DEF DiscDropped, Disc, DiscSound
<1>3. ASSUME NEW i \in Ids, DiscPass(i) PROVE DiscTurn
  BY <1>0, <1>3 DEF DiscPass, Scanning, Disc, DiscSound
<1>4. ASSUME NEW i \in Ids, DiscPin(i) PROVE DiscTurn
  <2>1. MarketOf(i) \in Markets
    BY <1>4 DEF DiscPin, Scanning, DiscSound, Keyed, MarketOf
  <2> QED BY <1>0, <1>4, <2>1 DEF DiscPin, Scanning, Disc, DiscSound
<1>5. ASSUME NEW i \in Ids, DiscOrphan(i) PROVE DiscTurn
  BY <1>0, <1>5 DEF DiscOrphan, Scanning, Disc, DiscSound
<1>6. ASSUME NEW U \in SUBSET Markets, DiscRefresh(U) PROVE DiscTurn
  <2> DEFINE exits == (universe \ U) \X Sides
  <2>1. exits \in SUBSET (Markets \X Sides)
    BY DEF TypeOK
  <2>2. disc' = [disc EXCEPT !.pc = "drop", !.back = "swap", !.next = U, !.drops = exits]
    BY <1>6 DEF DiscRefresh
  <2> HIDE DEF exits
  <2>3. disc' \in Disc /\ disc'.owe = disc.owe /\ disc'.todo = disc.todo /\ disc'.pc = "drop"
    BY <1>0, <2>1, <2>2 DEF Disc
  <2> QED BY <1>6, <2>3 DEF DiscRefresh, DiscSound
<1> QED BY <1>1, <1>2, <1>3, <1>4, <1>5, <1>6 DEF DiscTurns

\* Every step is one of these or one that is named.
LEMMA Kinds ==
  ASSUME TypeOK, Keyed, TickSound, DiscSound, [Next]_vars
  PROVE  \/ Turn \/ DiscTurn \/ \E put \in BOOLEAN : Ends(put)
         \/ TickAccrue \/ TickExitLeg \/ TickPersist \/ FillStart \/ RecordLeg \/ PlaceNew
         \/ DiscOrphanClose \/ (\E m \in Markets, s \in Sides : DiscDrop(m, s))
         \/ DiscPersist \/ DiscSwap
         \/ (\E i \in Ids : StrayRecord(i)) \/ (\E m \in Markets, s \in Sides : QuoteAges(m, s))
         \/ (\E m \in Markets : MarketAges(m)) \/ Crash \/ UNCHANGED vars
BY Turning, DiscTurning, Ending
   DEF Next, TickStep, TickFill, TickPlace, TickSweep, DiscStep, Turns, DiscTurns

-----------------------------------------------------------------------------
(* What the named steps leave behind.                                      *)

\* A reward is buffered for quotes that rest, under their keys.
LEMMA Accruing ==
  ASSUME TypeOK, TickSound, TickAccrue
  PROVE  /\ UNCHANGED <<quotes, table, placed, born, offTick>> /\ here \in Markets
         /\ tick.pc = "scored" /\ tick' \in Tick /\ tick'.pc = "legs" /\ tick'.market = here
         /\ tick'.loop = tick.loop /\ tick'.quote = 0 /\ tick'.owe = 0 /\ ~tick'.put
         /\ tick'.halt = tick.halt
         /\ earning' \in [Markets -> [Sides -> Ids \cup {0}]] /\ earned' \subseteq Ids
         /\ \E band \in SUBSET Sides :
              /\ \A s \in band : quotes[here][s].id # 0
              /\ \A m \in Markets, s \in Sides :
                   earning'[m][s] = IF m = here /\ s \in band THEN quotes[m][s].id ELSE earning[m][s]
              /\ earned' = earned \cup {quotes[here][s].id : s \in band}
<1>1. here \in Markets /\ tick \in Tick /\ tick.quote = 0 /\ tick.owe = 0 /\ ~tick.put
  BY DEF TickAccrue, TickSound, TypeOK
<1>2. PICK band \in SUBSET {s \in Sides : quotes[here][s].id # 0} :
        /\ earning' = [earning EXCEPT ![here] =
                         [s \in Sides |-> IF s \in band THEN quotes[here][s].id ELSE earning[here][s]]]
        /\ earned' = earned \cup {quotes[here][s].id : s \in band}
  BY DEF TickAccrue
<1>3. \A s \in band : quotes[here][s].id \in Ids
  BY <1>1, <1>2 DEF TypeOK
<1>4. [s \in Sides |-> IF s \in band THEN quotes[here][s].id ELSE earning[here][s]] \in [Sides -> Ids \cup {0}]
  BY <1>1, <1>3 DEF TypeOK
<1>5. /\ earning' \in [Markets -> [Sides -> Ids \cup {0}]]
      /\ \A m \in Markets, s \in Sides :
           earning'[m][s] = IF m = here /\ s \in band THEN quotes[m][s].id ELSE earning[m][s]
  BY <1>1, <1>2, <1>4 DEF TypeOK
<1>6. earned' \subseteq Ids
  BY <1>2, <1>3 DEF TypeOK
<1> DEFINE close == phase[here] \in {"force", "expired"}
<1>7. /\ tick' = [tick EXCEPT !.pc = "legs", !.near = close]
      /\ tick.pc = "scored" /\ UNCHANGED <<quotes, table, placed, born, offTick>>
  BY DEF TickAccrue
<1>0. close \in BOOLEAN
  OBVIOUS
<1> HIDE DEF close
<1>8. /\ tick' \in Tick /\ tick'.pc = "legs" /\ tick'.market = here /\ tick'.loop = tick.loop
      /\ tick'.quote = tick.quote /\ tick'.owe = tick.owe /\ tick'.put = tick.put /\ tick'.halt = tick.halt
  BY <1>0, <1>1, <1>7 DEF Tick, here
<1> QED BY <1>1, <1>2, <1>5, <1>6, <1>7, <1>8

\* What is owed is written, and the tick goes on or puts the new quote.
LEMMA Persisting ==
  ASSUME TypeOK, TickSound, TickPersist
  PROVE  /\ UNCHANGED <<memory, rows, filled, placed, born, earned, offTick>> /\ here \in Markets
         /\ bank' \in [Ids -> Nat] /\ tick.quote = 0
         /\ \A i \in Ids : bank'[i] = IF i = tick.owe THEN bank[i] + 1 ELSE bank[i]
         /\ tick' \in Tick /\ tick'.quote = 0 /\ tick'.owe = 0 /\ ~tick'.put
         /\ tick'.pc \in {"put", "fill", "place", "sweep", "gate", "idle"}
         /\ tick'.pc # "idle" => tick'.market = here /\ tick'.loop = tick.loop /\ tick'.halt = tick.halt
         /\ tick'.pc \in {"fill", "place"} => tick'.loop = tick'.pc
         /\ tick'.pc \in {"idle", "gate"} => tick'.loop # "place"
         /\ tick'.pc = "put" => tick.put /\ tick'.side = tick.side
<1>1. /\ here \in Markets /\ tick \in Tick /\ tick.quote = 0 /\ tick.pc = "persist"
      /\ tick.owe \in Ids \cup {0} /\ bank \in [Ids -> Nat] /\ 0 \notin Ids
  BY DEF TickPersist, TickSound, TypeOK, Tick, Ids
<1>2. bank' \in [Ids -> Nat] /\ \A i \in Ids : bank'[i] = IF i = tick.owe THEN bank[i] + 1 ELSE bank[i]
  BY <1>1 DEF TickPersist
<1> DEFINE t == [tick EXCEPT !.owe = 0]
<1>3. /\ t \in Tick /\ t.owe = 0 /\ t.quote = 0 /\ t.put = tick.put /\ t.market = here /\ t.pc = "persist"
      /\ t.loop = tick.loop /\ t.halt = tick.halt /\ t.side = tick.side
  BY <1>1 DEF Tick, here
<1>4. tick' = IF t.put THEN [t EXCEPT !.pc = "put", !.put = FALSE] ELSE Advance(t)
  BY DEF TickPersist
<1> HIDE DEF t
<1>5. CASE t.put
  <2>1. /\ tick' \in Tick /\ tick'.quote = t.quote /\ tick'.owe = t.owe /\ ~tick'.put /\ tick'.pc = "put"
        /\ tick'.market = t.market /\ tick'.loop = t.loop /\ tick'.halt = t.halt /\ tick'.side = t.side
    BY <1>3, <1>4, <1>5 DEF Tick
  <2> QED BY <1>1, <1>2, <1>3, <1>5, <2>1 DEF TickPersist
<1>6. CASE ~t.put
  <2>1. tick' = Advance(t)
    BY <1>4, <1>6
  <2>2. IdleTick.quote = 0 /\ IdleTick.owe = 0 /\ ~IdleTick.put /\ IdleTick.loop = "fill"
    BY DEF IdleTick
  <2> QED BY <1>1, <1>2, <1>3, <1>6, <2>1, <2>2, Advancing DEF TickPersist
<1> QED BY <1>5, <1>6

\* A new quote has a number of its own.
LEMMA Putting ==
  ASSUME TypeOK, TickSound, PlaceNew
  PROVE  /\ UNCHANGED <<table, earned, offTick>> /\ here \in Markets /\ tick.side \in Sides
         /\ tick.pc \in {"place", "put"} /\ tick.loop = "place" /\ tick.side \notin tick.halt
         /\ tick.owe = 0 /\ tick.quote = 0 /\ quotes[here][tick.side].id = 0
         /\ placed' = placed + 1 /\ placed + 1 \in Ids /\ placed' \in 0..MaxQuotes
         /\ born' \in [Ids -> (Markets \cup {NoMarket}) \X Sides]
         /\ \A i \in Ids : born'[i] = IF i = placed + 1 THEN <<here, tick.side>> ELSE born[i]
         /\ quotes' \in [Markets -> [Sides -> [id : Ids \cup {0}, age : Age]]]
         /\ earning' \in [Markets -> [Sides -> Ids \cup {0}]]
         /\ \A m \in Markets, s \in Sides :
              /\ quotes'[m][s].id = IF m = here /\ s = tick.side THEN placed + 1 ELSE quotes[m][s].id
              /\ earning'[m][s] = IF m = here /\ s = tick.side THEN 0 ELSE earning[m][s]
         /\ tick' \in Tick /\ tick'.quote = 0 /\ tick'.owe = 0 /\ ~tick'.put
         /\ tick'.pc \in {"place", "idle"}
         /\ tick'.pc = "place" => tick'.market = here /\ tick'.loop = "place" /\ tick'.halt = tick.halt
         /\ tick'.pc = "idle" => tick'.loop = "fill"
<1>1. /\ here \in Markets /\ tick \in Tick /\ tick.quote = 0 /\ tick.owe = 0 /\ ~tick.put
      /\ tick.loop = "place" /\ tick.side \notin tick.halt /\ tick.pc \in {"place", "put"}
      /\ quotes[here][tick.side].id = 0
  BY DEF PlaceNew, TickSound, TypeOK, resting
<1>2. /\ placed < MaxQuotes /\ placed' = placed + 1 /\ tick' = Advance(tick)
      /\ born' = [born EXCEPT ![placed + 1] = <<here, tick.side>>]
      /\ quotes' = [quotes EXCEPT ![here][tick.side] = [id |-> placed + 1, age |-> "young"]]
      /\ earning' = [earning EXCEPT ![here][tick.side] = 0]
      /\ UNCHANGED <<table, earned, offTick>>
  BY DEF PlaceNew, PutQuote
<1>3. placed + 1 \in Ids /\ placed' \in 0..MaxQuotes /\ tick.side \in Sides
  BY <1>1, <1>2, NumbersAssumption DEF Ids, TypeOK, Tick
<1>4. [id |-> placed + 1, age |-> "young"] \in [id : Ids \cup {0}, age : Age]
  BY <1>3 DEF Age
<1>5. /\ quotes' \in [Markets -> [Sides -> [id : Ids \cup {0}, age : Age]]]
      /\ \A m \in Markets, s \in Sides :
           quotes'[m][s].id = IF m = here /\ s = tick.side THEN placed + 1 ELSE quotes[m][s].id
  BY <1>1, <1>2, <1>3, <1>4 DEF TypeOK
<1>6. /\ earning' \in [Markets -> [Sides -> Ids \cup {0}]]
      /\ \A m \in Markets, s \in Sides :
           earning'[m][s] = IF m = here /\ s = tick.side THEN 0 ELSE earning[m][s]
  BY <1>1, <1>2, <1>3 DEF TypeOK
<1>7. /\ born' \in [Ids -> (Markets \cup {NoMarket}) \X Sides]
      /\ \A i \in Ids : born'[i] = IF i = placed + 1 THEN <<here, tick.side>> ELSE born[i]
  BY <1>1, <1>2, <1>3 DEF TypeOK
<1>8. /\ tick' \in Tick /\ tick'.quote = 0 /\ tick'.owe = 0 /\ ~tick'.put
      /\ tick'.pc \in {"place", "idle"}
      /\ tick'.pc = "place" => tick'.market = here /\ tick'.loop = "place" /\ tick'.halt = tick.halt
      /\ tick'.pc = "idle" => tick'.loop = "fill"
  <2>1. IdleTick.quote = 0 /\ IdleTick.owe = 0 /\ ~IdleTick.put /\ IdleTick.loop = "fill"
    BY DEF IdleTick
  <2> QED BY <1>1, <1>2, <2>1, Advancing DEF here
<1> QED BY <1>1, <1>2, <1>3, <1>5, <1>6, <1>7, <1>8

\* The cycle ends; a tick of the subscriber may end with it, and what it was filling or
\* owed is cut short.
LEMMA Swapping ==
  ASSUME TypeOK, TickSound, DiscSound, DiscSwap
  PROVE  /\ UNCHANGED <<memory, rows, offDisc>> /\ universe' \subseteq Markets /\ active' \subseteq Markets
         /\ disc' = IdleDisc /\ disc.owe = 0
         /\ \/ UNCHANGED <<tick, cut, stray, bank>>
            \/ /\ tick' = IdleTick /\ cut' = cut \cup ({tick.owe, tick.quote} \ {0})
               /\ tick.owe \in Ids \cup {0} /\ tick.quote \in Ids \cup {0}
               /\ stray' \in [Ids -> Nat] /\ bank' \in [Ids -> Nat]
               /\ \A i \in Ids : stray'[i] # stray[i] => i = tick.quote
               /\ \A i \in Ids : bank'[i] # bank[i] => i = tick.owe
<1>1. /\ UNCHANGED <<memory, rows, offDisc>> /\ universe' \subseteq Markets /\ active' \subseteq Markets
      /\ disc' = IdleDisc /\ disc.owe = 0
  BY DEF DiscSwap, TypeOK, Disc, DiscSound
<1>2. CASE CancelTick
  <2>1. /\ tick.owe \in Ids \cup {0} /\ tick.quote \in Ids \cup {0} /\ 0 \notin Ids
        /\ tick.quote # 0 <=> tick.pc \in {"filling", "filled"}
    BY DEF TypeOK, Tick, Ids, TickSound
  <2>2. cut' = cut \cup ({tick.owe, tick.quote} \ {0})
    BY <1>2, <2>1 DEF CancelTick
  <2>3. stray' \in [Ids -> Nat] /\ \A i \in Ids : stray'[i] # stray[i] => i = tick.quote
    <3>1. \/ stray' = stray
          \/ tick.pc = "filling" /\ stray' = [stray EXCEPT ![tick.quote] = stray[tick.quote] + 1]
      BY <1>2 DEF CancelTick
    <3>2. stray \in [Ids -> Nat]
      BY DEF TypeOK
    <3>3. CASE stray' = stray
      BY <3>2, <3>3
    <3>4. CASE tick.pc = "filling" /\ stray' = [stray EXCEPT ![tick.quote] = stray[tick.quote] + 1]
      <4>1. tick.quote \in Ids
        BY <2>1, <3>4
      <4> QED BY <3>2, <3>4, <4>1
    <3> QED BY <3>1, <3>3, <3>4
  <2>4. bank' \in [Ids -> Nat] /\ \A i \in Ids : bank'[i] # bank[i] => i = tick.owe
    <3>1. \/ bank' = bank
          \/ tick.owe # 0 /\ bank' = [bank EXCEPT ![tick.owe] = @ + 1]
      BY <1>2 DEF CancelTick
    <3> QED BY <2>1, <3>1 DEF TypeOK
  <2> QED BY <1>1, <1>2, <2>1, <2>2, <2>3, <2>4 DEF CancelTick
<1>3. CASE UNCHANGED <<tick, cut, stray, bank>>
  BY <1>1, <1>3
<1> QED BY <1>2, <1>3 DEF DiscSwap

\* The discovery cycle takes the quote of a key away and owes its reward.
LEMMA Dropping ==
  ASSUME TypeOK, DiscSound, NEW m \in Markets, NEW s \in Sides, DiscDrop(m, s)
  PROVE  /\ UNCHANGED <<rows, bank, tick, universe, active, stray, cut, offDisc>> /\ Pop(m, s)
         /\ disc.owe = 0 /\ disc' \in Disc /\ disc'.owe = earning[m][s] /\ disc'.todo = disc.todo
         /\ disc'.pc \in {"drop", "persist"} /\ (quotes[m][s].id # 0 => disc'.pc = "persist")
<1> DEFINE pc == IF quotes[m][s].id = 0 THEN "drop" ELSE "persist"
<1>1. /\ disc \in Disc /\ earning[m][s] \in Ids \cup {0} /\ disc.drops \in SUBSET (Markets \X Sides)
      /\ disc.owe = 0
  BY DEF TypeOK, Disc, DiscDrop, DiscSound
<1>2. disc' = [disc EXCEPT !.drops = disc.drops \ {<<m, s>>}, !.owe = earning[m][s], !.pc = pc]
  BY DEF DiscDrop
<1>3. pc \in {"drop", "persist"} /\ (quotes[m][s].id # 0 => pc = "persist")
  OBVIOUS
<1> DEFINE left == disc.drops \ {<<m, s>>}
<1>4. left \in SUBSET (Markets \X Sides)
  BY <1>1
<1> HIDE DEF pc, left
<1>5. disc' = [disc EXCEPT !.drops = left, !.owe = earning[m][s], !.pc = pc]
  BY <1>2 DEF left
<1>6. /\ disc' \in Disc /\ disc'.owe = earning[m][s] /\ disc'.todo = disc.todo /\ disc'.pc = pc
  BY <1>1, <1>3, <1>4, <1>5 DEF Disc
<1> QED BY <1>1, <1>3, <1>6 DEF DiscDrop

\* The reward the discovery cycle owes is written.
LEMMA DiscPersisting ==
  ASSUME TypeOK, DiscPersist
  PROVE  /\ UNCHANGED <<memory, rows, tick, universe, active, stray, cut, offDisc>>
         /\ bank' \in [Ids -> Nat] /\ disc.owe \in Ids \cup {0}
         /\ \A i \in Ids : bank'[i] = IF i = disc.owe THEN bank[i] + 1 ELSE bank[i]
         /\ disc' \in Disc /\ disc'.owe = 0 /\ disc'.todo = disc.todo /\ disc'.pc = "drop"
<1>1. disc \in Disc /\ disc.owe \in Ids \cup {0} /\ bank \in [Ids -> Nat] /\ 0 \notin Ids
  BY DEF TypeOK, Disc, Ids
<1>2. bank' \in [Ids -> Nat] /\ \A i \in Ids : bank'[i] = IF i = disc.owe THEN bank[i] + 1 ELSE bank[i]
  BY <1>1 DEF DiscPersist
<1>3. disc' \in Disc /\ disc'.owe = 0 /\ disc'.todo = disc.todo /\ disc'.pc = "drop"
  BY <1>1 DEF DiscPersist, Disc
<1> QED BY <1>1, <1>2, <1>3 DEF DiscPersist

\* Closing a leg takes its rows away; nothing else that is counted changes.
LEMMA Closing ==
  ASSUME TypeOK, Keyed, TickSound, DiscSound, TickExitLeg \/ DiscOrphanClose
  PROVE  /\ UNCHANGED <<memory, filled, bank, placed, born, earned, universe, active, phase, stray,
                       crashes, cut>>
         /\ rows' \subseteq rows /\ tick' \in Tick /\ disc' \in Disc
         /\ \/ tick' = tick /\ disc.owe = 0 /\ disc'.owe = 0
               /\ disc'.todo = disc.todo /\ disc'.pc = "drop"
            \/ /\ disc' = disc /\ tick'.quote = tick.quote /\ tick'.owe = tick.owe /\ tick'.put = tick.put
               /\ tick.pc = "exit" /\ tick'.pc \in {"exit", "sweep"} /\ tick'.market = here
               /\ (tick'.loop = tick.loop \/ tick'.loop = "sweep") /\ tick'.halt = tick.halt
<1>0. tick \in Tick /\ disc \in Disc
  BY DEF TypeOK
<1>1. CASE TickExitLeg
  <2>1. tick.pc = "exit" /\ UNCHANGED <<memory, filled, bank, placed, born, earned, offTick>>
    BY <1>1 DEF TickExitLeg
  <2>2. CASE tick' = Loop(tick, "sweep") /\ UNCHANGED rows
    BY <1>0, <2>1, <2>2 DEF Loop, Tick, Sides, here, offTick
  <2>3. ASSUME NEW i \in tick.legs, Close(i), tick' = [tick EXCEPT !.legs = @ \ {i}]
        PROVE  /\ rows' \subseteq rows /\ tick' \in Tick
               /\ tick'.quote = tick.quote /\ tick'.owe = tick.owe /\ tick'.put = tick.put
               /\ tick'.pc = "exit" /\ tick'.market = here
               /\ tick'.loop = tick.loop /\ tick'.halt = tick.halt
    BY <1>0, <2>1, <2>3 DEF Close, Tick, here
  <2> QED BY <1>0, <1>1, <2>1, <2>2, <2>3 DEF TickExitLeg, offTick
<1>2. CASE DiscOrphanClose
  <2> DEFINE keys == {MarketOf(disc.leg)} \X Sides
  <2>1. keys \in SUBSET (Markets \X Sides)
    BY <1>2 DEF DiscOrphanClose, DiscSound, Keyed, MarketOf
  <2>2. disc' = [disc EXCEPT !.pc = "drop", !.back = "scan", !.leg = 0, !.drops = keys]
    BY <1>2 DEF DiscOrphanClose
  <2> HIDE DEF keys
  <2>3. disc' \in Disc /\ disc'.owe = disc.owe /\ disc'.todo = disc.todo /\ disc'.pc = "drop"
    BY <1>0, <2>1, <2>2 DEF Disc
  <2> QED BY <1>0, <1>2, <2>3 DEF DiscOrphanClose, Close, offDisc, DiscSound
<1> QED BY <1>1, <1>2

\* The insert of a fill starts, and is done; a detached one is done later.
LEMMA Filling ==
  ASSUME TypeOK, TickSound, FillStart
  PROVE  /\ UNCHANGED <<memory, table, placed, born, earned, offTick>> /\ here \in Markets /\ tick.side \in Sides
         /\ tick.pc = "fill" /\ resting.id # 0 /\ resting.id \in Ids /\ tick.loop = "fill" /\ tick.owe = 0
         /\ tick' \in Tick /\ tick'.pc = "filling" /\ tick'.quote = resting.id /\ tick'.owe = 0
         /\ ~tick'.put /\ tick'.market = here /\ tick'.side = tick.side /\ tick'.loop = "fill"
<1>1. /\ here \in Markets /\ tick.side \in Sides /\ tick \in Tick /\ tick.pc = "fill" /\ tick.loop = "fill"
      /\ tick.owe = 0 /\ ~tick.put /\ resting.id # 0
  BY DEF FillStart, TickSound, TypeOK, Tick
<1>2. resting.id \in Ids
  BY <1>1 DEF TypeOK, resting
<1>3. tick' = [tick EXCEPT !.pc = "filling", !.quote = resting.id]
  BY DEF FillStart
<1> DEFINE q == resting.id
<1> HIDE DEF q
<1>4. q \in Ids /\ tick' = [tick EXCEPT !.pc = "filling", !.quote = q]
  BY <1>2, <1>3 DEF q
<1>5. /\ tick' \in Tick /\ tick'.pc = "filling" /\ tick'.quote = q /\ tick'.owe = tick.owe
      /\ tick'.put = tick.put /\ tick'.market = here /\ tick'.side = tick.side /\ tick'.loop = tick.loop
  BY <1>1, <1>4 DEF Tick, here
<1> QED BY <1>1, <1>2, <1>5 DEF FillStart, q

LEMMA Recording ==
  ASSUME TypeOK, TickSound, RecordLeg
  PROVE  /\ UNCHANGED <<memory, bank, placed, born, earned, offTick>> /\ Insert(tick.quote)
         /\ here \in Markets /\ tick.side \in Sides /\ tick.pc = "filling" /\ tick.quote \in Ids
         /\ tick.loop = "fill" /\ tick.owe = 0
         /\ tick' \in Tick /\ tick'.pc = "filled" /\ tick'.quote = tick.quote /\ tick'.owe = 0
         /\ ~tick'.put /\ tick'.market = here /\ tick'.side = tick.side /\ tick'.loop = "fill"
<1>1. /\ here \in Markets /\ tick.side \in Sides /\ tick \in Tick /\ tick.pc = "filling" /\ tick.loop = "fill"
      /\ tick.owe = 0 /\ ~tick.put /\ tick.quote \in Ids
  BY DEF RecordLeg, TickSound, TypeOK, Tick
<1>2. tick' = [tick EXCEPT !.pc = "filled"]
  BY DEF RecordLeg
<1>3. /\ tick' \in Tick /\ tick'.pc = "filled" /\ tick'.quote = tick.quote /\ tick'.owe = tick.owe
      /\ tick'.put = tick.put /\ tick'.market = here /\ tick'.side = tick.side /\ tick'.loop = tick.loop
  BY <1>1, <1>2 DEF Tick, here
<1> QED BY <1>1, <1>3 DEF RecordLeg

LEMMA Inserting ==
  ASSUME TypeOK, NEW i \in Ids, Insert(i)
  PROVE  /\ rows' \subseteq Ids \X Nat /\ filled' \in [Ids -> Nat]
         /\ \A j \in Ids : filled'[j] = IF j = i THEN filled[j] + 1 ELSE filled[j]
         /\ \A r \in rows' : r \in rows \/ r[1] = i
         /\ IsFiniteSet(rows) => IsFiniteSet(rows')
<1>1. filled[i] \in Nat /\ filled' = [filled EXCEPT ![i] = @ + 1] /\ rows' = rows \cup {<<i, filled[i] + 1>>}
  BY DEF Insert, TypeOK
<1>2. filled' \in [Ids -> Nat] /\ \A j \in Ids : filled'[j] = IF j = i THEN filled[j] + 1 ELSE filled[j]
  BY <1>1 DEF TypeOK
<1>3. rows' \subseteq Ids \X Nat /\ \A r \in rows' : r \in rows \/ r[1] = i
  BY <1>1 DEF TypeOK
<1>4. IsFiniteSet(rows) => IsFiniteSet(rows')
  BY <1>1, FS_AddElement
<1> QED BY <1>2, <1>3, <1>4

\* A quote grows too old where it rests.
LEMMA Aging ==
  ASSUME TypeOK, NEW m \in Markets, NEW s \in Sides, QuoteAges(m, s)
  PROVE  /\ UNCHANGED <<earning, placed, born, table, tick, disc, universe, active, phase, stray,
                       crashes, earned, cut>>
         /\ quotes' \in [Markets -> [Sides -> [id : Ids \cup {0}, age : Age]]]
         /\ \A n \in Markets, u \in Sides : quotes'[n][u].id = quotes[n][u].id
<1> DEFINE q == [quotes[m][s] EXCEPT !.age = "old"]
<1>1. quotes[m][s] \in [id : Ids \cup {0}, age : Age]
  BY DEF TypeOK
<1>2. q \in [id : Ids \cup {0}, age : Age] /\ q.id = quotes[m][s].id
  BY <1>1 DEF Age
<1>3. quotes' = [quotes EXCEPT ![m][s] = q]
  BY DEF QuoteAges
<1> HIDE DEF q
<1>4. quotes' \in [Markets -> [Sides -> [id : Ids \cup {0}, age : Age]]]
  BY <1>2, <1>3 DEF TypeOK
<1>5. \A n \in Markets, u \in Sides : quotes'[n][u].id = quotes[n][u].id
  BY <1>2, <1>3 DEF TypeOK
<1> QED BY <1>4, <1>5 DEF QuoteAges

-----------------------------------------------------------------------------
(* The steps keep the shapes, the keys, and what the actors know.          *)

LEMMA Idles == IdleTick \in Tick /\ IdleDisc \in Disc /\ NoQuote \in [id : Ids \cup {0}, age : Age]
<1>1. IdleTick \in Tick
  BY MarketsAssumption DEF IdleTick, Tick, Sides
<1>2. IdleDisc \in Disc
  BY DEF IdleDisc, Disc
<1>3. NoQuote \in [id : Ids \cup {0}, age : Age]
  BY DEF NoQuote, Age
<1> QED BY <1>1, <1>2, <1>3

LEMMA NextTyped ==
  ASSUME TypeOK, Keyed, TickSound, DiscSound, [Next]_vars
  PROVE  TypeOK'
<1> USE DEF memory, table, offTick, offDisc
<1>1. CASE Turn
  BY <1>1 DEF TypeOK, Turn
<1>2. CASE DiscTurn
  BY <1>2 DEF TypeOK, DiscTurn
<1>3. ASSUME NEW put \in BOOLEAN, Ends(put) PROVE TypeOK'
  <2>1. here \in Markets /\ tick.side \in Sides /\ Pop(here, tick.side) /\ tick' \in Tick
        /\ UNCHANGED <<table, placed, born, earned, offTick>>
    BY <1>3 DEF Ends
  <2> QED BY <2>1, Popping DEF TypeOK
<1>4. CASE TickAccrue
  BY <1>4, Accruing DEF TypeOK
<1>5. CASE TickExitLeg \/ DiscOrphanClose
  BY <1>5, Closing DEF TypeOK
<1>6. CASE TickPersist
  BY <1>6, Persisting DEF TypeOK
<1>7. CASE FillStart
  BY <1>7, Filling DEF TypeOK
<1>8. CASE RecordLeg
  <2>1. /\ tick.quote \in Ids /\ Insert(tick.quote) /\ tick' \in Tick
        /\ UNCHANGED <<memory, bank, placed, born, earned, offTick>>
    BY <1>8, Recording
  <2> QED BY <2>1, Inserting DEF TypeOK
<1>9. CASE PlaceNew
  BY <1>9, Putting DEF TypeOK
<1>10. ASSUME NEW m \in Markets, NEW s \in Sides, DiscDrop(m, s) PROVE TypeOK'
  <2>1. /\ UNCHANGED <<rows, bank, tick, universe, active, stray, cut, offDisc>>
        /\ Pop(m, s) /\ disc' \in Disc
    BY <1>10, Dropping
  <2> QED BY <2>1, Popping DEF TypeOK
<1>11. CASE DiscPersist
  BY <1>11, DiscPersisting DEF TypeOK
<1>12. CASE DiscSwap
  <2>1. cut \cup ({tick.owe, tick.quote} \ {0}) \subseteq Ids \/ ~(tick.owe \in Ids \cup {0} /\ tick.quote \in Ids \cup {0})
    BY DEF TypeOK
  <2> QED BY <1>12, <2>1, Swapping, Idles DEF TypeOK
<1>13. ASSUME NEW i \in Ids, StrayRecord(i) PROVE TypeOK'
  <2>1. stray' \in [Ids -> Nat]
    BY <1>13 DEF StrayRecord, TypeOK
  <2> QED BY <1>13, <2>1, Inserting DEF StrayRecord, TypeOK
<1>14. ASSUME NEW m \in Markets, NEW s \in Sides, QuoteAges(m, s) PROVE TypeOK'
  BY <1>14, Aging DEF TypeOK
<1>15. ASSUME NEW m \in Markets, MarketAges(m) PROVE TypeOK'
  <2>1. phase' \in [Markets -> Span]
    BY <1>15 DEF MarketAges, TypeOK, Span
  <2> QED BY <1>15, <2>1 DEF MarketAges, TypeOK
<1>16. CASE Crash
  <2>1. /\ quotes' \in [Markets -> [Sides -> [id : Ids \cup {0}, age : Age]]]
        /\ earning' \in [Markets -> [Sides -> Ids \cup {0}]]
    BY <1>16, Idles DEF Crash
  <2>2. crashes' \in Nat /\ stray' \in [Ids -> Nat] /\ cut' \subseteq Ids
    BY <1>16 DEF Crash, TypeOK
  <2> QED BY <1>16, <2>1, <2>2, Idles DEF Crash, TypeOK
<1>17. CASE UNCHANGED vars
  BY <1>17 DEF vars, TypeOK
<1> QED BY Kinds, <1>1, <1>2, <1>3, <1>4, <1>5, <1>6, <1>7, <1>8, <1>9, <1>10, <1>11, <1>12, <1>13,
           <1>14, <1>15, <1>16, <1>17

LEMMA NextKeyed ==
  ASSUME TypeOK, Keyed, TickSound, DiscSound, [Next]_vars
  PROVE  Keyed'
<1> USE DEF memory, table, offTick, offDisc
<1>0. placed \in Nat
  BY NumbersAssumption DEF TypeOK
<1>1. CASE Turn
  BY <1>1 DEF Keyed, Turn
<1>2. CASE DiscTurn
  BY <1>2 DEF Keyed, DiscTurn
<1>3. ASSUME NEW m \in Markets, NEW s \in Sides, Pop(m, s),
             UNCHANGED <<placed, born, rows, filled, stray, cut, earned>>
      PROVE  Keyed'
  <2>1. \A n \in Markets, u \in Sides :
          /\ quotes'[n][u].id = IF n = m /\ u = s THEN 0 ELSE quotes[n][u].id
          /\ earning'[n][u] = IF n = m /\ u = s THEN 0 ELSE earning[n][u]
    BY <1>3, Popping
  <2>2. \A n \in Markets, u \in Sides :
          /\ quotes'[n][u].id # 0 => quotes'[n][u].id <= placed /\ born[quotes'[n][u].id] = <<n, u>>
          /\ earning'[n][u] \in {0, quotes'[n][u].id}
    <3> TAKE n \in Markets, u \in Sides
    <3>1. /\ quotes[n][u].id # 0 => quotes[n][u].id <= placed /\ born[quotes[n][u].id] = <<n, u>>
          /\ earning[n][u] \in {0, quotes[n][u].id}
      BY DEF Keyed
    <3>2. CASE n = m /\ u = s
      <4>1. quotes'[n][u].id = 0 /\ earning'[n][u] = 0
        BY <2>1, <3>2
      <4> QED BY <4>1
    <3>3. CASE ~(n = m /\ u = s)
      <4>1. quotes'[n][u].id = quotes[n][u].id /\ earning'[n][u] = earning[n][u]
        BY <2>1, <3>3
      <4> QED BY <3>1, <4>1
    <3> QED BY <3>2, <3>3
  <2> QED BY <1>3, <2>2 DEF Keyed
<1>4. CASE TickAccrue
  <2>1. PICK band \in SUBSET Sides :
          /\ \A s \in band : quotes[here][s].id # 0
          /\ \A m \in Markets, s \in Sides :
               earning'[m][s] = IF m = here /\ s \in band THEN quotes[m][s].id ELSE earning[m][s]
          /\ earned' = earned \cup {quotes[here][s].id : s \in band}
    BY <1>4, Accruing
  <2>2. here \in Markets /\ UNCHANGED <<quotes, table, placed, born, offTick>> /\ earned' \subseteq Ids
    BY <1>4, Accruing
  <2>3. earned' \subseteq 1..placed
    BY <1>0, <2>1, <2>2 DEF Keyed, Ids
  <2> QED BY <2>1, <2>2, <2>3 DEF Keyed
<1>5. CASE TickExitLeg \/ DiscOrphanClose
  <2>1. IsFiniteSet(rows) => IsFiniteSet(rows')
    BY <1>5, Closing, FS_Subset
  <2> QED BY <1>5, <2>1, Closing DEF Keyed
<1>6. CASE TickPersist
  BY <1>6, Persisting DEF Keyed
<1>7. CASE FillStart
  BY <1>7, Filling DEF Keyed
<1>8. ASSUME NEW i \in Ids, Insert(i), i <= placed,
             UNCHANGED <<quotes, earning, placed, born, cut, earned>>,
             \A j \in Ids : stray'[j] > 0 => j \in cut
      PROVE  Keyed'
  <2>1. /\ \A j \in Ids : filled'[j] = IF j = i THEN filled[j] + 1 ELSE filled[j]
        /\ \A r \in rows' : r \in rows \/ r[1] = i
        /\ IsFiniteSet(rows')
    BY <1>8, Inserting DEF Keyed
  <2> QED BY <1>8, <2>1 DEF Keyed
<1>9. CASE PlaceNew
  <2>1. /\ UNCHANGED <<table, earned, offTick>> /\ here \in Markets /\ tick.side \in Sides
        /\ placed' = placed + 1
        /\ \A i \in Ids : born'[i] = IF i = placed + 1 THEN <<here, tick.side>> ELSE born[i]
        /\ \A m \in Markets, s \in Sides :
             /\ quotes'[m][s].id = IF m = here /\ s = tick.side THEN placed + 1 ELSE quotes[m][s].id
             /\ earning'[m][s] = IF m = here /\ s = tick.side THEN 0 ELSE earning[m][s]
    BY <1>9, Putting
  <2>2. \A m \in Markets, s \in Sides : quotes[m][s].id \in Ids \cup {0}
    BY DEF TypeOK
  <2>3. placed + 1 \in Ids
    BY <1>9, Putting
  <2>4. \A m \in Markets, s \in Sides :
          /\ quotes'[m][s].id # 0 => quotes'[m][s].id <= placed' /\ born'[quotes'[m][s].id] = <<m, s>>
          /\ earning'[m][s] \in {0, quotes'[m][s].id}
    <3> TAKE m \in Markets, s \in Sides
    <3>1. CASE m = here /\ s = tick.side
      <4>1. quotes'[m][s].id = placed + 1 /\ earning'[m][s] = 0 /\ born'[placed + 1] = <<m, s>>
        BY <2>1, <2>3, <3>1
      <4> QED BY <1>0, <2>1, <4>1
    <3>2. CASE ~(m = here /\ s = tick.side)
      <4>1. quotes'[m][s].id = quotes[m][s].id /\ earning'[m][s] = earning[m][s]
        BY <2>1, <3>2
      <4>2. quotes[m][s].id # 0 => quotes[m][s].id \in Ids /\ quotes[m][s].id <= placed
                                   /\ born[quotes[m][s].id] = <<m, s>>
        BY <2>2 DEF Keyed
      <4>3. earning[m][s] \in {0, quotes[m][s].id}
        BY DEF Keyed
      <4>4. ASSUME quotes[m][s].id # 0
            PROVE  quotes[m][s].id <= placed + 1 /\ born'[quotes[m][s].id] = <<m, s>>
        <5>1. quotes[m][s].id \in Ids /\ quotes[m][s].id # placed + 1
          BY <1>0, <4>2, <4>4 DEF Ids
        <5> QED BY <1>0, <2>1, <4>2, <4>4, <5>1 DEF Ids
      <4> QED BY <2>1, <4>1, <4>3, <4>4
    <3> QED BY <3>1, <3>2
  <2>5. \A i \in 1..placed' : born'[i] \in Markets \X Sides
    <3> TAKE i \in 1..placed'
    <3>1. CASE i = placed + 1
      BY <2>1, <2>3, <3>1
    <3>2. CASE i # placed + 1
      <4>1. i \in 1..placed /\ i \in Ids
        <5>1. i \in 1..(placed + 1)
          BY <2>1
        <5> QED BY <1>0, <2>3, <3>2, <5>1, NumbersAssumption DEF Ids
      <4> QED BY <2>1, <3>2, <4>1 DEF Keyed
    <3> QED BY <3>1, <3>2
  <2>6. \A r \in rows : r[1] <= placed + 1
    <3> TAKE r \in rows
    <3>1. r[1] \in Ids /\ r[1] <= placed
      BY DEF TypeOK, Keyed
    <3> QED BY <1>0, <3>1 DEF Ids
  <2>7. cut \cup earned \subseteq 1..(placed + 1)
    BY <1>0 DEF Keyed
  <2>8. \A i \in Ids : (filled[i] > 0 => i <= placed + 1) /\ (stray[i] > 0 => i \in cut)
    BY <1>0 DEF Keyed, Ids
  <2>9. UNCHANGED <<rows, cut, earned, filled, stray>> /\ IsFiniteSet(rows)
    BY <2>1 DEF Keyed
  <2> QED BY <2>1, <2>4, <2>5, <2>6, <2>7, <2>8, <2>9 DEF Keyed
<1>11. CASE DiscPersist
  BY <1>11, DiscPersisting DEF Keyed
<1>12. CASE DiscSwap
  <2>1. /\ UNCHANGED <<quotes, earning, placed, born, rows, filled, earned>>
        /\ \/ UNCHANGED <<cut, stray>>
           \/ /\ cut' = cut \cup ({tick.owe, tick.quote} \ {0})
              /\ tick.owe \in Ids \cup {0} /\ tick.quote \in Ids \cup {0}
              /\ \A i \in Ids : stray'[i] # stray[i] => i = tick.quote
    BY <1>12, Swapping
  <2>2. 0 \notin Ids /\ \A i \in Ids : i \in 1..placed <=> i <= placed
    BY <1>0 DEF Ids
  <2>3. (tick.owe # 0 => tick.owe <= placed) /\ (tick.quote # 0 => tick.quote <= placed)
    BY DEF TickSound
  <2> QED BY <2>1, <2>2, <2>3 DEF Keyed
<1>13. ASSUME NEW i \in Ids, StrayRecord(i) PROVE Keyed'
  <2>1. i \in cut /\ i <= placed
    BY <1>0, <1>13 DEF StrayRecord, Keyed
  <2>2. \A j \in Ids : stray'[j] > 0 => j \in cut
    BY <1>13, <2>1 DEF StrayRecord, Keyed, TypeOK
  <2> QED BY <1>8, <1>13, <2>1, <2>2 DEF StrayRecord
<1>14. ASSUME NEW m \in Markets, NEW s \in Sides, QuoteAges(m, s) PROVE Keyed'
  <2>1. \A n \in Markets, u \in Sides : quotes'[n][u].id = quotes[n][u].id
    BY <1>14, Aging
  <2>2. UNCHANGED <<earning, placed, born, table, cut, earned, stray>>
    BY <1>14, Aging
  <2>3. ASSUME NEW n \in Markets, NEW u \in Sides
        PROVE  /\ quotes'[n][u].id # 0 => quotes'[n][u].id <= placed /\ born[quotes'[n][u].id] = <<n, u>>
               /\ earning[n][u] \in {0, quotes'[n][u].id}
    <3>1. /\ quotes[n][u].id # 0 => quotes[n][u].id <= placed /\ born[quotes[n][u].id] = <<n, u>>
          /\ earning[n][u] \in {0, quotes[n][u].id}
      BY DEF Keyed
    <3> QED BY <2>1, <3>1
  <2>4. UNCHANGED rows /\ UNCHANGED filled
    BY <2>2 DEF table
  <2> QED BY <2>2, <2>3, <2>4 DEF Keyed
<1>15. ASSUME NEW m \in Markets, MarketAges(m) PROVE Keyed'
  BY <1>15 DEF MarketAges, Keyed
<1>16. CASE Crash
  BY <1>16 DEF Crash, NoQuote, Keyed
<1>17. CASE UNCHANGED vars
  BY <1>17 DEF vars, Keyed
<1>18. ASSUME NEW put \in BOOLEAN, Ends(put) PROVE Keyed'
  BY <1>3, <1>18 DEF Ends
<1>19. ASSUME NEW m \in Markets, NEW s \in Sides, DiscDrop(m, s) PROVE Keyed'
  BY <1>3, <1>19, Dropping
<1>20. CASE RecordLeg
  <2>1. /\ tick.quote \in Ids /\ Insert(tick.quote) /\ tick.pc = "filling"
        /\ UNCHANGED <<memory, bank, placed, born, earned, offTick>>
    BY <1>20, Recording
  <2>2. tick.quote <= placed
    BY <2>1 DEF TickSound
  <2>3. \A j \in Ids : stray'[j] > 0 => j \in cut
    BY <2>1 DEF Keyed
  <2> QED BY <1>8, <2>1, <2>2, <2>3
<1> QED BY Kinds, <1>1, <1>2, <1>4, <1>5, <1>6, <1>7, <1>9, <1>11, <1>12, <1>13, <1>14, <1>15, <1>16,
           <1>17, <1>18, <1>19, <1>20

LEMMA NextTickSound ==
  ASSUME TypeOK, Keyed, TickSound, DiscSound, [Next]_vars
  PROVE  TickSound'
<1> USE DEF memory, table, offTick, offDisc, resting
<1>1. CASE Turn
  BY <1>1 DEF TickSound, here, Turn
<1>2. ASSUME UNCHANGED <<tick, placed, born>>,
             \A m \in Markets, s \in Sides : quotes[m][s].id = 0 => quotes'[m][s].id = 0
      PROVE  TickSound'
  <2>1. tick.put \/ tick.pc = "put" => here \in Markets /\ tick.side \in Sides
    BY DEF TickSound, TypeOK, Tick
  <2>2. tick.put \/ tick.pc = "put" => quotes'[here][tick.side].id = 0
    BY <1>2, <2>1 DEF TickSound
  <2> QED BY <1>2, <2>2 DEF TickSound, here
<1>3. ASSUME NEW put \in BOOLEAN, Ends(put) PROVE TickSound'
  <2>1. earning[here][tick.side] # 0 => earning[here][tick.side] <= placed
    BY <1>3 DEF Keyed, Ends
  <2>2. quotes'[here][tick.side].id = 0
    BY <1>3, Popping DEF Ends
  <2> QED BY <1>3, <2>1, <2>2 DEF TickSound, here, Ends
<1>4. CASE TickAccrue
  BY <1>4, Accruing DEF TickSound, here
<1>5. CASE TickExitLeg \/ DiscOrphanClose
  BY <1>5, Closing DEF TickSound, here
<1>6. CASE TickPersist
  BY <1>6, Persisting DEF TickSound, here
<1>7. CASE FillStart
  <2>1. resting.id <= placed /\ born[resting.id] = <<here, tick.side>>
    BY <1>7, Filling DEF Keyed, resting
  <2> QED BY <1>7, <2>1, Filling DEF TickSound, here
<1>8. CASE RecordLeg
  BY <1>8, Recording DEF TickSound, here
<1>9. CASE PlaceNew
  BY <1>9, Putting DEF TickSound, here
<1>10. CASE DiscSwap
  <2>1. UNCHANGED <<quotes, placed, born>> /\ (UNCHANGED tick \/ tick' = IdleTick)
    BY <1>10, Swapping
  <2>2. CASE tick' = IdleTick
    BY <2>2 DEF IdleTick, TickSound
  <2> QED BY <1>2, <2>1, <2>2
<1>11. CASE Crash
  BY <1>11 DEF Crash, IdleTick, TickSound
<1>12. CASE UNCHANGED vars
  BY <1>2, <1>12 DEF vars
<1>13. CASE DiscTurn
  BY <1>2, <1>13 DEF DiscTurn
<1>14. ASSUME NEW m \in Markets, NEW s \in Sides, DiscDrop(m, s) PROVE TickSound'
  <2>1. UNCHANGED <<tick, placed, born>> /\ Pop(m, s)
    BY <1>14, Dropping
  <2>2. \A n \in Markets, u \in Sides : quotes[n][u].id = 0 => quotes'[n][u].id = 0
    BY <2>1, Popping
  <2> QED BY <1>2, <2>1, <2>2
<1>15. CASE DiscPersist
  BY <1>2, <1>15, DiscPersisting
<1>16. ASSUME NEW i \in Ids, StrayRecord(i) PROVE TickSound'
  BY <1>2, <1>16 DEF StrayRecord
<1>17. ASSUME NEW m \in Markets, NEW s \in Sides, QuoteAges(m, s) PROVE TickSound'
  BY <1>2, <1>17, Aging
<1>18. ASSUME NEW m \in Markets, MarketAges(m) PROVE TickSound'
  BY <1>2, <1>18 DEF MarketAges
<1> QED BY Kinds, <1>1, <1>3, <1>4, <1>5, <1>6, <1>7, <1>8, <1>9, <1>10, <1>11, <1>12, <1>13, <1>14,
           <1>15, <1>16, <1>17, <1>18

LEMMA NextDiscSound ==
  ASSUME TypeOK, Keyed, TickSound, DiscSound, [Next]_vars
  PROVE  DiscSound'
<1> USE DEF memory, table, offTick, offDisc
<1>1. ASSUME UNCHANGED <<disc, placed>> PROVE DiscSound'
  BY <1>1 DEF DiscSound
<1>2. CASE DiscTurn
  BY <1>2 DEF DiscSound, DiscTurn
<1>3. CASE TickExitLeg \/ DiscOrphanClose
  BY <1>3, Closing DEF DiscSound
<1>4. CASE PlaceNew
  <2>1. UNCHANGED disc /\ placed' = placed + 1 /\ placed \in Nat
    BY <1>4, Putting, NumbersAssumption DEF TypeOK
  <2> QED BY <2>1 DEF DiscSound
<1>5. ASSUME NEW m \in Markets, NEW s \in Sides, DiscDrop(m, s) PROVE DiscSound'
  <2>1. earning[m][s] = 0 \/ quotes[m][s].id # 0
    BY DEF Keyed
  <2> QED BY <1>5, <2>1, Dropping DEF DiscSound
<1>6. CASE DiscPersist
  BY <1>6, DiscPersisting DEF DiscSound
<1>7. CASE DiscSwap \/ Crash
  <2>1. disc' = IdleDisc
    BY <1>7, Swapping DEF Crash
  <2> QED BY <2>1 DEF IdleDisc, DiscSound
<1>8. CASE Turn
  BY <1>1, <1>8 DEF Turn
<1>9. ASSUME NEW put \in BOOLEAN, Ends(put) PROVE DiscSound'
  BY <1>1, <1>9 DEF Ends
<1>10. CASE TickAccrue
  BY <1>1, <1>10, Accruing
<1>11. CASE TickPersist
  BY <1>1, <1>11, Persisting
<1>12. CASE FillStart
  BY <1>1, <1>12, Filling
<1>13. CASE RecordLeg
  BY <1>1, <1>13, Recording
<1>14. ASSUME NEW i \in Ids, StrayRecord(i) PROVE DiscSound'
  BY <1>1, <1>14 DEF StrayRecord
<1>15. ASSUME NEW m \in Markets, NEW s \in Sides, QuoteAges(m, s) PROVE DiscSound'
  BY <1>1, <1>15 DEF QuoteAges
<1>16. ASSUME NEW m \in Markets, MarketAges(m) PROVE DiscSound'
  BY <1>1, <1>16 DEF MarketAges
<1>17. CASE UNCHANGED vars
  BY <1>1, <1>17 DEF vars
<1> QED BY Kinds, <1>2, <1>3, <1>4, <1>5, <1>6, <1>7, <1>8, <1>9, <1>10, <1>11, <1>12, <1>13, <1>14,
           <1>15, <1>16, <1>17

-----------------------------------------------------------------------------
(* One leg, one reward.                                                    *)

\* A quote rests under one key at most, and what is buffered is buffered for it.
LEMMA OneKey ==
  ASSUME Keyed, NEW m \in Markets, NEW s \in Sides, NEW n \in Markets, NEW u \in Sides,
         quotes[m][s].id # 0, quotes[m][s].id = quotes[n][u].id
  PROVE  m = n /\ s = u
<1>1. born[quotes[m][s].id] = <<m, s>> /\ born[quotes[n][u].id] = <<n, u>>
  BY DEF Keyed
<1> QED BY <1>1

LEMMA Taking ==
  ASSUME TypeOK, Keyed, NEW m \in Markets, NEW s \in Sides, Pop(m, s), NEW i \in Ids
  PROVE  /\ Rests(i)' <=> Rests(i) /\ quotes[m][s].id # i
         /\ Buffered(i)' <=> Buffered(i) /\ earning[m][s] # i
<1>1. \A n \in Markets, u \in Sides :
        /\ quotes'[n][u].id = IF n = m /\ u = s THEN 0 ELSE quotes[n][u].id
        /\ earning'[n][u] = IF n = m /\ u = s THEN 0 ELSE earning[n][u]
  BY Popping
<1>2. i # 0
  BY DEF Ids
<1>3. \A n \in Markets, u \in Sides : earning[n][u] = i => quotes[n][u].id = i
  BY <1>2 DEF Keyed
<1>4. \A n \in Markets, u \in Sides : quotes[n][u].id = i /\ quotes[m][s].id = i => n = m /\ u = s
  BY <1>2, OneKey
<1>5. Rests(i)' <=> \E n \in Markets, u \in Sides : quotes'[n][u].id = i
  BY DEF Rests
<1>6. Buffered(i)' <=> \E n \in Markets, u \in Sides : earning'[n][u] = i
  BY DEF Buffered
<1>7. Rests(i)' <=> Rests(i) /\ quotes[m][s].id # i
  BY <1>1, <1>2, <1>4, <1>5 DEF Rests
<1>8. Buffered(i)' <=> Buffered(i) /\ earning[m][s] # i
  BY <1>1, <1>2, <1>3, <1>4, <1>6 DEF Buffered
<1> QED BY <1>7, <1>8

\* A new quote rests, and has no reward buffered.
LEMMA Placing ==
  ASSUME TypeOK, Keyed, TickSound, PlaceNew, NEW i \in Ids
  PROVE  /\ Rests(i)' <=> Rests(i) \/ i = placed + 1
         /\ Buffered(i)' <=> Buffered(i)
<1>1. /\ here \in Markets /\ tick.side \in Sides /\ quotes[here][tick.side].id = 0
      /\ \A m \in Markets, s \in Sides :
           /\ quotes'[m][s].id = IF m = here /\ s = tick.side THEN placed + 1 ELSE quotes[m][s].id
           /\ earning'[m][s] = IF m = here /\ s = tick.side THEN 0 ELSE earning[m][s]
  BY Putting
<1>2. i # 0 /\ earning[here][tick.side] = 0
  BY <1>1 DEF Ids, Keyed
<1>3. Rests(i)' <=> \E n \in Markets, u \in Sides : quotes'[n][u].id = i
  BY DEF Rests
<1>4. Buffered(i)' <=> \E n \in Markets, u \in Sides : earning'[n][u] = i
  BY DEF Buffered
<1>5. Rests(i)' <=> Rests(i) \/ i = placed + 1
  BY <1>1, <1>2, <1>3 DEF Rests
<1>6. Buffered(i)' <=> Buffered(i)
  BY <1>1, <1>2, <1>4 DEF Buffered
<1> QED BY <1>5, <1>6

\* Nothing rests that was filled; a step that fills nothing keeps it so.
LEMMA StaysUnfilled ==
  ASSUME Unfilled, cut \subseteq cut', tick.pc = "filled" => UNCHANGED tick,
         tick'.pc = "filling" => UNCHANGED tick,
         \A i \in Ids \ cut' : filled'[i] = filled[i] /\ (Rests(i)' => Rests(i) \/ filled[i] = 0)
  PROVE  Unfilled'
<1>1. ASSUME NEW i \in Ids, i \notin cut'
      PROVE  /\ filled'[i] <= 1
             /\ Rests(i)' => filled'[i] = 0 \/ (tick'.pc = "filled" /\ tick'.quote = i)
             /\ tick'.pc = "filling" /\ tick'.quote = i => filled'[i] = 0
  BY <1>1 DEF Unfilled
<1> QED BY <1>1 DEF Unfilled

LEMMA NextUnfilled ==
  ASSUME TypeOK, Keyed, TickSound, DiscSound, Unfilled, [Next]_vars
  PROVE  Unfilled'
<1> USE DEF memory, table, offTick, offDisc
<1>1. ASSUME UNCHANGED <<filled, cut, tick>>, \A m \in Markets, s \in Sides : quotes'[m][s].id = quotes[m][s].id
      PROVE  Unfilled'
  <2>1. \A i \in Ids : Rests(i)' => Rests(i)
    BY <1>1 DEF Rests
  <2> QED BY <1>1, <2>1, StaysUnfilled
<1>2. ASSUME UNCHANGED <<quotes, filled, cut>>, tick.pc \notin {"filled", "filling"},
             tick'.pc \notin {"filled", "filling"}
      PROVE  Unfilled'
  <2>1. \A i \in Ids : Rests(i)' => Rests(i)
    BY <1>2 DEF Rests
  <2> QED BY <1>2, <2>1, StaysUnfilled
<1>3. CASE Turn
  BY <1>2, <1>3 DEF Turn
<1>4. CASE DiscTurn
  BY <1>1, <1>4 DEF DiscTurn
<1>5. ASSUME NEW put \in BOOLEAN, Ends(put) PROVE Unfilled'
  <2>1. /\ Pop(here, tick.side) /\ UNCHANGED <<filled, cut>> /\ here \in Markets /\ tick.side \in Sides
        /\ tick.pc # "filling" /\ tick'.pc = "persist"
        /\ tick.pc = "filled" => tick.quote # 0 /\ born[tick.quote] = <<here, tick.side>>
    BY <1>5 DEF Ends
  <2>2. ASSUME NEW i \in Ids, i \notin cut'
        PROVE  filled'[i] <= 1 /\ (Rests(i)' => filled'[i] = 0)
    <3>1. Rests(i)' => Rests(i) /\ quotes[here][tick.side].id # i
      BY <2>1, Taking
    <3>2. CASE tick.pc = "filled" /\ tick.quote = i /\ Rests(i)
      <4>1. PICK m \in Markets, s \in Sides : quotes[m][s].id = i
        BY <3>2 DEF Rests
      <4>2. born[i] = <<m, s>> /\ born[i] = <<here, tick.side>>
        BY <2>1, <3>2, <4>1 DEF Keyed
      <4>3. quotes[here][tick.side].id = i
        BY <4>1, <4>2
      <4> QED BY <2>1, <2>2, <3>1, <4>3 DEF Unfilled
    <3> QED BY <2>1, <2>2, <3>1, <3>2 DEF Unfilled
  <2> QED BY <2>1, <2>2 DEF Unfilled
<1>6. CASE TickAccrue
  BY <1>2, <1>6, Accruing
<1>7. CASE TickExitLeg \/ DiscOrphanClose
  <2>1. UNCHANGED <<quotes, filled, cut>> /\ (UNCHANGED tick \/ (tick.pc = "exit" /\ tick'.pc \in {"exit", "sweep"}))
    <3>1. UNCHANGED <<memory, filled, bank, placed, born, earned, universe, active, phase, stray,
                      crashes, cut>>
      BY <1>7, Closing
    <3>2. tick' = tick \/ (tick.pc = "exit" /\ tick'.pc \in {"exit", "sweep"})
      BY <1>7, Closing
    <3> QED BY <3>1, <3>2
  <2> QED BY <1>1, <1>2, <2>1
<1>8. CASE TickPersist
  <2>1. tick.pc = "persist"
    BY <1>8 DEF TickPersist
  <2> QED BY <1>2, <1>8, <2>1, Persisting
<1>9. CASE FillStart
  <2>1. /\ UNCHANGED <<quotes, filled, cut>> /\ here \in Markets /\ tick.side \in Sides /\ tick.pc = "fill"
        /\ tick'.pc = "filling" /\ tick'.quote = quotes[here][tick.side].id /\ tick'.quote \in Ids
    BY <1>9, Filling DEF resting
  <2>2. Rests(tick'.quote)
    BY <2>1 DEF Rests
  <2>3. ASSUME NEW i \in Ids, i \notin cut'
        PROVE  filled'[i] <= 1 /\ (Rests(i)' => filled'[i] = 0) /\ (tick'.quote = i => filled'[i] = 0)
    BY <2>1, <2>2, <2>3 DEF Unfilled, Rests
  <2> QED BY <2>1, <2>3 DEF Unfilled
<1>10. CASE RecordLeg
  <2>1. /\ UNCHANGED <<quotes, cut>> /\ Insert(tick.quote) /\ tick.pc = "filling" /\ tick.quote \in Ids
        /\ tick'.pc = "filled" /\ tick'.quote = tick.quote
    BY <1>10, Recording
  <2>2. \A j \in Ids : filled'[j] = IF j = tick.quote THEN filled[j] + 1 ELSE filled[j]
    BY <2>1, Inserting
  <2>3. ASSUME NEW i \in Ids, i \notin cut'
        PROVE  filled'[i] <= 1 /\ (Rests(i)' => filled'[i] = 0 \/ tick'.quote = i)
    BY <2>1, <2>2, <2>3 DEF Unfilled, Rests
  <2> QED BY <2>1, <2>3 DEF Unfilled
<1>11. CASE PlaceNew
  <2>1. /\ UNCHANGED <<filled, cut>> /\ tick.pc \in {"place", "put"} /\ tick'.pc \in {"place", "idle"}
        /\ placed + 1 \in Ids /\ placed \in Nat
    BY <1>11, Putting, NumbersAssumption DEF TypeOK
  <2>2. filled[placed + 1] \in Nat /\ ~(filled[placed + 1] > 0)
    BY <2>1 DEF Keyed, TypeOK
  <2>3. \A i \in Ids : Rests(i)' => Rests(i) \/ filled[i] = 0
    BY <1>11, <2>2, Placing
  <2> QED BY <2>1, <2>3, StaysUnfilled
<1>12. ASSUME NEW m \in Markets, NEW s \in Sides, DiscDrop(m, s) PROVE Unfilled'
  <2>1. UNCHANGED <<tick, filled, cut>> /\ Pop(m, s)
    BY <1>12, Dropping
  <2> QED BY <2>1, Taking, StaysUnfilled
<1>13. CASE DiscPersist
  BY <1>1, <1>13, DiscPersisting
<1>14. CASE DiscSwap
  <2>1. /\ UNCHANGED <<quotes, filled>>
        /\ \/ UNCHANGED <<tick, cut>>
           \/ tick' = IdleTick /\ cut' = cut \cup ({tick.owe, tick.quote} \ {0})
    BY <1>14, Swapping
  <2>2. ASSUME tick' = IdleTick, cut' = cut \cup ({tick.owe, tick.quote} \ {0}) PROVE Unfilled'
    <3>1. \A i \in Ids : Rests(i)' => Rests(i)
      BY <2>1 DEF Rests
    <3>2. 0 \notin Ids /\ IdleTick.pc = "idle"
      BY DEF Ids, IdleTick
    <3> QED BY <2>1, <2>2, <3>1, <3>2 DEF Unfilled
  <2> QED BY <1>1, <2>1, <2>2
<1>15. ASSUME NEW i \in Ids, StrayRecord(i) PROVE Unfilled'
  <2>1. UNCHANGED <<quotes, cut, tick>> /\ Insert(i) /\ i \in cut
    BY <1>15 DEF StrayRecord, Keyed
  <2>2. \A j \in Ids \ cut' : filled'[j] = filled[j]
    BY <2>1, Inserting
  <2>3. \A j \in Ids : Rests(j)' => Rests(j)
    BY <2>1 DEF Rests
  <2> QED BY <2>1, <2>2, <2>3, StaysUnfilled
<1>16. ASSUME NEW m \in Markets, NEW s \in Sides, QuoteAges(m, s) PROVE Unfilled'
  BY <1>1, <1>16, Aging
<1>17. ASSUME NEW m \in Markets, MarketAges(m) PROVE Unfilled'
  BY <1>1, <1>17 DEF MarketAges
<1>18. CASE Crash
  <2>1. /\ UNCHANGED filled /\ cut \subseteq cut' /\ tick'.pc = "idle"
        /\ \A m \in Markets, s \in Sides : quotes'[m][s].id = 0
    BY <1>18 DEF Crash, IdleTick, NoQuote
  <2>2. \A i \in Ids : ~Rests(i)'
    BY <2>1 DEF Rests, Ids
  <2> QED BY <2>1, <2>2 DEF Unfilled
<1>19. CASE UNCHANGED vars
  BY <1>1, <1>19 DEF vars
<1> QED BY Kinds, <1>3, <1>4, <1>5, <1>6, <1>7, <1>8, <1>9, <1>10, <1>11, <1>12, <1>13, <1>14, <1>15,
           <1>16, <1>17, <1>18, <1>19

LEMMA SharesKept ==
  ASSUME Banked, cut \subseteq cut', UNCHANGED <<bank, earned>>,
         NEW i \in Ids, i \notin cut', Buffered(i)' <=> Buffered(i), Rests(i)' => Rests(i) \/ i \notin earned,
         tick'.owe = i <=> tick.owe = i, disc'.owe = i <=> disc.owe = i
  PROVE  /\ Shares(i)' = IF i \in earned' THEN 1 ELSE 0
         /\ i \in earned' /\ Rests(i)' => Buffered(i)'
<1>1. Shares(i)' = Shares(i)
  BY DEF Shares
<1>2. Shares(i) = (IF i \in earned THEN 1 ELSE 0) /\ (i \in earned /\ Rests(i) => Buffered(i))
  BY DEF Banked
<1> QED BY <1>1, <1>2

\* The quote of a key is taken away with its reward, and one who owed nothing owes it.
LEMMA SharesOwed ==
  ASSUME TypeOK, Keyed, Banked, UNCHANGED <<bank, earned, cut>>,
         NEW m \in Markets, NEW s \in Sides, Pop(m, s),
         \/ tick.owe = 0 /\ tick'.owe = earning[m][s] /\ disc'.owe = disc.owe
         \/ disc.owe = 0 /\ disc'.owe = earning[m][s] /\ tick'.owe = tick.owe
  PROVE  Banked'
<1>1. ASSUME NEW i \in Ids, i \notin cut'
      PROVE  /\ Shares(i)' = IF i \in earned' THEN 1 ELSE 0
             /\ i \in earned' /\ Rests(i)' => Buffered(i)'
  <2>1. /\ Rests(i)' <=> Rests(i) /\ quotes[m][s].id # i
        /\ Buffered(i)' <=> Buffered(i) /\ earning[m][s] # i
    BY Taking
  <2>2. i # 0 /\ bank[i] \in Nat
    <3>1. i # 0
      BY DEF Ids
    <3>2. bank[i] \in Nat
      BY DEF TypeOK
    <3> QED BY <3>1, <3>2
  <2>3. Shares(i) = (IF i \in earned THEN 1 ELSE 0) /\ (i \in earned /\ Rests(i) => Buffered(i))
    BY <1>1 DEF Banked
  <2>4. earning[m][s] = i => Buffered(i) /\ quotes[m][s].id = i
    BY <2>2 DEF Buffered, Keyed
  <2>5. /\ Shares(i) = bank[i] + (IF Buffered(i) THEN 1 ELSE 0)
                       + (IF tick.owe = i THEN 1 ELSE 0) + (IF disc.owe = i THEN 1 ELSE 0)
        /\ Shares(i)' = bank[i] + (IF Buffered(i)' THEN 1 ELSE 0)
                       + (IF tick'.owe = i THEN 1 ELSE 0) + (IF disc'.owe = i THEN 1 ELSE 0)
    BY DEF Shares
  <2>6. Shares(i)' = Shares(i)
    <3>1. CASE earning[m][s] = i
      <4>1. Buffered(i) /\ ~Buffered(i)'
        BY <2>1, <2>4, <3>1
      <4>2. CASE tick.owe = 0 /\ tick'.owe = earning[m][s] /\ disc'.owe = disc.owe
        <5>1. tick.owe # i /\ tick'.owe = i /\ disc'.owe = disc.owe
          BY <2>2, <3>1, <4>2
        <5> QED BY <2>2, <2>5, <4>1, <5>1
      <4>3. CASE disc.owe = 0 /\ disc'.owe = earning[m][s] /\ tick'.owe = tick.owe
        <5>1. disc.owe # i /\ disc'.owe = i /\ tick'.owe = tick.owe
          BY <2>2, <3>1, <4>3
        <5> QED BY <2>2, <2>5, <4>1, <5>1
      <4> QED BY <4>2, <4>3
    <3>2. CASE earning[m][s] # i
      <4>1. (tick'.owe = i <=> tick.owe = i) /\ (disc'.owe = i <=> disc.owe = i)
        BY <2>2, <3>2
      <4> QED BY <2>1, <2>5, <3>2, <4>1
    <3> QED BY <3>1, <3>2
  <2>7. i \in earned /\ Rests(i)' => Buffered(i)'
    <3>1. ASSUME i \in earned, Rests(i)' PROVE earning[m][s] # i
      BY <2>1, <2>4, <3>1
    <3> QED BY <2>1, <2>3, <3>1
  <2> QED BY <2>3, <2>6, <2>7
<1> QED BY <1>1 DEF Banked

\* What one owed is written.
LEMMA SharesPaid ==
  ASSUME TypeOK, Banked, UNCHANGED <<quotes, earning, earned, cut>>,
         NEW w \in Ids \cup {0},
         \A i \in Ids : bank'[i] = IF i = w THEN bank[i] + 1 ELSE bank[i],
         \/ tick.owe = w /\ tick'.owe = 0 /\ disc'.owe = disc.owe
         \/ disc.owe = w /\ disc'.owe = 0 /\ tick'.owe = tick.owe
  PROVE  Banked'
<1>1. ASSUME NEW i \in Ids, i \notin cut'
      PROVE  /\ Shares(i)' = IF i \in earned' THEN 1 ELSE 0
             /\ i \in earned' /\ Rests(i)' => Buffered(i)'
  <2>1. (Rests(i)' <=> Rests(i)) /\ (Buffered(i)' <=> Buffered(i))
    BY DEF Rests, Buffered
  <2>2. i # 0 /\ bank[i] \in Nat
    BY DEF Ids, TypeOK
  <2>3. Shares(i) = (IF i \in earned THEN 1 ELSE 0) /\ (i \in earned /\ Rests(i) => Buffered(i))
    BY <1>1 DEF Banked
  <2>4. /\ Shares(i) = bank[i] + (IF Buffered(i) THEN 1 ELSE 0)
                       + (IF tick.owe = i THEN 1 ELSE 0) + (IF disc.owe = i THEN 1 ELSE 0)
        /\ Shares(i)' = bank'[i] + (IF Buffered(i)' THEN 1 ELSE 0)
                       + (IF tick'.owe = i THEN 1 ELSE 0) + (IF disc'.owe = i THEN 1 ELSE 0)
    BY DEF Shares
  <2>5. Shares(i)' = Shares(i)
    <3>1. CASE i = w
      <4>1. bank'[i] = bank[i] + 1
        BY <3>1
      <4>2. CASE tick.owe = w /\ tick'.owe = 0 /\ disc'.owe = disc.owe
        <5>1. tick.owe = i /\ tick'.owe # i /\ disc'.owe = disc.owe
          BY <2>2, <3>1, <4>2
        <5> QED BY <2>1, <2>2, <2>4, <4>1, <5>1
      <4>3. CASE disc.owe = w /\ disc'.owe = 0 /\ tick'.owe = tick.owe
        <5>1. disc.owe = i /\ disc'.owe # i /\ tick'.owe = tick.owe
          BY <2>2, <3>1, <4>3
        <5> QED BY <2>1, <2>2, <2>4, <4>1, <5>1
      <4> QED BY <4>2, <4>3
    <3>2. CASE i # w
      <4>1. (tick'.owe = i <=> tick.owe = i) /\ (disc'.owe = i <=> disc.owe = i)
        BY <2>2, <3>2
      <4>2. bank'[i] = bank[i]
        BY <3>2
      <4> QED BY <2>1, <2>4, <4>1, <4>2
    <3> QED BY <3>1, <3>2
  <2> QED BY <2>1, <2>3, <2>5
<1> QED BY <1>1 DEF Banked

LEMMA NextBanked ==
  ASSUME TypeOK, Keyed, TickSound, DiscSound, Banked, [Next]_vars
  PROVE  Banked'
<1> USE DEF memory, table, offTick, offDisc
<1>1. ASSUME UNCHANGED <<earning, bank, earned, cut>>,
             \A m \in Markets, s \in Sides : quotes'[m][s].id = quotes[m][s].id,
             tick'.owe = tick.owe, disc'.owe = disc.owe
      PROVE  Banked'
  <2>1. ASSUME NEW i \in Ids, i \notin cut'
        PROVE  /\ Shares(i)' = IF i \in earned' THEN 1 ELSE 0
               /\ i \in earned' /\ Rests(i)' => Buffered(i)'
    <3>1. (Buffered(i)' <=> Buffered(i)) /\ (Rests(i)' => Rests(i))
      BY <1>1 DEF Buffered, Rests
    <3> QED BY <1>1, <2>1, <3>1, SharesKept
  <2> QED BY <2>1 DEF Banked
<1>2. CASE Turn
  BY <1>1, <1>2 DEF Turn
<1>3. CASE DiscTurn
  BY <1>1, <1>3 DEF DiscTurn
<1>4. ASSUME NEW put \in BOOLEAN, Ends(put) PROVE Banked'
  BY <1>4, SharesOwed DEF Ends
<1>5. CASE TickAccrue
  <2>1. PICK band \in SUBSET Sides :
          /\ \A s \in band : quotes[here][s].id # 0
          /\ \A m \in Markets, s \in Sides :
               earning'[m][s] = IF m = here /\ s \in band THEN quotes[m][s].id ELSE earning[m][s]
          /\ earned' = earned \cup {quotes[here][s].id : s \in band}
    BY <1>5, Accruing
  <2>2. /\ here \in Markets /\ tick.pc = "scored" /\ tick'.owe = 0
        /\ UNCHANGED <<quotes, bank, cut, disc>>
    BY <1>5, Accruing
  <2>3. tick.owe = 0
    BY <2>2 DEF TickSound
  <2> DEFINE now == {quotes[here][s].id : s \in band}
  <2>4. ASSUME NEW i \in Ids, i \notin cut'
        PROVE  /\ Shares(i)' = IF i \in earned' THEN 1 ELSE 0
               /\ i \in earned' /\ Rests(i)' => Buffered(i)'
    <3>1. Buffered(i)' <=> \E m \in Markets, s \in Sides : earning'[m][s] = i
      BY DEF Buffered
    <3>2. Buffered(i)' <=> Buffered(i) \/ i \in now
      <4>1. i # 0
        BY DEF Ids
      <4>2. ASSUME Buffered(i)' PROVE Buffered(i) \/ i \in now
        <5>1. PICK m \in Markets, s \in Sides : earning'[m][s] = i
          BY <3>1, <4>2
        <5> QED BY <2>1, <5>1 DEF Buffered
      <4>3. ASSUME i \in now PROVE Buffered(i)'
        <5>1. PICK s \in band : quotes[here][s].id = i
          BY <4>3
        <5>2. earning'[here][s] = i
          BY <2>1, <2>2, <5>1
        <5> QED BY <2>2, <3>1, <5>2
      <4>4. ASSUME Buffered(i) PROVE Buffered(i)'
        <5>1. PICK m \in Markets, s \in Sides : earning[m][s] = i
          BY <4>4 DEF Buffered
        <5>2. quotes[m][s].id = i
          BY <4>1, <5>1 DEF Keyed
        <5>3. earning'[m][s] = i
          BY <2>1, <5>1, <5>2
        <5> QED BY <3>1, <5>3
      <4> QED BY <4>2, <4>3, <4>4
    <3>3. i \in now => Rests(i)
      BY <2>2 DEF Rests
    <3>4. (Rests(i)' <=> Rests(i)) /\ (i \in earned' <=> i \in earned \/ i \in now)
      BY <2>1, <2>2 DEF Rests
    <3>5. Shares(i) = (IF i \in earned THEN 1 ELSE 0) /\ (i \in earned /\ Rests(i) => Buffered(i))
      BY <2>2, <2>4 DEF Banked
    <3>6. /\ Shares(i) = bank[i] + (IF Buffered(i) THEN 1 ELSE 0)
                         + (IF tick.owe = i THEN 1 ELSE 0) + (IF disc.owe = i THEN 1 ELSE 0)
          /\ Shares(i)' = bank[i] + (IF Buffered(i)' THEN 1 ELSE 0)
                         + (IF tick.owe = i THEN 1 ELSE 0) + (IF disc.owe = i THEN 1 ELSE 0)
      BY <2>2, <2>3 DEF Shares
    <3>7. bank[i] \in Nat
      BY DEF TypeOK
    <3> HIDE DEF now
    <3>8. CASE Buffered(i)
      BY <3>2, <3>4, <3>5, <3>6, <3>7, <3>8
    <3>9. CASE ~Buffered(i)
      <4>1. CASE i \in now
        <5>1. i \notin earned
          BY <3>3, <3>5, <3>9, <4>1
        <5> QED BY <3>2, <3>4, <3>5, <3>6, <3>7, <3>9, <4>1, <5>1
      <4>2. CASE i \notin now
        BY <3>2, <3>4, <3>5, <3>6, <3>7, <3>9, <4>2
      <4> QED BY <4>1, <4>2
    <3> QED BY <3>8, <3>9
  <2> QED BY <2>4 DEF Banked
<1>6. CASE TickExitLeg \/ DiscOrphanClose
  <2>1. UNCHANGED <<quotes, earning, bank, earned, cut>> /\ tick'.owe = tick.owe /\ disc'.owe = disc.owe
    BY <1>6, Closing
  <2> QED BY <1>1, <2>1
<1>7. CASE TickPersist
  <2>1. tick.owe \in Ids \cup {0}
    BY DEF TypeOK, Tick
  <2>2. /\ UNCHANGED <<quotes, earning, earned, cut, disc>> /\ tick'.owe = 0
        /\ \A i \in Ids : bank'[i] = IF i = tick.owe THEN bank[i] + 1 ELSE bank[i]
    BY <1>7, Persisting
  <2> QED BY <2>1, <2>2, SharesPaid
<1>8. CASE FillStart
  BY <1>1, <1>8, Filling
<1>9. CASE RecordLeg
  BY <1>1, <1>9, Recording
<1>10. CASE PlaceNew
  <2>1. /\ UNCHANGED <<bank, earned, cut, disc>> /\ tick.owe = 0 /\ tick'.owe = 0
        /\ placed + 1 \notin earned
    <3>1. UNCHANGED <<bank, earned, cut, disc>> /\ tick.owe = 0 /\ tick'.owe = 0 /\ placed \in Nat
      BY <1>10, Putting, NumbersAssumption DEF TypeOK
    <3> QED BY <3>1 DEF Keyed
  <2>2. ASSUME NEW i \in Ids, i \notin cut'
        PROVE  /\ Shares(i)' = IF i \in earned' THEN 1 ELSE 0
               /\ i \in earned' /\ Rests(i)' => Buffered(i)'
    BY <1>10, <2>1, <2>2, Placing, SharesKept
  <2> QED BY <2>2 DEF Banked
<1>11. ASSUME NEW m \in Markets, NEW s \in Sides, DiscDrop(m, s) PROVE Banked'
  <2>1. /\ UNCHANGED <<bank, tick, cut, earned>> /\ Pop(m, s) /\ disc.owe = 0 /\ disc'.owe = earning[m][s]
    BY <1>11, Dropping
  <2> QED BY <2>1, SharesOwed
<1>12. CASE DiscPersist
  <2>1. /\ UNCHANGED <<quotes, earning, earned, cut, tick>> /\ disc'.owe = 0 /\ disc.owe \in Ids \cup {0}
        /\ \A i \in Ids : bank'[i] = IF i = disc.owe THEN bank[i] + 1 ELSE bank[i]
    BY <1>12, DiscPersisting
  <2> QED BY <2>1, SharesPaid
<1>13. CASE DiscSwap
  <2>1. UNCHANGED <<quotes, earning, earned>> /\ disc'.owe = 0 /\ disc.owe = 0
    BY <1>13, Swapping DEF IdleDisc
  <2>2. \/ UNCHANGED <<tick, cut, bank>>
        \/ /\ tick' = IdleTick /\ cut' = cut \cup ({tick.owe, tick.quote} \ {0})
           /\ \A i \in Ids : bank'[i] # bank[i] => i = tick.owe
    BY <1>13, Swapping
  <2>3. CASE UNCHANGED <<tick, cut, bank>>
    BY <1>1, <2>1, <2>3
  <2>4. ASSUME tick' = IdleTick, cut' = cut \cup ({tick.owe, tick.quote} \ {0}),
               \A i \in Ids : bank'[i] # bank[i] => i = tick.owe
        PROVE  Banked'
    <3>1. ASSUME NEW i \in Ids, i \notin cut'
          PROVE  /\ Shares(i)' = IF i \in earned' THEN 1 ELSE 0
                 /\ i \in earned' /\ Rests(i)' => Buffered(i)'
      <4>1. i # 0 /\ i \notin cut /\ i # tick.owe /\ tick'.owe = 0
        BY <2>4, <3>1 DEF Ids, IdleTick
      <4>2. bank'[i] = bank[i] /\ (tick'.owe = i <=> tick.owe = i) /\ (disc'.owe = i <=> disc.owe = i)
        BY <2>1, <2>4, <4>1
      <4>3. (Buffered(i)' <=> Buffered(i)) /\ (Rests(i)' <=> Rests(i))
        BY <2>1 DEF Buffered, Rests
      <4>4. Shares(i)' = Shares(i)
        BY <4>2, <4>3 DEF Shares
      <4>5. Shares(i) = (IF i \in earned THEN 1 ELSE 0) /\ (i \in earned /\ Rests(i) => Buffered(i))
        BY <4>1 DEF Banked
      <4> QED BY <2>1, <4>3, <4>4, <4>5
    <3> QED BY <3>1 DEF Banked
  <2> QED BY <2>2, <2>3, <2>4
<1>14. ASSUME NEW i \in Ids, StrayRecord(i) PROVE Banked'
  BY <1>1, <1>14 DEF StrayRecord
<1>15. ASSUME NEW m \in Markets, NEW s \in Sides, QuoteAges(m, s) PROVE Banked'
  BY <1>1, <1>15, Aging
<1>16. ASSUME NEW m \in Markets, MarketAges(m) PROVE Banked'
  BY <1>1, <1>16 DEF MarketAges
<1>17. CASE Crash
  <2>1. /\ UNCHANGED <<bank, earned>> /\ cut' = cut \cup earned /\ tick'.owe = 0 /\ disc'.owe = 0
        /\ \A m \in Markets, s \in Sides : earning'[m][s] = 0
    BY <1>17 DEF Crash, IdleTick, IdleDisc
  <2>2. ASSUME NEW i \in Ids, i \notin cut'
        PROVE  Shares(i)' = 0 /\ i \notin earned'
    <3>1. i # 0 /\ i \notin cut /\ i \notin earned /\ bank[i] \in Nat
      BY <2>1, <2>2 DEF Ids, TypeOK
    <3>2. ~Buffered(i)'
      BY <2>1, <3>1 DEF Buffered
    <3>3. Shares(i) = 0
      BY <3>1 DEF Banked
    <3>4. bank[i] = 0
      BY <3>1, <3>3 DEF Shares
    <3>5. Shares(i)' = bank[i]
      BY <2>1, <3>1, <3>2 DEF Shares
    <3> QED BY <2>1, <3>1, <3>4, <3>5
  <2> QED BY <2>2 DEF Banked
<1>18. CASE UNCHANGED vars
  BY <1>1, <1>18 DEF vars
<1> QED BY Kinds, <1>2, <1>3, <1>4, <1>5, <1>6, <1>7, <1>8, <1>9, <1>10, <1>11, <1>12, <1>13, <1>14,
           <1>15, <1>16, <1>17, <1>18

-----------------------------------------------------------------------------
(* Room for one more.                                                      *)

\* A side stays cut, and a step that adds no row and makes no side wanted keeps the room.
LEMMA KeepsRoom ==
  ASSUME TypeOK, Keyed, Roomy, cut \subseteq cut', UNCHANGED born, rows' \subseteq rows,
         \A m \in Markets, s \in Sides :
           Wanted(m, s)' => Wanted(m, s) \/ CutSide(m, s)' \/ Exposure(m, s) < Cap
  PROVE  Roomy'
<1>1. ASSUME NEW m \in Markets, NEW s \in Sides, ~CutSide(m, s)'
      PROVE  Exposure(m, s)' < Cap + Size /\ (Wanted(m, s)' => Exposure(m, s)' < Cap)
  <2>1. ~CutSide(m, s)
    BY <1>1 DEF CutSide
  <2>2. Exposure(m, s)' \in Nat /\ Exposure(m, s) \in Nat /\ Exposure(m, s)' <= Exposure(m, s)
    BY FewerRows
  <2>3. Exposure(m, s) < Cap + Size /\ (Wanted(m, s) => Exposure(m, s) < Cap)
    BY <2>1 DEF Roomy
  <2>4. Wanted(m, s)' => Exposure(m, s) < Cap
    BY <1>1, <2>3
  <2> QED BY <2>2, <2>3, <2>4, NumbersAssumption
<1> QED BY <1>1 DEF Roomy

LEMMA NextRoomy ==
  ASSUME TypeOK, Keyed, TickSound, DiscSound, Roomy, [Next]_vars
  PROVE  Roomy'
<1> USE DEF memory, table, offTick, offDisc
<1>1. ASSUME UNCHANGED <<cut, born, rows, tick>>,
             \A m \in Markets, s \in Sides : quotes'[m][s].id # 0 => quotes[m][s].id # 0
      PROVE  Roomy'
  <2>1. \A m \in Markets, s \in Sides : Wanted(m, s)' => Wanted(m, s)
    BY <1>1 DEF Wanted, here
  <2> QED BY <1>1, <2>1, KeepsRoom
\* A tick that neither fills nor goes on to place leaves what is wanted as it was.
<1>2. ASSUME UNCHANGED <<quotes, cut, born>>, rows' \subseteq rows, tick.pc # "filled",
             tick'.pc # "filling",
             tick'.loop = "place" => tick.loop = "place" /\ tick'.market = here /\ tick'.halt = tick.halt
      PROVE  Roomy'
  <2>1. \A m \in Markets, s \in Sides : Wanted(m, s)' => Wanted(m, s)
    BY <1>2 DEF Wanted, here
  <2> QED BY <1>2, <2>1, KeepsRoom
<1>3. CASE Turn
  <2>1. /\ UNCHANGED <<quotes, cut, born, rows>> /\ tick.pc # "filled" /\ tick'.pc # "filling"
        /\ tick'.pc # "filled"
        /\ tick'.loop = "place" =>
             \/ tick.loop = "place" /\ tick'.market = here /\ tick'.halt = tick.halt
             \/ tick'.halt = {s \in Sides : Exposure(tick'.market, s) >= Cap}
    BY <1>3 DEF Turn
  <2>2. CASE tick'.loop = "place" /\ tick'.halt = {s \in Sides : Exposure(tick'.market, s) >= Cap}
    <3>1. ASSUME NEW m \in Markets, NEW s \in Sides, Wanted(m, s)'
          PROVE  Wanted(m, s) \/ Exposure(m, s) < Cap
      <4>1. CASE quotes'[m][s].id # 0
        BY <2>1, <4>1 DEF Wanted
      <4>2. CASE tick'.market = m /\ s \notin tick'.halt
        <5>1. Exposure(m, s) \in Nat
          BY Counting DEF Keyed
        <5> QED BY <2>2, <4>2, <5>1, NumbersAssumption
      <4> QED BY <2>1, <3>1, <4>1, <4>2 DEF Wanted, here
    <3> QED BY <2>1, <3>1, KeepsRoom
  <2>3. CASE ~(tick'.loop = "place" /\ tick'.halt = {s \in Sides : Exposure(tick'.market, s) >= Cap})
    BY <1>2, <2>1, <2>3
  <2> QED BY <2>2, <2>3
<1>4. CASE DiscTurn
  BY <1>1, <1>4 DEF DiscTurn
<1>5. ASSUME NEW put \in BOOLEAN, Ends(put) PROVE Roomy'
  <2>1. /\ Pop(here, tick.side) /\ here \in Markets /\ tick.side \in Sides /\ UNCHANGED <<cut, born, rows>>
        /\ tick.pc # "filling" /\ tick'.pc = "persist" /\ tick'.loop = tick.loop /\ tick'.halt = tick.halt
        /\ tick'.market = here
    BY <1>5 DEF Ends
  <2>2. \A m \in Markets, s \in Sides :
          quotes'[m][s].id = IF m = here /\ s = tick.side THEN 0 ELSE quotes[m][s].id
    BY <2>1, Popping
  <2>3. \A m \in Markets, s \in Sides : Wanted(m, s)' => Wanted(m, s)
    BY <2>1, <2>2 DEF Wanted, here
  <2> QED BY <2>1, <2>3, KeepsRoom
<1>6. CASE TickAccrue
  BY <1>2, <1>6, Accruing
<1>7. CASE TickExitLeg \/ DiscOrphanClose
  <2>1. UNCHANGED <<quotes, cut, born>> /\ rows' \subseteq rows
    BY <1>7, Closing
  <2>2. \/ tick' = tick
        \/ /\ tick.pc = "exit" /\ tick'.pc \in {"exit", "sweep"} /\ tick'.market = here
           /\ (tick'.loop = tick.loop \/ tick'.loop = "sweep") /\ tick'.halt = tick.halt
    BY <1>7, Closing
  <2>3. CASE tick' = tick
    <3>1. \A m \in Markets, s \in Sides : Wanted(m, s)' => Wanted(m, s)
      BY <2>1, <2>3 DEF Wanted, here
    <3> QED BY <2>1, <3>1, KeepsRoom
  <2>4. CASE /\ tick.pc = "exit" /\ tick'.pc \in {"exit", "sweep"} /\ tick'.market = here
             /\ (tick'.loop = tick.loop \/ tick'.loop = "sweep") /\ tick'.halt = tick.halt
    BY <1>2, <2>1, <2>4
  <2> QED BY <2>2, <2>3, <2>4
<1>8. CASE TickPersist
  <2>1. tick.pc = "persist"
    BY <1>8 DEF TickPersist
  <2> QED BY <1>2, <1>8, <2>1, Persisting
<1>9. CASE FillStart
  <2>1. /\ UNCHANGED <<quotes, rows, cut, born>> /\ tick.pc = "fill" /\ quotes[here][tick.side].id # 0
        /\ tick'.pc = "filling" /\ tick'.market = here /\ tick'.side = tick.side /\ tick'.loop = "fill"
    BY <1>9, Filling DEF resting
  <2>2. \A m \in Markets, s \in Sides : Wanted(m, s)' => Wanted(m, s)
    BY <2>1 DEF Wanted, here
  <2> QED BY <2>1, <2>2, KeepsRoom
<1>10. CASE RecordLeg
  <2>1. /\ UNCHANGED <<quotes, cut, born>> /\ Insert(tick.quote) /\ here \in Markets /\ tick.side \in Sides
        /\ tick.pc = "filling" /\ tick.quote \in Ids /\ tick'.pc = "filled" /\ tick'.market = here
        /\ tick'.side = tick.side /\ tick'.loop = "fill"
    BY <1>10, Recording
  <2>2. born[tick.quote] = <<here, tick.side>>
    BY <2>1 DEF TickSound, Ids
  <2>3. ASSUME NEW m \in Markets, NEW s \in Sides, ~CutSide(m, s)'
        PROVE  Exposure(m, s)' < Cap + Size /\ (Wanted(m, s)' => Exposure(m, s)' < Cap)
    <3>1. ~CutSide(m, s)
      BY <2>1, <2>3 DEF CutSide
    <3>2. /\ Exposure(m, s) \in Nat /\ Exposure(m, s)' \in Nat
          /\ born[tick.quote] # <<m, s>> => Exposure(m, s)' = Exposure(m, s)
          /\ Exposure(m, s)' <= Exposure(m, s) + Size
      BY <2>1, OneMoreRow
    <3>3. Exposure(m, s) < Cap + Size /\ (Wanted(m, s) => Exposure(m, s) < Cap)
      BY <3>1 DEF Roomy
    <3>4. CASE m = here /\ s = tick.side
      <4>1. Wanted(m, s) /\ ~Wanted(m, s)'
        BY <2>1, <3>4 DEF Wanted, here
      <4> QED BY <3>2, <3>3, <4>1, NumbersAssumption
    <3>5. CASE ~(m = here /\ s = tick.side)
      <4>1. Exposure(m, s)' = Exposure(m, s)
        BY <2>2, <3>2, <3>5
      <4>2. Wanted(m, s)' => Wanted(m, s)
        BY <2>1, <3>5 DEF Wanted, here
      <4> QED BY <3>3, <4>1, <4>2
    <3> QED BY <3>4, <3>5
  <2> QED BY <2>3 DEF Roomy
<1>11. CASE PlaceNew
  <2>1. /\ UNCHANGED <<rows, cut>> /\ here \in Markets /\ tick.side \in Sides /\ tick.loop = "place"
        /\ tick.side \notin tick.halt /\ tick.pc \in {"place", "put"}
        /\ \A i \in Ids : born'[i] = IF i = placed + 1 THEN <<here, tick.side>> ELSE born[i]
        /\ tick'.pc \in {"place", "idle"}
        /\ tick'.pc = "place" => tick'.market = here /\ tick'.loop = "place" /\ tick'.halt = tick.halt
        /\ tick'.pc = "idle" => tick'.loop = "fill"
    BY <1>11, Putting
  <2>9. placed \in Nat
    BY NumbersAssumption DEF TypeOK
  <2>2. \A m \in Markets, s \in Sides :
          quotes'[m][s].id = IF m = here /\ s = tick.side THEN placed + 1 ELSE quotes[m][s].id
    BY <1>11, Putting
  <2>3. \A i \in cut : born'[i] = born[i]
    <3> TAKE i \in cut
    <3>1. i \in Ids /\ i \in 1..placed
      BY DEF TypeOK, Keyed
    <3> QED BY <2>9, <2>1, <3>1
  <2>4. \A r \in rows : born'[r[1]] = born[r[1]]
    <3> TAKE r \in rows
    <3>1. r[1] \in Ids /\ r[1] <= placed
      BY DEF TypeOK, Keyed
    <3> QED BY <2>9, <2>1, <3>1 DEF Ids
  <2>5. ASSUME NEW m \in Markets, NEW s \in Sides, ~CutSide(m, s)'
        PROVE  Exposure(m, s)' < Cap + Size /\ (Wanted(m, s)' => Exposure(m, s)' < Cap)
    <3>1. ~CutSide(m, s)
      BY <2>1, <2>3, <2>5 DEF CutSide
    <3>2. Rows(m, s)' = Rows(m, s)
      BY <2>1, <2>4 DEF Rows
    <3>3. Exposure(m, s)' = Exposure(m, s)
      BY <3>2 DEF Exposure
    <3>4. Wanted(m, s)' => Wanted(m, s)
      BY <2>1, <2>2 DEF Wanted, here
    <3> QED BY <3>1, <3>3, <3>4 DEF Roomy
  <2> QED BY <2>5 DEF Roomy
<1>12. ASSUME NEW m \in Markets, NEW s \in Sides, DiscDrop(m, s) PROVE Roomy'
  <2>1. UNCHANGED <<cut, born, rows, tick>> /\ Pop(m, s)
    BY <1>12, Dropping
  <2>2. \A n \in Markets, u \in Sides : quotes'[n][u].id # 0 => quotes[n][u].id # 0
    BY <2>1, Popping
  <2> QED BY <1>1, <2>1, <2>2
<1>13. CASE DiscPersist
  BY <1>1, <1>13, DiscPersisting
<1>14. CASE DiscSwap
  <2>1. UNCHANGED <<quotes, born, rows>>
    BY <1>14, Swapping
  <2>2. \/ UNCHANGED <<tick, cut>>
        \/ tick' = IdleTick /\ cut' = cut \cup ({tick.owe, tick.quote} \ {0})
    BY <1>14, Swapping
  <2>3. CASE UNCHANGED <<tick, cut>>
    BY <1>1, <2>1, <2>3
  <2>4. ASSUME tick' = IdleTick, cut' = cut \cup ({tick.owe, tick.quote} \ {0}) PROVE Roomy'
    <3>1. tick'.pc = "idle" /\ tick'.loop = "fill"
      BY <2>4 DEF IdleTick
    <3>2. ASSUME NEW m \in Markets, NEW s \in Sides, Wanted(m, s)'
          PROVE  Wanted(m, s) \/ CutSide(m, s)'
      <4>1. CASE tick.pc = "filled" /\ here = m /\ tick.side = s
        <5>1. tick.quote # 0 /\ born[tick.quote] = <<m, s>>
          BY <4>1 DEF TickSound
        <5> QED BY <2>1, <2>4, <5>1 DEF CutSide
      <4>2. CASE ~(tick.pc = "filled" /\ here = m /\ tick.side = s)
        BY <2>1, <3>1, <3>2, <4>2 DEF Wanted
      <4> QED BY <4>1, <4>2
    <3> QED BY <2>1, <2>4, <3>2, KeepsRoom
  <2> QED BY <2>2, <2>3, <2>4
<1>15. ASSUME NEW i \in Ids, StrayRecord(i) PROVE Roomy'
  <2>1. UNCHANGED <<quotes, cut, tick, born>> /\ Insert(i) /\ i \in cut
    BY <1>15 DEF StrayRecord, Keyed
  <2>2. ASSUME NEW m \in Markets, NEW s \in Sides, ~CutSide(m, s)'
        PROVE  Exposure(m, s)' < Cap + Size /\ (Wanted(m, s)' => Exposure(m, s)' < Cap)
    <3>1. ~CutSide(m, s) /\ born[i] # <<m, s>>
      BY <2>1, <2>2 DEF CutSide
    <3>2. Exposure(m, s)' = Exposure(m, s)
      BY <2>1, <3>1, OneMoreRow
    <3>3. Wanted(m, s)' => Wanted(m, s)
      BY <2>1 DEF Wanted, here
    <3> QED BY <3>1, <3>2, <3>3 DEF Roomy
  <2> QED BY <2>2 DEF Roomy
<1>16. ASSUME NEW m \in Markets, NEW s \in Sides, QuoteAges(m, s) PROVE Roomy'
  BY <1>1, <1>16, Aging
<1>17. ASSUME NEW m \in Markets, MarketAges(m) PROVE Roomy'
  BY <1>1, <1>17 DEF MarketAges
<1>18. CASE Crash
  <2>1. /\ UNCHANGED <<born, rows>> /\ cut \subseteq cut' /\ tick'.pc = "idle" /\ tick'.loop = "fill"
        /\ \A m \in Markets, s \in Sides : quotes'[m][s].id = 0
    BY <1>18 DEF Crash, IdleTick, NoQuote
  <2>2. \A m \in Markets, s \in Sides : ~Wanted(m, s)'
    BY <2>1 DEF Wanted
  <2> QED BY <2>1, <2>2, KeepsRoom
<1>19. CASE UNCHANGED vars
  BY <1>1, <1>19 DEF vars
<1> QED BY Kinds, <1>3, <1>4, <1>5, <1>6, <1>7, <1>8, <1>9, <1>10, <1>11, <1>12, <1>13, <1>14, <1>15,
           <1>16, <1>17, <1>18, <1>19

-----------------------------------------------------------------------------
(* The theorems.                                                           *)

LEMMA InitInv == ASSUME Init PROVE IInv
<1> USE DEF Init
<1>1. /\ quotes \in [Markets -> [Sides -> [id : Ids \cup {0}, age : Age]]]
      /\ \A m \in Markets, s \in Sides : quotes[m][s].id = 0 /\ earning[m][s] = 0
  BY Idles DEF NoQuote
<1>2. born \in [Ids -> (Markets \cup {NoMarket}) \X Sides]
  BY DEF Sides
<1>3. TypeOK
  BY <1>1, <1>2, Idles, NumbersAssumption DEF TypeOK, Span
<1>4. Keyed
  BY <1>1, FS_EmptySet DEF Keyed
<1>5. TickSound /\ DiscSound
  BY DEF TickSound, DiscSound, IdleTick, IdleDisc
<1>6. Unfilled
  BY <1>1 DEF Unfilled, IdleTick, Ids
<1>7. Banked
  <2>1. ASSUME NEW i \in Ids PROVE Shares(i) = 0
    <3>1. i # 0 /\ ~Buffered(i)
      BY <1>1 DEF Ids, Buffered
    <3> QED BY <3>1 DEF Shares, IdleTick, IdleDisc
  <2> QED BY <2>1 DEF Banked
<1>8. Roomy
  <2>1. ASSUME NEW m \in Markets, NEW s \in Sides
        PROVE  Exposure(m, s) = 0 /\ ~Wanted(m, s)
    <3>1. Rows(m, s) = {}
      BY DEF Rows
    <3>2. Exposure(m, s) = 0
      BY <3>1, FS_EmptySet, NumbersAssumption DEF Exposure
    <3> QED BY <1>1, <3>2 DEF Wanted, IdleTick
  <2> QED BY <2>1, NumbersAssumption DEF Roomy
<1> QED BY <1>3, <1>4, <1>5, <1>6, <1>7, <1>8 DEF IInv

LEMMA Invariance == Spec => []IInv
<1>1. ASSUME IInv, [Next]_vars PROVE IInv'
  BY <1>1, NextTyped, NextKeyed, NextTickSound, NextDiscSound, NextUnfilled, NextBanked, NextRoomy
     DEF IInv
<1> QED BY InitInv, <1>1, PTL DEF Spec

\* The values of the state have the shapes the code gives them.
THEOREM TypeCorrect == Spec => []TypeOK
<1>1. IInv => TypeOK
  BY DEF IInv
<1> QED BY Invariance, <1>1, PTL

\* A quote becomes one leg at most, whatever the discovery cycle takes away while its fill
\* is recorded, unless a cancel or a crash cut the fill short.
THEOREM OneQuoteOneLeg == Spec => []FilledOnce
<1>1. IInv => FilledOnce
  BY DEF IInv, Unfilled, FilledOnce
<1> QED BY Invariance, <1>1, PTL

\* A reward that accrued is buffered, on its way to the database or in it: in one of the
\* three, and once.
THEOREM OneQuoteOneReward == Spec => []RewardBankedOnce
<1>1. ASSUME IInv PROVE RewardBankedOnce
  <2>1. ASSUME NEW i \in earned \ cut PROVE Shares(i) = 1
    BY <1>1 DEF IInv, TypeOK, Banked
  <2> QED BY <2>1 DEF RewardBankedOnce, Shares, Buffered
<1> QED BY Invariance, <1>1, PTL

\* A side holds less than the cap and one quote, since a quote is placed and filled only
\* where there is room and the side has one quote at a time.
THEOREM CapHolds == Spec => []InventoryBounded
<1>1. IInv => InventoryBounded
  BY DEF IInv, Roomy, InventoryBounded
<1> QED BY Invariance, <1>1, PTL
=============================================================================
