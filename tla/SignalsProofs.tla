--------------------------- MODULE SignalsProofs ---------------------------
(***************************************************************************)
(* Theorems about what trading decisions are made from and filled at: for  *)
(* any settings, books, moves of BTC, accounts and replies, what an        *)
(* approval and a verdict of the fair-value scorer mean; and for any grid  *)
(* of prices, sizes, moves and breaks of the stream, what the books are    *)
(* and what the fills and orders priced from them are worth, and where the *)
(* returns over the price histories start.                                 *)
(***************************************************************************)
EXTENDS MarketBook, Feeds, Decisions, SequenceTheorems, FiniteSetTheorems, WellFoundedInduction, TLAPS

-----------------------------------------------------------------------------
(***************************************************************************)
(* The fair-value scorer, for any settings, packet, scale and distribution *)
(* function.                                                               *)
(***************************************************************************)

(* Numbers.                                                                *)

\* A price of 1.00 is a whole number of cents and of tenths of one.
LEMMA Scale ==
  /\ One \in Nat /\ Cent \in Nat /\ Mill \in Nat
  /\ 0 < Mill /\ Mill < Cent /\ 2 * Cent < One /\ One = 2 * Even /\ Even \in Nat
<1> DEFINE k == One \div 1000
<1>1. One \in Nat /\ One > 0 /\ One % 1000 = 0
  BY ScaleAssumption
<1>2. k \in Nat /\ One = 1000 * k
  BY <1>1
<1> HIDE DEF k
<1>3. k > 0
  BY <1>1, <1>2
<1>4. Mill = k /\ Cent = 10 * k /\ Even = 500 * k
  BY <1>2 DEF Cent, Mill, Even
<1> QED BY <1>1, <1>2, <1>3, <1>4

\* The helpers stay among the integers.
LEMMA QuotInt == ASSUME NEW x \in Int, NEW y \in Nat \ {0} PROVE Quot(x, y) \in Int
<1>1. CASE x > 0
  BY <1>1 DEF Quot
<1>2. CASE x < 0
  <2>1. -x \in Nat /\ (-x) \div y \in Int
    BY <1>2
  <2> QED BY <1>2, <2>1 DEF Quot
<1> QED BY <1>1, <1>2 DEF Quot

\* A cut to a range lies in it.
LEMMA ClampInt ==
  ASSUME NEW x \in Int, NEW low \in Int, NEW high \in Int, low <= high
  PROVE  Clamp(x, low, high) \in Int /\ low <= Clamp(x, low, high) /\ Clamp(x, low, high) <= high
BY DEF Clamp, Larger, Smaller

\* Division that rounds to zero is odd, and so is a cut to a symmetric range.
LEMMA QuotOdd == ASSUME NEW x \in Int, NEW y \in Nat \ {0} PROVE Quot(-x, y) = -Quot(x, y)
<1>1. CASE x > 0
  <2>1. -x < 0 /\ -(-x) = x /\ x \div y \in Int
    BY <1>1
  <2> QED BY <1>1, <2>1 DEF Quot
<1>2. CASE x < 0
  <2>1. -x > 0 /\ (-x) \div y \in Int
    BY <1>2
  <2> QED BY <1>2, <2>1 DEF Quot
<1> QED BY <1>1, <1>2 DEF Quot

\* A cut to a symmetric range is odd.
LEMMA ClampOdd ==
  ASSUME NEW x \in Int, NEW z \in Nat
  PROVE  Clamp(-x, -z, z) = -Clamp(x, -z, z)
BY DEF Clamp, Larger, Smaller

\* A cut to the open unit of prices is symmetric about one half.
LEMMA ClampMirrors ==
  ASSUME NEW x \in Int
  PROVE  Clamp(One - x, Cent, One - Cent) = One - Clamp(x, Cent, One - Cent)
BY Scale DEF Clamp, Larger, Smaller

-----------------------------------------------------------------------------
(* The fair value.                                                         *)

\* The deviation's share of a half hour is positive.
LEMMA RootInt == ASSUME NEW t \in Seconds PROVE RootTime[t] \in Nat \ {0}
BY ScaleAssumption

\* The fair value is a probability, whatever the drift, the clock and the book.
LEMMA FairValueInt ==
  ASSUME NEW s, NEW p, Tunable(s), Evidence(p), Larger(p.tte, s.tteFloor) \in Seconds
  PROVE  FairValue(s, p) \in Cent..(One - Cent)
<1> DEFINE drift == DriftLogReturn(s, p)
           stdev == ExpectedStdev(s, p)
           q     == Quot(drift * s.damping, stdev)
           z     == IF stdev > 0 THEN Clamp(q, -ZMax, ZMax) ELSE 0
           fair  == IF drift # 0 THEN Cdf[z] ELSE Even
           side  == IF s.invert THEN One - fair ELSE fair
<1>1. drift \in Int
  BY DEF DriftLogReturn, Evidence
<1>2. stdev \in Int
  <2>1. Sigma(s, p) \in Int
    BY DEF Sigma, Evidence, Tunable
  <2>2. RootTime[Larger(p.tte, s.tteFloor)] \in Int
    BY RootInt
  <2> QED BY <2>1, <2>2 DEF ExpectedStdev
<1> HIDE DEF drift, stdev
<1>3. z \in (-ZMax)..ZMax
  <2>1. ZMax \in Nat
    BY ScaleAssumption
  <2>2. CASE stdev > 0
    <3>1. drift * s.damping \in Int /\ stdev \in Nat \ {0}
      BY <1>1, <1>2, <2>2 DEF Tunable
    <3>2. q \in Int
      BY <3>1, QuotInt
    <3> HIDE DEF q
    <3>3. Clamp(q, -ZMax, ZMax) \in (-ZMax)..ZMax
      <4>1. -ZMax \in Int /\ ZMax \in Int /\ -ZMax <= ZMax
        BY <2>1
      <4> QED BY <3>2, <4>1, ClampInt
    <3> QED BY <2>2, <3>3
  <2> QED BY <2>1, <2>2
<1>4. fair \in Int
  <2> HIDE DEF z, drift
  <2>1. Cdf[z] \in Int
    BY <1>3, ScaleAssumption
  <2> QED BY <2>1, Scale
<1>5. Tilt(s, p) \in Int
  <2>1. Clamp(p.imbalance, -100, 100) \in Int
    <3>1. p.imbalance \in Int /\ -100 \in Int /\ 100 \in Int /\ -100 <= 100
      BY DEF Evidence
    <3> QED BY <3>1, ClampInt
  <2>2. Clamp(p.imbalance, -100, 100) * s.tilt \in Int
    BY <2>1 DEF Tunable
  <2> QED BY <2>2, QuotInt DEF Tilt
<1>6. side + Tilt(s, p) \in Int
  <2> HIDE DEF fair
  <2> QED BY <1>4, <1>5, Scale
<1>7. FairValue(s, p) = Clamp(side + Tilt(s, p), Cent, One - Cent)
  BY DEF FairValue, drift, stdev
<1> HIDE DEF side
<1>8. Cent \in Int /\ One - Cent \in Int /\ Cent <= One - Cent
  BY Scale
<1> QED BY <1>6, <1>7, <1>8, ClampInt

-----------------------------------------------------------------------------
(* Edges and the verdict.                                                  *)

AskPaid(p, side) == IF side = "YES" THEN EffectiveAskYes(p) ELSE EffectiveAskNo(p)
FairFor(fair, side) == IF side = "YES" THEN fair ELSE One - fair

\* What a side costs, in all, is a number.
LEMMA CostInt ==
  ASSUME NEW s, NEW p, Tunable(s), Evidence(p)
  PROVE  SlippageBps(s, p) \in Int /\ s.fee \in Int
<1>1. Spread(p) \in Int
  BY DEF Spread, Larger, Evidence
<1>2. Spread(p) * s.slipCoef \in Int
  BY <1>1 DEF Tunable
<1>3. Quot(Spread(p) * s.slipCoef, 100) \in Int
  BY <1>2, QuotInt
<1> QED BY <1>3 DEF SlippageBps, Tunable

\* The asks reckoned with are whole numbers.
LEMMA AskPaidInt ==
  ASSUME NEW p, Evidence(p)
  PROVE  EffectiveAskYes(p) \in Int /\ EffectiveAskNo(p) \in Int
<1>1. Spread(p) \in Int /\ Spread(p) \div 2 \in Int
  BY DEF Spread, Larger, Evidence
<1> DEFINE half == Spread(p) \div 2
<1>2. half \in Int
  BY <1>1
<1> HIDE DEF half
<1>3. EffectiveAskYes(p) = IF p.askYes > 0 THEN p.askYes
                           ELSE IF p.mid > 0 THEN Smaller(One - Mill, p.mid + half) ELSE One
  BY DEF EffectiveAskYes, half
<1>4. EffectiveAskNo(p) = IF p.askNo > 0 THEN p.askNo
                          ELSE IF p.bidYes > 0 THEN Clamp(One - p.bidYes, Mill, One - Mill)
                          ELSE IF p.mid > 0 THEN Smaller(One - Mill, One - p.mid + half) ELSE One
  BY DEF EffectiveAskNo, half
<1> QED BY <1>2, <1>3, <1>4, Scale DEF Evidence, Smaller, Larger, Clamp

\* A side is picked for an edge above nothing, and it is its own.
LEMMA PickedEdge ==
  ASSUME NEW e, e.YES \in Int, e.NO \in Int
  PROVE  /\ Best(e) \in Int
         /\ PickSide(e) \in {"YES", "NO", "ABSTAIN"}
         /\ PickSide(e) = "YES" => Best(e) = e.YES /\ Best(e) > 0
         /\ PickSide(e) = "NO" => Best(e) = e.NO /\ Best(e) > 0
BY DEF PickSide, Best, Larger

\* The edge of a side is what it is worth less what it costs.
LEMMA EdgesInt ==
  ASSUME NEW s, NEW p, Tunable(s), Evidence(p), NEW fair \in Int
  PROVE  LET e == EdgeBreakdown(s, p, fair) cost == SlippageBps(s, p) + s.fee
         IN  /\ e.YES \in Int /\ e.YES = fair - EffectiveAskYes(p) - cost
             /\ e.NO \in Int /\ e.NO = One - fair - EffectiveAskNo(p) - cost
BY CostInt, AskPaidInt, Scale DEF EdgeBreakdown

\* The edge of a verdict is what its side is worth less what it costs.
LEMMA VerdictEdge ==
  ASSUME NEW s, NEW p, Tunable(s), Evidence(p), Larger(p.tte, s.tteFloor) \in Seconds,
         QuantVerdict(s, p).side # "ABSTAIN"
  PROVE  LET v == QuantVerdict(s, p)
         IN  /\ v.side \in Sides /\ v.fair \in Cent..(One - Cent)
             /\ v.edge \in Int /\ v.edge > 0
             /\ v.edge = FairFor(v.fair, v.side) - AskPaid(p, v.side) - (SlippageBps(s, p) + s.fee)
<1> DEFINE v     == QuantVerdict(s, p)
           fair  == FairValue(s, p)
           edges == EdgeBreakdown(s, p, fair)
           pick  == PickSide(edges)
<1>1. fair \in Cent..(One - Cent) /\ fair \in Int
  BY FairValueInt, Scale
<1>2. v.side = pick /\ v.fair = fair /\ v.edge = Best(edges)
  BY DEF QuantVerdict, Judge, Gated
<1> HIDE DEF v, fair
<1>3. /\ edges.YES \in Int /\ edges.YES = fair - EffectiveAskYes(p) - (SlippageBps(s, p) + s.fee)
      /\ edges.NO \in Int /\ edges.NO = One - fair - EffectiveAskNo(p) - (SlippageBps(s, p) + s.fee)
  BY <1>1, EdgesInt
<1> HIDE DEF edges
<1>4. pick \in Sides
  BY <1>2, <1>3, PickedEdge DEF v, Sides
<1>5. CASE pick = "YES"
  BY <1>1, <1>2, <1>3, <1>4, <1>5, PickedEdge DEF FairFor, AskPaid, v, Sides
<1>6. CASE pick = "NO"
  BY <1>1, <1>2, <1>3, <1>4, <1>6, PickedEdge DEF FairFor, AskPaid, v, Sides
<1> QED BY <1>4, <1>5, <1>6 DEF Sides

-----------------------------------------------------------------------------
(* Costs.                                                                  *)

\* The settings of t are those of s with a higher fee.
CostlierBy(fee, s, t) ==
    /\ t.fee = s.fee + fee
    /\ <<t.defaultVol, t.damping, t.tilt, t.slipBaseline, t.slipCoef, t.tteFloor, t.longHorizon, t.invert>>
         = <<s.defaultVol, s.damping, s.tilt, s.slipBaseline, s.slipCoef, s.tteFloor, s.longHorizon, s.invert>>
    /\ <<t.minElapsed, t.trendFilter, t.trendMin, t.strongMinEdge, t.weakMinEdge, t.distressedAsk>>
         = <<s.minElapsed, s.trendFilter, s.trendMin, s.strongMinEdge, s.weakMinEdge, s.distressedAsk>>
    /\ <<t.flowGate, t.flowMin, t.volFilter, t.volExtreme, t.volHigh, t.volHighMinEdge, t.maxAbsEdge>>
         = <<s.flowGate, s.flowMin, s.volFilter, s.volExtreme, s.volHigh, s.volHighMinEdge, s.maxAbsEdge>>
    /\ <<t.regimeVolHigh, t.regimeTrendMin>> = <<s.regimeVolHigh, s.regimeTrendMin>>

\* A fee changes neither the fair value nor the slippage.
LEMMA FairValueOfCostlier ==
  ASSUME NEW fee, NEW s, NEW t, NEW p, CostlierBy(fee, s, t)
  PROVE  FairValue(t, p) = FairValue(s, p) /\ SlippageBps(t, p) = SlippageBps(s, p)
<1>1. DriftLogReturn(t, p) = DriftLogReturn(s, p)
  BY DEF DriftLogReturn, CostlierBy
<1>2. ExpectedStdev(t, p) = ExpectedStdev(s, p)
  BY DEF ExpectedStdev, Sigma, CostlierBy
<1>3. Tilt(t, p) = Tilt(s, p) /\ SlippageBps(t, p) = SlippageBps(s, p)
  BY DEF Tilt, SlippageBps, CostlierBy
<1>4. t.damping = s.damping /\ t.invert = s.invert
  BY DEF CostlierBy
<1> QED BY <1>1, <1>2, <1>3, <1>4 DEF FairValue

\* Where a smaller edge passes the gates, a larger one does.
LEMMA GatesOfCostlier ==
  ASSUME NEW fee, NEW s, NEW t, NEW p, NEW side, CostlierBy(fee, s, t), Tunable(s),
         NEW lesser \in Int, NEW edge \in Int, lesser <= edge,
         CandlePhaseBlocks(s.minElapsed, p) \/ RegimeGate(s, p, side, edge)
  PROVE  CandlePhaseBlocks(t.minElapsed, p) \/ RegimeGate(t, p, side, lesser)
<1>1. Trend(t, p) = Trend(s, p)
  BY DEF Trend, CostlierBy
<1>2. CASE TrendBlocks(s, p, side, edge)
  <2>1. TrendBlocks(t, p, side, lesser)
    BY <1>1, <1>2 DEF TrendBlocks, CostlierBy, Tunable
  <2> QED BY <2>1 DEF RegimeGate
<1>3. CASE VolBlocks(s, p, edge)
  <2>1. VolBlocks(t, p, lesser)
    BY <1>3 DEF VolBlocks, CostlierBy, Tunable
  <2> QED BY <2>1 DEF RegimeGate
<1>4. CASE s.flowGate /\ FlowBlocks(s.flowMin, p, side)
  BY <1>4 DEF RegimeGate, CostlierBy
<1>5. CASE CandlePhaseBlocks(s.minElapsed, p)
  BY <1>5 DEF CostlierBy
<1> QED BY <1>2, <1>3, <1>4, <1>5 DEF RegimeGate

\* With a higher fee the scorer keeps its side or stays out, unless the edge
\* was above the ceiling.
LEMMA CostlierVerdict ==
  ASSUME NEW fee \in Nat, NEW s, NEW t, NEW p, CostlierBy(fee, s, t), Tunable(s), Tunable(t),
         Evidence(p), Larger(p.tte, s.tteFloor) \in Seconds
  PROVE  \/ BeyondCeiling(s.maxAbsEdge, QuantVerdict(s, p).edge)
         \/ AgreesOrAbstains(QuantVerdict(s, p), QuantVerdict(t, p))
<1> DEFINE fair   == FairValue(s, p)
           dear   == EdgeBreakdown(t, p, fair)
           cheap  == EdgeBreakdown(s, p, fair)
           Blocked(r, e) == CandlePhaseBlocks(r.minElapsed, p) \/ RegimeGate(r, p, PickSide(e), Best(e))
<1>1. fair \in Int /\ FairValue(t, p) = fair
  BY FairValueInt, FairValueOfCostlier, Scale
<1>2. /\ cheap.YES \in Int /\ cheap.NO \in Int /\ dear.YES \in Int /\ dear.NO \in Int
      /\ dear.YES = cheap.YES - fee /\ dear.NO = cheap.NO - fee
  <2>1. SlippageBps(t, p) = SlippageBps(s, p) /\ t.fee = s.fee + fee
    BY FairValueOfCostlier DEF CostlierBy
  <2>2. SlippageBps(s, p) \in Int /\ s.fee \in Int /\ EffectiveAskYes(p) \in Int /\ EffectiveAskNo(p) \in Int
    BY CostInt, AskPaidInt
  <2> HIDE DEF fair
  <2> QED BY <1>1, <2>1, <2>2, Scale DEF EdgeBreakdown
<1>3. /\ QuantVerdict(t, p).side \in {PickSide(dear), "ABSTAIN"}
      /\ Blocked(t, dear) => QuantVerdict(t, p).side = "ABSTAIN"
  BY <1>1 DEF QuantVerdict, Judge, Gated
<1>4. \/ QuantVerdict(s, p).side = PickSide(cheap)
      \/ PickSide(cheap) # "ABSTAIN" /\ Blocked(s, cheap)
      \/ BeyondCeiling(s.maxAbsEdge, QuantVerdict(s, p).edge)
  BY DEF QuantVerdict, Judge, Gated
<1> HIDE DEF cheap, dear
<1>5. PickSide(dear) \in {PickSide(cheap), "ABSTAIN"} /\ Best(dear) \in Int /\ Best(cheap) \in Int
      /\ Best(dear) <= Best(cheap)
  BY <1>2 DEF PickSide, Best, Larger
<1>6. CASE QuantVerdict(s, p).side = PickSide(cheap)
  BY <1>3, <1>5, <1>6 DEF AgreesOrAbstains
<1>7. CASE Blocked(s, cheap) /\ PickSide(dear) = PickSide(cheap)
  <2>1. Blocked(t, dear)
    BY <1>5, <1>7, GatesOfCostlier
  <2> QED BY <1>3, <2>1 DEF AgreesOrAbstains
<1>8. CASE PickSide(dear) = "ABSTAIN"
  BY <1>3, <1>8 DEF AgreesOrAbstains
<1> QED BY <1>4, <1>5, <1>6, <1>7, <1>8

-----------------------------------------------------------------------------
(* The other side of the market.                                           *)

\* m says for NO what p says for YES.
MirrorOf(m, p) ==
    /\ m.askYes = p.askNo /\ m.askNo = p.askYes /\ m.mid = One - p.mid
    /\ m.imbalance = -p.imbalance /\ m.flow = -p.flow /\ m.change = -p.change
    /\ m.sinceOpen = -p.sinceOpen /\ m.vsStrike = -p.vsStrike
    /\ m.return30s = -p.return30s /\ m.return5m = -p.return5m /\ m.return15m = -p.return15m
    /\ m.return1h = -p.return1h /\ m.return4h = -p.return4h
    /\ <<m.spread, m.vol, m.tte, m.elapsed, m.preMarket>> = <<p.spread, p.vol, p.tte, p.elapsed, p.preMarket>>

\* The drift of BTC, seen from the other side.
LEMMA MirroredDrift ==
  ASSUME NEW s, NEW p, NEW m, Evidence(p), MirrorOf(m, p)
  PROVE  DriftLogReturn(s, m) = -DriftLogReturn(s, p) /\ DriftLogReturn(s, p) \in Int
BY DEF DriftLogReturn, Evidence, MirrorOf

\* The tilt of the book, seen from the other side.
LEMMA MirroredTilt ==
  ASSUME NEW s, NEW p, NEW m, Tunable(s), Evidence(p), MirrorOf(m, p)
  PROVE  Tilt(s, m) = -Tilt(s, p) /\ Tilt(s, p) \in Int
<1> DEFINE c == Clamp(p.imbalance, -100, 100)
<1>1. p.imbalance \in Int /\ m.imbalance = -p.imbalance
  BY DEF Evidence, MirrorOf
<1>2. c \in Int /\ Clamp(m.imbalance, -100, 100) = -c
  BY <1>1 DEF Clamp, Larger, Smaller
<1> HIDE DEF c
<1>3. c * s.tilt \in Int /\ (-c) * s.tilt = -(c * s.tilt)
  BY <1>2 DEF Tunable
<1>4. Quot(-(c * s.tilt), 100) = -Quot(c * s.tilt, 100) /\ Quot(c * s.tilt, 100) \in Int
  BY <1>3, QuotOdd, QuotInt
<1> QED BY <1>2, <1>3, <1>4 DEF Tilt, c

\* Seen from the other side the fair value is the complement.
LEMMA MirroredFair ==
  ASSUME NEW s, NEW p, NEW m, Tunable(s), Evidence(p), MirrorOf(m, p),
         Larger(p.tte, s.tteFloor) \in Seconds
  PROVE  FairValue(s, m) = One - FairValue(s, p)
<1> DEFINE drift == DriftLogReturn(s, p)
           stdev == ExpectedStdev(s, p)
           q     == Quot(drift * s.damping, stdev)
           z     == IF stdev > 0 THEN Clamp(q, -ZMax, ZMax) ELSE 0
           fair  == IF drift # 0 THEN Cdf[z] ELSE Even
           side  == IF s.invert THEN One - fair ELSE fair
           n     == IF stdev > 0 THEN Clamp(Quot((-drift) * s.damping, stdev), -ZMax, ZMax) ELSE 0
           unfair == IF -drift # 0 THEN Cdf[n] ELSE Even
           other == IF s.invert THEN One - unfair ELSE unfair
<1>1. drift \in Int /\ DriftLogReturn(s, m) = -drift
  BY MirroredDrift
<1>2. stdev \in Int /\ ExpectedStdev(s, m) = stdev
  <2>1. Sigma(s, p) \in Int /\ Sigma(s, m) = Sigma(s, p)
    BY DEF Sigma, Evidence, Tunable, MirrorOf
  <2>2. m.tte = p.tte
    BY DEF MirrorOf
  <2>3. RootTime[Larger(p.tte, s.tteFloor)] \in Int
    BY RootInt
  <2> QED BY <2>1, <2>2, <2>3 DEF ExpectedStdev
<1>3. FairValue(s, m) = Clamp(other + Tilt(s, m), Cent, One - Cent)
  BY <1>1, <1>2 DEF FairValue
<1>4. FairValue(s, p) = Clamp(side + Tilt(s, p), Cent, One - Cent)
  BY DEF FairValue
<1> HIDE DEF drift, stdev
<1>5. z \in (-ZMax)..ZMax /\ n = -z
  <2>1. ZMax \in Nat
    BY ScaleAssumption
  <2>2. CASE stdev > 0
    <3>1. drift * s.damping \in Int /\ (-drift) * s.damping = -(drift * s.damping) /\ stdev \in Nat \ {0}
      BY <1>1, <1>2, <2>2 DEF Tunable
    <3>2. q \in Int /\ Quot((-drift) * s.damping, stdev) = -q
      BY <3>1, QuotInt, QuotOdd
    <3> HIDE DEF q
    <3>3. Clamp(q, -ZMax, ZMax) \in (-ZMax)..ZMax /\ Clamp(-q, -ZMax, ZMax) = -Clamp(q, -ZMax, ZMax)
      <4>1. -ZMax \in Int /\ ZMax \in Int /\ -ZMax <= ZMax
        BY <2>1
      <4>2. q \in Int
        BY <3>2
      <4>3. Clamp(q, -ZMax, ZMax) \in (-ZMax)..ZMax
        BY <4>1, <4>2, ClampInt
      <4> QED BY <2>1, <4>2, <4>3, ClampOdd
    <3> QED BY <2>2, <3>2, <3>3
  <2> QED BY <1>2, <2>1, <2>2
<1> HIDE DEF z, n
<1>6. fair \in Int /\ unfair = One - fair
  <2>1. Cdf[z] \in Int /\ Cdf[-z] = One - Cdf[z]
    BY <1>5, ScaleAssumption
  <2> QED BY <1>1, <1>5, <2>1, Scale
<1> HIDE DEF fair, unfair
<1>7. side \in Int /\ other = One - side
  BY <1>6, Scale
<1> HIDE DEF side, other
<1>8. Tilt(s, m) = -Tilt(s, p) /\ Tilt(s, p) \in Int
  BY MirroredTilt
<1>9. side + Tilt(s, p) \in Int /\ other + Tilt(s, m) = One - (side + Tilt(s, p))
  BY <1>7, <1>8, Scale
<1> QED BY <1>3, <1>4, <1>9, ClampMirrors

\* Exchanged edges pick the other side, unless they are the same.
LEMMA MirroredPick ==
  ASSUME NEW e, NEW f, e.YES \in Int, e.NO \in Int, f.YES = e.NO, f.NO = e.YES,
         ~(e.YES = e.NO /\ e.YES > 0)
  PROVE  PickSide(f) = Other(PickSide(e)) /\ Best(f) = Best(e)
BY DEF PickSide, Best, Other, Larger

\* The edges of the sides change places.
LEMMA MirroredEdges ==
  ASSUME NEW s, NEW p, NEW m, Tunable(s), Evidence(p), MirrorOf(m, p),
         p.askYes > 0, p.askNo > 0, NEW fair \in Int
  PROVE  EdgeBreakdown(s, m, One - fair)
           = [YES |-> EdgeBreakdown(s, p, fair).NO, NO |-> EdgeBreakdown(s, p, fair).YES]
<1>1. SlippageBps(s, m) = SlippageBps(s, p) /\ Spread(m) = Spread(p)
  BY DEF SlippageBps, Spread, MirrorOf
<1>2. EffectiveAskYes(m) = EffectiveAskNo(p) /\ EffectiveAskNo(m) = EffectiveAskYes(p)
  BY DEF EffectiveAskYes, EffectiveAskNo, MirrorOf
<1>3. One - (One - fair) = fair
  BY Scale
<1> QED BY <1>1, <1>2, <1>3 DEF EdgeBreakdown

\* A gate closes for a side when it closes for the other side of the mirror.
LEMMA MirroredGates ==
  ASSUME NEW s, NEW p, NEW m, NEW side \in Sides, NEW edge, Tunable(s), Evidence(p), MirrorOf(m, p),
         p.flow # 0 \/ s.flowMin > 0
  PROVE  /\ CandlePhaseBlocks(s.minElapsed, m) = CandlePhaseBlocks(s.minElapsed, p)
         /\ RegimeGate(s, m, Other(side), edge) <=> RegimeGate(s, p, side, edge)
<1>1. CandlePhaseBlocks(s.minElapsed, m) = CandlePhaseBlocks(s.minElapsed, p)
  BY DEF CandlePhaseBlocks, MirrorOf
<1>2. VolBlocks(s, m, edge) <=> VolBlocks(s, p, edge)
  BY DEF VolBlocks, MirrorOf
<1>3. FlowBlocks(s.flowMin, m, Other(side)) <=> FlowBlocks(s.flowMin, p, side)
  BY DEF FlowBlocks, Abs, Other, Sides, MirrorOf, Evidence, Tunable
<1>4. TrendBlocks(s, m, Other(side), edge) <=> TrendBlocks(s, p, side, edge)
  <2>1. AskOf(m, Other(side)) = AskOf(p, side)
    BY DEF AskOf, Other, Sides, MirrorOf
  <2>2. Abs(m.return4h) = Abs(p.return4h) /\ Abs(m.return1h) = Abs(p.return1h)
    BY DEF Abs, Evidence, MirrorOf
  <2>3. /\ Trend(s, m).strong = Trend(s, p).strong
        /\ Trend(s, p).return \in Int /\ Trend(s, m).return = -Trend(s, p).return
    BY <2>2 DEF Trend, Evidence, MirrorOf
  <2>4. Against(Trend(s, m).return, Other(side)) <=> Against(Trend(s, p).return, side)
    BY <2>3 DEF Against, Other, Sides
  <2> QED BY <2>1, <2>3, <2>4 DEF TrendBlocks
<1> QED BY <1>1, <1>2, <1>3, <1>4 DEF RegimeGate

\* The verdict on the other side of the market is the other side of the verdict.
LEMMA QuantMirrors ==
  ASSUME NEW s, NEW p, NEW m, Tunable(s), Evidence(p), MirrorOf(m, p),
         Larger(p.tte, s.tteFloor) \in Seconds, p.askYes > 0, p.askNo > 0,
         p.flow # 0 \/ s.flowMin > 0,
         ~Undecided(QuantVerdict(s, p))
  PROVE  QuantVerdict(s, m) = MirroredVerdict(QuantVerdict(s, p))
<1> DEFINE fair  == FairValue(s, p)
           edges == EdgeBreakdown(s, p, fair)
           back  == [YES |-> edges.NO, NO |-> edges.YES]
           pick  == PickSide(edges)
           gated == /\ pick # "ABSTAIN"
                    /\ CandlePhaseBlocks(s.minElapsed, p) \/ RegimeGate(s, p, pick, Best(edges))
           edge  == IF gated THEN 0 ELSE Best(edges)
           over  == pick # "ABSTAIN" /\ ~gated /\ BeyondCeiling(s.maxAbsEdge, edge)
           side  == IF gated \/ over THEN "ABSTAIN" ELSE pick
<1>1. fair \in Int /\ FairValue(s, m) = One - fair
  BY FairValueInt, MirroredFair, Scale
<1>2. edges.YES \in Int /\ edges.NO \in Int
  <2> HIDE DEF fair
  <2> QED BY <1>1, EdgesInt
<1>3. ~(edges.YES = edges.NO /\ edges.YES > 0)
  BY DEF QuantVerdict, Judge, Gated, Undecided
<1>4. EdgeBreakdown(s, m, FairValue(s, m)) = back
  <2> HIDE DEF fair
  <2> QED BY <1>1, MirroredEdges
<1> HIDE DEF fair
<1>5. PickSide(back) = Other(pick) /\ Best(back) = Best(edges)
  <2> HIDE DEF edges
  <2> QED BY <1>2, <1>3, MirroredPick
<1>6. pick \in {"YES", "NO", "ABSTAIN"}
  BY DEF PickSide
<1>7. (/\ Other(pick) # "ABSTAIN"
       /\ CandlePhaseBlocks(s.minElapsed, m) \/ RegimeGate(s, m, Other(pick), Best(edges))) <=> gated
  <2>1. CASE pick = "ABSTAIN"
    BY <2>1 DEF Other
  <2>2. CASE pick \in Sides
    <3>1. Other(pick) # "ABSTAIN" /\ pick # "ABSTAIN"
      BY <2>2 DEF Other, Sides
    <3> HIDE DEF pick
    <3> QED BY <2>2, <3>1, MirroredGates
  <2> QED BY <1>6, <2>1, <2>2 DEF Sides
<1>8. Confidence(s, m, edge) = Confidence(s, p, edge) /\ ExpiryRisk(s, m) = ExpiryRisk(s, p)
  BY DEF Confidence, SlippageBps, Spread, ExpiryRisk, MirrorOf
<1>9. Other(pick) # "ABSTAIN" <=> pick # "ABSTAIN"
  BY <1>6 DEF Other
<1> HIDE DEF edges
<1>10. QuantVerdict(s, p) =
         [side |-> side, fair |-> fair, edge |-> edge, edges |-> edges,
          confidence |-> IF gated \/ over THEN 0 ELSE Confidence(s, p, edge),
          risk |-> ExpiryRisk(s, p),
          tag |-> IF s.fadePostOnly /\ side # "ABSTAIN" THEN "maker" ELSE "taker"]
  BY DEF QuantVerdict, Judge, Gated, fair, edges
<1>11. QuantVerdict(s, m) =
         [side |-> IF gated \/ over THEN "ABSTAIN" ELSE Other(pick), fair |-> One - fair, edge |-> edge,
          edges |-> back,
          confidence |-> IF gated \/ over THEN 0 ELSE Confidence(s, m, edge),
          risk |-> ExpiryRisk(s, m),
          tag |-> IF s.fadePostOnly /\ side # "ABSTAIN" THEN "maker" ELSE "taker"]
  BY <1>1, <1>4, <1>5, <1>7, <1>9 DEF QuantVerdict, Judge, Gated
<1>12. Other(side) = IF gated \/ over THEN "ABSTAIN" ELSE Other(pick)
  BY DEF Other
<1> HIDE DEF gated, over, edge, side, pick
<1> QED BY <1>8, <1>10, <1>11, <1>12 DEF MirroredVerdict

\* The regime-gated wrapper holds its fire on a market and on its mirror image alike.
LEMMA AdaptiveMirrors ==
  ASSUME NEW s, NEW p, NEW m, Evidence(p), MirrorOf(m, p),
         QuantVerdict(s, m) = MirroredVerdict(QuantVerdict(s, p))
  PROVE  AdaptiveVerdict(s, m) = MirroredVerdict(AdaptiveVerdict(s, p))
<1> DEFINE Out == {"UNKNOWN", "HIGH_VOL"}
<1>1. /\ p.return1h \in Int /\ p.return4h \in Int
      /\ m.return1h = -p.return1h /\ m.return4h = -p.return4h
      /\ m.vol = p.vol /\ m.preMarket = p.preMarket
  BY DEF MirrorOf, Evidence
<1>2. ClassifyRegime(s, m) \in Out <=> ClassifyRegime(s, p) \in Out
  BY <1>1 DEF ClassifyRegime, Abs
<1>3. HoldFire(MirroredVerdict(QuantVerdict(s, p))) = MirroredVerdict(HoldFire(QuantVerdict(s, p)))
  BY DEF HoldFire, MirroredVerdict, Other
<1> QED BY <1>1, <1>2, <1>3 DEF AdaptiveVerdict

\* The regime does not ask for the fee.
LEMMA CostlierAdaptive ==
  ASSUME NEW fee, NEW s, NEW t, NEW p, CostlierBy(fee, s, t),
         AgreesOrAbstains(QuantVerdict(s, p), QuantVerdict(t, p))
  PROVE  AgreesOrAbstains(AdaptiveVerdict(s, p), AdaptiveVerdict(t, p))
<1>1. ClassifyRegime(t, p) = ClassifyRegime(s, p)
  BY DEF ClassifyRegime, CostlierBy
<1> QED BY <1>1 DEF AdaptiveVerdict, AgreesOrAbstains, HoldFire

\* The fade of a market seen from the other side.
LEMMA OverreactionMirrors ==
  ASSUME NEW s, NEW p, NEW m, Tunable(s), Evidence(p), MirrorOf(m, p), p.mid \in 1..(One - 1)
  PROVE  OverreactionVerdict(s, m) = MirroredVerdict(OverreactionVerdict(s, p))
<1> DEFINE x == Excess(s, p)
<1>1. BtcMove(p) \in Int /\ BtcMove(m) = -BtcMove(p)
  BY DEF BtcMove, Evidence, MirrorOf
<1>2. x \in Int /\ Excess(s, m) = -x
  <2>1. BtcMove(p) * s.sensitivity \in Int /\ (-BtcMove(p)) * s.sensitivity = -(BtcMove(p) * s.sensitivity)
    BY <1>1 DEF Tunable
  <2> QED BY <1>1, <2>1 DEF Excess, Evidence, MirrorOf
<1> HIDE DEF x
<1>3. Abs(-x) = Abs(x) /\ Abs(x) \in Nat
  BY <1>2 DEF Abs
<1>4. CASE x # 0
  <2>1. FadeSide(s, p) \in Sides /\ FadeSide(s, m) = Other(FadeSide(s, p))
    <3>1. (x > 0) \in BOOLEAN /\ (-x > 0) = ~(x > 0) /\ s.fadeInvert \in BOOLEAN
      BY <1>2, <1>4 DEF Tunable
    <3> QED BY <1>2, <3>1 DEF FadeSide, Other, Sides, x
  <2> DEFINE side == FadeSide(s, p)
  <2>2. s.fadeFlowMin > 0 =>
          (FlowBlocks(s.fadeFlowMin, m, Other(side)) <=> FlowBlocks(s.fadeFlowMin, p, side))
    BY <2>1 DEF FlowBlocks, Abs, Other, Sides, MirrorOf, Evidence, Tunable
  <2>3. PressureBlocks(s.fadePressureMin, m, Other(side)) <=> PressureBlocks(s.fadePressureMin, p, side)
    BY <2>1 DEF PressureBlocks, Against, Abs, Other, Sides, MirrorOf, Evidence
  <2>4. FadeHolds(s, m) <=> FadeHolds(s, p)
    <3>1. /\ m.preMarket = p.preMarket /\ m.tte = p.tte
          /\ (m.change = 0 /\ BtcMove(m) = 0) <=> (p.change = 0 /\ BtcMove(p) = 0)
      BY <1>1 DEF MirrorOf, Evidence
    <3>2. CandlePhaseBlocks(s.fadeMinElapsed, m) <=> CandlePhaseBlocks(s.fadeMinElapsed, p)
      BY DEF CandlePhaseBlocks, MirrorOf
    <3> QED BY <1>2, <1>3, <2>1, <2>2, <2>3, <3>1, <3>2 DEF FadeHolds, x
  <2>5. /\ p.mid # 0 /\ m.mid # 0 /\ m.mid = One - p.mid /\ p.mid \in Int
    BY Scale DEF MirrorOf
  <2>6. /\ Clamp(m.mid + Abs(x), Cent, One - Cent) = One - Clamp(p.mid - Abs(x), Cent, One - Cent)
        /\ Clamp(m.mid - Abs(x), Cent, One - Cent) = One - Clamp(p.mid + Abs(x), Cent, One - Cent)
    <3>1. p.mid - Abs(x) \in Int /\ p.mid + Abs(x) \in Int
      BY <1>3, <2>5
    <3>2. m.mid + Abs(x) = One - (p.mid - Abs(x)) /\ m.mid - Abs(x) = One - (p.mid + Abs(x))
      BY <1>3, <2>5, Scale
    <3> QED BY <3>1, <3>2, ClampMirrors
  <2>7. CASE FadeHolds(s, p)
    BY <2>4, <2>5, <2>7 DEF OverreactionVerdict, Abstention, MirroredVerdict, Other
  <2>8. CASE ~FadeHolds(s, p)
    <3> DEFINE edge == Abs(x) - s.costFloor
               tag  == IF s.fadeMaker THEN "maker" ELSE "taker"
    <3>1. OverreactionVerdict(s, p) =
            [side |-> side, edge |-> edge, edges |-> OneSided(side, edge),
             fair |-> Clamp(IF side = "YES" THEN p.mid + Abs(x) ELSE p.mid - Abs(x), Cent, One - Cent),
             confidence |-> 60 * Cent, risk |-> "LOW", tag |-> tag]
      BY <2>5, <2>8 DEF OverreactionVerdict, x
    <3>2. OverreactionVerdict(s, m) =
            [side |-> Other(side), edge |-> edge, edges |-> OneSided(Other(side), edge),
             fair |-> Clamp(IF Other(side) = "YES" THEN m.mid + Abs(x) ELSE m.mid - Abs(x), Cent, One - Cent),
             confidence |-> 60 * Cent, risk |-> "LOW", tag |-> tag]
      BY <1>2, <1>3, <2>1, <2>4, <2>5, <2>8 DEF OverreactionVerdict
    <3> HIDE DEF edge, tag, side
    <3>3. side \in Sides
      BY <2>1 DEF side
    <3> QED BY <2>6, <3>1, <3>2, <3>3 DEF MirroredVerdict, OneSided, Other, Sides
  <2> QED BY <2>7, <2>8
<1>5. CASE x = 0
  <2>1. FadeHolds(s, p) /\ FadeHolds(s, m)
    <3>1. Abs(x) - s.costFloor <= 0
      BY <1>5 DEF Abs, Tunable
    <3> QED BY <1>2, <1>3, <3>1 DEF FadeHolds, x
  <2>2. p.mid # 0 /\ m.mid # 0 /\ m.mid = One - p.mid
    BY Scale DEF MirrorOf
  <2> QED BY <2>1, <2>2 DEF OverreactionVerdict, Abstention, MirroredVerdict, Other
<1> QED BY <1>4, <1>5

\* The tail of a market seen from the other side, when one of them is cheap.
LEMMA PennyMirrors ==
  ASSUME NEW s, NEW p, NEW m, Tunable(s), Evidence(p), MirrorOf(m, p),
         ~(Cheap(s, p.askYes) /\ Cheap(s, p.askNo))
  PROVE  PennyVerdict(s, m) = MirroredVerdict(PennyVerdict(s, p))
<1> DEFINE side == CheapSide(s, p)
           edge == Larger(0, One - AskOf(p, side))
<1>1. side \in {"YES", "NO", "ABSTAIN"} /\ CheapSide(s, m) = Other(side)
  BY DEF CheapSide, Other, MirrorOf
<1>2. m.preMarket = p.preMarket /\ m.tte = p.tte
  BY DEF MirrorOf
<1> HIDE DEF side
<1>3. CASE side = "ABSTAIN"
  <2>1. One - Even = Even
    BY Scale
  <2> QED BY <1>1, <1>3, <2>1 DEF PennyVerdict, Abstention, MirroredVerdict, Other, side
<1>4. CASE side \in Sides
  <2>1. Recovers(s, m, Other(side)) <=> Recovers(s, p, side)
    BY <1>4 DEF Recovers, Other, Sides, Evidence, Tunable, MirrorOf
  <2>2. AskOf(m, Other(side)) = AskOf(p, side) /\ Other(side) # "ABSTAIN" /\ side # "ABSTAIN"
    BY <1>4 DEF AskOf, Other, Sides, MirrorOf
  <2>3. CASE p.preMarket \/ p.tte < s.pennyMinTte \/ ~Recovers(s, p, side)
    <3>1. One - Even = Even
      BY Scale
    <3> QED BY <1>1, <1>2, <2>1, <2>3, <3>1 DEF PennyVerdict, Abstention, MirroredVerdict, Other, side
  <2>4. CASE ~(p.preMarket \/ p.tte < s.pennyMinTte \/ ~Recovers(s, p, side))
    <3>1. PennyVerdict(s, p) =
            [side |-> side, fair |-> IF side = "YES" THEN One ELSE 0,
             edge |-> edge, edges |-> OneSided(side, edge),
             confidence |-> 75 * Cent, risk |-> "LOW", tag |-> "penny"]
      BY <2>2, <2>4 DEF PennyVerdict, side
    <3>2. PennyVerdict(s, m) =
            [side |-> Other(side), fair |-> IF Other(side) = "YES" THEN One ELSE 0,
             edge |-> edge, edges |-> OneSided(Other(side), edge),
             confidence |-> 75 * Cent, risk |-> "LOW", tag |-> "penny"]
      BY <1>1, <1>2, <2>1, <2>2, <2>4 DEF PennyVerdict
    <3> HIDE DEF edge
    <3>3. One - 0 = One /\ One - One = 0
      BY Scale
    <3> QED BY <1>4, <3>1, <3>2, <3>3 DEF MirroredVerdict, OneSided, Other, Sides
  <2> QED BY <2>3, <2>4
<1> QED BY <1>1, <1>3, <1>4 DEF Sides


-----------------------------------------------------------------------------
(* The inductive invariant.                                                *)

Level(b) == {b.bid, b.bidSize, b.ask, b.askSize} \subseteq Int

\* What the venue quotes.
Listing(b) ==
    /\ Level(b)
    /\ Quoted(b) => Cent <= b.bid /\ b.bid < b.ask /\ b.ask <= One - Cent /\ (b.bid + b.ask) % 2 = 0

Moved(b) ==
    {b.sinceOpen, b.vsStrike, b.return30s, b.return5m, b.return15m, b.return1h, b.return4h, b.vol}
        \subseteq Int

Sampled ==
    /\ tuning \in Tunings \cup {NoTuning}
    /\ Listing(tops.YES) /\ Level(tops.NO)
    /\ mids \in [latest : Int, reference : Int]
    /\ Moved(btc)
    /\ tuning # NoTuning => tte \in tuning.times \cup {tuning.horizon}

\* A packet as the fair-value scorer can read it.
Readable(s, p) == Evidence(p) /\ Larger(p.tte, s.tteFloor) \in Seconds

Names == {"fade", "adaptive", "penny", "adaptive_v2", "market_maker"}

\* The running tick has scored the books that are still there.
Ticking ==
    /\ todo \in Seq(Names)
    /\ todo = <<>> => tick = NoTick
    /\ todo # <<>> =>
         /\ tuning \in Tunings
         /\ Readable(tuning, tick.packet)
         /\ tick.fade = QuantVerdict(tuning, tick.packet)
         /\ tick.packet.askYes = tops.YES.ask /\ tick.packet.askNo = tops.NO.ask
         /\ tick.packet.bidYes = tops.YES.bid

\* Nothing is approved before the daemon starts.
Decided == decision.outcome = "APPROVED" => tuning # NoTuning

Inv == Sampled /\ Ticking /\ Decided /\ ApprovedEdgeIsReal

-----------------------------------------------------------------------------
(* Approvals.                                                              *)

\* The price an order is sent with is at most the ask the scorer reckoned with.
LEMMA LimitWithinAsk ==
  ASSUME NEW p, NEW book, NEW side \in Sides, NEW b, Listing(b), Quoted(b),
         book.ask = b.ask, book.bid = b.bid, p.askYes = b.ask, p.bidYes = b.bid,
         p.askNo \in Int, side = "YES" \/ p.askNo \notin 1..(One - b.bid - 1)
  PROVE  /\ EntryLimit(book, side) \in Int /\ AskPaid(p, side) \in Int
         /\ EntryLimit(book, side) <= AskPaid(p, side)
<1>1. /\ b.bid \in Int /\ b.ask \in Int /\ b.bid > 0 /\ b.ask > 0
      /\ Cent <= b.bid /\ b.bid < b.ask /\ b.ask <= One - Cent
  BY DEF Listing, Level, Quoted
<1>2. CASE side = "YES"
  BY <1>1, <1>2 DEF EntryLimit, AskPaid, EffectiveAskYes
<1>3. CASE side = "NO"
  <2>1. Larger(One - b.bid, Cent) = One - b.bid /\ One - b.bid \in Int
    BY <1>1, Scale DEF Larger
  <2>2. p.askNo <= 0 \/ p.askNo >= One - b.bid
    BY <1>1, <1>3, Scale
  <2>3. EffectiveAskNo(p) \in Int /\ EffectiveAskNo(p) >= One - b.bid
    BY <1>1, <2>2, Scale DEF EffectiveAskNo, Clamp, Larger, Smaller
  <2> QED BY <1>3, <2>1, <2>3 DEF EntryLimit, AskPaid
<1> QED BY <1>2, <1>3 DEF Sides

\* An approved verdict of the fair-value scorer has its edge at that price.
LEMMA ApprovedEdge ==
  ASSUME NEW s, NEW p, Tunable(s), s.minEdge \in Int, Evidence(p),
         Larger(p.tte, s.tteFloor) \in Seconds,
         NEW v, v \in {QuantVerdict(s, p), AdaptiveVerdict(s, p)},
         NEW by, NEW from, NEW book, NEW depth, NEW toExpiry, NEW account,
         NEW d, d = DecideTrade(s, by, from, book, depth, toExpiry, v, account),
         d.outcome = "APPROVED",
         EntryLimit(book, d.side) \in Int, AskPaid(p, d.side) \in Int,
         EntryLimit(book, d.side) <= AskPaid(p, d.side)
  PROVE  /\ FairOf(v, d.side) - d.limit - SlippageBps(s, p) - s.fee >= s.minEdge
         /\ d.from = from /\ d.by = by
<1>1. /\ ~Refused(s, book, depth, toExpiry, v, account) /\ v.side # "ABSTAIN"
      /\ d.side = v.side /\ d.limit = EntryLimit(book, v.side) /\ d.from = from /\ d.by = by
  BY DEF DecideTrade, Nothing
<1>2. v = QuantVerdict(s, p)
  BY <1>1 DEF AdaptiveVerdict, HoldFire
<1>3. ~(Abs(v.edge) < s.minEdge)
  BY <1>1 DEF Refused
<1>4. /\ v.side \in Sides /\ v.fair \in Int /\ v.edge \in Int /\ v.edge > 0
      /\ v.edge = FairFor(v.fair, v.side) - AskPaid(p, v.side) - (SlippageBps(s, p) + s.fee)
  BY <1>1, <1>2, VerdictEdge, Scale
<1>5. FairOf(v, v.side) = FairFor(v.fair, v.side) /\ FairOf(v, v.side) \in Int
  BY <1>4, Scale DEF FairOf, FairFor
<1>6. SlippageBps(s, p) \in Int /\ s.fee \in Int
  BY CostInt
<1>7. v.edge >= s.minEdge
  BY <1>3, <1>4 DEF Abs
<1> QED BY <1>1, <1>4, <1>5, <1>6, <1>7

-----------------------------------------------------------------------------
(* Packets.                                                                *)

\* Settings are such that the scorer can compute with them.
LEMMA TunedSettings ==
  ASSUME NEW s \in Tunings
  PROVE  /\ Tunable(s) /\ Settings \subseteq DOMAIN s /\ s # NoTuning
         /\ s.window \in Int /\ s.implied \in Int /\ s.minEdge \in Int
         /\ \A t \in s.times \cup {s.horizon} : t \in Int /\ Larger(t, s.tteFloor) \in Seconds
BY DecisionAssumption

\* The mid, the gap and the imbalance of a book are whole numbers.
LEMMA BookInt ==
  ASSUME NEW b, Level(b)
  PROVE  Mid(b) \in Int /\ Gap(b) \in Int /\ Dollars(b) \in Int /\ Imbalance(b) \in Int
<1>1. b.bid \in Int /\ b.ask \in Int /\ b.bidSize \in Int /\ b.askSize \in Int
  BY DEF Level
<1>2. Mid(b) \in Int /\ Gap(b) \in Int
  BY <1>1 DEF Mid, Gap, Larger
<1>3. b.bid * b.bidSize \in Int /\ b.ask * b.askSize \in Int
  BY <1>1
<1>4. Dollars(b) \in Int
  BY <1>3 DEF Dollars
<1>5. Imbalance(b) \in Int
  <2>1. 100 * (b.bid * b.bidSize - b.ask * b.askSize) \in Int
    BY <1>3
  <2> DEFINE x == 100 * (b.bid * b.bidSize - b.ask * b.askSize)
  <2>2. CASE Dollars(b) > 0
    <3>1. Dollars(b) \in Nat \ {0}
      BY <1>4, <2>2
    <3>2. x \in Int
      BY <2>1
    <3> HIDE DEF x
    <3>3. Quot(x, Dollars(b)) \in Int
      BY <3>1, <3>2, QuotInt
    <3>4. Imbalance(b) = Quot(x, Dollars(b))
      BY <2>2 DEF Imbalance, x
    <3> QED BY <3>3, <3>4
  <2>3. CASE ~(Dollars(b) > 0)
    BY <2>3 DEF Imbalance
  <2> QED BY <2>2, <2>3
<1> QED BY <1>2, <1>4, <1>5

\* What the streams report makes a packet the scorer can read.
LEMMA FeaturesRead ==
  ASSUME Sampled, tuning \in Tunings
  PROVE  Readable(tuning, FeaturePacket)
<1>1. /\ tuning.window \in Int /\ tuning.implied \in Int /\ tuning # NoTuning
      /\ \A t \in tuning.times \cup {tuning.horizon} : t \in Int /\ Larger(t, tuning.tteFloor) \in Seconds
  BY TunedSettings
<1>2. tte \in Int /\ Larger(tte, tuning.tteFloor) \in Seconds
  BY <1>1 DEF Sampled
<1>3. /\ tops.YES.ask \in Int /\ tops.YES.bid \in Int /\ tops.NO.ask \in Int /\ tops.NO.bid \in Int
  BY DEF Sampled, Listing, Level
<1>4. Mid(tops.YES) \in Int /\ Gap(tops.YES) \in Int /\ Imbalance(tops.YES) \in Int
  BY BookInt DEF Sampled, Listing
<1>5. SignedFlow \in Int
  BY DecisionAssumption DEF SignedFlow, TradeSign
<1>6. MidChange \in Int
  <2> DEFINE x == (mids.latest - mids.reference) * One
  <2>1. mids.latest \in Int /\ mids.reference \in Int
    BY DEF Sampled
  <2>2. x \in Int
    BY <2>1, Scale
  <2>3. CASE mids.reference > 0
    <3> HIDE DEF x
    <3>1. mids.reference \in Nat \ {0}
      BY <2>1, <2>3
    <3>2. Quot(x, mids.reference) \in Int
      BY <2>2, <3>1, QuotInt
    <3>3. MidChange = Quot(x, mids.reference)
      BY <2>3 DEF MidChange, x
    <3> QED BY <3>2, <3>3
  <2>4. CASE ~(mids.reference > 0)
    BY <2>4 DEF MidChange
  <2> QED BY <2>3, <2>4
<1>7. PreMarket \in BOOLEAN /\ Elapsed \in Int
  BY <1>1, <1>2 DEF PreMarket, Elapsed, Larger
<1>8. Moved(btc)
  BY DEF Sampled
<1> DEFINE p == FeaturePacket
<1>9. /\ p.askYes \in Int /\ p.askNo \in Int /\ p.bidYes \in Int /\ p.bidNo \in Int
      /\ p.mid \in Int /\ p.spread \in Int /\ p.imbalance \in Int /\ p.flow \in Int
      /\ p.change \in Int /\ p.preMarket \in BOOLEAN /\ p.tte = tte
  BY <1>1, <1>3, <1>4, <1>5, <1>6, <1>7 DEF FeaturePacket
<1>10. /\ p.sinceOpen \in Int /\ p.vsStrike \in Int /\ p.return30s \in Int
       /\ p.return5m \in Int /\ p.return15m \in Int /\ p.return1h \in Int
       /\ p.return4h \in Int /\ p.vol \in Int
  BY <1>8 DEF FeaturePacket, Moved
<1> HIDE DEF p
<1>11. Evidence(p)
  BY <1>9, <1>10 DEF Evidence
<1> QED BY <1>2, <1>9, <1>11 DEF Readable, p

\* The packet of an answer has the quotes of the book it answers.
LEMMA AnswerReads ==
  ASSUME Sampled, tuning \in Tunings, NEW b, Listing(b), Quoted(b)
  PROVE  LET p == AnswerPacket(b)
         IN  /\ Readable(tuning, p)
             /\ p.askYes = b.ask /\ p.bidYes = b.bid /\ p.askNo = One - b.bid
<1>1. /\ b.bid \in Int /\ b.ask \in Int /\ b.bid > 0 /\ b.ask > 0
      /\ Cent <= b.bid /\ b.bid < b.ask /\ b.ask <= One - Cent /\ (b.bid + b.ask) % 2 = 0
  BY DEF Listing, Level, Quoted
<1> DEFINE half == Gap(b) \div 2
           mid  == Mid(b)
<1>2. Gap(b) = b.ask - b.bid /\ mid = (b.bid + b.ask) \div 2
  BY <1>1 DEF Gap, Mid, Larger, Quoted
<1>3. /\ mid \in Int /\ half \in Int
      /\ mid + half = b.ask /\ mid - half = b.bid /\ mid > 0
  BY <1>1, <1>2
<1>4. /\ Smaller(One - Mill, mid + half) = b.ask
      /\ Larger(Mill, mid - half) = b.bid
  BY <1>1, <1>3, Scale DEF Smaller, Larger
<1>5. Smaller(One - Mill, One - mid + half) = One - b.bid
  BY <1>1, <1>3, Scale DEF Smaller
<1>6. Larger(Mill, One - mid - half) \in Int
  BY <1>3, Scale DEF Larger
<1>7. tuning.implied \in Int /\ tuning # NoTuning
  BY TunedSettings
<1>8. /\ tte \in Int /\ Larger(tte, tuning.tteFloor) \in Seconds
  BY <1>7, TunedSettings DEF Sampled
<1> DEFINE p == AnswerPacket(b)
<1>9. /\ p.askYes = b.ask /\ p.bidYes = b.bid /\ p.askNo = One - b.bid
      /\ p.bidNo = Larger(Mill, One - mid - half)
      /\ p.mid = mid /\ p.spread = b.ask - b.bid /\ p.imbalance = 0 /\ p.flow = 0
      /\ p.change = mid - tuning.implied
  BY <1>2, <1>3, <1>4, <1>5 DEF AnswerPacket, FeaturePacket
<1>10. /\ p.preMarket \in BOOLEAN /\ p.sinceOpen = 0 /\ p.vsStrike = 0 /\ p.return30s = 0
       /\ p.return5m = 0 /\ p.return15m = 0 /\ p.return1h = 0 /\ p.return4h = 0 /\ p.vol = 0
       /\ p.tte = tte
  BY DEF AnswerPacket, FeaturePacket
<1> HIDE DEF p
<1>11. /\ p.askYes \in Int /\ p.askNo \in Int /\ p.bidYes \in Int /\ p.bidNo \in Int
       /\ p.mid \in Int /\ p.spread \in Int /\ p.imbalance \in Int /\ p.flow \in Int
       /\ p.change \in Int
  <2> HIDE DEF half, mid
  <2> QED BY <1>1, <1>3, <1>6, <1>7, <1>9, Scale
<1>12. Evidence(p)
  BY <1>10, <1>11 DEF Evidence
<1> QED BY <1>8, <1>9, <1>10, <1>12 DEF Readable, p

-----------------------------------------------------------------------------
(* The steps.                                                              *)

\* The invariant holds before the daemon starts.
LEMMA InitInv == DecisionInit => Inv
<1> SUFFICES ASSUME DecisionInit PROVE Inv
  OBVIOUS
<1>1. Sampled
  <2>0. /\ tops.YES = NoTop /\ tops.NO = NoTop
        /\ mids = [latest |-> 0, reference |-> 0]
        /\ btc = [sinceOpen |-> 0, vsStrike |-> 0, return30s |-> 0, return5m |-> 0, return15m |-> 0,
                  return1h |-> 0, return4h |-> 0, vol |-> 0, session |-> "off"]
    BY Zenon DEF DecisionInit
  <2>1. Listing(tops.YES) /\ Level(tops.NO)
    BY <2>0 DEF Listing, Level, Quoted, NoTop
  <2>2. mids \in [latest : Int, reference : Int]
    BY <2>0
  <2>3. Moved(btc)
    BY <2>0 DEF Moved
  <2> QED BY <2>1, <2>2, <2>3 DEF DecisionInit, Sampled
<1>2. Ticking
  <2>1. todo = <<>> /\ tick = NoTick
    BY DEF DecisionInit
  <2>2. todo \in Seq(Names)
    BY <2>1
  <2> QED BY <2>1, <2>2 DEF Ticking
<1>3. decision.outcome # "APPROVED"
  BY DEF DecisionInit, Nothing
<1> QED BY <1>1, <1>2, <1>3 DEF Inv, Decided, ApprovedEdgeIsReal

\* A step that decides nothing approves nothing.
LEMMA Unapproved ==
  ASSUME NEW by, NEW why, why # "APPROVED", decision' = Nothing(by, why)
  PROVE  Decided' /\ ApprovedEdgeIsReal'
BY DEF Nothing, Decided, ApprovedEdgeIsReal

\* The start takes its settings and decides nothing.
LEMMA StartStep == ASSUME Inv, NEW s \in Tunings, Start(s) PROVE Inv'
<1>1. decision.outcome # "APPROVED" /\ decision' = decision /\ tuning' = s
  BY DEF Inv, Decided, Start
<1>2. Decided' /\ ApprovedEdgeIsReal'
  BY <1>1 DEF Decided, ApprovedEdgeIsReal
<1>3. Sampled'
  BY DEF Inv, Sampled, Start, inputs
<1>4. todo = <<>> /\ todo' = todo /\ tick' = tick
  BY DecisionAssumption DEF Inv, Ticking, Start
<1>5. Ticking'
  BY <1>4 DEF Inv, Ticking
<1> QED BY <1>2, <1>3, <1>5 DEF Inv

\* A move of the book leaves levels as the venue quotes them.
LEMMA BookStep ==
  ASSUME Inv, NEW b \in TopsOfBook, NEW follows \in BOOLEAN, BookMoves(b, follows)
  PROVE  Inv'
<1>1. Decided' /\ ApprovedEdgeIsReal'
  BY Unapproved DEF BookMoves
<1>2. Listing(b) /\ Level(b)
  BY DecisionAssumption DEF Listing, Level, Quoted
<1>3. Level(Reflect(b))
  BY <1>2, Scale DEF Reflect, Level
<1>4. Listing(tops'.YES) /\ Level(tops'.NO)
  BY <1>2, <1>3 DEF BookMoves, Inv, Sampled
<1>5. mids' \in [latest : Int, reference : Int]
  BY <1>2, BookInt DEF BookMoves, SampleMid, Inv, Sampled
<1>6. Sampled'
  BY <1>4, <1>5 DEF BookMoves, Inv, Sampled
<1>7. Ticking'
  BY DEF BookMoves, Idle, Inv, Ticking
<1> QED BY <1>1, <1>6, <1>7 DEF Inv

\* A trade changes the tape alone.
LEMMA TradeStep == ASSUME Inv, NEW t \in Trades, TradePrints(t) PROVE Inv'
<1>1. Decided' /\ ApprovedEdgeIsReal'
  BY Unapproved DEF TradePrints
<1>2. Sampled' /\ Ticking'
  BY DEF TradePrints, Inv, Sampled, Ticking
<1> QED BY <1>1, <1>2 DEF Inv

\* BTC moves to what its state may report.
LEMMA BtcStep == ASSUME Inv, NEW b \in BtcMoves, BtcTicks(b) PROVE Inv'
<1>1. Decided' /\ ApprovedEdgeIsReal'
  BY Unapproved DEF BtcTicks
<1>2. Moved(b)
  BY DecisionAssumption DEF Moved
<1>3. Sampled' /\ Ticking'
  BY <1>2 DEF BtcTicks, Inv, Sampled, Ticking
<1> QED BY <1>1, <1>3 DEF Inv

\* Time passes to a second that occurs, during a tick as well.
LEMMA TimeStep == ASSUME Inv, TimePasses PROVE Inv'
<1>1. Decided' /\ ApprovedEdgeIsReal'
  BY Unapproved DEF TimePasses
<1>2. mids' \in [latest : Int, reference : Int]
  BY DEF TimePasses, Inv, Sampled
<1>3. Sampled' /\ Ticking'
  BY <1>2 DEF TimePasses, Inv, Sampled, Ticking
<1> QED BY <1>1, <1>3 DEF Inv

\* The universe of the market maker is no input of the scorers.
LEMMA ScanStep == ASSUME Inv, UniverseScan PROVE Inv'
<1>1. Decided' /\ ApprovedEdgeIsReal'
  BY Unapproved DEF UniverseScan
<1>2. Sampled' /\ Ticking'
  BY DEF UniverseScan, inputs, Inv, Sampled, Ticking
<1> QED BY <1>1, <1>2 DEF Inv

\* A tick has strategies to run.
LEMMA SomeStrategies ==
  ASSUME NEW s
  PROVE  Strategies(s) \in Seq(Names) /\ Strategies(s) # <<>>
<1> DEFINE a == IF s.adaptive THEN <<"adaptive">> ELSE <<>>
           b == IF s.penny THEN <<"penny">> ELSE <<>>
           c == IF s.adaptiveV2 THEN <<"adaptive_v2">> ELSE <<>>
           d == IF s.mm THEN <<"market_maker">> ELSE <<>>
           f == <<"fade">>
<1> USE DEF Names
<1>1. /\ a \in Seq(Names) /\ b \in Seq(Names)
      /\ c \in Seq(Names) /\ d \in Seq(Names)
  <2>1. a \in Seq(Names)
    BY <<"adaptive">> \in Seq(Names), <<>> \in Seq(Names)
  <2>2. b \in Seq(Names)
    BY <<"penny">> \in Seq(Names), <<>> \in Seq(Names)
  <2>3. c \in Seq(Names)
    BY <<"adaptive_v2">> \in Seq(Names), <<>> \in Seq(Names)
  <2>4. d \in Seq(Names)
    BY <<"market_maker">> \in Seq(Names), <<>> \in Seq(Names)
  <2> QED BY <2>1, <2>2, <2>3, <2>4
<1>2. f \in Seq(Names) /\ Len(f) >= 1
  OBVIOUS
<1>3. Strategies(s) = f \o a \o b \o c \o d
  BY DEF Strategies
<1> HIDE DEF a, b, c, d, f
<1> HIDE DEF Names
<1>4. f \o a \in Seq(Names) /\ Len(f \o a) >= 1
  BY <1>1, <1>2
<1>5. f \o a \o b \in Seq(Names) /\ Len(f \o a \o b) >= 1
  BY <1>1, <1>4
<1>6. f \o a \o b \o c \in Seq(Names) /\ Len(f \o a \o b \o c) >= 1
  BY <1>1, <1>5
<1>7. Strategies(s) \in Seq(Names) /\ Len(Strategies(s)) >= 1
  BY <1>1, <1>3, <1>6
<1> QED BY <1>7

\* The tick takes the books of its start, and scores them.
LEMMA DecisionStep == ASSUME Inv, StartDecision PROVE Inv'
<1>1. Decided' /\ ApprovedEdgeIsReal'
  BY Unapproved DEF StartDecision
<1>2. Sampled'
  BY DEF StartDecision, inputs, Inv, Sampled
<1>3. tuning \in Tunings /\ tuning' = tuning /\ tops' = tops
  BY DEF StartDecision, Idle, inputs, Inv, Sampled
<1>4. Readable(tuning, FeaturePacket)
  BY <1>3, FeaturesRead DEF Inv
<1>5. tick'.packet = FeaturePacket /\ tick'.fade = QuantVerdict(tuning, FeaturePacket)
  BY DEF StartDecision
<1>6. /\ FeaturePacket.askYes = tops.YES.ask /\ FeaturePacket.askNo = tops.NO.ask
      /\ FeaturePacket.bidYes = tops.YES.bid
  BY DEF FeaturePacket
<1>7. todo' \in Seq(Names) /\ todo' # <<>>
  BY SomeStrategies DEF StartDecision
<1>8. Ticking'
  BY <1>3, <1>4, <1>5, <1>6, <1>7 DEF Ticking
<1> QED BY <1>1, <1>2, <1>8 DEF Inv

\* What the fair-value scorer or its wrapper gets approved in a tick.
LEMMA DirectionalIsReal ==
  ASSUME Inv, NEW strategy, NEW account, NEW cooling \in BOOLEAN, todo # <<>>,
         strategy \in Names, NEW d, d = Directional(strategy, account, cooling),
         d.outcome = "APPROVED", d.by \in {"fade", "adaptive", "operator"},
         Quoted(tops.YES),
         d.by = "operator" \/ d.side = "YES" \/ tops.NO.ask \notin 1..(One - tops.YES.bid - 1)
  PROVE  LET v == IF d.by = "adaptive" THEN AdaptiveVerdict(tuning, d.from.packet) ELSE d.from.fade
         IN  FairOf(v, d.side) - d.limit - SlippageBps(tuning, d.from.packet) - tuning.fee >= tuning.minEdge
<1> DEFINE p == tick.packet
           b == tops.YES
           v == Verdict(strategy, tick)
           book == DaemonBook(p)
<1>1. d = DecideTrade(tuning, strategy, tick, book, Dollars(tops.YES), tte, v, account)
  BY DEF Directional, Nothing
<1>2. d.by = strategy /\ d.from = tick
  BY <1>1 DEF DecideTrade, Nothing
<1>3. strategy \in {"fade", "adaptive"}
  BY <1>2 DEF Names
<1>4. /\ tuning \in Tunings /\ Evidence(p) /\ Larger(p.tte, tuning.tteFloor) \in Seconds
      /\ tick.fade = QuantVerdict(tuning, p)
      /\ p.askYes = b.ask /\ p.askNo = tops.NO.ask /\ p.bidYes = b.bid
      /\ Listing(b)
  BY DEF Inv, Ticking, Sampled, Readable
<1>5. Tunable(tuning) /\ tuning.minEdge \in Int
  BY <1>4, TunedSettings
<1>6. v \in {QuantVerdict(tuning, p), AdaptiveVerdict(tuning, p)}
  BY <1>3, <1>4 DEF Verdict
<1>7. p.askNo \in Int /\ (d.side = "YES" \/ p.askNo \notin 1..(One - b.bid - 1))
  <2>1. tops.NO.ask \in Int
    BY DEF Inv, Sampled, Listing, Level
  <2> HIDE DEF p
  <2> QED BY <1>2, <1>3, <1>4, <2>1
<1>8. book.ask = b.ask /\ book.bid = b.bid
  BY <1>4 DEF DaemonBook
<1>9. d.side \in Sides
  <2>1. v = QuantVerdict(tuning, p) /\ d.side = v.side /\ v.side # "ABSTAIN"
    <3> HIDE DEF p, book
    <3>1. v.side # "ABSTAIN" /\ d.side = v.side
      BY <1>1 DEF DecideTrade, Nothing
    <3> HIDE DEF v
    <3> QED BY <1>6, <3>1 DEF AdaptiveVerdict, HoldFire
  <2> HIDE DEF v, p
  <2> QED BY <1>4, <1>5, <2>1, VerdictEdge
<1>10. /\ EntryLimit(book, d.side) \in Int /\ AskPaid(p, d.side) \in Int
       /\ EntryLimit(book, d.side) <= AskPaid(p, d.side)
  <2> HIDE DEF p, b, book
  <2> QED BY <1>4, <1>7, <1>8, <1>9, LimitWithinAsk DEF b
<1>11. FairOf(v, d.side) - d.limit - SlippageBps(tuning, p) - tuning.fee >= tuning.minEdge
  <2> HIDE DEF p, b, book, v
  <2> QED BY <1>1, <1>4, <1>5, <1>6, <1>10, ApprovedEdge
<1>12. v = IF d.by = "adaptive" THEN AdaptiveVerdict(tuning, d.from.packet) ELSE d.from.fade
  BY <1>2, <1>3 DEF Verdict
<1> HIDE DEF v, p
<1> QED BY <1>2, <1>11, <1>12 DEF p

\* A strategy decides on what the tick took, and on books that still are those.
LEMMA StrategyStep == ASSUME Inv, RunStrategy PROVE Inv'
<1> DEFINE strategy == Head(todo)
<1>1. /\ todo # <<>> /\ todo' = Tail(todo) /\ tick' = (IF todo' = <<>> THEN NoTick ELSE tick)
      /\ tuning' = tuning /\ tops' = tops /\ mids' = mids /\ btc' = btc /\ tte' = tte
  BY DEF RunStrategy, inputs
<1>2. Sampled'
  BY <1>1 DEF Inv, Sampled
<1>3. strategy \in Names /\ todo' \in Seq(Names)
  BY <1>1 DEF Inv, Ticking
<1>4. Ticking'
  BY <1>1, <1>3 DEF Inv, Ticking
<1>5. tuning # NoTuning
  BY <1>1, TunedSettings DEF Inv, Ticking
<1>6. Decided'
  BY <1>1, <1>5 DEF Decided
<1>7. ApprovedEdgeIsReal'
  <2>1. CASE \E why \in {"passes", "quotes", "bookless", "manages"} : decision' = Nothing(strategy, why)
    BY <2>1, Unapproved
  <2>2. CASE \E account \in Accounts : strategy = "penny" /\ decision' = Penny(account)
    <3>1. decision'.by = "penny"
      BY <2>2 DEF Penny, Nothing
    <3> QED BY <3>1 DEF ApprovedEdgeIsReal
  <2>3. CASE \E account \in Accounts, cooling \in BOOLEAN :
               decision' = Directional(strategy, account, cooling)
    <3>1. PICK account \in Accounts, cooling \in BOOLEAN :
             decision' = Directional(strategy, account, cooling)
      BY <2>3
    <3> DEFINE d == decision'
    <3>2. SUFFICES ASSUME d.outcome = "APPROVED", d.by \in {"fade", "adaptive", "operator"},
                          Quoted(tops.YES),
                          \/ d.by = "operator" \/ d.side = "YES"
                          \/ tops.NO.ask \notin 1..(One - tops.YES.bid - 1)
                   PROVE  LET v == IF d.by = "adaptive" THEN AdaptiveVerdict(tuning, d.from.packet)
                                   ELSE d.from.fade
                          IN  FairOf(v, d.side) - d.limit - SlippageBps(tuning, d.from.packet)
                                - tuning.fee >= tuning.minEdge
      <4>1. decision.by' = "adaptive" =>
              Verdict(decision.by, decision.from)' = AdaptiveVerdict(tuning, d.from.packet)
        BY <1>1 DEF Verdict
      <4> QED BY <1>1, <4>1 DEF ApprovedEdgeIsReal
    <3> QED BY <1>1, <1>3, <3>1, <3>2, DirectionalIsReal
  <2>4. \/ \E why \in {"passes", "quotes", "bookless", "manages"} : decision' = Nothing(strategy, why)
        \/ \E account \in Accounts : strategy = "penny" /\ decision' = Penny(account)
        \/ \E account \in Accounts, cooling \in BOOLEAN :
               decision' = Directional(strategy, account, cooling)
    BY DEF RunStrategy
  <2> QED BY <2>1, <2>2, <2>3, <2>4
<1> QED BY <1>2, <1>4, <1>6, <1>7 DEF Inv

\* A command decides on one answer of the venue.
LEMMA OperatorStep ==
  ASSUME Inv, NEW account \in Accounts, NEW reply \in Replies, OperatorDecides(account, reply)
  PROVE  Inv'
<1> DEFINE b == tops.YES
           p == AnswerPacket(b)
           v == IF tuning.model THEN ModelVerdict(tuning, p, reply) ELSE QuantVerdict(tuning, p)
           by == IF tuning.model THEN "model" ELSE "operator"
           from == [packet |-> p, fade |-> v, shadow |-> NoShadow]
           book == AnswerBook(b)
           d == DecideTrade(tuning, by, from, book, Dollars(b), tte, v, account)
<1>1. /\ decision' = d /\ tuning' = tuning /\ tops' = tops /\ mids' = mids /\ btc' = btc
      /\ tte' = tte /\ todo' = todo /\ tick' = tick /\ todo = <<>> /\ tuning # NoTuning
  BY DEF OperatorDecides, Idle, inputs
<1>2. Sampled' /\ Ticking'
  BY <1>1 DEF Inv, Sampled, Ticking
<1>3. Decided'
  BY <1>1 DEF Decided
<1>4. ApprovedEdgeIsReal'
  <2>1. CASE tuning.model
    <3>1. by = "model"
      BY <2>1
    <3>2. d.by \in {by, "model"}
      BY DEF DecideTrade, Nothing
    <3>3. decision'.by = "model"
      BY <1>1, <3>1, <3>2
    <3> QED BY <3>3 DEF ApprovedEdgeIsReal
  <2>2. CASE ~tuning.model
    <3>1. by = "operator" /\ v = QuantVerdict(tuning, p)
      BY <2>2
    <3>2. d.by = "operator"
      BY <3>1 DEF DecideTrade, Nothing
    <3>3. SUFFICES ASSUME d.outcome = "APPROVED", Quoted(b)
                   PROVE  FairOf(d.from.fade, d.side) - d.limit - SlippageBps(tuning, d.from.packet)
                            - tuning.fee >= tuning.minEdge
      <4> HIDE DEF d
      <4> QED BY <1>1, <3>2 DEF ApprovedEdgeIsReal
    <3>4. tuning \in Tunings /\ Listing(b)
      BY <1>1 DEF Inv, Sampled
    <3>5. Tunable(tuning) /\ tuning.minEdge \in Int
      BY <3>4, TunedSettings
    <3>6. /\ Evidence(p) /\ Larger(p.tte, tuning.tteFloor) \in Seconds
          /\ p.askYes = b.ask /\ p.bidYes = b.bid /\ p.askNo = One - b.bid
      BY <3>3, <3>4, AnswerReads DEF Inv, Readable
    <3>7. book.ask = b.ask /\ book.bid = b.bid
      BY DEF AnswerBook
    <3>8. /\ EntryLimit(book, d.side) \in Int /\ AskPaid(p, d.side) \in Int
          /\ EntryLimit(book, d.side) <= AskPaid(p, d.side)
      <4>1. v.side # "ABSTAIN" /\ d.side = v.side
        <5> HIDE DEF v, p, b, book
        <5> QED BY <3>3 DEF DecideTrade, Nothing
      <4>2. d.side \in Sides
        <5> HIDE DEF v, p, d
        <5> QED BY <3>1, <3>5, <3>6, <4>1, VerdictEdge
      <4>3. b.bid \in Int
        BY <3>4 DEF Listing, Level
      <4>4. p.askNo \in Int /\ p.askNo \notin 1..(One - b.bid - 1)
        <5> HIDE DEF p, b
        <5> QED BY <3>6, <4>3, Scale
      <4> HIDE DEF p, b, book, d
      <4> QED BY <3>3, <3>4, <3>6, <3>7, <4>2, <4>4, LimitWithinAsk
    <3>9. /\ FairOf(v, d.side) - d.limit - SlippageBps(tuning, p) - tuning.fee >= tuning.minEdge
          /\ d.from = from
      <4> HIDE DEF p, b, book, v, from, by
      <4> QED BY <3>1, <3>3, <3>5, <3>6, <3>8, ApprovedEdge
    <3>10. d.from.packet = p /\ d.from.fade = v
      <4> HIDE DEF d, p, v
      <4> QED BY <3>9
    <3> HIDE DEF d, p, v
    <3> QED BY <3>9, <3>10
  <2> QED BY <2>1, <2>2
<1> QED BY <1>2, <1>3, <1>4 DEF Inv

\* A step of another component changes nothing here.
LEMMA StutterStep == ASSUME Inv, UNCHANGED decisionVars PROVE Inv'
<1>1. Sampled' /\ Ticking'
  BY DEF Inv, Sampled, Ticking, decisionVars
<1>2. Decided'
  BY DEF Inv, Decided, decisionVars
<1>3. ApprovedEdgeIsReal'
  BY DEF Inv, ApprovedEdgeIsReal, Verdict, decisionVars
<1> QED BY <1>1, <1>2, <1>3 DEF Inv

\* Every step preserves the invariant.
LEMMA NextInv == Inv /\ [DecisionNext]_decisionVars => Inv'
<1> SUFFICES ASSUME Inv, [DecisionNext]_decisionVars PROVE Inv'
  OBVIOUS
<1>1. CASE \E s \in Tunings : Start(s)
  BY <1>1, StartStep
<1>2. CASE \E b \in TopsOfBook, follows \in BOOLEAN : BookMoves(b, follows)
  BY <1>2, BookStep
<1>3. CASE \E t \in Trades : TradePrints(t)
  BY <1>3, TradeStep
<1>4. CASE \E b \in BtcMoves : BtcTicks(b)
  BY <1>4, BtcStep
<1>5. CASE TimePasses
  BY <1>5, TimeStep
<1>6. CASE UniverseScan
  BY <1>6, ScanStep
<1>7. CASE StartDecision
  BY <1>7, DecisionStep
<1>8. CASE RunStrategy
  BY <1>8, StrategyStep
<1>9. CASE \E account \in Accounts, reply \in Replies : OperatorDecides(account, reply)
  BY <1>9, OperatorStep
<1>10. CASE UNCHANGED decisionVars
  BY <1>10, StutterStep
<1> QED BY <1>1, <1>2, <1>3, <1>4, <1>5, <1>6, <1>7, <1>8, <1>9, <1>10 DEF DecisionNext

\* The invariant holds throughout.
LEMMA Invariance == DecisionSpec => []Inv
BY InitInv, NextInv, PTL DEF DecisionSpec

-----------------------------------------------------------------------------
(* What verdicts have in common.                                           *)

\* A higher fee changes the fee alone.
LEMMA DearerIsCostlier ==
  ASSUME NEW s \in Tunings, NEW fee \in Int
  PROVE  CostlierBy(fee, s, Dearer(s, fee)) /\ Tunable(Dearer(s, fee))
<1> DEFINE t == Dearer(s, fee)
<1>1. Tunable(s) /\ Settings \subseteq DOMAIN s
  BY TunedSettings
<1>2. \A x \in Settings : x \in DOMAIN s
  BY <1>1
<1>3. /\ t.fee = s.fee + fee
      /\ \A x \in Settings : x # "fee" => t[x] = s[x]
  <2>1. "fee" \in DOMAIN s
    BY <1>2 DEF Settings
  <2> QED BY <1>2, <2>1 DEF Dearer
<1> HIDE DEF t
<1>4. /\ t.defaultVol = s.defaultVol /\ t.damping = s.damping /\ t.tilt = s.tilt
      /\ t.slipBaseline = s.slipBaseline /\ t.slipCoef = s.slipCoef /\ t.tteFloor = s.tteFloor
      /\ t.longHorizon = s.longHorizon /\ t.invert = s.invert
  BY <1>3 DEF Settings
<1>5. /\ t.minElapsed = s.minElapsed /\ t.trendFilter = s.trendFilter /\ t.trendMin = s.trendMin
      /\ t.strongMinEdge = s.strongMinEdge /\ t.weakMinEdge = s.weakMinEdge
      /\ t.distressedAsk = s.distressedAsk /\ t.flowGate = s.flowGate /\ t.flowMin = s.flowMin
  BY <1>3 DEF Settings
<1>6. /\ t.volFilter = s.volFilter /\ t.volExtreme = s.volExtreme /\ t.volHigh = s.volHigh
      /\ t.volHighMinEdge = s.volHighMinEdge /\ t.maxAbsEdge = s.maxAbsEdge
      /\ t.regimeVolHigh = s.regimeVolHigh /\ t.regimeTrendMin = s.regimeTrendMin
  BY <1>3 DEF Settings
<1>7. /\ t.sensitivity = s.sensitivity /\ t.fadeThreshold = s.fadeThreshold
      /\ t.fadeFlowMin = s.fadeFlowMin /\ t.fadePressureMin = s.fadePressureMin
      /\ t.fadeInvert = s.fadeInvert /\ t.costFloor = s.costFloor
      /\ t.pennyAsk = s.pennyAsk /\ t.pennyMove = s.pennyMove
  BY <1>3 DEF Settings
<1>8. CostlierBy(fee, s, t)
  BY <1>3, <1>4, <1>5, <1>6 DEF CostlierBy
<1>9. /\ s.fee \in Int /\ t.fee \in Int
  BY <1>1, <1>3 DEF Tunable
<1>10. Tunable(t)
  BY <1>1, <1>4, <1>5, <1>6, <1>7, <1>9 DEF Tunable
<1> QED BY <1>8, <1>10 DEF t

\* What the running tick took at its start can be scored.
LEMMA ScoredReads == Inv /\ Scored => tuning \in Tunings /\ Readable(tuning, tick.packet)
BY DEF Inv, Scored, Ticking

\* CostsOnlyRemove follows from what the tick's packet is.
LEMMA CostsRemove == Inv => CostsOnlyRemove
<1> SUFFICES ASSUME Inv, Scored, NEW fee \in DearerBy
             PROVE  LET p == tick.packet
                        v == QuantVerdict(tuning, p)
                        t == Dearer(tuning, fee)
                    IN  \/ BeyondCeiling(tuning.maxAbsEdge, v.edge)
                        \/ /\ AgreesOrAbstains(v, QuantVerdict(t, p))
                           /\ AgreesOrAbstains(AdaptiveVerdict(tuning, p), AdaptiveVerdict(t, p))
  BY DEF CostsOnlyRemove
<1> DEFINE p == tick.packet
           t == Dearer(tuning, fee)
<1>1. tuning \in Tunings /\ Evidence(p) /\ Larger(p.tte, tuning.tteFloor) \in Seconds
  BY ScoredReads DEF Readable
<1>2. fee \in Nat
  BY Scale DEF DearerBy
<1>3. Tunable(tuning) /\ Tunable(t) /\ CostlierBy(fee, tuning, t)
  BY <1>1, <1>2, TunedSettings, DearerIsCostlier
<1> HIDE DEF p, t
<1>4. \/ BeyondCeiling(tuning.maxAbsEdge, QuantVerdict(tuning, p).edge)
      \/ AgreesOrAbstains(QuantVerdict(tuning, p), QuantVerdict(t, p))
  BY <1>1, <1>2, <1>3, CostlierVerdict
<1>5. AgreesOrAbstains(QuantVerdict(tuning, p), QuantVerdict(t, p)) =>
        AgreesOrAbstains(AdaptiveVerdict(tuning, p), AdaptiveVerdict(t, p))
  BY <1>3, CostlierAdaptive
<1> QED BY <1>4, <1>5 DEF p, t

\* VerdictsMirror follows from what the tick's packet is.
LEMMA Mirrors == Inv => VerdictsMirror
<1> DEFINE p == tick.packet
           m == Mirrored(p)
<1> SUFFICES ASSUME Inv, Scored, p.askYes > 0, p.askNo > 0, p.mid \in 1..(One - 1)
             PROVE  /\ (p.flow # 0 \/ tuning.flowMin > 0) /\ ~Undecided(QuantVerdict(tuning, p)) =>
                          /\ QuantVerdict(tuning, m) = MirroredVerdict(QuantVerdict(tuning, p))
                          /\ AdaptiveVerdict(tuning, m) = MirroredVerdict(AdaptiveVerdict(tuning, p))
                    /\ OverreactionVerdict(tuning, m) = MirroredVerdict(OverreactionVerdict(tuning, p))
                    /\ ~(Cheap(tuning, p.askYes) /\ Cheap(tuning, p.askNo)) =>
                          PennyVerdict(tuning, m) = MirroredVerdict(PennyVerdict(tuning, p))
  BY DEF VerdictsMirror
<1>1. tuning \in Tunings /\ Evidence(p) /\ Larger(p.tte, tuning.tteFloor) \in Seconds
  BY ScoredReads DEF Readable
<1>2. Tunable(tuning)
  BY <1>1, TunedSettings
<1>3. MirrorOf(m, p)
  BY DEF Mirrored, MirrorOf
<1> HIDE DEF p, m
<1>4. ASSUME p.flow # 0 \/ tuning.flowMin > 0, ~Undecided(QuantVerdict(tuning, p))
      PROVE  QuantVerdict(tuning, m) = MirroredVerdict(QuantVerdict(tuning, p))
  BY <1>1, <1>2, <1>3, <1>4, QuantMirrors
<1>5. ASSUME p.flow # 0 \/ tuning.flowMin > 0, ~Undecided(QuantVerdict(tuning, p))
      PROVE  AdaptiveVerdict(tuning, m) = MirroredVerdict(AdaptiveVerdict(tuning, p))
  BY <1>1, <1>3, <1>4, <1>5, AdaptiveMirrors
<1>6. OverreactionVerdict(tuning, m) = MirroredVerdict(OverreactionVerdict(tuning, p))
  BY <1>1, <1>2, <1>3, OverreactionMirrors
<1>7. ASSUME ~(Cheap(tuning, p.askYes) /\ Cheap(tuning, p.askNo))
      PROVE  PennyVerdict(tuning, m) = MirroredVerdict(PennyVerdict(tuning, p))
  BY <1>1, <1>2, <1>3, <1>7, PennyMirrors
<1> QED BY <1>4, <1>5, <1>6, <1>7

-----------------------------------------------------------------------------
(* The theorems.                                                           *)

\* An edge the risk engine approved is there at the price the order is sent
\* with, for every scale, book and settings of the assumptions
\* (QuantScoringEngine.score_market, RiskEngine.decide_trade).
THEOREM ApprovalsAreReal == DecisionSpec => []ApprovedEdgeIsReal
BY Invariance, PTL DEF Inv

\* A fee only takes trades away, whatever its amount and the settings
\* (QuantScoringEngine._edge_breakdown, _pick_side, _regime_gate).
THEOREM FeesOnlyRemove == DecisionSpec => []CostsOnlyRemove
BY Invariance, CostsRemove, PTL

\* No scorer favours a side of the market, whatever the packet
\* (QuantScoringEngine, AdaptiveScorer, OverreactionScorer, PennyScorer).
THEOREM NoSideFavoured == DecisionSpec => []VerdictsMirror
BY Invariance, Mirrors, PTL

-----------------------------------------------------------------------------
(***************************************************************************)
(* The books, for any grid of prices, sizes, moves and breaks of the       *)
(* stream.                                                                 *)
(***************************************************************************)

(* Levels.                                                                 *)

\* Naturals up to n have a least one: of the intervals down to 1, one contains no other.
LEMMA LeastExists ==
  ASSUME NEW n \in Nat, NEW S \in SUBSET (0..n), S # {}
  PROVE  \E x \in S : \A y \in S : x <= y
<1> DEFINE R == StrictSubsetOrdering(0..n)
           T == {0..i : i \in S}
<1>1. T \subseteq FiniteSubsetsOf(0..n) /\ T # {}
  <2>1. \A i \in S : 0..i \in SUBSET (0..n) /\ IsFiniteSet(0..i)
    BY FS_Interval
  <2> QED BY <2>1 DEF FiniteSubsetsOf
<1>2. IsWellFoundedOn(R, FiniteSubsetsOf(0..n))
  <2>1. IsFiniteSet(0..n)
    BY FS_Interval
  <2> QED BY <2>1, FS_StrictSubsetOrderingWellFounded
<1> HIDE DEF R, T
<1>3. PICK A \in T : \A B \in T : ~(<<B, A>> \in R)
  BY <1>1, <1>2, WFMin
<1>4. PICK x \in S : A = 0..x
  BY DEF T
<1>5. ASSUME NEW y \in S PROVE x <= y
  <2> SUFFICES ASSUME y < x PROVE FALSE
    OBVIOUS
  <2>1. 0..y \in T /\ ~(<<0..y, 0..x>> \in R)
    BY <1>3, <1>4 DEF T
  <2>2. 0..y \subseteq 0..x /\ x \in 0..x /\ x \notin 0..y
    OBVIOUS
  <2>3. 0..y \in SUBSET (0..n) /\ 0..x \in SUBSET (0..n)
    OBVIOUS
  <2> QED BY <2>1, <2>2, <2>3 DEF R, StrictSubsetOrdering
<1> QED BY <1>5

\* They have a greatest one: the least one when counted down from n.
LEMMA GreatestExists ==
  ASSUME NEW n \in Nat, NEW S \in SUBSET (0..n), S # {}
  PROVE  \E x \in S : \A y \in S : x >= y
<1> DEFINE D == {n - i : i \in S}
<1>1. D \in SUBSET (0..n) /\ D # {}
  <2>1. \A i \in S : n - i \in 0..n
    OBVIOUS
  <2> QED BY <2>1
<1> HIDE DEF D
<1>2. PICK d \in D : \A e \in D : d <= e
  BY <1>1, LeastExists
<1>3. PICK x \in S : d = n - x
  BY DEF D
<1>4. \A y \in S : n - y \in D
  BY DEF D
<1> QED BY <1>2, <1>3, <1>4

LEMMA LeastIsMin ==
  ASSUME NEW n \in Nat, NEW S \in SUBSET (0..n), S # {}
  PROVE  Min(S) \in S /\ \A y \in S : Min(S) <= y
BY LeastExists DEF Min

LEMMA GreatestIsMax ==
  ASSUME NEW n \in Nat, NEW S \in SUBSET (0..n), S # {}
  PROVE  Max(S) \in S /\ \A y \in S : Max(S) >= y
BY GreatestExists DEF Max

\* A price kept within bounds.
LEMMA BoundedIs ==
  ASSUME NEW x \in Int, NEW lo \in Int, NEW hi \in Int, lo <= hi
  PROVE  Bounded(x, lo, hi) = IF x < lo THEN lo ELSE IF x > hi THEN hi ELSE x
<1>1. Min({hi, x}) = IF x > hi THEN hi ELSE x
  BY DEF Min
<1>2. ASSUME NEW y \in Int PROVE Max({lo, y}) = IF y < lo THEN lo ELSE y
  BY DEF Max
<1> QED BY <1>1, <1>2 DEF Bounded

\* The best levels of a book are levels of it, and no other level is better.
LEMMA BestLevels ==
  ASSUME NEW b \in Book
  PROVE  /\ BestBid(b) \in 0..(Ticks - 1) /\ BestAsk(b) \in 0..(Ticks - 1)
         /\ BestBid(b) > 0 => BestBid(b) \in Levels(b.bids)
         /\ BestAsk(b) > 0 => BestAsk(b) \in Levels(b.asks)
         /\ \A p \in Levels(b.bids) : p <= BestBid(b)
         /\ \A p \in Levels(b.asks) : BestAsk(b) <= p /\ BestAsk(b) > 0
<1>1. Ticks \in Nat \ {0}
  BY BookAssumption
<1>2. Levels(b.bids) \subseteq Prices /\ Levels(b.asks) \subseteq Prices
  BY DEF Levels
<1>3. Prices \subseteq 0..(Ticks - 1) /\ \A p \in Prices : p > 0
  BY <1>1 DEF Prices
<1> DEFINE n == Ticks - 1
           bids == Levels(b.bids)
           asks == Levels(b.asks)
<1>4. n \in Nat /\ bids \subseteq 0..n /\ asks \subseteq 0..n /\ \A p \in bids \cup asks : p > 0
  <2>1. n \in Nat
    BY <1>1
  <2>2. bids \subseteq 0..n /\ asks \subseteq 0..n
    BY <1>2, <1>3
  <2>3. \A p \in bids \cup asks : p > 0
    BY <1>2, <1>3
  <2> QED BY <2>1, <2>2, <2>3
<1>5. BestBid(b) = Max(bids \cup {0}) /\ BestAsk(b) = IF asks = {} THEN 0 ELSE Min(asks)
  BY DEF BestBid, BestAsk
<1> HIDE DEF n, bids, asks
<1>6. BestBid(b) \in bids \cup {0} /\ \A p \in bids \cup {0} : BestBid(b) >= p
  <2>1. bids \cup {0} \in SUBSET (0..n) /\ bids \cup {0} # {}
    BY <1>4
  <2> HIDE DEF bids
  <2>2. Max(bids \cup {0}) \in bids \cup {0} /\ \A p \in bids \cup {0} : Max(bids \cup {0}) >= p
    BY <1>4, <2>1, GreatestIsMax
  <2> QED BY <1>5, <2>2
<1>7. IF asks = {} THEN BestAsk(b) = 0 ELSE BestAsk(b) \in asks /\ \A p \in asks : BestAsk(b) <= p
  <2>1. asks # {} => Min(asks) \in asks /\ \A p \in asks : Min(asks) <= p
    BY <1>4, LeastIsMin
  <2> QED BY <1>5, <2>1
<1>8. BestBid(b) \in 0..n /\ BestAsk(b) \in 0..n
  <2>1. 0 \in 0..n
    BY <1>4
  <2> QED BY <1>4, <1>6, <1>7, <2>1
<1> QED BY <1>4, <1>6, <1>7, <1>8 DEF n, bids, asks

-----------------------------------------------------------------------------
(* The messages.                                                           *)

\* The mirror of a book is a book, and not crossed when the book is not.
LEMMA MirrorIsBook ==
  ASSUME NEW b \in Book
  PROVE  /\ Mirror(b) \in Book
         /\ Uncrossed(b) => Uncrossed(Mirror(b))
<1>1. Ticks \in Nat \ {0}
  BY BookAssumption
<1>2. ASSUME NEW p \in Prices PROVE Ticks - p \in Prices /\ p \in Nat
  BY <1>1 DEF Prices
<1>3. b.bids \in Side /\ b.asks \in Side
  BY DEF Book
<1>4. ASSUME NEW s \in Side PROVE Flip(s) \in Side /\ \A p \in Levels(Flip(s)) : p \in Prices /\ Ticks - p \in Levels(s)
  BY <1>2 DEF Side, Flip, Levels
<1>5. Mirror(b) \in Book /\ Mirror(b).bids = Flip(b.asks) /\ Mirror(b).asks = Flip(b.bids)
  BY <1>3, <1>4 DEF Mirror, Book
<1>6. ASSUME Uncrossed(b), NEW p \in Levels(Flip(b.asks)), NEW q \in Levels(Flip(b.bids)) PROVE p < q
  <2>1. p \in Nat /\ q \in Nat /\ Ticks - p \in Levels(b.asks) /\ Ticks - q \in Levels(b.bids)
    BY <1>2, <1>3, <1>4
  <2>2. Ticks - q < Ticks - p
    BY <1>6, <2>1 DEF Uncrossed
  <2> QED BY <1>1, <2>1, <2>2
<1> QED BY <1>5, <1>6 DEF Uncrossed

LEMMA ViewIsBook ==
  ASSUME NEW t \in Tokens, NEW b \in Book, Uncrossed(b)
  PROVE  View(t, b) \in Book /\ Uncrossed(View(t, b))
BY MirrorIsBook DEF View

LEMMA EmptyIsBook == EmptyBook \in Book /\ Uncrossed(EmptyBook)
<1>1. MaxSize \in Nat
  BY BookAssumption
<1>2. NoLevels \in Side /\ Levels(NoLevels) = {}
  BY <1>1 DEF NoLevels, Side, Levels
<1> QED BY <1>2 DEF EmptyBook, Book, Uncrossed

\* The levels that changed, applied to the old side, give the new one.
Altered(side, old, new) ==
  {[side |-> side, price |-> p, size |-> new[p]] : p \in {q \in Prices : old[q] # new[q]}}

LEMMA SideApplies ==
  ASSUME NEW old \in Side, NEW new \in Side, NEW side
  PROVE  ApplyChange(old, Altered(side, old, new)) = new
<1> DEFINE changed == Altered(side, old, new)
           applied == ApplyChange(old, changed)
<1>1. \A c \in changed : c.price \in Prices /\ old[c.price] # new[c.price] /\ c.size = new[c.price]
  BY DEF Altered
<1>2. ASSUME NEW p \in Prices, old[p] # new[p] PROVE \E c \in changed : c.price = p
  <2>1. [side |-> side, price |-> p, size |-> new[p]] \in changed
    BY <1>2 DEF Altered
  <2> QED BY <2>1
<1> HIDE DEF changed
<1>3. ASSUME NEW p \in Prices PROVE applied[p] = new[p]
  <2>1. CASE old[p] # new[p]
    <3>1. \E c \in changed : c.price = p
      BY <1>2, <2>1
    <3> DEFINE c == CHOOSE d \in changed : d.price = p
    <3>2. c \in changed /\ c.price = p
      BY <3>1
    <3>3. applied[p] = c.size
      BY <3>1 DEF ApplyChange
    <3> QED BY <1>1, <3>2, <3>3
  <2>2. CASE old[p] = new[p]
    <3>1. ~\E c \in changed : c.price = p
      BY <1>1, <2>2
    <3> QED BY <2>2, <3>1 DEF ApplyChange
  <2> QED BY <2>1, <2>2
<1>4. applied = [p \in Prices |-> applied[p]] /\ new = [p \in Prices |-> new[p]]
  BY DEF ApplyChange, Side
<1>5. applied = new
  BY <1>3, <1>4
<1> QED BY <1>5 DEF changed

LEMMA ChangesApply ==
  ASSUME NEW old \in Book, NEW new \in Book
  PROVE  ApplyPriceChange(old, Changes(old, new)) = new
<1> DEFINE buys  == Altered("BUY", old.bids, new.bids)
           sells == Altered("SELL", old.asks, new.asks)
           all   == Changes(old, new)
<1>1. all = buys \cup sells
  BY DEF Changes, Altered
<1>2. (\A c \in buys : c.side = "BUY") /\ (\A c \in sells : c.side = "SELL")
  BY DEF Altered
<1> HIDE DEF buys, sells, all
<1>3. {c \in all : c.side = "BUY"} = buys /\ {c \in all : c.side = "SELL"} = sells
  BY <1>1, <1>2
<1>4. ApplyChange(old.bids, buys) = new.bids /\ ApplyChange(old.asks, sells) = new.asks
  <2>1. old.bids \in Side /\ new.bids \in Side /\ old.asks \in Side /\ new.asks \in Side
    BY DEF Book
  <2>2. ApplyChange(old.bids, buys) = new.bids
    BY <2>1, SideApplies DEF buys
  <2>3. ApplyChange(old.asks, sells) = new.asks
    BY <2>1, SideApplies DEF sells
  <2> QED BY <2>2, <2>3
<1>5. new = [bids |-> new.bids, asks |-> new.asks]
  BY DEF Book
<1> QED BY <1>3, <1>4, <1>5 DEF ApplyPriceChange, all

\* What a move sends for a token takes its book from the old to the new one.
LEMMA MoveArrives ==
  ASSUME NEW t \in Tokens, NEW old \in Book, NEW new \in Book, Uncrossed(old), Uncrossed(new)
  PROVE  /\ PriceChange(t, old, new) \in Message
         /\ PriceChange(t, old, new).token = t
         /\ After(t, View(t, old), PriceChange(t, old, new)) = View(t, new)
<1> DEFINE m == PriceChange(t, old, new)
           c == Changes(View(t, old), View(t, new))
<1>1. View(t, old) \in Book /\ View(t, new) \in Book
  BY ViewIsBook
<1>2. m = [token |-> t, kind |-> "price_change", changes |-> c]
  BY DEF PriceChange
<1>3. c \in SUBSET [side : {"BUY", "SELL"}, price : Prices, size : 0..MaxSize]
  BY <1>1 DEF Changes, Book, Side
<1> HIDE DEF m, c
<1>4. m \in Message /\ m.token = t /\ m.kind = "price_change" /\ m.changes = c
  BY <1>2, <1>3 DEF Message
<1>5. ApplyPriceChange(View(t, old), c) = View(t, new)
  BY <1>1, ChangesApply DEF c
<1> QED BY <1>4, <1>5 DEF m, After, OnEvent

\* A snapshot gives the book it carries.
LEMMA SnapshotArrives ==
  ASSUME NEW t \in Tokens, NEW b \in Book, NEW old
  PROVE  /\ Snapshot(t, b) \in Message /\ Snapshot(t, b).token = t
         /\ After(t, old, Snapshot(t, b)) = b
BY DEF Snapshot, Message, After, OnEvent, ReplaceLevels

-----------------------------------------------------------------------------
(* The course a book takes through the messages under way: it starts as    *)
(* the daemon has it and ends as the messages it reads tell it.            *)

Through(t, h) ==
  /\ h \in [0..Len(wire) -> Book]
  /\ h[0] = books[t]
  /\ \A i \in 1..Len(wire) : h[i] = After(t, h[i - 1], wire[i])

Course(t, h) ==
  /\ Through(t, h)
  /\ \A i \in 0..Len(wire) : Uncrossed(h[i])
  /\ h[Len(wire)] = View(t, Told)

\* What is known of the books: nothing is under way without a subscription, with one
\* they are on a course to what is told of the venue's, and no message on it crosses them.
OnCourse ==
  /\ TypeOK
  /\ ~up => wire = <<>>
  /\ \A t \in Tokens : Uncrossed(books[t])
  /\ up => \A t \in Tokens : \E h : Course(t, h)

\* There is one course through given messages.
LEMMA OneCourse ==
  ASSUME wire \in Seq(Message), NEW t \in Tokens, NEW h, Through(t, h)
  PROVE  Replayed(t) = h[Len(wire)]
<1> DEFINE n == Len(wire)
           F(g) == [i \in 0..n |-> IF i = 0 THEN books[t] ELSE After(t, g[i - 1], wire[i])]
           b == CHOOSE g : g = F(g)
<1>1. n \in Nat
  OBVIOUS
<1>2. Replayed(t) = b[n]
  BY DEF Replayed
<1>3. h = F(h)
  <2>1. h = [i \in 0..n |-> h[i]]
    BY DEF Through
  <2>2. \A i \in 0..n : h[i] = IF i = 0 THEN books[t] ELSE After(t, h[i - 1], wire[i])
    BY <1>1 DEF Through
  <2> QED BY <2>1, <2>2
<1>4. b = F(b)
  BY <1>3
<1> HIDE DEF b
<1>5. \A i \in 0..n : b[i] = IF i = 0 THEN books[t] ELSE After(t, b[i - 1], wire[i])
  BY <1>4
<1>6. \A i \in 0..n : h[i] = IF i = 0 THEN books[t] ELSE After(t, h[i - 1], wire[i])
  BY <1>3
<1> HIDE DEF n, F
<1> DEFINE Differing == {i \in 0..n : b[i] # h[i]}
<1>7. Differing = {}
  <2> SUFFICES ASSUME Differing # {} PROVE FALSE
    OBVIOUS
  <2>1. PICK i \in Differing : \A j \in Differing : i <= j
    BY <1>1, LeastExists
  <2>2. i \in 0..n /\ b[i] # h[i]
    BY <2>1
  <2>3. i # 0
    BY <1>1, <1>5, <1>6, <2>2
  <2>4. i - 1 \in 0..n /\ i - 1 \notin Differing
    BY <1>1, <2>1, <2>2, <2>3
  <2>5. b[i - 1] = h[i - 1]
    BY <2>4
  <2> QED BY <1>5, <1>6, <2>2, <2>3, <2>5
<1>8. b[n] = h[n]
  BY <1>1, <1>7
<1> QED BY <1>2, <1>8 DEF n

\* At the start there are no books and no subscription.
LEMMA BooksStart == Init => OnCourse
<1> SUFFICES ASSUME Init PROVE OnCourse
  OBVIOUS
<1>1. MaxMoves \in Nat /\ MaxDrops \in Nat
  BY BookAssumption
<1>2. books = [t \in Tokens |-> EmptyBook] /\ \A t \in Tokens : books[t] = EmptyBook
  BY DEF Init
<1>3. books \in [Tokens -> Book] /\ \A t \in Tokens : Uncrossed(books[t])
  BY <1>2, EmptyIsBook
<1>4. wire = <<>> /\ wire \in Seq(Message) /\ up = FALSE
  BY DEF Init
<1>5. venue \in Book /\ Uncrossed(venue) /\ moves \in 0..MaxMoves /\ drops \in 0..MaxDrops
  BY <1>1 DEF Init
<1>6. shape \in {"top", "inside"} /\ begun \in Book /\ Uncrossed(begun)
  BY EmptyIsBook DEF Init
<1>7. TypeOK
  BY <1>3, <1>4, <1>5, <1>6 DEF TypeOK
<1> QED BY <1>3, <1>4, <1>7 DEF OnCourse

\* A message without a token at its top moves no book.
LEMMA UnnamedStays ==
  ASSUME NEW t \in Tokens, NEW u \in Tokens, NEW old \in Book, NEW new \in Book,
         Uncrossed(old), Uncrossed(new)
  PROVE  /\ Unnamed(t, old, new) \in Message
         /\ \A b : After(u, b, Unnamed(t, old, new)) = b
<1> DEFINE c == Changes(View(t, old), View(t, new))
           e == Unnamed(t, old, new)
<1>1. View(t, old) \in Book /\ View(t, new) \in Book
  BY ViewIsBook
<1>2. e = [token |-> "", kind |-> "price_change", changes |-> c]
  BY DEF Unnamed
<1>3. c \in SUBSET [side : {"BUY", "SELL"}, price : Prices, size : 0..MaxSize]
  BY <1>1 DEF Changes, Book, Side
<1> HIDE DEF c, e
<1>4. e \in Message /\ e.token # u
  BY <1>2, <1>3 DEF Message, Tokens
<1>5. e \in Message /\ \A b : After(u, b, e) = b
  BY <1>4 DEF After
<1> QED BY <1>5 DEF e

\* A course goes on through messages that are appended, as far as they take its book.
LEMMA CourseExtends ==
  ASSUME TypeOK, NEW t \in Tokens, NEW h, Course(t, h),
         NEW more \in Seq(Message), NEW g, NEW told \in Book,
         g \in [0..Len(more) -> Book], g[0] = View(t, Told), g[Len(more)] = View(t, told),
         \A i \in 0..Len(more) : Uncrossed(g[i]),
         \A i \in 1..Len(more) : g[i] = After(t, g[i - 1], more[i]),
         wire' = wire \o more, UNCHANGED books, Told' = told
  PROVE  \E k : Course(t, k)'
<1> DEFINE n == Len(wire)
           m == Len(more)
           k == [i \in 0..(n + m) |-> IF i <= n THEN h[i] ELSE g[i - n]]
<1>1. /\ n \in Nat /\ m \in Nat /\ wire \in Seq(Message) /\ h \in [0..n -> Book] /\ h[0] = books[t]
      /\ h[n] = g[0] /\ (\A i \in 1..n : h[i] = After(t, h[i - 1], wire[i]))
      /\ \A i \in 0..n : Uncrossed(h[i])
  <2>1. Through(t, h) /\ h[n] = g[0] /\ (\A i \in 0..n : Uncrossed(h[i]))
    BY DEF Course
  <2> QED BY <2>1 DEF Through, TypeOK
<1>2. /\ Len(wire') = n + m /\ \A i \in 1..n : wire'[i] = wire[i]
      /\ \A i \in 1..m : wire'[n + i] = more[i]
  BY <1>1
<1> HIDE DEF n, m
<1>3. \A i \in 0..(n + m) : i \in 0..n \/ (i > n /\ i - n \in 1..m /\ i - n \in 0..m)
  BY <1>1
<1>4. k \in [0..(n + m) -> Book] /\ (\A i \in 0..(n + m) : Uncrossed(k[i]))
  BY <1>1, <1>3 DEF m
<1>5. \A i \in 0..n : i \in 0..(n + m) /\ k[i] = h[i]
  BY <1>1
<1>6. \A i \in 0..m : n + i \in 0..(n + m) /\ k[n + i] = g[i]
  <2> SUFFICES ASSUME NEW i \in 0..m PROVE n + i \in 0..(n + m) /\ k[n + i] = g[i]
    OBVIOUS
  <2>1. n + i \in 0..(n + m) /\ (n + i) - n = i /\ (n + i <= n <=> i = 0)
    BY <1>1
  <2> QED BY <1>1, <2>1
<1> HIDE DEF k
<1>7. ASSUME NEW i \in 1..(n + m) PROVE k[i] = After(t, k[i - 1], wire'[i])
  <2>1. CASE i <= n
    <3>1. i \in 1..n /\ i \in 0..n /\ i - 1 \in 0..n
      BY <1>1, <2>1
    <3> QED BY <1>1, <1>2, <1>5, <3>1
  <2>2. CASE i > n
    <3> DEFINE j == i - n
    <3>1. j \in 1..m /\ j \in 0..m /\ j - 1 \in 0..m /\ n + j = i /\ n + (j - 1) = i - 1
      BY <1>1, <2>2
    <3> HIDE DEF j
    <3>2. k[i] = g[j] /\ k[i - 1] = g[j - 1] /\ wire'[i] = more[j]
      BY <1>2, <1>6, <3>1
    <3>3. g[j] = After(t, g[j - 1], more[j])
      BY <3>1 DEF m
    <3> QED BY <3>2, <3>3
  <2>3. i <= n \/ i > n
    BY <1>1
  <2> QED BY <2>1, <2>2, <2>3
<1>8. k[0] = books'[t] /\ k[n + m] = View(t, Told')
  <2>1. 0 \in 0..n /\ m \in 0..m
    BY <1>1
  <2> QED BY <1>1, <1>5, <1>6, <2>1 DEF m
<1>9. PICK c : /\ c \in [0..Len(wire') -> Book] /\ \A i \in 0..Len(wire') : Uncrossed(c[i])
               /\ \A i \in 1..Len(wire') : c[i] = After(t, c[i - 1], wire'[i])
               /\ c[0] = books'[t] /\ c[Len(wire')] = View(t, Told')
  BY <1>2, <1>4, <1>7, <1>8
<1>10. Course(t, c)'
  BY <1>9 DEF Course, Through
<1> QED BY <1>10

\* The venue moves: the message for each token is appended, in either order, or one that
\* the daemon does not read.
LEMMA MoveKeepsCourse == ASSUME OnCourse, Move PROVE OnCourse'
<1>1. PICK new \in Book, first \in Tokens :
         /\ Uncrossed(new) /\ venue' = new
         /\ wire' = IF up THEN wire \o Sent(first, venue, new) ELSE wire
  BY DEF Move
<1>2. PICK then \in Tokens :
         /\ then # first
         /\ Sent(first, venue, new) =
              IF shape = "top" THEN <<PriceChange(first, venue, new), PriceChange(then, venue, new)>>
              ELSE <<Unnamed(first, venue, new)>>
  <2>1. \E t \in Tokens : t # first
    BY DEF Tokens
  <2>2. LET then == CHOOSE t \in Tokens : t # first IN then \in Tokens /\ then # first
    BY <2>1
  <2> QED BY <2>2 DEF Sent
<1>3. /\ venue \in Book /\ Uncrossed(venue) /\ wire \in Seq(Message) /\ up \in BOOLEAN
      /\ shape \in {"top", "inside"} /\ begun \in Book /\ Uncrossed(begun)
      /\ books \in [Tokens -> Book] /\ moves \in 0..MaxMoves /\ drops \in 0..MaxDrops
  BY DEF OnCourse, TypeOK
<1>4. UNCHANGED <<up, shape, begun, books, drops>> /\ moves' = moves + 1 /\ moves < MaxMoves
  BY DEF Move
<1> DEFINE one == PriceChange(first, venue, new)
           two == PriceChange(then, venue, new)
           none == Unnamed(first, venue, new)
<1>5. ASSUME NEW t \in Tokens
      PROVE  /\ PriceChange(t, venue, new) \in Message /\ PriceChange(t, venue, new).token = t
             /\ After(t, View(t, venue), PriceChange(t, venue, new)) = View(t, new)
             /\ View(t, new) \in Book /\ Uncrossed(View(t, new))
             /\ View(t, venue) \in Book /\ Uncrossed(View(t, venue))
             /\ View(t, begun) \in Book /\ Uncrossed(View(t, begun))
  BY <1>1, <1>3, MoveArrives, ViewIsBook
<1>6. one \in Message /\ two \in Message /\ one.token = first /\ two.token = then
  BY <1>5
<1>7. none \in Message /\ \A t \in Tokens : \A b : After(t, b, none) = b
  BY <1>1, <1>3, UnnamedStays
<1> HIDE DEF one, two, none
<1>8. Sent(first, venue, new) = IF shape = "top" THEN <<one, two>> ELSE <<none>>
  BY <1>2 DEF one, two, none
<1>9. wire' \in Seq(Message)
  BY <1>1, <1>3, <1>6, <1>7, <1>8
<1>10. MaxMoves \in Nat
  BY BookAssumption
<1>11. TypeOK'
  BY <1>1, <1>3, <1>4, <1>9, <1>10 DEF TypeOK
<1>12. (~up => wire = <<>>)' /\ (\A t \in Tokens : Uncrossed(books[t]))'
  BY <1>1, <1>4 DEF OnCourse
<1>13. ASSUME up, NEW t \in Tokens PROVE \E k : Course(t, k)'
  <2>1. PICK h : Course(t, h)
    BY <1>13 DEF OnCourse
  <2>2. TypeOK
    BY DEF OnCourse
  <2>3. CASE shape = "top"
    <3> DEFINE mid == IF t = first THEN View(t, new) ELSE View(t, venue)
               g == [i \in 0..2 |-> IF i = 0 THEN View(t, venue) ELSE IF i = 1 THEN mid ELSE View(t, new)]
               more == <<one, two>>
    <3>1. Told = venue /\ Told' = new
      BY <1>1, <1>4, <2>3 DEF Told
    <3>2. mid \in Book /\ Uncrossed(mid) /\ mid = After(t, View(t, venue), one)
      BY <1>5, <1>6 DEF After, one
    <3>3. View(t, new) = After(t, mid, two)
      <4>1. t = first \/ t = then
        BY <1>2 DEF Tokens
      <4> QED BY <1>2, <1>5, <1>6, <4>1 DEF After, two
    <3> HIDE DEF mid
    <3>4. g \in [0..2 -> Book] /\ (\A i \in 0..2 : Uncrossed(g[i]))
      BY <1>5, <3>2
    <3>5. g[0] = View(t, venue) /\ g[1] = mid /\ g[2] = View(t, new)
      OBVIOUS
    <3> HIDE DEF g
    <3>6. more \in Seq(Message) /\ Len(more) = 2 /\ more[1] = one /\ more[2] = two
      BY <1>6
    <3>7. wire' = wire \o more
      BY <1>1, <1>8, <1>13, <2>3
    <3> HIDE DEF more
    <3>8. \A i \in 1..2 : g[i] = After(t, g[i - 1], more[i])
      <4>1. 1 - 1 = 0 /\ 2 - 1 = 1 /\ \A i \in 1..2 : i = 1 \/ i = 2
        OBVIOUS
      <4> QED BY <3>2, <3>3, <3>5, <3>6, <4>1
    <3> QED BY <1>1, <1>4, <2>1, <2>2, <3>1, <3>4, <3>5, <3>6, <3>7, <3>8, CourseExtends
  <2>4. CASE shape # "top"
    <3> DEFINE g == [i \in 0..1 |-> View(t, begun)]
               more == <<none>>
    <3>1. Told = begun /\ Told' = begun
      BY <1>4, <2>4 DEF Told
    <3>2. g \in [0..1 -> Book] /\ (\A i \in 0..1 : Uncrossed(g[i])) /\ g[0] = View(t, begun) /\ g[1] = View(t, begun)
      BY <1>5
    <3> HIDE DEF g
    <3>3. more \in Seq(Message) /\ Len(more) = 1 /\ more[1] = none
      BY <1>7
    <3>4. wire' = wire \o more
      BY <1>1, <1>8, <1>13, <2>4
    <3> HIDE DEF more
    <3>5. \A i \in 1..1 : g[i] = After(t, g[i - 1], more[i])
      <4>1. 1 - 1 = 0 /\ \A i \in 1..1 : i = 1
        OBVIOUS
      <4> QED BY <1>7, <3>2, <3>3, <4>1
    <3> QED BY <1>3, <1>4, <2>1, <2>2, <3>1, <3>2, <3>3, <3>4, <3>5, CourseExtends
  <2> QED BY <2>3, <2>4
<1> QED BY <1>4, <1>11, <1>12, <1>13 DEF OnCourse

\* A new subscription starts with a snapshot of each token.
LEMMA ConnectKeepsCourse == ASSUME OnCourse, Connect PROVE OnCourse'
<1>1. /\ venue \in Book /\ Uncrossed(venue) /\ books \in [Tokens -> Book]
      /\ moves \in 0..MaxMoves /\ drops \in 0..MaxDrops /\ \A t \in Tokens : Uncrossed(books[t])
  BY DEF OnCourse, TypeOK
<1>2. /\ UNCHANGED <<venue, books, moves, drops>> /\ up' = TRUE
      /\ shape' \in {"top", "inside"} /\ begun' = venue /\ Told' = venue
  BY DEF Connect, Told
<1> DEFINE one == Snapshot("YES", venue)
           two == Snapshot("NO", Mirror(venue))
<1>3. wire' = <<one, two>>
  BY DEF Connect
<1>4. Mirror(venue) \in Book /\ Uncrossed(Mirror(venue)) /\ "YES" \in Tokens /\ "NO" \in Tokens
  BY <1>1, MirrorIsBook DEF Tokens
<1>5. /\ one \in Message /\ one.token = "YES" /\ \A old : After("YES", old, one) = venue
      /\ two \in Message /\ two.token = "NO" /\ \A old : After("NO", old, two) = Mirror(venue)
  BY <1>1, <1>4, SnapshotArrives
<1> HIDE DEF one, two
<1>6. wire' \in Seq(Message) /\ Len(wire') = 2 /\ wire'[1] = one /\ wire'[2] = two
  BY <1>3, <1>5
<1>7. TypeOK'
  BY <1>1, <1>2, <1>6 DEF TypeOK
<1>8. ASSUME NEW t \in Tokens PROVE \E h : Course(t, h)'
  <2> DEFINE mid == IF t = "YES" THEN venue ELSE books[t]
             g == [i \in 0..2 |-> IF i = 0 THEN books[t] ELSE IF i = 1 THEN mid ELSE View(t, venue)]
  <2>1. mid = After(t, books[t], one) /\ View(t, venue) = After(t, mid, two)
    BY <1>5 DEF After, View, Tokens
  <2>2. mid \in Book /\ Uncrossed(mid) /\ View(t, venue) \in Book /\ Uncrossed(View(t, venue))
    BY <1>1, ViewIsBook
  <2> HIDE DEF mid
  <2>3. g \in [0..2 -> Book] /\ (\A i \in 0..2 : Uncrossed(g[i]))
    BY <1>1, <2>2
  <2>4. g[0] = books[t] /\ g[1] = mid /\ g[2] = View(t, venue)
    OBVIOUS
  <2> HIDE DEF g
  <2>5. \A i \in 1..2 : g[i] = After(t, g[i - 1], wire'[i])
    <3>1. 1 - 1 = 0 /\ 2 - 1 = 1 /\ \A i \in 1..2 : i = 1 \/ i = 2
      OBVIOUS
    <3> QED BY <1>6, <2>1, <2>4, <3>1
  <2>6. PICK k : /\ k \in [0..Len(wire') -> Book] /\ \A i \in 0..Len(wire') : Uncrossed(k[i])
                 /\ \A i \in 1..Len(wire') : k[i] = After(t, k[i - 1], wire'[i])
                 /\ k[0] = books'[t] /\ k[Len(wire')] = View(t, Told')
    BY <1>2, <1>6, <2>3, <2>4, <2>5
  <2>7. Course(t, k)'
    BY <2>6 DEF Course, Through
  <2> QED BY <2>7
<1> QED BY <1>1, <1>2, <1>7, <1>8 DEF OnCourse

\* A message arrives: the first step of the course is taken.
LEMMA DeliverKeepsCourse == ASSUME OnCourse, Deliver PROVE OnCourse'
<1>1. /\ venue \in Book /\ Uncrossed(venue) /\ wire \in Seq(Message) /\ up \in BOOLEAN
      /\ books \in [Tokens -> Book] /\ moves \in 0..MaxMoves /\ drops \in 0..MaxDrops
      /\ shape \in {"top", "inside"} /\ begun \in Book /\ Uncrossed(begun)
      /\ \A t \in Tokens : Uncrossed(books[t])
  BY DEF OnCourse, TypeOK
<1>2. /\ up /\ wire # <<>> /\ wire' = Tail(wire) /\ Told' = Told
      /\ UNCHANGED <<venue, up, shape, begun, moves, drops>>
  BY DEF OnCourse, Deliver, Told
<1> DEFINE n == Len(wire)
           e == wire[1]
<1>3. n \in Nat \ {0} /\ Head(wire) = e /\ e \in Message
  BY <1>1, <1>2
<1>4. wire' \in Seq(Message) /\ Len(wire') = n - 1 /\ \A i \in 1..(n - 1) : wire'[i] = wire[i + 1]
  BY <1>1, <1>2
<1> HIDE DEF n, e
<1>5. ASSUME NEW t \in Tokens PROVE books'[t] = After(t, books[t], e)
  BY <1>1, <1>3, <1>5 DEF Deliver
<1>6. ASSUME NEW t \in Tokens
      PROVE  /\ \E h : Course(t, h)'
             /\ books'[t] \in Book /\ Uncrossed(books'[t])
  <2>1. PICK h : Course(t, h)
    BY <1>2 DEF OnCourse
  <2>2. h \in [0..n -> Book] /\ h[0] = books[t] /\ h[n] = View(t, Told)
        /\ (\A i \in 1..n : h[i] = After(t, h[i - 1], wire[i])) /\ (\A i \in 0..n : Uncrossed(h[i]))
    BY <1>1, <2>1 DEF Course, Through, n
  <2>3. h[1] = books'[t] /\ h[1] \in Book /\ Uncrossed(h[1])
    <3>1. 1 \in 1..n /\ 1 \in 0..n /\ 1 - 1 = 0
      BY <1>3
    <3> QED BY <1>5, <2>2, <3>1 DEF e
  <2> DEFINE g == [i \in 0..(n - 1) |-> h[i + 1]]
  <2>4. \A i \in 0..(n - 1) : i + 1 \in 0..n /\ i + 1 \in 1..n
    BY <1>3
  <2>5. g \in [0..(n - 1) -> Book] /\ (\A i \in 0..(n - 1) : Uncrossed(g[i]))
    BY <2>2, <2>4
  <2>6. g[0] = books'[t] /\ g[n - 1] = View(t, Told)
    <3>1. 0 \in 0..(n - 1) /\ n - 1 \in 0..(n - 1) /\ 0 + 1 = 1 /\ (n - 1) + 1 = n
      BY <1>3
    <3> QED BY <2>2, <2>3, <3>1
  <2>7. ASSUME NEW i \in 1..(n - 1) PROVE g[i] = After(t, g[i - 1], wire'[i])
    <3>1. /\ i \in 0..(n - 1) /\ i - 1 \in 0..(n - 1) /\ (i - 1) + 1 = i /\ (i + 1) - 1 = i /\ i + 1 \in 1..n
      BY <1>3
    <3>2. g[i] = h[i + 1] /\ g[i - 1] = h[i]
      BY <3>1
    <3> QED BY <1>4, <2>2, <3>1, <3>2
  <2> HIDE DEF g
  <2>8. PICK k : /\ k \in [0..Len(wire') -> Book] /\ \A i \in 0..Len(wire') : Uncrossed(k[i])
                 /\ \A i \in 1..Len(wire') : k[i] = After(t, k[i - 1], wire'[i])
                 /\ k[0] = books'[t] /\ k[Len(wire')] = View(t, Told')
    BY <1>2, <1>4, <2>5, <2>6, <2>7
  <2>9. Course(t, k)'
    BY <2>8 DEF Course, Through
  <2> QED BY <2>3, <2>9
<1>7. books' \in [Tokens -> Book]
  <2>1. books' = [t \in Tokens |-> books'[t]]
    BY <1>1, <1>3 DEF Deliver
  <2> QED BY <1>6, <2>1
<1>8. TypeOK'
  BY <1>1, <1>2, <1>4, <1>7 DEF TypeOK
<1> QED BY <1>2, <1>6, <1>8 DEF OnCourse

\* A break of the stream and a market that leaves lose what was under way, and the latter
\* the books as well.
LEMMA BreaksKeepCourse == ASSUME OnCourse, Drop \/ Relist PROVE OnCourse'
<1>1. /\ venue \in Book /\ Uncrossed(venue) /\ books \in [Tokens -> Book]
      /\ moves \in 0..MaxMoves /\ drops \in 0..MaxDrops /\ \A t \in Tokens : Uncrossed(books[t])
  BY DEF OnCourse, TypeOK
<1>2. /\ up' = FALSE /\ wire' = <<>> /\ shape' = "top" /\ begun' = EmptyBook
      /\ drops < MaxDrops /\ drops' = drops + 1 /\ UNCHANGED <<venue, moves>>
  BY DEF Drop, Relist, Unsubscribed
<1>3. books' \in [Tokens -> Book] /\ \A t \in Tokens : Uncrossed(books'[t])
  <2>1. CASE Drop
    BY <1>1, <2>1 DEF Drop
  <2>2. CASE Relist
    <3>1. books' = [t \in Tokens |-> EmptyBook]
      BY <2>2 DEF Relist
    <3> QED BY <3>1, EmptyIsBook
  <2> QED BY <2>1, <2>2
<1>4. MaxDrops \in Nat
  BY BookAssumption
<1>5. wire' \in Seq(Message)
  BY <1>2
<1>6. drops' \in 0..MaxDrops /\ up' \in BOOLEAN
  <2>1. drops' \in 0..MaxDrops
    BY <1>1, <1>2, <1>4
  <2>2. up' \in BOOLEAN
    BY <1>2
  <2> QED BY <2>1, <2>2
<1>7. TypeOK'
  BY <1>1, <1>2, <1>3, <1>5, <1>6, EmptyIsBook DEF TypeOK
<1> QED BY <1>2, <1>3, <1>7 DEF OnCourse

LEMMA BooksOnCourse == Spec => []OnCourse
<1>1. ASSUME OnCourse, [Next]_vars PROVE OnCourse'
  <2>1. CASE UNCHANGED vars
    BY <1>1, <2>1 DEF vars, OnCourse, TypeOK, Course, Through, Told
  <2> QED BY <1>1, <2>1, MoveKeepsCourse, ConnectKeepsCourse, DeliverKeepsCourse, BreaksKeepCourse DEF Next
<1> QED BY <1>1, BooksStart, PTL DEF Spec

\* While subscribed the books differ from the venue's by the messages under way, however
\* often the stream broke; where the changes name their token inside, they stay what the
\* venue's were as the subscription began (MarketState.apply_book_snapshot,
\* apply_price_change, DaemonRunner._on_polymarket_event).
THEOREM BooksLag == Spec => []BooksLagOnlyByTheWire
<1>1. OnCourse => BooksLagOnlyByTheWire
  <2> SUFFICES ASSUME OnCourse, up, NEW t \in Tokens PROVE Replayed(t) = View(t, Told)
    BY DEF BooksLagOnlyByTheWire
  <2>1. PICK h : Course(t, h)
    BY DEF OnCourse
  <2> QED BY <2>1, OneCourse DEF OnCourse, TypeOK, Course
<1> QED BY <1>1, BooksOnCourse, PTL

-----------------------------------------------------------------------------
(* The prices made of the books.                                           *)

\* Two prices a tick apart or more, and the payout, in the units of a resting order; the mid
\* lies half a tick from each or more.
LEMMA InUnits ==
  ASSUME NEW bid \in Nat, NEW ask \in Nat, 0 < bid, bid < ask, ask < Ticks
  PROVE  \E B, A, T, half \in Nat :
           /\ half > 0 /\ Units = 2 * half
           /\ B = bid * Units /\ A = ask * Units /\ T = Ticks * Units
           /\ (Ticks - 1) * Units = T - Units /\ (Ticks - bid) * Units = T - B
           /\ 2 * half <= B /\ B + 2 * half <= A /\ A + 2 * half <= T
           /\ 2 * (((bid + ask) * Units) \div 2) = B + A
<1>1. Units \in Nat \ {0} /\ Units % 2 = 0 /\ Ticks \in Nat \ {0}
  BY BookAssumption
<1>2. PICK half \in Nat : half > 0 /\ Units = 2 * half
  <2>1. Units \div 2 \in Nat /\ Units = 2 * (Units \div 2)
    BY <1>1
  <2> QED BY <1>1, <2>1
<1>3. ASSUME NEW x \in Nat, NEW y \in Nat, x < y
      PROVE  /\ x * Units \in Nat /\ y * Units \in Nat /\ x * Units + Units <= y * Units
             /\ (y - x) * Units = y * Units - x * Units
  <2>1. PICK d \in Nat : y = x + 1 + d
    <3>1. y - x - 1 \in Nat /\ y = x + 1 + (y - x - 1)
      BY <1>3
    <3> QED BY <3>1
  <2>2. y * Units = x * Units + Units + d * Units /\ (y - x) * Units = Units + d * Units
    BY <1>1, <2>1
  <2>3. x * Units \in Nat /\ d * Units \in Nat
    BY <1>1, <2>1
  <2> QED BY <1>1, <2>2, <2>3
<1>4. /\ bid * Units \in Nat /\ ask * Units \in Nat /\ Ticks * Units \in Nat
      /\ bid * Units + Units <= ask * Units /\ ask * Units + Units <= Ticks * Units
      /\ (Ticks - bid) * Units = Ticks * Units - bid * Units
  BY <1>1, <1>3
<1>5. Units <= bid * Units
  <2>1. 0 * Units + Units <= bid * Units
    BY <1>3
  <2> QED BY <1>1, <2>1
<1>6. (Ticks - 1) * Units = Ticks * Units - Units
  BY <1>1
<1>7. 2 * (((bid + ask) * Units) \div 2) = bid * Units + ask * Units
  <2>1. (bid + ask) * Units = 2 * ((bid + ask) * half)
    BY <1>2
  <2>2. (bid + ask) * half \in Nat
    BY <1>2
  <2>3. ((bid + ask) * Units) \div 2 = (bid + ask) * half
    BY <2>1, <2>2
  <2>4. (bid + ask) * Units = bid * Units + ask * Units
    BY <1>1
  <2> QED BY <2>1, <2>3, <2>4
<1> QED BY <1>1, <1>2, <1>4, <1>5, <1>6, <1>7

\* The quotes of a book are prices, or nought, and no ask that counts is below the quote.
LEMMA QuotesAre ==
  ASSUME NEW b \in Book
  PROVE  /\ Quote(b.bids, BestBid(b), TRUE) \in 0..(Ticks - 1)
         /\ Quote(b.asks, BestAsk(b), FALSE) \in 0..(Ticks - 1)
         /\ \A p \in Large(b.asks) : p \in Nat /\ p > 0 /\ Quote(b.asks, BestAsk(b), FALSE) <= p
<1> DEFINE n == Ticks - 1
           bids == Large(b.bids)
           asks == Large(b.asks)
<1>1. n \in Nat
  BY BookAssumption
<1>2. Prices \subseteq 0..n /\ \A p \in Prices : p \in Nat /\ p > 0
  BY <1>1 DEF Prices
<1>3. bids \subseteq Prices /\ asks \subseteq Prices
  BY DEF Large, Levels
<1>4. bids \in SUBSET (0..n) /\ asks \in SUBSET (0..n) /\ \A p \in asks : p \in Nat /\ p > 0
  BY <1>2, <1>3
<1>5. BestBid(b) \in 0..n /\ BestAsk(b) \in 0..n
  BY BestLevels
<1>6. /\ Quote(b.bids, BestBid(b), TRUE) = IF bids = {} THEN BestBid(b) ELSE Max(bids)
      /\ Quote(b.asks, BestAsk(b), FALSE) = IF asks = {} THEN BestAsk(b) ELSE Min(asks)
  BY DEF Quote
<1> HIDE DEF n, bids, asks
<1>7. ASSUME bids # {} PROVE Max(bids) \in 0..n
  BY <1>1, <1>4, <1>7, GreatestIsMax
<1>8. ASSUME asks # {} PROVE Min(asks) \in 0..n /\ \A p \in asks : Min(asks) <= p
  BY <1>1, <1>4, <1>8, LeastIsMin
<1>9. /\ Quote(b.bids, BestBid(b), TRUE) \in 0..n /\ Quote(b.asks, BestAsk(b), FALSE) \in 0..n
      /\ \A p \in asks : p \in Nat /\ p > 0 /\ Quote(b.asks, BestAsk(b), FALSE) <= p
  BY <1>4, <1>5, <1>6, <1>7, <1>8
<1> QED BY <1>9 DEF n, asks

\* A followed order rests below every ask that counts.
LEMMA FollowedRests ==
  ASSUME books \in [Tokens -> Book], NEW t \in Tokens, NEW d \in Discounts, NEW p \in Large(books[t].asks)
  PROVE  FollowLimit(t, d) < p * Units
<1> DEFINE bid == Quote(books[t].bids, BestBid(books[t]), TRUE)
           ask == Quote(books[t].asks, BestAsk(books[t]), FALSE)
           mid == ((bid + ask) * Units) \div 2
<1>1. books[t] \in Book /\ d \in Nat /\ Units \in Nat \ {0} /\ Ticks \in Nat \ {0}
  BY BookAssumption
<1>2. bid \in 0..(Ticks - 1) /\ ask \in 0..(Ticks - 1) /\ p \in Nat /\ p > 0 /\ ask <= p
  BY <1>1, QuotesAre
<1>3. FollowLimit(t, d) = IF bid = 0 \/ ask = 0 \/ bid >= ask THEN 0
                          ELSE Bounded(mid - d, Units, (Ticks - 1) * Units)
  BY <1>1 DEF FollowLimit
<1> HIDE DEF bid, ask
<1>4. CASE bid = 0 \/ ask = 0 \/ bid >= ask
  <2>1. FollowLimit(t, d) = 0
    BY <1>3, <1>4
  <2>2. p * Units > 0
    BY <1>1, <1>2
  <2> QED BY <2>1, <2>2
<1>5. CASE ~(bid = 0 \/ ask = 0 \/ bid >= ask)
  <2>1. bid \in Nat /\ ask \in Nat /\ 0 < bid /\ bid < ask /\ ask < Ticks
    BY <1>1, <1>2, <1>5
  <2>2. PICK B, A, T, half \in Nat :
           /\ half > 0 /\ Units = 2 * half
           /\ B = bid * Units /\ A = ask * Units /\ T = Ticks * Units
           /\ (Ticks - 1) * Units = T - Units /\ (Ticks - bid) * Units = T - B
           /\ 2 * half <= B /\ B + 2 * half <= A /\ A + 2 * half <= T
           /\ 2 * (((bid + ask) * Units) \div 2) = B + A
    BY <2>1, InUnits, Zenon
  <2>3. mid \in Int /\ 2 * mid = B + A
    BY <1>1, <2>1, <2>2
  <2>4. FollowLimit(t, d) = Bounded(mid - d, Units, T - Units)
    BY <1>3, <1>5, <2>2
  <2> HIDE DEF mid
  <2>5. Bounded(mid - d, Units, T - Units) =
          IF mid - d < Units THEN Units ELSE IF mid - d > T - Units THEN T - Units ELSE mid - d
    BY <1>1, <2>2, <2>3, BoundedIs
  <2>6. Bounded(mid - d, Units, T - Units) < A /\ Bounded(mid - d, Units, T - Units) \in Int
    BY <1>1, <2>2, <2>3, <2>5
  <2>7. A <= p * Units
    <3>1. PICK k \in Nat : p = ask + k
      <4>1. p - ask \in Nat /\ p = ask + (p - ask)
        BY <1>2, <2>1
      <4> QED BY <4>1
    <3>2. p * Units = ask * Units + k * Units
      BY <1>1, <2>1, <3>1
    <3>3. k * Units \in Nat
      BY <1>1, <3>1
    <3> QED BY <2>2, <3>2, <3>3
  <2>8. p * Units \in Int
    BY <1>1, <1>2
  <2> QED BY <2>2, <2>4, <2>6, <2>7, <2>8
<1> QED BY <1>4, <1>5

\* Both quotes of a pair rest, and cost less than they pay, on a book that is not crossed.
LEMMA PairRests ==
  ASSUME books \in [Tokens -> Book], Uncrossed(books["YES"]), Whole, TwoSided(books["YES"]), NEW s \in Skews
  PROVE  /\ ~Crosses("YES", QuotePair(s).yes) /\ ~Crosses("NO", QuotePair(s).no)
         /\ QuotePair(s).yes + QuotePair(s).no < Ticks * Units
<1> DEFINE bid == BestBid(books["YES"])
           ask == BestAsk(books["YES"])
           mid == ((bid + ask) * Units) \div 2
           k   == Skewed(s)
           yes == QuotePair(s).yes
           no  == QuotePair(s).no
<1>1. /\ books["YES"] \in Book /\ books["NO"] \in Book /\ Units \in Nat \ {0} /\ Half \in Nat \ {0}
      /\ Ticks \in Nat \ {0} /\ s \in Int
  BY BookAssumption DEF Tokens
<1>2. bid \in Nat /\ ask \in Nat /\ 0 < bid /\ bid < ask /\ ask < Ticks
  BY <1>1, BestLevels DEF TwoSided, Uncrossed
<1>3. BestAsk(books["NO"]) = Ticks - bid
  <2>1. books["NO"].asks = Flip(books["YES"].bids)
    BY DEF Whole, Mirror
  <2>2. \A p \in Prices : p \in Nat /\ Ticks - p \in Prices /\ Ticks - (Ticks - p) = p
    BY <1>1 DEF Prices
  <2>3. \A p \in Prices : p \in Levels(books["NO"].asks) <=> Ticks - p \in Levels(books["YES"].bids)
    BY <2>1, <2>2 DEF Levels, Flip
  <2>4. bid \in Levels(books["YES"].bids) /\ \A p \in Levels(books["YES"].bids) : p \in Prices /\ p <= bid
    BY <1>1, <1>2, BestLevels DEF Levels
  <2>5. Ticks - bid \in Levels(books["NO"].asks)
    BY <2>2, <2>3, <2>4
  <2>6. /\ BestAsk(books["NO"]) \in Levels(books["NO"].asks) /\ BestAsk(books["NO"]) <= Ticks - bid
    BY <1>1, <2>5, BestLevels
  <2>7. BestAsk(books["NO"]) \in Prices /\ Ticks - BestAsk(books["NO"]) <= bid
    <3>1. BestAsk(books["NO"]) \in Prices
      BY <2>6 DEF Levels
    <3> QED BY <2>3, <2>4, <2>6, <3>1
  <2> QED BY <1>1, <1>2, <2>2, <2>6, <2>7
<1>4. k \in Int /\ -Half <= k /\ k <= Half
  <2>1. Bounded(s, -1, 1) \in {-1, 0, 1}
    BY <1>1, BoundedIs
  <2>2. k = Bounded(s, -1, 1) * Half
    BY DEF Skewed
  <2> QED BY <1>1, <2>1, <2>2
<1>5. /\ yes = Bounded(mid - Half - k, Units, (Ticks - 1) * Units)
      /\ no = Bounded(Ticks * Units - mid - Half + k, Units, (Ticks - 1) * Units)
  BY DEF QuotePair
<1>6. /\ Crosses("YES", yes) <=> ask > 0 /\ ask * Units <= yes
      /\ Crosses("NO", no) <=> Ticks - bid > 0 /\ (Ticks - bid) * Units <= no
  BY <1>3 DEF Crosses
<1> HIDE DEF bid, ask, k, yes, no
<1>7. PICK B, A, T, half \in Nat :
         /\ half > 0 /\ Units = 2 * half
         /\ B = bid * Units /\ A = ask * Units /\ T = Ticks * Units
         /\ (Ticks - 1) * Units = T - Units /\ (Ticks - bid) * Units = T - B
         /\ 2 * half <= B /\ B + 2 * half <= A /\ A + 2 * half <= T
         /\ 2 * (((bid + ask) * Units) \div 2) = B + A
  BY <1>2, InUnits, Zenon
<1>8. mid \in Int /\ 2 * mid = B + A
  BY <1>1, <1>2, <1>7
<1> HIDE DEF mid
<1>9. ASSUME NEW x \in Int
      PROVE  Bounded(x, Units, T - Units) = IF x < Units THEN Units ELSE IF x > T - Units THEN T - Units ELSE x
  BY <1>1, <1>7, BoundedIs
<1>10. /\ yes = Bounded(mid - Half - k, Units, T - Units)
       /\ no = Bounded(T - mid - Half + k, Units, T - Units)
  BY <1>5, <1>7
<1> DEFINE y == mid - Half - k
           n == T - mid - Half + k
<1>11. y \in Int /\ n \in Int /\ y <= mid /\ n <= T - mid /\ y + n < T
  BY <1>1, <1>4, <1>7, <1>8
<1> HIDE DEF y, n
<1>12. /\ yes \in Int /\ (yes = Units \/ yes <= y)
       /\ no \in Int /\ (no = Units \/ no <= n)
  <2>1. yes = Bounded(y, Units, T - Units) /\ no = Bounded(n, Units, T - Units)
    BY <1>10 DEF y, n
  <2> QED BY <1>1, <1>7, <1>9, <1>11, <2>1
<1>13. yes < A /\ no < T - B /\ yes + no < T
  BY <1>7, <1>8, <1>11, <1>12
<1>14. ~Crosses("YES", yes) /\ ~Crosses("NO", no)
  BY <1>6, <1>7, <1>12, <1>13
<1> QED BY <1>7, <1>13, <1>14 DEF yes, no

\* What is meant to rest does: no order is filled by a level that counts of the book it was
\* priced from, whatever size counts (_depth_filtered_quotes, maker_limit_price,
\* compute_quote_pair, check_fill).
THEOREM OrdersRest == Spec => []QuotesRest
<1>1. OnCourse => QuotesRest
  <2> SUFFICES ASSUME OnCourse PROVE QuotesRest
    OBVIOUS
  <2>1. books \in [Tokens -> Book] /\ Uncrossed(books["YES"])
    BY DEF OnCourse, TypeOK, Tokens
  <2>2. \A t \in Tokens, d \in Discounts : \A p \in Large(books[t].asks) : FollowLimit(t, d) < p * Units
    BY <2>1, FollowedRests
  <2>3. Whole /\ TwoSided(books["YES"]) =>
           \A s \in Skews : /\ ~Crosses("YES", QuotePair(s).yes) /\ ~Crosses("NO", QuotePair(s).no)
                            /\ QuotePair(s).yes + QuotePair(s).no < Ticks * Units
    BY <2>1, PairRests
  <2> QED BY <2>2, <2>3 DEF QuotesRest
<1> QED BY <1>1, BooksOnCourse, PTL

-----------------------------------------------------------------------------
(***************************************************************************)
(* Sums.  SumFunctionOnSet is a fold, a function chosen by its recursion;  *)
(* there is such a function on the subsets of a finite set, and sums over  *)
(* sets are reasoned about by the subsets for which a fact holds.          *)
(***************************************************************************)

Total(f, S) == SumFunctionOnSet(f, S)

\* A set of subsets that has a subset whenever it has those strictly in it has all.
LEMMA AllSubsets ==
  ASSUME NEW S, IsFiniteSet(S), NEW G,
         \A s \in SUBSET S : (\A t \in SUBSET s : t # s => t \in G) => s \in G
  PROVE  \A s \in SUBSET S : s \in G
<1> DEFINE B == {s \in SUBSET S : s \notin G}
           R == StrictSubsetOrdering(S)
<1> SUFFICES ASSUME B # {} PROVE FALSE
  OBVIOUS
<1>1. B \subseteq FiniteSubsetsOf(S)
  BY FS_Subset DEF FiniteSubsetsOf
<1>2. IsWellFoundedOn(R, FiniteSubsetsOf(S))
  BY FS_StrictSubsetOrderingWellFounded
<1> HIDE DEF B, R
<1>3. PICK s \in B : \A t \in B : ~(<<t, s>> \in R)
  BY <1>1, <1>2, WFMin
<1>4. s \in SUBSET S /\ s \notin G
  BY <1>3 DEF B
<1>5. ASSUME NEW t \in SUBSET s, t # s PROVE t \in G
  <2> SUFFICES ASSUME t \notin G PROVE FALSE
    OBVIOUS
  <2>1. t \in B
    BY <1>4 DEF B
  <2>2. <<t, s>> \in R
    BY <1>4, <1>5 DEF R, StrictSubsetOrdering
  <2> QED BY <1>3, <2>1, <2>2
<1> QED BY <1>4, <1>5

\* The recursion a sum follows: it takes out one element after the other.
Pick(s) == CHOOSE x \in s : TRUE
Sums(f, S, g) == g = [s \in SUBSET S |-> IF s = {} THEN 0 ELSE f[Pick(s)] + g[s \ {Pick(s)}]]

LEMMA TotalIs ==
  ASSUME NEW f, NEW S
  PROVE  Total(f, S) = (CHOOSE g : Sums(f, S, g))[S]
BY DEF Total, SumFunctionOnSet, FoldFunctionOnSet, MapThenFoldSet, Pick, Sums

LEMMA PickIn == ASSUME NEW s, s # {} PROVE Pick(s) \in s /\ s \ {Pick(s)} # s
BY DEF Pick

LEMMA SumsAt ==
  ASSUME NEW f, NEW S, NEW g, Sums(f, S, g), NEW s \in SUBSET S
  PROVE  g[s] = IF s = {} THEN 0 ELSE f[Pick(s)] + g[s \ {Pick(s)}]
<1> DEFINE F(h, t) == IF t = {} THEN 0 ELSE f[Pick(t)] + h[t \ {Pick(t)}]
<1>1. g = [t \in SUBSET S |-> F(g, t)]
  BY DEF Sums
<1> HIDE DEF F
<1>2. g[s] = F(g, s)
  BY <1>1
<1> QED BY <1>2 DEF F

\* There is one function that follows it, for the subsets it is asked for.
LEMMA SumsAgree ==
  ASSUME NEW f, NEW S, IsFiniteSet(S), NEW T, T \subseteq S, NEW g, Sums(f, S, g), NEW h, Sums(f, T, h)
  PROVE  \A s \in SUBSET T : g[s] = h[s]
<1> DEFINE G == {s \in SUBSET T : g[s] = h[s]}
<1>1. IsFiniteSet(T)
  BY FS_Subset
<1>2. ASSUME NEW s \in SUBSET T, \A t \in SUBSET s : t # s => t \in G PROVE s \in G
  <2>1. g[s] = IF s = {} THEN 0 ELSE f[Pick(s)] + g[s \ {Pick(s)}]
    <3>1. s \in SUBSET S
      OBVIOUS
    <3> QED BY <3>1, SumsAt
  <2>2. h[s] = IF s = {} THEN 0 ELSE f[Pick(s)] + h[s \ {Pick(s)}]
    BY SumsAt
  <2>3. s # {} => g[s \ {Pick(s)}] = h[s \ {Pick(s)}]
    BY <1>2, PickIn
  <2> QED BY <2>1, <2>2, <2>3
<1> HIDE DEF G
<1>3. \A s \in SUBSET T : s \in G
  BY <1>1, <1>2, AllSubsets
<1> QED BY <1>3 DEF G

LEMMA SumsExist ==
  ASSUME NEW f, NEW S, IsFiniteSet(S)
  PROVE  \E g : Sums(f, S, g)
<1> DEFINE G == {s \in SUBSET S : \E g : Sums(f, s, g)}
<1>1. ASSUME NEW s \in SUBSET S, \A t \in SUBSET s : t # s => t \in G PROVE s \in G
  <2>1. ASSUME NEW t \in SUBSET s, t # s
        PROVE  /\ Sums(f, t, CHOOSE g : Sums(f, t, g))
               /\ IsFiniteSet(t)
    <3>1. \E g : Sums(f, t, g)
      BY <1>1, <2>1
    <3>2. IsFiniteSet(t)
      BY FS_Subset
    <3> QED BY <3>1, <3>2
  <2>2. ASSUME NEW t \in SUBSET s, t # s
        PROVE  Total(f, t) = IF t = {} THEN 0 ELSE f[Pick(t)] + Total(f, t \ {Pick(t)})
    <3> DEFINE g == CHOOSE h : Sums(f, t, h)
               u == t \ {Pick(t)}
               k == CHOOSE h : Sums(f, u, h)
    <3>1. Sums(f, t, g) /\ IsFiniteSet(t) /\ Total(f, t) = g[t] /\ Total(f, u) = k[u]
      BY <2>1, <2>2, TotalIs
    <3>2. u \in SUBSET s /\ u \in SUBSET t /\ u # s
      BY <2>2
    <3>3. Sums(f, u, k)
      BY <2>1, <3>2
    <3> HIDE DEF g, k
    <3>4. g[u] = k[u]
      <4>1. \A w \in SUBSET u : g[w] = k[w]
        BY <3>1, <3>2, <3>3, SumsAgree
      <4> QED BY <4>1
    <3>5. g[t] = IF t = {} THEN 0 ELSE f[Pick(t)] + g[u]
      BY <3>1, SumsAt
    <3> QED BY <3>1, <3>4, <3>5
  <2> DEFINE F(h, t) == IF t = {} THEN 0 ELSE f[Pick(t)] + h[t \ {Pick(t)}]
             V(t) == Total(f, t)
             g == [t \in SUBSET s |-> IF t = s THEN (IF s = {} THEN 0 ELSE f[Pick(s)] + V(s \ {Pick(s)})) ELSE V(t)]
  <2>3. ASSUME NEW t \in SUBSET s PROVE g[t] = F(g, t)
    <3>1. t # {} => t \ {Pick(t)} \in SUBSET s /\ t \ {Pick(t)} # s
      BY PickIn
    <3>2. t # {} => g[t \ {Pick(t)}] = V(t \ {Pick(t)})
      BY <3>1
    <3>3. CASE t = s
      BY <3>2, <3>3
    <3>4. CASE t # s
      <4>1. g[t] = V(t)
        BY <3>4
      <4>2. V(t) = IF t = {} THEN 0 ELSE f[Pick(t)] + V(t \ {Pick(t)})
        BY <2>2, <3>4
      <4> HIDE DEF g, V
      <4> QED BY <3>2, <4>1, <4>2
    <3> QED BY <3>3, <3>4
  <2>4. g = [t \in SUBSET s |-> g[t]]
    OBVIOUS
  <2> HIDE DEF g
  <2>5. Sums(f, s, g)
    BY <2>3, <2>4 DEF Sums
  <2> QED BY <2>5
<1> HIDE DEF G
<1>2. \A s \in SUBSET S : s \in G
  BY <1>1, AllSubsets
<1> QED BY <1>2 DEF G

\* Nothing adds up to zero, and a sum is the element that is taken out and the rest.
LEMMA TotalStep ==
  ASSUME NEW f, NEW S, IsFiniteSet(S)
  PROVE  Total(f, S) = IF S = {} THEN 0 ELSE f[Pick(S)] + Total(f, S \ {Pick(S)})
<1>1. PICK u : u = S \ {Pick(S)}
  OBVIOUS
<1>2. u \subseteq S /\ IsFiniteSet(u)
  BY <1>1, FS_Subset
<1>3. PICK g : Sums(f, S, g) /\ Total(f, S) = g[S]
  BY SumsExist, TotalIs
<1>4. PICK k : Sums(f, u, k) /\ Total(f, u) = k[u]
  BY <1>2, SumsExist, TotalIs
<1>5. \A w \in SUBSET u : g[w] = k[w]
  BY <1>2, <1>3, <1>4, SumsAgree
<1>6. g[u] = k[u]
  BY <1>5
<1>7. g[S] = IF S = {} THEN 0 ELSE f[Pick(S)] + g[S \ {Pick(S)}]
  BY <1>3, SumsAt
<1> QED BY <1>1, <1>3, <1>4, <1>6, <1>7

\* Facts about sums of integers.
LEMMA TotalInt ==
  ASSUME NEW f, NEW S, IsFiniteSet(S), \A x \in S : f[x] \in Int
  PROVE  \A s \in SUBSET S : Total(f, s) \in Int
<1> DEFINE G == {s \in SUBSET S : Total(f, s) \in Int}
<1>1. ASSUME NEW s \in SUBSET S, \A t \in SUBSET s : t # s => t \in G PROVE s \in G
  <2>1. Total(f, s) = IF s = {} THEN 0 ELSE f[Pick(s)] + Total(f, s \ {Pick(s)})
    BY FS_Subset, TotalStep
  <2>2. s # {} => Pick(s) \in S /\ s \ {Pick(s)} \in G
    BY <1>1, PickIn
  <2> QED BY <2>1, <2>2
<1> HIDE DEF G
<1>2. \A s \in SUBSET S : s \in G
  BY <1>1, AllSubsets
<1> QED BY <1>2 DEF G

\* A sum is any of its elements and the rest.
LEMMA TotalRemove ==
  ASSUME NEW f, NEW S, IsFiniteSet(S), \A x \in S : f[x] \in Int
  PROVE  \A s \in SUBSET S : \A x \in s : Total(f, s) = f[x] + Total(f, s \ {x})
<1> DEFINE G == {s \in SUBSET S : \A x \in s : Total(f, s) = f[x] + Total(f, s \ {x})}
<1>1. ASSUME NEW s \in SUBSET S, \A t \in SUBSET s : t # s => t \in G PROVE s \in G
  <2> SUFFICES ASSUME NEW x \in s PROVE Total(f, s) = f[x] + Total(f, s \ {x})
    OBVIOUS
  <2> DEFINE p == Pick(s)
             rest == s \ {p, x}
  <2>1. p \in s /\ f[p] \in Int /\ f[x] \in Int
    BY PickIn
  <2>2. Total(f, s) = f[p] + Total(f, s \ {p})
    BY FS_Subset, TotalStep
  <2>3. CASE p = x
    BY <2>2, <2>3
  <2>4. CASE p # x
    <3>1. s \ {p} \in G /\ x \in s \ {p} /\ (s \ {p}) \ {x} = rest
      BY <1>1, <2>1, <2>4
    <3>2. s \ {x} \in G /\ p \in s \ {x} /\ (s \ {x}) \ {p} = rest
      BY <1>1, <2>1, <2>4
    <3>3. Total(f, s \ {p}) = f[x] + Total(f, rest) /\ Total(f, s \ {x}) = f[p] + Total(f, rest)
      BY <3>1, <3>2
    <3>4. Total(f, rest) \in Int
      BY TotalInt
    <3> HIDE DEF p, rest
    <3> QED BY <2>1, <2>2, <3>3, <3>4
  <2> QED BY <2>3, <2>4
<1> HIDE DEF G
<1>2. \A s \in SUBSET S : s \in G
  BY <1>1, AllSubsets
<1> QED BY <1>2 DEF G

LEMMA TotalEmpty == ASSUME NEW f PROVE Total(f, {}) = 0
BY FS_EmptySet, TotalStep

\* Sums compare as their elements do.
LEMMA TotalCompare ==
  ASSUME NEW f, NEW g, NEW S, IsFiniteSet(S), \A x \in S : f[x] \in Int /\ g[x] \in Int /\ f[x] <= g[x]
  PROVE  Total(f, S) <= Total(g, S)
<1> DEFINE G == {s \in SUBSET S : Total(f, s) <= Total(g, s)}
<1>1. ASSUME NEW s \in SUBSET S, \A t \in SUBSET s : t # s => t \in G PROVE s \in G
  <2>1. CASE s = {}
    BY <2>1, TotalEmpty
  <2>2. CASE s # {}
    <3>1. PICK x \in s : TRUE
      BY <2>2
    <3>2. s \ {x} \in G /\ s \ {x} \in SUBSET S
      BY <1>1
    <3>3. Total(f, s) = f[x] + Total(f, s \ {x}) /\ Total(g, s) = g[x] + Total(g, s \ {x})
      BY TotalRemove
    <3>4. Total(f, s \ {x}) \in Int /\ Total(g, s \ {x}) \in Int
      BY <3>2, TotalInt
    <3>5. Total(f, s \ {x}) <= Total(g, s \ {x}) /\ f[x] \in Int /\ g[x] \in Int /\ f[x] <= g[x]
      BY <3>2
    <3> QED BY <3>3, <3>4, <3>5
  <2> QED BY <2>1, <2>2
<1> HIDE DEF G
<1>2. S \in G
  BY <1>1, AllSubsets
<1> QED BY <1>2 DEF G

\* Sums of a multiple and another are such a multiple and the other.
LEMMA TotalLinear ==
  ASSUME NEW f, NEW g, NEW h, NEW S, IsFiniteSet(S), NEW c \in Int,
         \A x \in S : f[x] \in Int /\ g[x] \in Int /\ h[x] = c * f[x] + g[x]
  PROVE  Total(h, S) = c * Total(f, S) + Total(g, S)
<1> DEFINE G == {s \in SUBSET S : Total(h, s) = c * Total(f, s) + Total(g, s)}
<1>0. \A x \in S : h[x] \in Int
  OBVIOUS
<1>1. ASSUME NEW s \in SUBSET S, \A t \in SUBSET s : t # s => t \in G PROVE s \in G
  <2>1. CASE s = {}
    <3>1. Total(f, s) = 0 /\ Total(g, s) = 0 /\ Total(h, s) = 0
      BY <2>1, TotalEmpty
    <3> QED BY <3>1
  <2>2. CASE s # {}
    <3>1. PICK x \in s : TRUE
      BY <2>2
    <3> DEFINE u == s \ {x}
    <3>2. u \in G /\ u \in SUBSET S
      BY <1>1
    <3>3. /\ Total(f, s) = f[x] + Total(f, u) /\ Total(g, s) = g[x] + Total(g, u)
          /\ Total(h, s) = h[x] + Total(h, u)
      BY <1>0, TotalRemove
    <3>4. Total(f, u) \in Int /\ Total(g, u) \in Int
      BY <3>2, TotalInt
    <3>5. Total(h, u) = c * Total(f, u) + Total(g, u) /\ f[x] \in Int /\ g[x] \in Int /\ h[x] = c * f[x] + g[x]
      BY <3>2
    <3> HIDE DEF u
    <3>6. c * (f[x] + Total(f, u)) = c * f[x] + c * Total(f, u)
      BY <3>4, <3>5
    <3>7. c * f[x] \in Int /\ c * Total(f, u) \in Int
      BY <3>4, <3>5
    <3>8. Total(h, s) = c * Total(f, s) + Total(g, s)
      BY <3>3, <3>4, <3>5, <3>6, <3>7
    <3> QED BY <3>8
  <2> QED BY <2>1, <2>2
<1> HIDE DEF G
<1>2. S \in G
  BY <1>1, AllSubsets
<1> QED BY <1>2 DEF G

\* What is nought beyond a part adds up over the part.
LEMMA TotalPart ==
  ASSUME NEW f, NEW S, IsFiniteSet(S), NEW T \in SUBSET S,
         \A x \in S : f[x] \in Int, \A x \in S \ T : f[x] = 0
  PROVE  Total(f, S) = Total(f, T)
<1> DEFINE G == {s \in SUBSET S : Total(f, s) = Total(f, s \cap T)}
<1>1. ASSUME NEW s \in SUBSET S, \A t \in SUBSET s : t # s => t \in G PROVE s \in G
  <2>1. CASE s \subseteq T
    <3>1. s \cap T = s
      BY <2>1
    <3> QED BY <3>1
  <2>2. CASE ~(s \subseteq T)
    <3>1. PICK x \in s : x \notin T
      BY <2>2
    <3>2. s \ {x} \in G /\ s \ {x} \in SUBSET S /\ (s \ {x}) \cap T = s \cap T
      BY <1>1, <3>1
    <3>3. Total(f, s) = f[x] + Total(f, s \ {x}) /\ f[x] = 0
      BY <3>1, TotalRemove
    <3>4. Total(f, s \ {x}) \in Int
      BY <3>2, TotalInt
    <3>5. Total(f, s \ {x}) = Total(f, s \cap T)
      BY <3>2
    <3>6. Total(f, s) = Total(f, s \cap T)
      BY <3>3, <3>4, <3>5
    <3> QED BY <3>6
  <2> QED BY <2>1, <2>2
<1> HIDE DEF G
<1>2. S \in G
  BY <1>1, AllSubsets
<1>3. S \cap T = T
  OBVIOUS
<1> QED BY <1>2, <1>3 DEF G

\* Sums go by the elements alone.
LEMMA TotalSame ==
  ASSUME NEW f, NEW g, NEW S, IsFiniteSet(S), \A x \in S : f[x] \in Int /\ g[x] = f[x]
  PROVE  Total(f, S) = Total(g, S)
<1>1. Total(f, S) <= Total(g, S) /\ Total(g, S) <= Total(f, S)
  BY TotalCompare
<1>2. Total(f, S) \in Int /\ Total(g, S) \in Int
  BY TotalInt
<1> QED BY <1>1, <1>2

\* A sum over more of what is not negative is not less.
LEMMA TotalMore ==
  ASSUME NEW f, NEW S, IsFiniteSet(S), NEW T \in SUBSET S, \A x \in S : f[x] \in Nat
  PROVE  Total(f, T) <= Total(f, S) /\ Total(f, T) \in Nat
<1> DEFINE g == [x \in S |-> IF x \in T THEN f[x] ELSE 0]
           zero == [x \in S |-> 0]
<1>1. \A x \in S : zero[x] \in Int /\ g[x] \in Int /\ f[x] \in Int /\ zero[x] <= g[x] /\ g[x] <= f[x]
  OBVIOUS
<1>2. (\A x \in T : g[x] = f[x] /\ f[x] \in Int) /\ (\A x \in S \ T : g[x] = 0) /\ \A x \in S \ {} : zero[x] = 0
  OBVIOUS
<1>3. IsFiniteSet(T)
  BY FS_Subset
<1> HIDE DEF g, zero
<1>4. Total(g, S) = Total(g, T)
  BY <1>1, <1>2, TotalPart
<1>5. Total(f, T) = Total(g, T)
  BY <1>2, <1>3, TotalSame
<1>6. Total(zero, S) = Total(zero, {})
  <2>1. {} \in SUBSET S
    OBVIOUS
  <2> QED BY <1>1, <1>2, <2>1, TotalPart
<1>7. Total(zero, {}) = 0
  BY TotalEmpty
<1>8. Total(zero, S) <= Total(g, S) /\ Total(g, S) <= Total(f, S)
  BY <1>1, TotalCompare
<1>9. Total(f, T) \in Int
  BY <1>1, TotalInt
<1> QED BY <1>4, <1>5, <1>6, <1>7, <1>8, <1>9

-----------------------------------------------------------------------------
(* The fills made of the books.                                            *)

LEMMA PricesFinite == IsFiniteSet(Prices) /\ \A p \in Prices : p \in Nat /\ p > 0 /\ p < Ticks
<1>1. Ticks - 1 \in Int /\ 1 \in Int /\ Ticks \in Nat
  BY BookAssumption
<1>2. IsFiniteSet(1..(Ticks - 1))
  BY <1>1, FS_Interval
<1> QED BY <1>1, <1>2 DEF Prices

\* What an order takes of each level is a part of it, all that is left for it or all of the level.
LEMMA TakeIs ==
  ASSUME NEW s \in Side, NEW buying \in BOOLEAN, NEW n \in Nat
  PROVE  /\ Take(s, buying, n) \in [Prices -> Nat]
         /\ \A p \in Prices :
              LET better == {q \in Prices : IF buying THEN q < p ELSE q > p}
                  ahead  == Total(s, better)
              IN  /\ ahead \in Nat
                  /\ Take(s, buying, n)[p] = IF n <= ahead THEN 0
                                             ELSE IF n - ahead < s[p] THEN n - ahead ELSE s[p]
<1>1. \A p \in Prices : s[p] \in Nat
  BY BookAssumption DEF Side
<1> DEFINE Better(p) == {q \in Prices : IF buying THEN q < p ELSE q > p}
           Ahead(p) == Total(s, Better(p))
<1>2. ASSUME NEW p \in Prices PROVE Ahead(p) \in Nat
  BY <1>1, PricesFinite, TotalMore
<1>3. Take(s, buying, n) = [p \in Prices |-> Min({s[p], Max({0, n - Ahead(p)})})]
  BY DEF Take, Total
<1> HIDE DEF Ahead
<1>4. ASSUME NEW p \in Prices
      PROVE  Min({s[p], Max({0, n - Ahead(p)})}) =
               IF n <= Ahead(p) THEN 0 ELSE IF n - Ahead(p) < s[p] THEN n - Ahead(p) ELSE s[p]
  <2>1. n - Ahead(p) \in Int /\ s[p] \in Nat
    BY <1>1, <1>2
  <2>2. Max({0, n - Ahead(p)}) = IF n <= Ahead(p) THEN 0 ELSE n - Ahead(p)
    BY <1>2, <2>1 DEF Max
  <2>3. ASSUME NEW x \in Nat, NEW y \in Nat PROVE Min({x, y}) = IF y < x THEN y ELSE x
    BY DEF Min
  <2>4. CASE n <= Ahead(p)
    <3>1. Max({0, n - Ahead(p)}) = 0 /\ 0 \in Nat
      BY <2>2, <2>4
    <3>2. Min({s[p], 0}) = 0
      <4>1. Min({s[p], 0}) = IF 0 < s[p] THEN 0 ELSE s[p]
        BY <2>1, <2>3
      <4> QED BY <2>1, <4>1
    <3> QED BY <2>4, <3>1, <3>2
  <2>5. CASE ~(n <= Ahead(p))
    <3>1. Max({0, n - Ahead(p)}) = n - Ahead(p) /\ n - Ahead(p) \in Nat
      BY <1>2, <2>2, <2>5
    <3> QED BY <2>1, <2>3, <2>5, <3>1
  <2> QED BY <2>4, <2>5
<1>5. ASSUME NEW p \in Prices
      PROVE  Take(s, buying, n)[p] =
               IF n <= Ahead(p) THEN 0 ELSE IF n - Ahead(p) < s[p] THEN n - Ahead(p) ELSE s[p]
  BY <1>3, <1>4
<1>6. ASSUME NEW p \in Prices PROVE Take(s, buying, n)[p] \in Nat
  BY <1>1, <1>2, <1>5
<1>7. Take(s, buying, n) \in [Prices -> Nat]
  BY <1>3, <1>6
<1> QED BY <1>2, <1>5, <1>7 DEF Ahead

LEMMA TakeInLevels ==
  ASSUME NEW s \in Side, NEW buying \in BOOLEAN, NEW n \in Nat
  PROVE  /\ Take(s, buying, n) \in [Prices -> Nat]
         /\ \A p \in Prices : Take(s, buying, n)[p] <= s[p]
<1>1. \A p \in Prices : s[p] \in Nat
  BY BookAssumption DEF Side
<1>2. ASSUME NEW p \in Prices PROVE Take(s, buying, n)[p] <= s[p]
  <2> DEFINE ahead == Total(s, {q \in Prices : IF buying THEN q < p ELSE q > p})
  <2>1. /\ ahead \in Nat
        /\ Take(s, buying, n)[p] = IF n <= ahead THEN 0 ELSE IF n - ahead < s[p] THEN n - ahead ELSE s[p]
    BY TakeIs
  <2> HIDE DEF ahead
  <2> QED BY <1>1, <2>1
<1> QED BY <1>2, TakeIs

\* What is taken and what it is worth, as sums over the prices.
LEMMA Sizes ==
  ASSUME NEW t \in [Prices -> Nat]
  PROVE  /\ Filled(t) = Total(t, Prices) /\ Filled(t) \in Nat
         /\ Notional(t) = Total([p \in Prices |-> p * t[p]], Prices) /\ Notional(t) \in Nat
<1>1. Filled(t) = Total(t, Prices) /\ Notional(t) = Total([p \in Prices |-> p * t[p]], Prices)
  BY DEF Filled, Notional, SumFunction, Total
<1>2. \A p \in Prices : t[p] \in Nat /\ [q \in Prices |-> q * t[q]][p] \in Nat
  BY PricesFinite
<1> HIDE DEF Filled
<1> QED BY <1>1, <1>2, PricesFinite, TotalMore

\* A sum of nothing but noughts is nought.
LEMMA TotalNought ==
  ASSUME NEW f, NEW S, IsFiniteSet(S), \A x \in S : f[x] = 0
  PROVE  Total(f, S) = 0
<1>1. {} \in SUBSET S /\ (\A x \in S : f[x] \in Int) /\ \A x \in S \ {} : f[x] = 0
  OBVIOUS
<1>2. Total(f, S) = Total(f, {})
  BY <1>1, TotalPart
<1> QED BY <1>2, TotalEmpty

\* Shares at a price or above are worth that price each or more, and none are worth nothing.
LEMMA WorthAtLeast ==
  ASSUME NEW t \in [Prices -> Nat], NEW a \in Int, \A p \in Prices : t[p] > 0 => p >= a
  PROVE  Notional(t) >= a * Filled(t)
<1> DEFINE h == [p \in Prices |-> p * t[p]]
           g == [p \in Prices |-> (p - a) * t[p]]
<1>1. ASSUME NEW p \in Prices PROVE t[p] \in Int /\ g[p] \in Nat /\ h[p] = a * t[p] + g[p]
  <2>1. p \in Nat /\ t[p] \in Nat
    BY PricesFinite
  <2>2. t[p] = 0 \/ p - a \in Nat
    BY <2>1
  <2> QED BY <2>1, <2>2
<1>2. Filled(t) = Total(t, Prices) /\ Notional(t) = Total(h, Prices) /\ Filled(t) \in Nat
  BY Sizes
<1> HIDE DEF g, h
<1>3. Total(h, Prices) = a * Total(t, Prices) + Total(g, Prices)
  <2>1. \A p \in Prices : t[p] \in Int /\ g[p] \in Int /\ h[p] = a * t[p] + g[p]
    BY <1>1
  <2> QED BY <2>1, PricesFinite, TotalLinear
<1>4. Total(g, Prices) \in Nat
  <2>1. \A p \in Prices : g[p] \in Nat
    BY <1>1
  <2> QED BY <2>1, PricesFinite, TotalMore
<1>5. a * Filled(t) \in Int
  BY <1>2
<1> QED BY <1>2, <1>3, <1>4, <1>5

\* Shares at a price or below are worth that price each or less.
LEMMA WorthAtMost ==
  ASSUME NEW t \in [Prices -> Nat], NEW b \in Int, \A p \in Prices : t[p] > 0 => p <= b
  PROVE  Notional(t) <= b * Filled(t)
<1> DEFINE h == [p \in Prices |-> p * t[p]]
           g == [p \in Prices |-> (p - b) * t[p]]
           zero == [p \in Prices |-> 0]
<1>1. ASSUME NEW p \in Prices
      PROVE  t[p] \in Int /\ g[p] \in Int /\ g[p] <= zero[p] /\ zero[p] = 0 /\ h[p] = b * t[p] + g[p]
  <2>1. p \in Nat /\ t[p] \in Nat
    BY PricesFinite
  <2>2. t[p] = 0 \/ b - p \in Nat
    BY <2>1
  <2>3. (b - p) * t[p] \in Nat /\ (p - b) * t[p] = -((b - p) * t[p])
    BY <2>1, <2>2
  <2> QED BY <2>1, <2>3
<1>2. Filled(t) = Total(t, Prices) /\ Notional(t) = Total(h, Prices) /\ Filled(t) \in Nat
  BY Sizes
<1> HIDE DEF g, h, zero
<1>3. Total(h, Prices) = b * Total(t, Prices) + Total(g, Prices)
  <2>1. \A p \in Prices : t[p] \in Int /\ g[p] \in Int /\ h[p] = b * t[p] + g[p]
    BY <1>1
  <2> QED BY <2>1, PricesFinite, TotalLinear
<1>4. Total(g, Prices) <= Total(zero, Prices) /\ Total(zero, Prices) = 0
  BY <1>1, PricesFinite, TotalCompare, TotalNought
<1>5. b * Filled(t) \in Int /\ Total(g, Prices) \in Int
  <2>1. \A p \in Prices : g[p] \in Int
    BY <1>1
  <2> QED BY <1>2, <2>1, PricesFinite, TotalInt
<1> QED BY <1>2, <1>3, <1>4, <1>5

LEMMA SomeFilled ==
  ASSUME NEW t \in [Prices -> Nat], Filled(t) > 0
  PROVE  \E p \in Prices : t[p] > 0
<1> SUFFICES ASSUME \A p \in Prices : t[p] = 0 PROVE FALSE
  OBVIOUS
<1>1. Filled(t) = 0
  BY Sizes, PricesFinite, TotalNought
<1> QED BY <1>1

\* Shares bought at a price or above, and sold at the next tick below it or lower, lose.
LEMMA RoundTripLoses ==
  ASSUME NEW a \in Int, NEW bought \in Nat, NEW paid \in Nat, NEW sold \in Nat, NEW got \in Nat,
         bought > 0, sold > 0, paid >= a * bought, got <= (a - 1) * sold
  PROVE  got * bought < paid * sold
<1>1. a * bought \in Int /\ (a - 1) * sold \in Int /\ a * bought * sold \in Int
  OBVIOUS
<1>2. paid * sold >= a * bought * sold
  <2>1. PICK d \in Nat : paid = a * bought + d
    <3>1. paid - a * bought \in Nat /\ paid = a * bought + (paid - a * bought)
      BY <1>1
    <3> QED BY <3>1
  <2>2. paid * sold = a * bought * sold + d * sold
    BY <1>1, <2>1
  <2>3. d * sold \in Nat
    BY <2>1
  <2> QED BY <1>1, <2>2, <2>3
<1>3. got * bought <= ((a - 1) * sold) * bought
  <2>1. PICK d \in Nat : (a - 1) * sold = got + d
    <3>1. (a - 1) * sold - got \in Nat /\ (a - 1) * sold = got + ((a - 1) * sold - got)
      BY <1>1
    <3> QED BY <3>1
  <2>2. ((a - 1) * sold) * bought = got * bought + d * bought
    BY <2>1
  <2>3. d * bought \in Nat /\ got * bought \in Nat
    BY <2>1
  <2> QED BY <2>2, <2>3
<1>4. ((a - 1) * sold) * bought = a * bought * sold - bought * sold
  OBVIOUS
<1>5. bought * sold \in Nat /\ bought * sold > 0
  OBVIOUS
<1>6. got * bought \in Int /\ paid * sold \in Int
  OBVIOUS
<1> QED BY <1>1, <1>2, <1>3, <1>4, <1>5, <1>6

\* Shares of both tokens bought at two prices that make more than the payout cost more than it.
LEMMA PairCostsMore ==
  ASSUME NEW a \in Int, NEW c \in Int, NEW ys \in Nat, NEW yp \in Nat, NEW ns \in Nat, NEW np \in Nat,
         a + c > Ticks, ys > 0, ns > 0, yp >= a * ys, np >= c * ns
  PROVE  yp * ns + np * ys > Ticks * ys * ns
<1>0. Ticks \in Nat
  BY BookAssumption
<1>1. ASSUME NEW x \in Int, NEW m \in Nat, NEW n \in Nat, NEW w \in Nat, w >= x * m
      PROVE  w * n >= x * (m * n)
  <2>1. PICK d \in Nat : w = x * m + d
    <3>1. x * m \in Int
      BY <1>1
    <3>2. w - x * m \in Nat /\ w = x * m + (w - x * m)
      BY <1>1, <3>1
    <3> QED BY <3>2
  <2>2. w * n = x * (m * n) + d * n
    BY <1>1, <2>1
  <2>3. d * n \in Nat /\ x * (m * n) \in Int
    BY <1>1, <2>1
  <2> QED BY <2>2, <2>3
<1>2. yp * ns >= a * (ys * ns) /\ np * ys >= c * (ns * ys)
  BY <1>1
<1> DEFINE both == ys * ns
<1>3. both \in Nat /\ both > 0 /\ ns * ys = both
  OBVIOUS
<1>4. Ticks * ys * ns = Ticks * both
  BY <1>0
<1>5. yp * ns \in Int /\ np * ys \in Int
  OBVIOUS
<1>6. yp * ns >= a * both /\ np * ys >= c * both
  BY <1>2, <1>3
<1> HIDE DEF both
<1>7. a * both + c * both = (a + c) * both /\ a * both \in Int /\ c * both \in Int
  BY <1>3
<1>8. (a + c) * both > Ticks * both
  <2>1. PICK d \in Nat : a + c = Ticks + 1 + d
    <3>1. a + c - Ticks - 1 \in Nat /\ a + c = Ticks + 1 + (a + c - Ticks - 1)
      BY <1>0
    <3> QED BY <3>1
  <2>2. (a + c) * both = Ticks * both + both + d * both
    BY <1>0, <1>3, <2>1
  <2>3. d * both \in Nat /\ Ticks * both \in Nat
    BY <1>0, <1>3, <2>1
  <2> QED BY <1>3, <2>2, <2>3
<1>9. Ticks * both \in Int /\ (a + c) * both \in Int
  BY <1>0, <1>3
<1> QED BY <1>4, <1>5, <1>6, <1>7, <1>8, <1>9

\* An uncrossed book has a price that no ask is below and every bid is.
LEMMA Between ==
  ASSUME NEW asks \in Side, NEW bids \in Side, NEW x \in Prices, asks[x] > 0,
         \A p, q \in Prices : bids[p] > 0 /\ asks[q] > 0 => p < q
  PROVE  \E a \in Int : /\ \A q \in Prices : asks[q] > 0 => q >= a
                        /\ \A p \in Prices : bids[p] > 0 => p <= a - 1
<1> DEFINE S == {q \in Prices : asks[q] > 0}
<1>1. Ticks - 1 \in Nat /\ S \in SUBSET (0..(Ticks - 1)) /\ S # {}
  <2>1. Ticks - 1 \in Nat
    BY BookAssumption
  <2>2. Prices \subseteq 0..(Ticks - 1)
    BY <2>1 DEF Prices
  <2> QED BY <2>1, <2>2
<1>2. PICK a \in S : \A q \in S : a <= q
  BY <1>1, LeastExists
<1>3. a \in Prices /\ asks[a] > 0 /\ a \in Int
  BY <1>2, PricesFinite
<1>4. ASSUME NEW p \in Prices PROVE p \in Int
  BY PricesFinite
<1>5. \A q \in Prices : asks[q] > 0 => q >= a
  BY <1>2, <1>3, <1>4
<1>6. \A p \in Prices : bids[p] > 0 => p <= a - 1
  BY <1>3, <1>4
<1> QED BY <1>3, <1>5, <1>6

\* What is bought of the asks and sold to the bids of an uncrossed book loses.
LEMMA BookRoundTrip ==
  ASSUME NEW b \in Book, Uncrossed(b), NEW n \in Nat,
         Filled(Take(b.asks, TRUE, n)) > 0, Filled(Take(b.bids, FALSE, n)) > 0
  PROVE  Notional(Take(b.bids, FALSE, n)) * Filled(Take(b.asks, TRUE, n))
           < Notional(Take(b.asks, TRUE, n)) * Filled(Take(b.bids, FALSE, n))
<1> DEFINE in  == Take(b.asks, TRUE, n)
           out == Take(b.bids, FALSE, n)
<1>1. /\ b.asks \in Side /\ b.bids \in Side
      /\ \A p, q \in Prices : b.bids[p] > 0 /\ b.asks[q] > 0 => p < q
  BY DEF Book, Uncrossed, Levels
<1>2. /\ in \in [Prices -> Nat] /\ \A p \in Prices : in[p] <= b.asks[p]
      /\ out \in [Prices -> Nat] /\ \A p \in Prices : out[p] <= b.bids[p]
  BY <1>1, TakeInLevels
<1>3. \A p \in Prices : b.asks[p] \in Int /\ b.bids[p] \in Int
  BY <1>1, BookAssumption DEF Side
<1>4. Filled(in) > 0 /\ Filled(out) > 0
  OBVIOUS
<1> HIDE DEF in, out
<1>5. PICK x \in Prices : in[x] > 0
  BY <1>2, <1>4, SomeFilled
<1>6. b.asks[x] > 0
  BY <1>2, <1>3, <1>5
<1>7. PICK a \in Int : /\ \A q \in Prices : b.asks[q] > 0 => q >= a
                       /\ \A p \in Prices : b.bids[p] > 0 => p <= a - 1
  BY <1>1, <1>6, Between
<1>8. \A p \in Prices : (in[p] > 0 => p >= a) /\ (out[p] > 0 => p <= a - 1)
  BY <1>2, <1>3, <1>7
<1>9. Notional(in) >= a * Filled(in) /\ Notional(out) <= (a - 1) * Filled(out)
  BY <1>2, <1>8, WorthAtLeast, WorthAtMost
<1>10. Filled(in) \in Nat /\ Filled(out) \in Nat /\ Notional(in) \in Nat /\ Notional(out) \in Nat
  BY <1>2, Sizes
<1>11. Notional(out) * Filled(in) < Notional(in) * Filled(out)
  BY <1>4, <1>9, <1>10, RoundTripLoses
<1> QED BY <1>11 DEF in, out

\* What is bought of the asks and of the reflected bids of an uncrossed book costs more than it pays.
LEMMA BookPairCosts ==
  ASSUME NEW b \in Book, Uncrossed(b), NEW n \in Nat,
         Filled(Take(b.asks, TRUE, n)) > 0, Filled(Take(Flip(b.bids), TRUE, n)) > 0
  PROVE  Notional(Take(b.asks, TRUE, n)) * Filled(Take(Flip(b.bids), TRUE, n))
           + Notional(Take(Flip(b.bids), TRUE, n)) * Filled(Take(b.asks, TRUE, n))
         > Ticks * Filled(Take(b.asks, TRUE, n)) * Filled(Take(Flip(b.bids), TRUE, n))
<1> DEFINE yes == Take(b.asks, TRUE, n)
           no  == Take(Flip(b.bids), TRUE, n)
<1>1. /\ b.asks \in Side /\ b.bids \in Side /\ Flip(b.bids) \in Side
      /\ \A p, q \in Prices : b.bids[p] > 0 /\ b.asks[q] > 0 => p < q
  <2>1. Flip(b.bids) \in Side
    BY MirrorIsBook DEF Mirror, Book
  <2> QED BY <2>1 DEF Book, Uncrossed, Levels
<1>2. /\ yes \in [Prices -> Nat] /\ \A p \in Prices : yes[p] <= b.asks[p]
      /\ no \in [Prices -> Nat] /\ \A p \in Prices : no[p] <= Flip(b.bids)[p]
  BY <1>1, TakeInLevels
<1>3. \A p \in Prices : b.asks[p] \in Int /\ b.bids[p] \in Int
  BY <1>1, BookAssumption DEF Side
<1>4. Filled(yes) > 0 /\ Filled(no) > 0
  OBVIOUS
<1> HIDE DEF yes, no
<1>5. PICK x \in Prices : yes[x] > 0
  BY <1>2, <1>4, SomeFilled
<1>6. b.asks[x] > 0
  BY <1>2, <1>3, <1>5
<1>7. PICK a \in Int : /\ \A q \in Prices : b.asks[q] > 0 => q >= a
                       /\ \A p \in Prices : b.bids[p] > 0 => p <= a - 1
  BY <1>1, <1>6, Between
<1>8. \A p \in Prices : yes[p] > 0 => p >= a
  BY <1>2, <1>3, <1>7
<1>9. \A p \in Prices : no[p] > 0 => p >= Ticks - a + 1
  <2> SUFFICES ASSUME NEW p \in Prices, no[p] > 0 PROVE p >= Ticks - a + 1
    OBVIOUS
  <2>1. Ticks \in Nat /\ p \in Nat /\ Ticks - p \in Prices
    BY BookAssumption DEF Prices
  <2>2. no[p] <= b.bids[Ticks - p]
    BY <1>2 DEF Flip
  <2>3. b.bids[Ticks - p] > 0
    BY <1>2, <1>3, <2>1, <2>2
  <2>4. Ticks - p <= a - 1
    BY <1>7, <2>1, <2>3
  <2> QED BY <2>1, <2>4
<1>10. Ticks \in Int
  BY BookAssumption
<1>11. Notional(yes) >= a * Filled(yes) /\ Notional(no) >= (Ticks - a + 1) * Filled(no)
  BY <1>2, <1>8, <1>9, <1>10, WorthAtLeast
<1>12. Filled(yes) \in Nat /\ Filled(no) \in Nat /\ Notional(yes) \in Nat /\ Notional(no) \in Nat
  BY <1>2, Sizes
<1>13. Ticks - a + 1 \in Int /\ a + (Ticks - a + 1) > Ticks
  BY <1>10
<1>14. Notional(yes) * Filled(no) + Notional(no) * Filled(yes) > Ticks * Filled(yes) * Filled(no)
  BY <1>4, <1>11, <1>12, <1>13, PairCostsMore
<1> QED BY <1>14 DEF yes, no

\* Paper trading prints no money: buying and selling back loses, and a pair costs more than it pays,
\* whatever the books, the sizes and the breaks of the stream (_paper_entry_fill, _paper_exit_fill).
THEOREM MoneyIsNotFree == Spec => []NoFreeMoney
<1>1. OnCourse => NoFreeMoney
  <2> SUFFICES ASSUME OnCourse PROVE NoFreeMoney
    OBVIOUS
  <2>1. \A t \in Tokens : books[t] \in Book /\ Uncrossed(books[t])
    BY DEF OnCourse, TypeOK
  <2>2. "YES" \in Tokens /\ "NO" \in Tokens /\ \A n \in Targets : n \in Nat
    BY BookAssumption DEF Tokens
  <2>3. ASSUME Whole, NEW t \in Tokens, NEW n \in Targets
        PROVE  Filled(EntryFill(t, n)) > 0 /\ Filled(ExitFill(t, n)) > 0 =>
                 Notional(ExitFill(t, n)) * Filled(EntryFill(t, n)) < Notional(EntryFill(t, n)) * Filled(ExitFill(t, n))
    <3>1. EntryLevels(t) = books[t].asks
      BY <2>3 DEF EntryLevels, Whole, Mirror, Tokens
    <3>2. EntryFill(t, n) = Take(books[t].asks, TRUE, n) /\ ExitFill(t, n) = Take(books[t].bids, FALSE, n)
      BY <3>1 DEF EntryFill, ExitFill, ExitLevels
    <3> QED BY <2>1, <2>2, <3>2, BookRoundTrip
  <2>4. ASSUME NEW n \in Targets
        PROVE  Filled(EntryFill("YES", n)) > 0 /\ Filled(EntryFill("NO", n)) > 0 =>
                 Notional(EntryFill("YES", n)) * Filled(EntryFill("NO", n))
                   + Notional(EntryFill("NO", n)) * Filled(EntryFill("YES", n))
                 > Ticks * Filled(EntryFill("YES", n)) * Filled(EntryFill("NO", n))
    <3>1. /\ EntryFill("YES", n) = Take(books["YES"].asks, TRUE, n)
          /\ EntryFill("NO", n) = Take(Flip(books["YES"].bids), TRUE, n)
      BY DEF EntryFill, EntryLevels
    <3> QED BY <2>1, <2>2, <3>1, BookPairCosts
  <2> QED BY <2>3, <2>4 DEF NoFreeMoney
<1> QED BY <1>1, BooksOnCourse, PTL

-----------------------------------------------------------------------------
(* The order a book is walked in: the best price first, for a buyer the lowest. *)

Rank(buying, p) == IF buying THEN p ELSE Ticks - p

LEMMA RankIs ==
  ASSUME NEW buying \in BOOLEAN, NEW p \in Prices, NEW q \in Prices
  PROVE  /\ Rank(buying, p) \in 1..(Ticks - 1) /\ (Rank(buying, p) = Rank(buying, q) => p = q)
         /\ (IF buying THEN q < p ELSE q > p) <=> Rank(buying, q) < Rank(buying, p)
BY BookAssumption DEF Rank, Prices

Sooner(buying, p) == {q \in Prices : Rank(buying, q) < Rank(buying, p)}

\* Some levels have one that is walked first and one that is walked last.
LEMMA EndsOfWalk ==
  ASSUME NEW buying \in BOOLEAN, NEW S \in SUBSET Prices, S # {}
  PROVE  /\ \E x \in S : \A y \in S : Rank(buying, x) <= Rank(buying, y)
         /\ \E x \in S : \A y \in S : Rank(buying, x) >= Rank(buying, y)
<1> DEFINE D == {Rank(buying, p) : p \in S}
           n == Ticks - 1
<1>1. n \in Nat
  BY BookAssumption
<1>2. D \in SUBSET (0..n) /\ D # {}
  <2>1. \A p \in S : Rank(buying, p) \in 1..n
    BY RankIs
  <2>2. \A i \in 1..n : i \in 0..n
    BY <1>1
  <2> QED BY <2>1, <2>2
<1> HIDE DEF D, n
<1>3. PICK d \in D : \A e \in D : d <= e
  BY <1>1, <1>2, LeastExists
<1>4. PICK c \in D : \A e \in D : c >= e
  BY <1>1, <1>2, GreatestExists
<1>5. \A p \in S : Rank(buying, p) \in D
  BY DEF D
<1>6. PICK x \in S : d = Rank(buying, x)
  BY DEF D
<1>7. PICK y \in S : c = Rank(buying, y)
  BY DEF D
<1> QED BY <1>3, <1>4, <1>5, <1>6, <1>7

\* What is taken of a level, by what the levels walked before it hold.
LEMMA Walk ==
  ASSUME NEW s \in Side, NEW buying \in BOOLEAN, NEW n \in Nat, NEW p \in Prices
  PROVE  /\ Total(s, Sooner(buying, p)) \in Nat /\ s[p] \in Nat
         /\ Take(s, buying, n)[p] =
              IF n <= Total(s, Sooner(buying, p)) THEN 0
              ELSE IF n - Total(s, Sooner(buying, p)) < s[p] THEN n - Total(s, Sooner(buying, p)) ELSE s[p]
<1> DEFINE better == {q \in Prices : IF buying THEN q < p ELSE q > p}
<1>1. better = Sooner(buying, p)
  <2>1. \A q \in Prices : (IF buying THEN q < p ELSE q > p) <=> Rank(buying, q) < Rank(buying, p)
    BY RankIs
  <2> QED BY <2>1 DEF Sooner
<1>2. LET ahead == Total(s, better)
      IN  /\ ahead \in Nat
          /\ Take(s, buying, n)[p] = IF n <= ahead THEN 0 ELSE IF n - ahead < s[p] THEN n - ahead ELSE s[p]
  BY TakeIs
<1>3. s[p] \in Nat
  BY BookAssumption DEF Side
<1> HIDE DEF better
<1> QED BY <1>1, <1>2, <1>3

\* A level and those before it are among those before any later one.
LEMMA WalkedBefore ==
  ASSUME NEW s \in Side, NEW buying \in BOOLEAN, NEW p \in Prices, NEW q \in Prices,
         Rank(buying, p) < Rank(buying, q)
  PROVE  Total(s, Sooner(buying, p)) + s[p] <= Total(s, Sooner(buying, q))
<1> DEFINE upto == Sooner(buying, p) \cup {p}
<1>1. \A x \in Prices : s[x] \in Nat /\ s[x] \in Int /\ Rank(buying, x) \in Int
  <2>1. \A x \in Prices : s[x] \in Nat
    BY BookAssumption DEF Side
  <2>2. \A x \in Prices : Rank(buying, x) \in 1..(Ticks - 1)
    BY RankIs
  <2> QED BY <2>1, <2>2
<1>2. upto \in SUBSET Sooner(buying, q) /\ Sooner(buying, q) \subseteq Prices /\ upto \subseteq Prices
  BY <1>1 DEF Sooner
<1>3. IsFiniteSet(Sooner(buying, q))
  BY <1>2, PricesFinite, FS_Subset
<1>4. p \in upto /\ upto \ {p} = Sooner(buying, p)
  BY <1>1 DEF Sooner
<1> HIDE DEF upto
<1>5. Total(s, upto) = s[p] + Total(s, Sooner(buying, p))
  BY <1>1, <1>2, <1>4, PricesFinite, TotalRemove
<1>6. Total(s, upto) <= Total(s, Sooner(buying, q))
  BY <1>1, <1>2, <1>3, TotalMore
<1>7. Total(s, Sooner(buying, p)) \in Nat /\ Total(s, Sooner(buying, q)) \in Nat /\ s[p] \in Nat
  BY Walk, 0 \in Nat
<1> QED BY <1>5, <1>6, <1>7

Ahead(buying, p, m) == IF buying THEN p < m ELSE p > m

EndsAt(m, s, buying, n) ==
  \A p \in Prices : /\ Ahead(buying, p, m) => Take(s, buying, n)[p] = s[p]
                    /\ Ahead(buying, m, p) => Take(s, buying, n)[p] = 0

\* There is a price the walk ends at: all that is walked before it is taken, and nothing after it.
LEMMA WalkEnds ==
  ASSUME NEW s \in Side, NEW buying \in BOOLEAN, NEW n \in Nat
  PROVE  \E m \in Int : EndsAt(m, s, buying, n)
<1> DEFINE t == Take(s, buying, n)
           S == {p \in Prices : t[p] > 0}
<1>0. t \in [Prices -> Nat] /\ Ticks \in Int
  BY TakeInLevels, BookAssumption
<1>1. CASE S = {}
  <2>1. \A p \in Prices : t[p] = 0
    BY <1>0, <1>1
  <2>2. \A p \in Prices : p > 0 /\ p < Ticks /\ p \in Nat
    BY PricesFinite
  <2> DEFINE m == IF buying THEN 0 ELSE Ticks
  <2>3. m \in Int
    BY <1>0
  <2>4. \A p \in Prices : ~Ahead(buying, p, m)
    BY <1>0, <2>2 DEF Ahead
  <2> HIDE DEF t, m
  <2>5. \A p \in Prices : /\ Ahead(buying, p, m) => t[p] = s[p]
                          /\ Ahead(buying, m, p) => t[p] = 0
    BY <2>1, <2>4
  <2>6. EndsAt(m, s, buying, n)
    BY <2>5 DEF t, EndsAt
  <2> QED BY <2>3, <2>6
<1>2. CASE S # {}
  <2>1. PICK m \in S : \A q \in S : Rank(buying, m) >= Rank(buying, q)
    BY <1>2, EndsOfWalk
  <2>2. m \in Prices /\ t[m] > 0 /\ m \in Int
    BY <2>1, PricesFinite
  <2>3. \A p \in Prices : Rank(buying, p) \in Int
    BY RankIs
  <2>4. ASSUME NEW p \in Prices, Rank(buying, p) < Rank(buying, m) PROVE t[p] = s[p]
    <3>1. Total(s, Sooner(buying, p)) + s[p] <= Total(s, Sooner(buying, m))
      BY <2>2, <2>4, WalkedBefore
    <3>2. Total(s, Sooner(buying, m)) \in Nat /\ n > Total(s, Sooner(buying, m))
      BY <2>2, Walk
    <3>3. /\ Total(s, Sooner(buying, p)) \in Nat /\ s[p] \in Nat
          /\ t[p] = IF n <= Total(s, Sooner(buying, p)) THEN 0
                    ELSE IF n - Total(s, Sooner(buying, p)) < s[p] THEN n - Total(s, Sooner(buying, p)) ELSE s[p]
      BY Walk
    <3> HIDE DEF t
    <3> QED BY <3>1, <3>2, <3>3
  <2>5. ASSUME NEW p \in Prices, Rank(buying, p) > Rank(buying, m) PROVE t[p] = 0
    <3>1. p \notin S
      BY <2>1, <2>2, <2>3, <2>5
    <3> QED BY <1>0, <3>1
  <2>6. ASSUME NEW p \in Prices
        PROVE  /\ Ahead(buying, p, m) <=> Rank(buying, p) < Rank(buying, m)
               /\ Ahead(buying, m, p) <=> Rank(buying, m) < Rank(buying, p)
    BY <2>2, RankIs DEF Ahead
  <2>7. \A p \in Prices : Ahead(buying, m, p) => Rank(buying, p) > Rank(buying, m)
    BY <2>2, <2>3, <2>6
  <2> HIDE DEF t
  <2>8. \A p \in Prices : /\ Ahead(buying, p, m) => t[p] = s[p]
                          /\ Ahead(buying, m, p) => t[p] = 0
    BY <2>4, <2>5, <2>6, <2>7
  <2>9. EndsAt(m, s, buying, n)
    BY <2>8 DEF t, EndsAt
  <2> QED BY <2>2, <2>9
<1> QED BY <1>1, <1>2

\* Any other shares of the levels, as many as the walk takes, lie no better: what they have more
\* of lies behind the price the walk ends at, and what they have less of before it.
LEMMA NoneBetter ==
  ASSUME NEW s \in Side, NEW buying \in BOOLEAN, NEW n \in Nat, NEW a \in [Prices -> Nat],
         \A p \in Prices : a[p] <= s[p], Filled(a) = Filled(Take(s, buying, n))
  PROVE  IF buying THEN Notional(Take(s, buying, n)) <= Notional(a)
                   ELSE Notional(a) <= Notional(Take(s, buying, n))
<1>1. PICK m \in Int : EndsAt(m, s, buying, n)
  BY WalkEnds
<1>2. PICK t \in [Prices -> Nat] : t = Take(s, buying, n)
  BY TakeInLevels
<1>3. ASSUME NEW p \in Prices
      PROVE  /\ (buying /\ p < m => t[p] = s[p]) /\ (~buying /\ p > m => t[p] = s[p])
             /\ (buying /\ m < p => t[p] = 0) /\ (~buying /\ m > p => t[p] = 0)
  <2>1. (Ahead(buying, p, m) => t[p] = s[p]) /\ (Ahead(buying, m, p) => t[p] = 0)
    BY <1>1, <1>2, Zenon DEF EndsAt
  <2> QED BY <2>1 DEF Ahead
<1>4. \A p \in Prices : p \in Nat /\ t[p] \in Nat /\ a[p] \in Nat /\ s[p] \in Nat /\ t[p] <= s[p]
  BY <1>2, PricesFinite, TakeInLevels, BookAssumption DEF Side
<1> DEFINE ga == [p \in Prices |-> (p - m) * a[p]]
           gt == [p \in Prices |-> (p - m) * t[p]]
           ha == [p \in Prices |-> p * a[p]]
           ht == [p \in Prices |-> p * t[p]]
<1>5. ASSUME NEW p \in Prices
      PROVE  /\ ga[p] \in Int /\ gt[p] \in Int /\ a[p] \in Int /\ t[p] \in Int
             /\ ha[p] = m * a[p] + ga[p] /\ ht[p] = m * t[p] + gt[p]
  <2>1. p \in Int /\ t[p] \in Int /\ a[p] \in Int
    BY <1>4
  <2> QED BY <2>1
<1>6. ASSUME NEW p \in Prices
      PROVE  (buying => gt[p] <= ga[p]) /\ (~buying => ga[p] <= gt[p])
  <2>1. p \in Nat /\ t[p] \in Nat /\ a[p] \in Nat /\ a[p] <= s[p] /\ s[p] \in Nat
    BY <1>4
  <2>2. ASSUME NEW x \in Nat, NEW y \in Nat, NEW c \in Nat, x <= y PROVE c * x <= c * y /\ (-c) * y <= (-c) * x
    <3>1. PICK d \in Nat : y = x + d
      <4>1. y - x \in Nat /\ y = x + (y - x)
        BY <2>2
      <4> QED BY <4>1
    <3>2. c * y = c * x + c * d /\ (-c) * y = (-c) * x - c * d
      BY <3>1
    <3>3. c * d \in Nat /\ c * x \in Nat /\ (-c) * x \in Int
      BY <3>1
    <3> QED BY <3>2, <3>3
  <2>3. CASE p = m
    BY <2>1, <2>3
  <2>4. CASE p < m
    <3>1. m - p \in Nat /\ p - m = -(m - p)
      BY <2>1, <2>4
    <3>2. buying => a[p] <= t[p]
      BY <1>3, <2>1, <2>4
    <3>3. ~buying => t[p] <= a[p]
      BY <1>3, <2>1, <2>4
    <3>4. buying => (p - m) * t[p] <= (p - m) * a[p]
      BY <2>1, <2>2, <3>1, <3>2
    <3>5. ~buying => (p - m) * a[p] <= (p - m) * t[p]
      BY <2>1, <2>2, <3>1, <3>3
    <3> QED BY <3>4, <3>5
  <2>5. CASE p > m
    <3>1. p - m \in Nat
      BY <2>1, <2>5
    <3>2. ~buying => a[p] <= t[p]
      BY <1>3, <2>1, <2>5
    <3>3. buying => t[p] <= a[p]
      BY <1>3, <2>1, <2>5
    <3>4. buying => (p - m) * t[p] <= (p - m) * a[p]
      BY <2>1, <2>2, <3>1, <3>3
    <3>5. ~buying => (p - m) * a[p] <= (p - m) * t[p]
      BY <2>1, <2>2, <3>1, <3>2
    <3> QED BY <3>4, <3>5
  <2> QED BY <2>1, <2>3, <2>4, <2>5
<1>7. /\ Filled(a) = Total(a, Prices) /\ Filled(t) = Total(t, Prices) /\ Filled(t) = Filled(a)
      /\ Notional(a) = Total(ha, Prices) /\ Notional(t) = Total(ht, Prices) /\ Filled(a) \in Nat
  BY <1>2, Sizes
<1> HIDE DEF ga, gt, ha, ht
<1>8. Total(ha, Prices) = m * Total(a, Prices) + Total(ga, Prices)
  <2>1. \A p \in Prices : a[p] \in Int /\ ga[p] \in Int /\ ha[p] = m * a[p] + ga[p]
    BY <1>5
  <2> QED BY <2>1, PricesFinite, TotalLinear
<1>9. Total(ht, Prices) = m * Total(t, Prices) + Total(gt, Prices)
  <2>1. \A p \in Prices : t[p] \in Int /\ gt[p] \in Int /\ ht[p] = m * t[p] + gt[p]
    BY <1>5
  <2> QED BY <2>1, PricesFinite, TotalLinear
<1>10. buying => Total(gt, Prices) <= Total(ga, Prices)
  <2>1. buying => \A p \in Prices : gt[p] \in Int /\ ga[p] \in Int /\ gt[p] <= ga[p]
    BY <1>5, <1>6
  <2> QED BY <2>1, PricesFinite, TotalCompare
<1>11. ~buying => Total(ga, Prices) <= Total(gt, Prices)
  <2>1. ~buying => \A p \in Prices : ga[p] \in Int /\ gt[p] \in Int /\ ga[p] <= gt[p]
    BY <1>5, <1>6
  <2> QED BY <2>1, PricesFinite, TotalCompare
<1>12. Total(ga, Prices) \in Int /\ Total(gt, Prices) \in Int /\ m * Filled(a) \in Int
  <2>1. \A p \in Prices : ga[p] \in Int /\ gt[p] \in Int
    BY <1>5
  <2> QED BY <1>7, <2>1, PricesFinite, TotalInt
<1>13. Notional(t) - Notional(a) = Total(gt, Prices) - Total(ga, Prices) /\ Notional(a) \in Int /\ Notional(t) \in Int
  <2>1. Total(t, Prices) = Total(a, Prices)
    BY <1>7
  <2>2. Notional(t) = m * Total(a, Prices) + Total(gt, Prices)
    BY <1>7, <1>9, <2>1
  <2>3. Notional(a) = m * Total(a, Prices) + Total(ga, Prices)
    BY <1>7, <1>8
  <2>4. m * Total(a, Prices) \in Int
    BY <1>7, <1>12
  <2> QED BY <1>12, <2>2, <2>3, <2>4
<1>14. CASE buying
  <2>1. Notional(t) <= Notional(a)
    BY <1>10, <1>12, <1>13, <1>14
  <2> QED BY <1>2, <1>14, <2>1
<1>15. CASE ~buying
  <2>1. Notional(a) <= Notional(t)
    BY <1>11, <1>12, <1>13, <1>15
  <2> QED BY <1>2, <1>15, <2>1
<1> QED BY <1>14, <1>15

\* Nothing of a level is left while the walk has shares to go, so that the walk takes all it is
\* asked for or all there is.
LEMMA AllTaken ==
  ASSUME NEW s \in Side, NEW buying \in BOOLEAN, NEW n \in Nat, n > 0
  PROVE  /\ Filled(Take(s, buying, n)) = IF Total(s, Prices) < n THEN Total(s, Prices) ELSE n
         /\ Total(s, Prices) \in Nat
<1>1. PICK t \in [Prices -> Nat] : t = Take(s, buying, n)
  BY TakeInLevels
<1>2. \A p \in Prices : s[p] \in Nat /\ s[p] \in Int /\ t[p] \in Nat /\ t[p] \in Int /\ t[p] <= s[p]
  BY <1>1, TakeInLevels, BookAssumption DEF Side
<1>3. \A p \in Prices : Rank(buying, p) \in Int
  BY RankIs
<1>4. Filled(t) = Total(t, Prices) /\ Total(s, Prices) \in Nat /\ Filled(t) \in Nat
  BY <1>2, Sizes, PricesFinite, TotalMore
<1>5. ASSUME NEW p \in Prices, s[p] > 0, n > Total(s, Sooner(buying, p)) PROVE t[p] > 0
  BY <1>1, <1>5, Walk
<1> DEFINE S == {p \in Prices : t[p] > 0}
           R(m) == {p \in Prices : s[p] > 0 /\ Rank(buying, p) > Rank(buying, m)}
<1>6. CASE S = {}
  <2>1. Filled(t) = 0
    <3>1. \A p \in Prices : t[p] = 0
      BY <1>2, <1>6
    <3> QED BY <1>4, <3>1, PricesFinite, TotalNought
  <2> DEFINE A == {p \in Prices : s[p] > 0}
  <2>2. A = {}
    <3> SUFFICES ASSUME A # {} PROVE FALSE
      OBVIOUS
    <3>1. PICK x \in A : \A y \in A : Rank(buying, x) <= Rank(buying, y)
      BY EndsOfWalk
    <3>2. x \in Prices /\ s[x] > 0
      OBVIOUS
    <3>3. Sooner(buying, x) \in SUBSET Prices /\ IsFiniteSet(Sooner(buying, x))
      BY PricesFinite, FS_Subset DEF Sooner
    <3>4. \A p \in Sooner(buying, x) : s[p] = 0
      BY <1>2, <1>3, <3>1 DEF Sooner
    <3>5. Total(s, Sooner(buying, x)) = 0
      BY <3>3, <3>4, TotalNought
    <3> QED BY <1>5, <1>6, <3>2, <3>5
  <2>3. \A p \in Prices : s[p] = 0
    BY <1>2, <2>2
  <2>4. Total(s, Prices) = 0
    BY <2>3, PricesFinite, TotalNought
  <2> QED BY <1>1, <1>4, <2>1, <2>4
<1>7. CASE S # {}
  <2>1. PICK m \in S : \A q \in S : Rank(buying, m) >= Rank(buying, q)
    BY <1>7, EndsOfWalk
  <2> DEFINE before == Sooner(buying, m)
             upto   == before \cup {m}
             k      == Total(s, before)
  <2>2. m \in Prices /\ t[m] > 0
    OBVIOUS
  <2>3. /\ before \in SUBSET Prices /\ upto \in SUBSET Prices /\ m \in upto /\ upto \ {m} = before
        /\ IsFiniteSet(upto) /\ IsFiniteSet(before)
    <3>1. before \in SUBSET Prices /\ m \notin before
      BY <1>3, <2>2 DEF Sooner
    <3>2. upto \in SUBSET Prices
      BY <2>2, <3>1
    <3>3. IsFiniteSet(upto) /\ IsFiniteSet(before)
      BY <3>1, <3>2, PricesFinite, FS_Subset
    <3> QED BY <3>1, <3>2, <3>3
  <2>4. /\ k \in Nat /\ n > k
        /\ t[m] = IF n - k < s[m] THEN n - k ELSE s[m]
    BY <1>1, <2>2, Walk
  <2>5. \A p \in before : t[p] = s[p]
    <3> SUFFICES ASSUME NEW p \in before PROVE t[p] = s[p]
      OBVIOUS
    <3>1. p \in Prices /\ Rank(buying, p) < Rank(buying, m)
      BY DEF Sooner
    <3>2. Total(s, Sooner(buying, p)) + s[p] <= k
      BY <2>2, <3>1, WalkedBefore
    <3>3. /\ Total(s, Sooner(buying, p)) \in Nat /\ s[p] \in Nat
          /\ t[p] = IF n <= Total(s, Sooner(buying, p)) THEN 0
                    ELSE IF n - Total(s, Sooner(buying, p)) < s[p] THEN n - Total(s, Sooner(buying, p)) ELSE s[p]
      BY <1>1, <3>1, Walk
    <3> HIDE DEF k
    <3> QED BY <2>4, <3>2, <3>3
  <2>6. \A p \in Prices : Rank(buying, p) < Rank(buying, m) \/ p = m \/ Rank(buying, p) > Rank(buying, m)
    BY <1>3, <2>2, RankIs
  <2>7. \A p \in Prices \ upto : Rank(buying, p) > Rank(buying, m)
    BY <2>6 DEF Sooner
  <2>8. \A p \in Prices \ upto : t[p] = 0
    BY <1>2, <1>3, <2>1, <2>2, <2>7
  <2> HIDE DEF S, R
  <2>9. Total(t, Prices) = Total(t, upto)
    BY <1>2, <2>3, <2>8, PricesFinite, TotalPart
  <2>10. Total(t, upto) = t[m] + Total(t, before)
    BY <1>2, <2>3, PricesFinite, TotalRemove
  <2>11. Total(t, before) = k
    <3>1. \A p \in before : s[p] \in Int /\ t[p] = s[p]
      BY <1>2, <2>3, <2>5
    <3> HIDE DEF before
    <3> QED BY <2>3, <3>1, TotalSame
  <2>12. Total(s, upto) = s[m] + k
    BY <1>2, <2>3, PricesFinite, TotalRemove
  <2>13. Filled(t) = t[m] + k
    BY <1>4, <2>9, <2>10, <2>11
  <2>14. Total(s, upto) <= Total(s, Prices)
    BY <1>2, <2>3, PricesFinite, TotalMore
  <2>15. CASE n - k <= s[m]
    <3> HIDE DEF k, upto
    <3>1. Filled(t) = n /\ n <= Total(s, Prices)
      BY <1>2, <1>4, <2>2, <2>4, <2>12, <2>13, <2>14, <2>15
    <3> QED BY <1>1, <1>4, <3>1
  <2>16. CASE ~(n - k <= s[m])
    <3>1. R(m) = {}
      <4> SUFFICES ASSUME R(m) # {} PROVE FALSE
        OBVIOUS
      <4>0. R(m) \in SUBSET Prices
        BY DEF R
      <4>1. PICK x \in R(m) : \A y \in R(m) : Rank(buying, x) <= Rank(buying, y)
        BY <4>0, EndsOfWalk
      <4>2. x \in Prices /\ s[x] > 0 /\ Rank(buying, x) > Rank(buying, m)
        BY DEF R
      <4>3. /\ Sooner(buying, x) \in SUBSET Prices /\ upto \in SUBSET Sooner(buying, x)
            /\ IsFiniteSet(Sooner(buying, x))
        <5>1. Sooner(buying, x) \in SUBSET Prices
          BY DEF Sooner
        <5>2. upto \in SUBSET Sooner(buying, x)
          BY <1>3, <2>2, <4>2 DEF Sooner
        <5> QED BY <5>1, <5>2, PricesFinite, FS_Subset
      <4>4. \A p \in Sooner(buying, x) \ upto : s[p] = 0
        <5> SUFFICES ASSUME NEW p \in Sooner(buying, x), p \notin upto, s[p] # 0 PROVE FALSE
          OBVIOUS
        <5>1. p \in Prices /\ Rank(buying, p) < Rank(buying, x) /\ Rank(buying, p) > Rank(buying, m)
          BY <2>7 DEF Sooner
        <5>2. p \in R(m)
          BY <1>2, <5>1 DEF R
        <5> QED BY <1>3, <4>1, <4>2, <5>1, <5>2
      <4>5. Total(s, Sooner(buying, x)) = Total(s, upto)
        <5>1. \A p \in Sooner(buying, x) : s[p] \in Int
          BY <1>2, <4>3
        <5> QED BY <4>3, <4>4, <5>1, TotalPart
      <4>6. n > Total(s, Sooner(buying, x))
        <5> HIDE DEF k, upto
        <5> QED BY <1>2, <2>2, <2>4, <2>12, <2>16, <4>5
      <4>7. t[x] > 0
        BY <1>5, <4>2, <4>6
      <4> QED BY <1>2, <1>3, <2>1, <2>2, <4>2, <4>7 DEF S
    <3>2. \A p \in Prices \ upto : s[p] = 0
      BY <1>2, <2>7, <3>1 DEF R
    <3>3. Total(s, Prices) = Total(s, upto)
      BY <1>2, <2>3, <3>2, PricesFinite, TotalPart
    <3> HIDE DEF k, upto
    <3>4. Filled(t) = Total(s, Prices) /\ Total(s, Prices) < n
      BY <1>2, <2>2, <2>4, <2>12, <2>13, <2>16, <3>3
    <3> QED BY <1>1, <1>4, <3>4
  <2> QED BY <2>15, <2>16
<1> QED BY <1>6, <1>7

\* The levels at a limit or above, and a walk of them alone: it takes of those what the whole walk does.
AtLeast(limit, s) == [p \in Prices |-> IF p >= limit THEN s[p] ELSE 0]

LEMMA LimitWalk ==
  ASSUME NEW s \in Side, NEW n \in Nat, NEW limit \in Prices
  PROVE  /\ AtLeast(limit, s) \in Side
         /\ \A p \in Prices : Take(AtLeast(limit, s), FALSE, n)[p] = IF p >= limit THEN Take(s, FALSE, n)[p] ELSE 0
<1>1. PICK l : l = AtLeast(limit, s)
  OBVIOUS
<1>2. l \in Side /\ \A p \in Prices : l[p] = IF p >= limit THEN s[p] ELSE 0
  BY <1>1, BookAssumption DEF AtLeast, Side
<1>3. ASSUME NEW p \in Prices
      PROVE  Take(l, FALSE, n)[p] = IF p >= limit THEN Take(s, FALSE, n)[p] ELSE 0
  <2>1. CASE p >= limit
    <3>1. Sooner(FALSE, p) \subseteq Prices /\ \A q \in Sooner(FALSE, p) : q > p
      BY BookAssumption DEF Sooner, Rank, Prices
    <3>2. IsFiniteSet(Sooner(FALSE, p))
      BY <3>1, PricesFinite, FS_Subset
    <3>3. \A q \in Sooner(FALSE, p) : s[q] \in Int /\ l[q] = s[q]
      <4> SUFFICES ASSUME NEW q \in Sooner(FALSE, p) PROVE s[q] \in Int /\ l[q] = s[q]
        OBVIOUS
      <4>1. q \in Prices /\ q > p /\ q \in Nat /\ p \in Nat /\ limit \in Nat
        BY <3>1, PricesFinite
      <4>2. q >= limit
        BY <2>1, <4>1
      <4>3. s[q] \in Int
        BY <4>1, BookAssumption DEF Side
      <4> QED BY <1>2, <4>1, <4>2, <4>3
    <3>4. Total(l, Sooner(FALSE, p)) = Total(s, Sooner(FALSE, p))
      BY <3>2, <3>3, TotalSame
    <3>5. l[p] = s[p]
      BY <1>2, <2>1
    <3>6. Take(s, FALSE, n)[p] =
            IF n <= Total(s, Sooner(FALSE, p)) THEN 0
            ELSE IF n - Total(s, Sooner(FALSE, p)) < s[p] THEN n - Total(s, Sooner(FALSE, p)) ELSE s[p]
      BY Walk
    <3>7. Take(l, FALSE, n)[p] =
            IF n <= Total(l, Sooner(FALSE, p)) THEN 0
            ELSE IF n - Total(l, Sooner(FALSE, p)) < l[p] THEN n - Total(l, Sooner(FALSE, p)) ELSE l[p]
      BY <1>2, Walk
    <3> QED BY <2>1, <3>4, <3>5, <3>6, <3>7
  <2>2. CASE ~(p >= limit)
    <3>1. l[p] = 0
      BY <1>2, <2>2
    <3>2. PICK y \in Nat : y = l[p]
      BY <3>1
    <3>3. PICK v \in Nat : v = Take(l, FALSE, n)[p] /\ v <= y
      BY <1>2, <3>2, TakeInLevels
    <3>4. Take(l, FALSE, n)[p] = 0
      <4>1. y = 0
        BY <3>1, <3>2
      <4>2. v <= y
        BY <3>3, Zenon
      <4>3. v = 0
        BY <4>1, <4>2
      <4> QED BY <3>3, <4>3, Zenon
    <3> QED BY <2>2, <3>4
  <2> QED BY <2>1, <2>2
<1> QED BY <1>1, <1>2, <1>3

\* That walk is whole exactly when the whole walk is and takes nothing below the limit.
LEMMA LimitFills ==
  ASSUME NEW s \in Side, NEW n \in Nat, n > 0, NEW limit \in Prices
  PROVE  (IF Filled(Take(AtLeast(limit, s), FALSE, n)) = n THEN Take(AtLeast(limit, s), FALSE, n) ELSE NoFill)
           = IF Filled(Take(s, FALSE, n)) = n /\ \A p \in 1..(limit - 1) : Take(s, FALSE, n)[p] = 0
             THEN Take(s, FALSE, n) ELSE NoFill
<1>1. PICK part \in [Prices -> Nat] : part = Take(AtLeast(limit, s), FALSE, n)
  BY LimitWalk, TakeInLevels
<1>2. PICK all \in [Prices -> Nat] : all = Take(s, FALSE, n)
  BY TakeInLevels
<1>3. \A p \in Prices : part[p] = IF p >= limit THEN all[p] ELSE 0
  BY <1>1, <1>2, LimitWalk
<1>4. /\ Filled(all) = Total(all, Prices) /\ Filled(part) = Total(part, Prices)
      /\ Filled(all) \in Nat /\ Filled(part) \in Nat
  BY Sizes
<1>5. \A p \in Prices : /\ all[p] \in Nat /\ part[p] \in Nat /\ part[p] <= all[p]
                        /\ all[p] \in Int /\ part[p] \in Int /\ p \in Nat
  BY <1>3, PricesFinite
<1>6. Filled(all) <= n
  <2>1. Filled(all) = IF Total(s, Prices) < n THEN Total(s, Prices) ELSE n
    BY <1>2, AllTaken
  <2>2. Total(s, Prices) \in Nat
    BY AllTaken
  <2> QED BY <2>1, <2>2
<1>7. Filled(part) <= Filled(all)
  BY <1>4, <1>5, PricesFinite, TotalCompare
<1>8. 1..(limit - 1) \subseteq Prices /\ \A p \in 1..(limit - 1) : ~(p >= limit)
  BY BookAssumption DEF Prices
<1>9. ASSUME Filled(part) = n, NEW x \in Prices, ~(x >= limit) PROVE all[x] = 0
  <2>1. part[x] = 0
    BY <1>3, <1>9
  <2>2. /\ Total(all, Prices) = all[x] + Total(all, Prices \ {x})
        /\ Total(part, Prices) = part[x] + Total(part, Prices \ {x})
    <3>1. (\A p \in Prices : all[p] \in Int) /\ \A p \in Prices : part[p] \in Int
      BY <1>5
    <3>2. Total(all, Prices) = all[x] + Total(all, Prices \ {x})
      BY <3>1, PricesFinite, TotalRemove
    <3>3. Total(part, Prices) = part[x] + Total(part, Prices \ {x})
      BY <3>1, PricesFinite, TotalRemove
    <3> QED BY <3>2, <3>3
  <2>3. Prices \ {x} \in SUBSET Prices /\ IsFiniteSet(Prices \ {x})
    BY PricesFinite, FS_Subset
  <2>4. Total(part, Prices \ {x}) <= Total(all, Prices \ {x})
    BY <1>5, <2>3, TotalCompare
  <2>5. Total(all, Prices \ {x}) \in Int /\ Total(part, Prices \ {x}) \in Int
    BY <1>5, <2>3, PricesFinite, TotalInt
  <2>6. all[x] \in Nat
    BY <1>5
  <2>7. n = Total(part, Prices \ {x})
    <3>1. n = Total(part, Prices)
      BY <1>4, <1>9
    <3>2. Total(part, Prices) = 0 + Total(part, Prices \ {x})
      BY <2>1, <2>2
    <3> QED BY <2>5, <3>1, <3>2
  <2>8. all[x] + Total(all, Prices \ {x}) <= n
    BY <1>4, <1>6, <2>2
  <2> QED BY <2>4, <2>5, <2>6, <2>7, <2>8
<1>10. ASSUME \A p \in 1..(limit - 1) : all[p] = 0 PROVE part = all
  <2>1. \A p \in Prices : part[p] = all[p]
    <3> SUFFICES ASSUME NEW p \in Prices PROVE part[p] = all[p]
      OBVIOUS
    <3>1. p \in 1..(limit - 1) \/ p >= limit
      BY BookAssumption DEF Prices
    <3> QED BY <1>3, <1>10, <3>1
  <2> QED BY <2>1
<1>11. CASE Filled(part) = n
  <2>1. \A p \in 1..(limit - 1) : all[p] = 0
    BY <1>8, <1>9, <1>11
  <2>2. part = all
    BY <1>10, <2>1
  <2> QED BY <1>1, <1>2, <1>11, <2>1, <2>2
<1>12. CASE Filled(part) # n
  <2>1. ~(Filled(all) = n /\ \A p \in 1..(limit - 1) : all[p] = 0)
    BY <1>10, <1>12
  <2> QED BY <1>1, <1>2, <1>12, <2>1
<1> QED BY <1>11, <1>12

\* Every fill made of the books is the best there is, for as many shares as are asked for or there
\* are, whatever the books, the sizes and the breaks of the stream (ExecutionEngine._paper_entry_fill,
\* _paper_exit_fill, _paper_limit_exit_fill).
THEOREM FillsBest == Spec => []FillsAreBest
<1>1. OnCourse => FillsAreBest
  <2> SUFFICES ASSUME OnCourse, Whole, NEW t \in Tokens, NEW n \in Targets
               PROVE  /\ \A a \in [Prices -> 0..MaxSize] :
                           /\ ((\A p \in Prices : a[p] <= books[t].asks[p]) /\ Filled(a) = Filled(EntryFill(t, n)))
                                 => Notional(EntryFill(t, n)) <= Notional(a)
                           /\ ((\A p \in Prices : a[p] <= books[t].bids[p]) /\ Filled(a) = Filled(ExitFill(t, n)))
                                 => Notional(a) <= Notional(ExitFill(t, n))
                      /\ Filled(EntryFill(t, n)) = Min({n, SumFunction(books[t].asks)})
                      /\ Filled(ExitFill(t, n)) = Min({n, SumFunction(books[t].bids)})
                      /\ \A limit \in Prices :
                           LimitExit(t, n, limit) =
                             IF Filled(ExitFill(t, n)) = n /\ \A p \in 1..(limit - 1) : ExitFill(t, n)[p] = 0
                             THEN ExitFill(t, n) ELSE NoFill
    BY DEF FillsAreBest
  <2>1. books[t] \in Book /\ books[t].asks \in Side /\ books[t].bids \in Side /\ n \in Nat /\ n > 0
    BY BookAssumption DEF OnCourse, TypeOK, Book
  <2>2. EntryLevels(t) = books[t].asks
    BY DEF EntryLevels, Whole, Mirror, Tokens
  <2>3. EntryFill(t, n) = Take(books[t].asks, TRUE, n) /\ ExitFill(t, n) = Take(books[t].bids, FALSE, n)
    BY <2>2 DEF EntryFill, ExitFill, ExitLevels
  <2>4. ASSUME NEW a \in [Prices -> 0..MaxSize]
        PROVE  /\ ((\A p \in Prices : a[p] <= books[t].asks[p]) /\ Filled(a) = Filled(EntryFill(t, n)))
                     => Notional(EntryFill(t, n)) <= Notional(a)
               /\ ((\A p \in Prices : a[p] <= books[t].bids[p]) /\ Filled(a) = Filled(ExitFill(t, n)))
                     => Notional(a) <= Notional(ExitFill(t, n))
    <3>1. a \in [Prices -> Nat]
      BY BookAssumption
    <3>2. ASSUME NEW s \in Side, \A p \in Prices : a[p] <= s[p], Filled(a) = Filled(Take(s, TRUE, n))
          PROVE  Notional(Take(s, TRUE, n)) <= Notional(a)
      BY <2>1, <3>1, <3>2, NoneBetter
    <3>3. ASSUME NEW s \in Side, \A p \in Prices : a[p] <= s[p], Filled(a) = Filled(Take(s, FALSE, n))
          PROVE  Notional(a) <= Notional(Take(s, FALSE, n))
      BY <2>1, <3>1, <3>3, NoneBetter
    <3> QED BY <2>1, <2>3, <3>2, <3>3
  <2>5. ASSUME NEW s \in Side, NEW buying \in BOOLEAN
        PROVE  Filled(Take(s, buying, n)) = Min({n, SumFunction(s)})
    <3>1. SumFunction(s) = Total(s, Prices)
      BY DEF SumFunction, Total, Side
    <3>2. Filled(Take(s, buying, n)) = (IF Total(s, Prices) < n THEN Total(s, Prices) ELSE n) /\ Total(s, Prices) \in Nat
      BY <2>1, AllTaken
    <3>3. ASSUME NEW x \in Nat PROVE Min({n, x}) = IF x < n THEN x ELSE n
      BY <2>1 DEF Min
    <3> QED BY <3>1, <3>2, <3>3
  <2>6. ASSUME NEW limit \in Prices
        PROVE  LimitExit(t, n, limit) =
                 IF Filled(ExitFill(t, n)) = n /\ \A p \in 1..(limit - 1) : ExitFill(t, n)[p] = 0
                 THEN ExitFill(t, n) ELSE NoFill
    <3>1. LimitExit(t, n, limit) =
            IF Filled(Take(AtLeast(limit, books[t].bids), FALSE, n)) = n
            THEN Take(AtLeast(limit, books[t].bids), FALSE, n) ELSE NoFill
      BY DEF LimitExit, AtLeast, ExitLevels
    <3>2. books[t].bids \in Side /\ n \in Nat /\ n > 0
      BY <2>1, <2>3
    <3>3. (IF Filled(Take(AtLeast(limit, books[t].bids), FALSE, n)) = n
           THEN Take(AtLeast(limit, books[t].bids), FALSE, n) ELSE NoFill)
            = IF /\ Filled(Take(books[t].bids, FALSE, n)) = n
                 /\ \A p \in 1..(limit - 1) : Take(books[t].bids, FALSE, n)[p] = 0
              THEN Take(books[t].bids, FALSE, n) ELSE NoFill
      BY <2>6, <3>2, LimitFills
    <3>4. ExitFill(t, n) = Take(books[t].bids, FALSE, n)
      BY <2>1, <2>3 DEF ExitFill, ExitLevels
    <3> QED BY <3>1, <3>3, <3>4
  <2> QED BY <2>1, <2>3, <2>4, <2>5, <2>6
<1> QED BY <1>1, BooksOnCourse, PTL

-----------------------------------------------------------------------------
(***************************************************************************)
(* The price histories, for any lengths, windows, ticks and breaks of the  *)
(* stream.                                                                 *)
(***************************************************************************)

Bars == [minute : Int, at : Int]

FeedsTyped ==
  /\ now \in Nat
  /\ stage \in {"seed", "klines", "backfill", "connect", "stream"}
  /\ fetched \in Seq(Bars) /\ bars \in Seq(Bars) /\ current \in Bars \cup {Unset}
  /\ samples \in Seq(Int) /\ midsKept \in Seq(Int)
  /\ heard \in [ticks : SUBSET Int, minutes : SUBSET Int, seam : SUBSET Int, mids : SUBSET Int]

Rising(s) == \A i, j \in DOMAIN s : i < j => s[i].minute < s[j].minute

\* Samples lie apart, and what came in order is close behind one of them.
SamplesApart ==
  /\ \A i, j \in DOMAIN samples : i < j => samples[i] + Apart <= samples[j]
  /\ samples = <<>> => heard.ticks = {}
  /\ \A t \in heard.ticks, i \in DOMAIN samples :
       samples[i] <= t /\ (i + 1 \in DOMAIN samples => t < samples[i + 1]) => t - samples[i] < Apart

\* Before the stream there are no bars but the fetched ones, and at most one minute was heard.
SeedAlone ==
  /\ stage = "seed" => current = Unset
  /\ stage \in {"seed", "klines", "backfill"} =>
       /\ bars = <<>>
       /\ heard.minutes = IF current = Unset THEN {} ELSE {current.minute}
  /\ stage = "backfill" => Rising(fetched)

\* Until a bar is opened the bars are those fetched.
BarsFetched ==
  current = Unset => /\ heard.seam = {} /\ Rising(bars)
                     /\ \A m \in heard.minutes : \E k \in DOMAIN bars : bars[k].minute = m

\* From then on a minute that was heard and is over has a bar, which no bar after it is
\* older than, or it lies in the seam, as do those the stream has yet to come to.
BarsSewn ==
  current # Unset =>
    /\ \A m \in heard.minutes : m > current.minute => m \in heard.seam
    /\ \A m \in heard.seam, x \in Int : current.minute <= x /\ x <= m => x \in heard.seam
    /\ \A m \in heard.minutes, i \in DOMAIN bars :
         m < current.minute /\ bars[i].minute < m =>
           (\E j \in DOMAIN bars : j > i /\ bars[j].minute <= m) \/ {m, bars[i].minute} \subseteq heard.seam

\* The mids are in order, and those of the window are kept but for want of room.
MidsHeld ==
  /\ \A i, j \in DOMAIN midsKept : i < j => midsKept[i] <= midsKept[j]
  /\ \A i \in DOMAIN midsKept : midsKept[i] <= now
  /\ Len(midsKept) <= MidsMax /\ (midsKept = <<>> => heard.mids = {})
  /\ \A t \in heard.mids :
       t >= midsKept[Len(midsKept)] - MidsKept =>
         (\E i \in DOMAIN midsKept : midsKept[i] = t) \/ (Len(midsKept) = MidsMax /\ t <= midsKept[1])

FeedsSound == FeedsTyped /\ SamplesApart /\ SeedAlone /\ BarsFetched /\ BarsSewn /\ MidsHeld

LEMMA FeedConstants ==
  /\ Minute \in Nat /\ Minute > 0 /\ Apart \in Nat /\ Apart > 0 /\ MaxSamples \in Nat /\ MaxSamples > 0
  /\ MaxBars \in Nat /\ MaxBars > 0 /\ MidsMax \in Nat /\ MidsMax > 0 /\ Lag \in Nat /\ MidsKept \in Nat
  /\ TickSpans \subseteq Nat /\ BarSpans \subseteq Nat /\ Unset \notin Bars
BY FeedAssumption DEF Bars

LEMMA MinuteIs ==
  ASSUME NEW x \in Int
  PROVE  MinuteOf(x) \in Int /\ \A k \in Int : k * Minute <= x <=> k <= MinuteOf(x)
<1>1. Minute \in Nat /\ Minute > 0
  BY FeedConstants
<1>2. x = Minute * (x \div Minute) + (x % Minute) /\ x % Minute \in 0..(Minute - 1) /\ x \div Minute \in Int
  BY <1>1
<1>3. ASSUME NEW k \in Int PROVE k * Minute <= x <=> k <= x \div Minute
  BY <1>1, <1>2
<1> QED BY <1>2, <1>3 DEF MinuteOf

LEMMA SuffixIs ==
  ASSUME NEW S, NEW s \in Seq(S), NEW k \in 0..(Len(s) - 1)
  PROVE  /\ SubSeq(s, k + 1, Len(s)) \in Seq(S) /\ Len(SubSeq(s, k + 1, Len(s))) = Len(s) - k
         /\ \A i \in 1..(Len(s) - k) : SubSeq(s, k + 1, Len(s))[i] = s[i + k]
BY SubSeqProperties

\* A bounded history is the end of what was put in it, all of it or as much as there is room for.
EndOf(r, s, k) ==
  /\ k \in 0..(Len(s) - 1) /\ Len(r) = Len(s) - k
  /\ \A i \in 1..Len(r) : r[i] = s[i + k]

LEMMA NewestIs ==
  ASSUME NEW S, NEW s \in Seq(S), s # <<>>, NEW n \in Nat, n > 0
  PROVE  /\ Newest(s, n) \in Seq(S)
         /\ \E k : EndOf(Newest(s, n), s, k) /\ ((k = 0 /\ Len(s) <= n) \/ (k > 0 /\ Len(s) - k = n))
<1> DEFINE k == IF Len(s) <= n THEN 0 ELSE Len(s) - n
<1>1. Len(s) \in Nat /\ Len(s) > 0 /\ k \in 0..(Len(s) - 1)
  BY EmptySeq
<1>2. Max({1, Len(s) - n + 1}) = k + 1
  BY <1>1 DEF Max
<1>3. Newest(s, n) = SubSeq(s, k + 1, Len(s))
  BY <1>2 DEF Newest
<1>4. (k = 0 /\ Len(s) <= n) \/ (k > 0 /\ Len(s) - k = n)
  <2>1. CASE Len(s) <= n
    <3>1. k = 0
      BY <2>1
    <3> HIDE DEF k
    <3> QED BY <2>1, <3>1
  <2>2. CASE ~(Len(s) <= n)
    <3>1. k = Len(s) - n /\ Len(s) \in Nat
      BY <1>1, <2>2
    <3> HIDE DEF k
    <3>2. k > 0 /\ Len(s) - k = n
      BY <2>2, <3>1
    <3> QED BY <3>2
  <2> QED BY <2>1, <2>2
<1> HIDE DEF k
<1>5. EndOf(Newest(s, n), s, k) /\ Newest(s, n) \in Seq(S)
  BY <1>1, <1>3, SuffixIs DEF EndOf
<1> QED BY <1>4, <1>5

\* What a price heard at a moment does to the samples.
LEMMA RecordSamples ==
  ASSUME FeedsTyped, SamplesApart, NEW t \in Int, Record(t)
  PROVE  SamplesApart' /\ samples' \in Seq(Int) /\ heard'.ticks \in SUBSET Int
<1> DEFINE late == samples # <<>> /\ t < samples[Len(samples)]
<1>1. samples \in Seq(Int) /\ heard.ticks \in SUBSET Int /\ Len(samples) \in Nat /\ DOMAIN samples = 1..Len(samples)
  BY DEF FeedsTyped
<1>2. samples' = IF TooClose(t) THEN samples ELSE Newest(Append(samples, t), MaxSamples)
  BY DEF Record
<1>3. heard'.ticks = IF samples = <<>> \/ t >= Last(samples) THEN heard.ticks \cup {t} ELSE heard.ticks
  BY DEF Record
<1>4. samples # <<>> => Len(samples) \in DOMAIN samples /\ Last(samples) = samples[Len(samples)] /\ Last(samples) \in Int
  <2>1. samples # <<>> => Len(samples) > 0
    BY <1>1, EmptySeq
  <2> QED BY <1>1, <2>1 DEF Last
<1>5. TooClose(t) <=> samples # <<>> /\ t - Last(samples) < Apart
  BY DEF TooClose
<1>6. CASE TooClose(t)
  <2>1. samples' = samples /\ samples # <<>>
    BY <1>2, <1>5, <1>6
  <2>2. ASSUME NEW u \in heard'.ticks, NEW i \in DOMAIN samples,
               samples[i] <= u, i + 1 \in DOMAIN samples => u < samples[i + 1]
        PROVE  u - samples[i] < Apart
    <3>1. CASE u \in heard.ticks
      BY <2>2, <3>1 DEF SamplesApart
    <3>2. CASE u \notin heard.ticks
      <4>1. u = t /\ t >= Last(samples)
        BY <1>3, <2>1, <2>2, <3>2
      <4>2. i = Len(samples)
        <5> SUFFICES ASSUME i # Len(samples) PROVE FALSE
          OBVIOUS
        <5>1. i + 1 \in DOMAIN samples /\ samples[i + 1] \in Int
          BY <1>1
        <5>2. i + 1 = Len(samples) \/ i + 1 < Len(samples)
          BY <1>1, <5>1
        <5>3. samples[i + 1] <= Last(samples)
          <6>1. i + 1 < Len(samples) => samples[i + 1] + Apart <= samples[Len(samples)]
            BY <1>4, <2>1, <5>1 DEF SamplesApart
          <6> QED BY <1>1, <1>4, <2>1, <5>1, <5>2, <6>1, FeedConstants
        <5> QED BY <1>4, <2>1, <2>2, <4>1, <5>1, <5>3
      <4> QED BY <1>4, <1>5, <1>6, <2>1, <4>1, <4>2
    <3> QED BY <3>1, <3>2
  <2>3. heard'.ticks \in SUBSET Int
    BY <1>1, <1>3
  <2> QED BY <1>1, <2>1, <2>2, <2>3 DEF SamplesApart
<1>7. CASE ~TooClose(t)
  <2> DEFINE longer == Append(samples, t)
  <2>1. longer \in Seq(Int) /\ longer # <<>> /\ Len(longer) = Len(samples) + 1
        /\ longer[Len(samples) + 1] = t /\ \A i \in DOMAIN samples : longer[i] = samples[i]
    BY <1>1
  <2> HIDE DEF longer
  <2>2. samples' = Newest(longer, MaxSamples)
    BY <1>2, <1>7 DEF longer
  <2>3. /\ samples' \in Seq(Int)
        /\ \E k : EndOf(samples', longer, k)
    BY <2>1, <2>2, FeedConstants, NewestIs
  <2>4. PICK k : EndOf(samples', longer, k)
    BY <2>3
  <2>5. heard'.ticks = heard.ticks \cup {t}
    <3>1. samples = <<>> \/ t >= Last(samples)
      BY <1>4, <1>5, <1>7, FeedConstants
    <3> QED BY <1>3, <3>1
  <2>6. samples # <<>> => t >= Last(samples) + Apart
    BY <1>4, <1>5, <1>7, FeedConstants
  <2>7. ASSUME NEW i \in 1..Len(longer), NEW j \in 1..Len(longer), i < j PROVE longer[i] + Apart <= longer[j]
    <3>0. i \in 1..Len(samples)
      <4>1. Len(longer) = Len(samples) + 1 /\ Len(samples) \in Nat
        BY <1>1, <2>1
      <4> QED BY <2>7, <4>1
    <3>1. i \in DOMAIN samples /\ longer[i] = samples[i] /\ samples[i] \in Int
      <4>1. i \in DOMAIN samples
        BY <1>1, <3>0
      <4>2. samples[i] \in Int
        BY <1>1, <4>1, ElementOfSeq
      <4> QED BY <2>1, <4>1, <4>2
    <3>2. CASE j \in DOMAIN samples
      BY <2>1, <2>7, <3>1, <3>2 DEF SamplesApart
    <3>3. CASE j \notin DOMAIN samples
      <4>1. j = Len(samples) + 1 /\ longer[j] = t /\ samples # <<>>
        BY <1>1, <2>1, <3>1, <3>3
      <4>2. samples[i] <= Last(samples)
        <5>1. i < Len(samples) => samples[i] + Apart <= samples[Len(samples)]
          BY <1>4, <3>1, <4>1 DEF SamplesApart
        <5> QED BY <1>1, <1>4, <3>1, <4>1, <5>1, FeedConstants
      <4> QED BY <1>4, <2>6, <3>1, <4>1, <4>2, FeedConstants
    <3> QED BY <3>2, <3>3
  <2>8. ASSUME NEW u \in heard'.ticks, NEW i \in 1..Len(longer), longer[i] <= u,
               i + 1 \in 1..Len(longer) => u < longer[i + 1]
        PROVE  u - longer[i] < Apart
    <3>0. u \in Int
      BY <1>1, <2>5, <2>8
    <3>1. CASE i = Len(samples) + 1
      <4>1. longer[i] = t /\ t <= u
        BY <2>1, <2>8, <3>1
      <4>2. u = t
        <5> SUFFICES ASSUME u # t PROVE FALSE
          OBVIOUS
        <5>1. u \in heard.ticks /\ samples # <<>>
          BY <2>5, <2>8 DEF SamplesApart
        <5>2. Last(samples) <= u
          BY <1>4, <2>6, <3>0, <4>1, <5>1, FeedConstants
        <5>3. Len(samples) + 1 \notin DOMAIN samples
          BY <1>1
        <5>4. u - samples[Len(samples)] < Apart
          BY <1>4, <5>1, <5>2, <5>3 DEF SamplesApart
        <5> QED BY <1>4, <2>6, <3>0, <4>1, <5>1, <5>4, FeedConstants
      <4> QED BY <4>1, <4>2, <3>0, FeedConstants
    <3>2. CASE i # Len(samples) + 1
      <4>0. i \in 1..Len(samples) /\ i + 1 \in 1..Len(longer)
        <5>1. Len(longer) = Len(samples) + 1 /\ Len(samples) \in Nat
          BY <1>1, <2>1
        <5> QED BY <2>8, <3>2, <5>1
      <4>1. i \in DOMAIN samples /\ longer[i] = samples[i] /\ i + 1 \in 1..Len(longer) /\ samples # <<>>
        <5>1. i \in DOMAIN samples /\ DOMAIN samples = 1..Len(samples) /\ Len(samples) > 0
          BY <1>1, <4>0
        <5>2. longer[i] = samples[i]
          BY <2>1, <5>1
        <5>3. samples # <<>>
          BY <5>1
        <5> QED BY <4>0, <5>1, <5>2, <5>3
      <4>2. u < longer[i + 1]
        BY <2>8, <4>1
      <4>3. u # t
        <5> SUFFICES ASSUME u = t PROVE FALSE
          OBVIOUS
        <5>1. i + 1 = Len(samples) + 1 \/ i + 1 < Len(samples) + 1
          BY <1>1, <4>1
        <5>2. longer[i + 1] <= t
          <6>1. longer[Len(samples) + 1] = t /\ Len(samples) + 1 \in 1..Len(longer) /\ longer[i + 1] \in Int
            BY <1>1, <2>1, <4>1
          <6>2. i + 1 < Len(samples) + 1 => longer[i + 1] + Apart <= longer[Len(samples) + 1]
            BY <2>7, <4>1, <6>1
          <6> QED BY <5>1, <6>1, <6>2, FeedConstants
        <5>3. longer[i + 1] \in Int
          BY <2>1, <4>1
        <5> QED BY <4>2, <5>2, <5>3
      <4>4. u \in heard.ticks
        BY <2>5, <2>8, <4>3
      <4>5. i + 1 \in DOMAIN samples => u < samples[i + 1]
        BY <2>1, <4>2
      <4> QED BY <2>8, <4>1, <4>4, <4>5 DEF SamplesApart
    <3> QED BY <3>1, <3>2
  <2>9. /\ k \in 0..(Len(longer) - 1) /\ Len(samples') = Len(longer) - k /\ DOMAIN samples' = 1..Len(samples')
        /\ \A i \in 1..Len(samples') : samples'[i] = longer[i + k] /\ i + k \in 1..Len(longer)
    <3>1. DOMAIN samples' = 1..Len(samples') /\ Len(samples') \in Nat /\ Len(longer) \in Nat
      BY <2>1, <2>3
    <3> QED BY <2>4, <3>1 DEF EndOf
  <2>10. samples' # <<>>
    BY <2>1, <2>9
  <2>11. ASSUME NEW i \in DOMAIN samples', NEW j \in DOMAIN samples', i < j
         PROVE  samples'[i] + Apart <= samples'[j]
    <3>1. i + k \in 1..Len(longer) /\ j + k \in 1..Len(longer) /\ i + k < j + k
      BY <2>9, <2>11
    <3> QED BY <2>7, <2>9, <3>1
  <2>12. ASSUME NEW u \in heard'.ticks, NEW i \in DOMAIN samples',
                samples'[i] <= u, i + 1 \in DOMAIN samples' => u < samples'[i + 1]
         PROVE  u - samples'[i] < Apart
    <3>1. i + k \in 1..Len(longer) /\ samples'[i] = longer[i + k]
      BY <2>9, <2>12
    <3>2. (i + k) + 1 \in 1..Len(longer) => u < longer[(i + k) + 1]
      <4> SUFFICES ASSUME (i + k) + 1 \in 1..Len(longer) PROVE u < longer[(i + k) + 1]
        OBVIOUS
      <4>1. i + 1 \in DOMAIN samples' /\ (i + 1) + k = (i + k) + 1
        <5>1. Len(longer) \in Nat /\ k \in 0..(Len(longer) - 1) /\ DOMAIN samples' = 1..(Len(longer) - k)
          BY <2>1, <2>9
        <5>2. i \in 1..(Len(longer) - k)
          BY <2>12, <5>1
        <5> QED BY <5>1, <5>2
      <4>2. samples'[i + 1] = longer[(i + k) + 1]
        BY <2>9, <4>1
      <4> QED BY <2>12, <4>1, <4>2
    <3> QED BY <2>8, <2>12, <3>1, <3>2
  <2>13. heard'.ticks \in SUBSET Int
    BY <1>1, <2>5
  <2> QED BY <2>3, <2>10, <2>11, <2>12, <2>13 DEF SamplesApart
<1> QED BY <1>6, <1>7

\* Minutes after the open one that were heard lie in the seam, which has no gap.
SeamFrom(minutes, seam, c) ==
  /\ \A m \in minutes : m > c => m \in seam
  /\ \A m \in seam, x \in Int : c <= x /\ x <= m => x \in seam

\* A minute that was heard and is over has a bar as far as the bars go back.
CoveredBy(b, seam, m) ==
  \A i \in DOMAIN b :
    b[i].minute < m => (\E j \in DOMAIN b : j > i /\ b[j].minute <= m) \/ {m, b[i].minute} \subseteq seam

LEMMA Sewn ==
  BarsSewn <=> (current # Unset => /\ SeamFrom(heard.minutes, heard.seam, current.minute)
                                   /\ \A m \in heard.minutes : m < current.minute => CoveredBy(bars, heard.seam, m))
BY DEF BarsSewn, SeamFrom, CoveredBy

\* A bar in order covers its minute, whatever the seam.
LEMMA RisingCovers ==
  ASSUME NEW b \in Seq(Bars), Rising(b), NEW k \in DOMAIN b, NEW seam
  PROVE  CoveredBy(b, seam, b[k].minute)
<1>1. DOMAIN b = 1..Len(b) /\ Len(b) \in Nat /\ \A i \in DOMAIN b : b[i].minute \in Int
  <2>1. DOMAIN b = 1..Len(b) /\ Len(b) \in Nat
    OBVIOUS
  <2>2. \A i \in 1..Len(b) : b[i] \in Bars
    BY ElementOfSeq
  <2> QED BY <2>1, <2>2 DEF Bars
<1>2. ASSUME NEW i \in DOMAIN b, b[i].minute < b[k].minute
      PROVE  k > i /\ b[k].minute <= b[k].minute
  <2> SUFFICES ASSUME ~(k > i) PROVE FALSE
    BY <1>1
  <2>1. k = i \/ k < i
    BY <1>1
  <2> QED BY <1>1, <1>2, <2>1 DEF Rising
<1> QED BY <1>2 DEF CoveredBy

\* No bar in order is of a later minute than the last one.
LEMMA RisingEnds ==
  ASSUME NEW b \in Seq(Bars), Rising(b), NEW k \in DOMAIN b
  PROVE  b # <<>> /\ Last(b).minute \in Int /\ b[k].minute <= Last(b).minute
<1>1. DOMAIN b = 1..Len(b) /\ Len(b) \in Nat /\ \A i \in DOMAIN b : b[i].minute \in Int
  <2>1. DOMAIN b = 1..Len(b) /\ Len(b) \in Nat
    OBVIOUS
  <2>2. \A i \in 1..Len(b) : b[i] \in Bars
    BY ElementOfSeq
  <2> QED BY <2>1, <2>2 DEF Bars
<1>2. b # <<>> /\ Len(b) \in DOMAIN b /\ Last(b) = b[Len(b)] /\ (k = Len(b) \/ k < Len(b))
  <2>1. Len(b) > 0
    BY <1>1
  <2>2. b # <<>>
    BY <2>1
  <2> QED BY <1>1, <2>1, <2>2 DEF Last
<1> QED BY <1>1, <1>2 DEF Rising

\* The bar of the open minute takes its place behind the bars, and what drops out in front covers nothing.
LEMMA PushedCovers ==
  ASSUME NEW b \in Seq(Bars), NEW c \in Bars, NEW n \in Nat, n > 0, NEW seam \in SUBSET Int, NEW m \in Int,
         m < c.minute => CoveredBy(b, seam, m), m > c.minute => {m, c.minute} \subseteq seam
  PROVE  CoveredBy(Newest(Append(b, c), n), seam, m) /\ Newest(Append(b, c), n) \in Seq(Bars)
<1> DEFINE longer == Append(b, c)
           kept   == Newest(longer, n)
<1>1. longer \in Seq(Bars) /\ longer # <<>> /\ Len(longer) = Len(b) + 1 /\ Len(b) \in Nat
      /\ longer[Len(b) + 1] = c /\ \A i \in DOMAIN b : longer[i] = b[i]
  OBVIOUS
<1>2. DOMAIN b = 1..Len(b) /\ c.minute \in Int
  BY DEF Bars
<1> HIDE DEF longer
<1>3. kept \in Seq(Bars) /\ \E k : EndOf(kept, longer, k)
  BY <1>1, NewestIs
<1> HIDE DEF kept
<1>4. PICK k : EndOf(kept, longer, k)
  BY <1>3
<1>5. DOMAIN kept = 1..Len(kept) /\ Len(kept) \in Nat
  BY <1>3
<1>6. k \in 0..Len(b) /\ Len(kept) = Len(b) + 1 - k /\ \A i \in 1..Len(kept) : kept[i] = longer[i + k]
  BY <1>1, <1>4 DEF EndOf
<1>7. ASSUME NEW i \in 1..(Len(b) + 1), longer[i].minute < m
      PROVE  \/ \E j \in 1..(Len(b) + 1) : j > i /\ longer[j].minute <= m
             \/ {m, longer[i].minute} \subseteq seam
  <2>1. CASE i = Len(b) + 1
    <3>1. longer[i] = c
      BY <1>1, <2>1
    <3> QED BY <1>2, <1>7, <3>1
  <2>2. CASE i # Len(b) + 1 /\ c.minute <= m
    <3>1. Len(b) + 1 \in 1..(Len(b) + 1) /\ Len(b) + 1 > i
      BY <1>1, <2>2
    <3> QED BY <1>1, <2>2, <3>1
  <2>3. CASE i # Len(b) + 1 /\ ~(c.minute <= m)
    <3>1. i \in DOMAIN b /\ m < c.minute
      BY <1>1, <1>2, <2>3
    <3>2. longer[i] = b[i]
      BY <1>1, <3>1
    <3>3. (\E j \in DOMAIN b : j > i /\ b[j].minute <= m) \/ {m, b[i].minute} \subseteq seam
      BY <1>7, <3>1, <3>2 DEF CoveredBy
    <3>4. \A j \in DOMAIN b : j \in 1..(Len(b) + 1) /\ longer[j] = b[j]
      BY <1>1, <1>2
    <3> QED BY <3>2, <3>3, <3>4
  <2> QED BY <2>1, <2>2, <2>3
<1>8. ASSUME NEW i \in DOMAIN kept, kept[i].minute < m
      PROVE  (\E j \in DOMAIN kept : j > i /\ kept[j].minute <= m) \/ {m, kept[i].minute} \subseteq seam
  <2>1. i + k \in 1..(Len(b) + 1) /\ kept[i] = longer[i + k]
    BY <1>1, <1>5, <1>6
  <2>2. \/ \E j \in 1..(Len(b) + 1) : j > i + k /\ longer[j].minute <= m
        \/ {m, longer[i + k].minute} \subseteq seam
    BY <1>7, <1>8, <2>1
  <2>3. ASSUME NEW j \in 1..(Len(b) + 1), j > i + k
        PROVE  j - k \in DOMAIN kept /\ j - k > i /\ kept[j - k] = longer[j]
    <3>1. j - k \in 1..Len(kept) /\ (j - k) + k = j /\ j - k > i
      BY <1>1, <1>5, <1>6, <2>3
    <3> QED BY <1>5, <1>6, <3>1
  <2> QED BY <2>1, <2>2, <2>3
<1>9. CoveredBy(kept, seam, m)
  BY <1>8 DEF CoveredBy
<1> QED BY <1>3, <1>9 DEF kept, longer

\* What a price heard at a moment does to the bars.
LEMMA RecordBars ==
  ASSUME FeedsTyped, BarsFetched, BarsSewn, NEW t \in Int, Record(t)
  PROVE  /\ BarsSewn' /\ bars' \in Seq(Bars) /\ current' \in Bars /\ current' # Unset
         /\ heard'.minutes \in SUBSET Int /\ heard'.seam \in SUBSET Int /\ heard'.mids = heard.mids
         /\ heard' = [ticks |-> heard'.ticks, minutes |-> heard'.minutes, seam |-> heard'.seam, mids |-> heard'.mids]
         /\ current = Unset => bars' = bars /\ heard'.minutes = heard.minutes \cup {current'.minute}
<1> DEFINE m == MinuteOf(t)
<1>1. /\ bars \in Seq(Bars) /\ current \in Bars \cup {Unset}
      /\ heard.minutes \in SUBSET Int /\ heard.seam \in SUBSET Int
  BY DEF FeedsTyped
<1>2. m \in Int
  BY MinuteIs
<1>3. Bar(m, t) \in Bars /\ Bar(m, t).minute = m
  BY <1>2 DEF Bar, Bars
<1>4. heard' = [ticks   |-> IF samples = <<>> \/ t >= Last(samples) THEN heard.ticks \cup {t} ELSE heard.ticks,
                minutes |-> IF current = Unset \/ m >= current.minute
                            THEN heard.minutes \cup {m} ELSE heard.minutes,
                seam    |-> IF current = Unset /\ bars # <<>> THEN m..Last(bars).minute ELSE heard.seam,
                mids    |-> heard.mids]
  BY DEF Record
<1>5. AdvanceBar(t)
  BY DEF Record
<1>6. /\ heard'.minutes = IF current = Unset \/ m >= current.minute THEN heard.minutes \cup {m} ELSE heard.minutes
      /\ heard'.seam = IF current = Unset /\ bars # <<>> THEN m..Last(bars).minute ELSE heard.seam
      /\ heard'.mids = heard.mids
      /\ heard' = [ticks |-> heard'.ticks, minutes |-> heard'.minutes, seam |-> heard'.seam, mids |-> heard'.mids]
  BY <1>4
<1>7. \/ (current = Unset \/ m = current.minute) /\ current' = Bar(m, t) /\ bars' = bars
      \/ current # Unset /\ m < current.minute /\ current' = current /\ bars' = bars
      \/ /\ current # Unset /\ m # current.minute /\ ~(m < current.minute)
         /\ current' = Bar(m, t) /\ bars' = Newest(Append(bars, current), MaxBars)
  BY <1>5 DEF AdvanceBar
<1>8. Unset \notin Bars
  BY FeedConstants
<1> HIDE DEF m
<1>9. BarsSewn' <=> (current' # Unset => /\ SeamFrom(heard'.minutes, heard'.seam, current'.minute)
                                         /\ \A x \in heard'.minutes : x < current'.minute => CoveredBy(bars', heard'.seam, x))
  BY DEF BarsSewn, SeamFrom, CoveredBy
<1>10. CASE current = Unset
  <2>1. current' = Bar(m, t) /\ bars' = bars /\ heard'.minutes = heard.minutes \cup {m} /\ current'.minute = m
    BY <1>3, <1>6, <1>7, <1>10
  <2>2. heard.seam = {} /\ Rising(bars) /\ \A x \in heard.minutes : \E k \in DOMAIN bars : bars[k].minute = x
    BY <1>10 DEF BarsFetched
  <2>3. ASSUME NEW x \in heard'.minutes, x > m PROVE x \in heard'.seam
    <3>1. x \in Int /\ x \in heard.minutes
      BY <1>1, <1>2, <2>1, <2>3
    <3>2. PICK k \in DOMAIN bars : bars[k].minute = x
      BY <2>2, <3>1
    <3>3. bars # <<>> /\ Last(bars).minute \in Int /\ x <= Last(bars).minute
      BY <1>1, <2>2, <3>2, RisingEnds
    <3>4. heard'.seam = m..Last(bars).minute
      BY <1>6, <1>10, <3>3
    <3> QED BY <1>2, <2>3, <3>1, <3>3, <3>4
  <2>4. /\ heard'.seam \in SUBSET Int
        /\ \A z \in heard'.seam, x \in Int : m <= x /\ x <= z => x \in heard'.seam
    <3>1. CASE bars = <<>>
      BY <1>6, <2>2, <3>1
    <3>2. CASE bars # <<>>
      <4>1. 1 \in DOMAIN bars
        BY <1>1, <3>2, EmptySeq
      <4>2. Last(bars).minute \in Int
        BY <1>1, <2>2, <4>1, RisingEnds
      <4>3. heard'.seam = m..Last(bars).minute
        BY <1>6, <1>10, <3>2
      <4> QED BY <1>2, <4>2, <4>3
    <3> QED BY <3>1, <3>2
  <2>5. ASSUME NEW x \in heard'.minutes, x < m PROVE CoveredBy(bars, heard'.seam, x)
    <3>1. x \in heard.minutes
      BY <1>1, <1>2, <2>1, <2>5
    <3>2. PICK k \in DOMAIN bars : bars[k].minute = x
      BY <2>2, <3>1
    <3> QED BY <1>1, <2>2, <3>2, RisingCovers
  <2>6. SeamFrom(heard'.minutes, heard'.seam, m)
    BY <2>3, <2>4 DEF SeamFrom
  <2>7. BarsSewn'
    BY <1>9, <2>1, <2>5, <2>6
  <2> QED BY <1>1, <1>2, <1>3, <1>6, <1>8, <2>1, <2>4, <2>7
<1>11. CASE current # Unset
  <2>1. current \in Bars /\ current.minute \in Int /\ heard'.seam = heard.seam
    BY <1>1, <1>6, <1>11 DEF Bars
  <2>2. SeamFrom(heard.minutes, heard.seam, current.minute)
        /\ \A x \in heard.minutes : x < current.minute => CoveredBy(bars, heard.seam, x)
    BY <1>11, Sewn
  <2>3. CASE m < current.minute
    <3>1. current' = current /\ bars' = bars /\ heard'.minutes = heard.minutes
      BY <1>2, <1>6, <1>7, <1>11, <2>1, <2>3
    <3>2. BarsSewn'
      BY <1>9, <2>1, <2>2, <3>1
    <3> QED BY <1>1, <1>6, <1>8, <1>11, <2>1, <3>1, <3>2
  <2>4. CASE m >= current.minute
    <3>1. heard'.minutes = heard.minutes \cup {m} /\ current' = Bar(m, t) /\ current'.minute = m
      BY <1>2, <1>3, <1>6, <1>7, <1>11, <2>1, <2>4
    <3>2. ASSUME NEW x \in heard'.minutes, x > m PROVE x \in heard'.seam
      <4>1. x \in heard.minutes /\ x > current.minute
        BY <1>1, <1>2, <2>1, <2>4, <3>1, <3>2
      <4> QED BY <2>1, <2>2, <4>1 DEF SeamFrom
    <3>3. ASSUME NEW z \in heard'.seam, NEW x \in Int, m <= x, x <= z PROVE x \in heard'.seam
      <4>1. current.minute <= x
        BY <1>2, <2>1, <2>4, <3>3
      <4> QED BY <2>1, <2>2, <3>3, <4>1 DEF SeamFrom
    <3>4. SeamFrom(heard'.minutes, heard'.seam, m)
      BY <3>2, <3>3 DEF SeamFrom
    <3>5. bars' \in Seq(Bars) /\ \A x \in heard'.minutes : x < m => CoveredBy(bars', heard'.seam, x)
      <4>1. CASE m = current.minute
        <5>1. bars' = bars
          BY <1>7, <1>11, <4>1
        <5>2. ASSUME NEW x \in heard'.minutes, x < m PROVE x \in heard.minutes
          BY <1>2, <3>1, <5>2
        <5> QED BY <1>1, <2>1, <2>2, <4>1, <5>1, <5>2
      <4>2. CASE m # current.minute
        <5>1. bars' = Newest(Append(bars, current), MaxBars)
          BY <1>2, <1>7, <1>11, <2>1, <2>4, <4>2
        <5>2. ASSUME NEW x \in heard'.minutes, x < m PROVE CoveredBy(bars', heard'.seam, x)
          <6>1. x \in heard.minutes /\ x \in Int
            BY <1>1, <1>2, <3>1, <5>2
          <6>2. x < current.minute => CoveredBy(bars, heard.seam, x)
            BY <2>2, <6>1
          <6>3. x > current.minute => x \in heard.seam
            BY <2>2, <6>1 DEF SeamFrom
          <6>4. x \in heard.seam /\ x > current.minute => current.minute \in heard.seam
            <7>1. current.minute <= current.minute /\ (x > current.minute => current.minute <= x)
              BY <2>1, <6>1
            <7> QED BY <2>1, <2>2, <7>1 DEF SeamFrom
          <6>5. x > current.minute => {x, current.minute} \subseteq heard.seam
            BY <6>3, <6>4
          <6> QED BY <1>1, <2>1, <5>1, <6>1, <6>2, <6>5, FeedConstants, PushedCovers
        <5>3. bars' \in Seq(Bars)
          <6>1. Append(bars, current) \in Seq(Bars) /\ Append(bars, current) # <<>>
            BY <1>1, <2>1
          <6> QED BY <5>1, <6>1, FeedConstants, NewestIs
        <5> QED BY <5>2, <5>3
      <4> QED BY <4>1, <4>2
    <3>6. BarsSewn'
      BY <1>9, <3>1, <3>4, <3>5
    <3>7. heard'.minutes \in SUBSET Int
      BY <1>1, <1>2, <3>1
    <3> QED BY <1>1, <1>3, <1>6, <1>8, <1>11, <2>1, <3>1, <3>5, <3>6, <3>7
  <2> QED BY <1>2, <2>1, <2>3, <2>4
<1> QED BY <1>10, <1>11

\* A change of the book: its mid joins the others, and those out of the window or of room leave.
LEMMA SampleHeld ==
  ASSUME FeedsTyped, MidsHeld, SampleOfMid
  PROVE  MidsHeld' /\ midsKept' \in Seq(Int)
<1> DEFINE n    == Len(midsKept)
           long == Append(midsKept, now)
           new  == Newest(long, MidsMax)
           in   == {i \in DOMAIN new : new[i] >= now - MidsKept}
<1>1. /\ midsKept \in Seq(Int) /\ n \in Nat /\ DOMAIN midsKept = 1..n /\ now \in Nat
      /\ \A i \in 1..n : midsKept[i] \in Int
  BY ElementOfSeq DEF FeedsTyped
<1>2. long \in Seq(Int) /\ long # <<>> /\ Len(long) = n + 1 /\ long[n + 1] = now /\ \A i \in 1..n : long[i] = midsKept[i]
  BY <1>1
<1>3. midsKept' = SubSeq(new, Min(in), Len(new)) /\ now' = now /\ heard' = [heard EXCEPT !.mids = @ \cup {now}]
  BY DEF SampleOfMid, FromFirst
<1>4. heard'.mids = heard.mids \cup {now} /\ heard.mids \in SUBSET Int
  BY <1>3 DEF FeedsTyped
<1>5. /\ \A i, j \in 1..n : i < j => midsKept[i] <= midsKept[j]
      /\ \A i \in 1..n : midsKept[i] <= now
      /\ n <= MidsMax /\ (midsKept = <<>> => heard.mids = {})
      /\ \A t \in heard.mids :
           t >= midsKept[n] - MidsKept =>
             (\E i \in 1..n : midsKept[i] = t) \/ (n = MidsMax /\ t <= midsKept[1])
  BY <1>1 DEF MidsHeld
<1> HIDE DEF long, n
<1>6. ASSUME NEW i \in 1..(n + 1), NEW j \in 1..(n + 1), i <= j PROVE long[i] <= long[j] /\ long[j] <= now /\ long[i] \in Int
  <2>1. CASE j = n + 1
    <3>1. CASE i = n + 1
      BY <1>1, <1>2, <2>1, <3>1
    <3>2. CASE i # n + 1
      <4>1. i \in 1..n
        BY <1>1, <3>2
      <4> QED BY <1>1, <1>2, <1>5, <2>1, <4>1
    <3> QED BY <3>1, <3>2
  <2>2. CASE j # n + 1
    <3>1. i \in 1..n /\ j \in 1..n /\ (i = j \/ i < j)
      BY <1>1, <1>6, <2>2
    <3>2. long[i] = midsKept[i] /\ long[j] = midsKept[j] /\ midsKept[i] \in Int /\ midsKept[j] \in Int
      BY <1>1, <1>2, <3>1
    <3> QED BY <1>5, <3>1, <3>2
  <2> QED BY <2>1, <2>2
<1>7. /\ new \in Seq(Int)
      /\ \E k : EndOf(new, long, k) /\ ((k = 0 /\ Len(long) <= MidsMax) \/ (k > 0 /\ Len(long) - k = MidsMax))
  BY <1>2, FeedConstants, NewestIs
<1> HIDE DEF new
<1>8. PICK k : EndOf(new, long, k) /\ ((k = 0 /\ Len(long) <= MidsMax) \/ (k > 0 /\ Len(long) - k = MidsMax))
  BY <1>7
<1>9. DOMAIN new = 1..Len(new) /\ Len(new) \in Nat
  BY <1>7
<1>10. k \in 0..n /\ Len(new) = n + 1 - k /\ \A i \in 1..Len(new) : new[i] = long[i + k]
  BY <1>1, <1>2, <1>8 DEF EndOf
<1>11. (k = 0 /\ n + 1 <= MidsMax) \/ (k > 0 /\ n + 1 - k = MidsMax)
  <2>1. Len(long) = n + 1
    BY <1>2
  <2>2. (k = 0 /\ Len(long) <= MidsMax) \/ (k > 0 /\ Len(long) - k = MidsMax)
    BY <1>8
  <2>3. k \in Int /\ n \in Int /\ MidsMax \in Int
    BY <1>1, <1>10, FeedConstants
  <2> QED BY <2>1, <2>2, <2>3
<1>12. MidsMax \in Nat /\ MidsMax > 0 /\ MidsKept \in Nat
  BY FeedConstants
<1>13. Len(new) \in 1..(n + 1) /\ new[Len(new)] = now /\ Len(new) \in in
  <2>1. Len(new) \in 1..(n + 1) /\ Len(new) + k = n + 1 /\ Len(new) \in 1..Len(new)
    BY <1>1, <1>9, <1>10
  <2>2. new[Len(new)] = now
    BY <1>2, <1>10, <2>1
  <2>3. now >= now - MidsKept
    BY <1>1, <1>12
  <2> QED BY <1>9, <2>1, <2>2, <2>3
<1>14. Min(in) \in in /\ \A i \in in : Min(in) <= i
  <2>1. in \in SUBSET (0..Len(new)) /\ in # {}
    BY <1>9, <1>13
  <2> HIDE DEF in
  <2> QED BY <1>9, <2>1, LeastIsMin
<1> DEFINE q == Min(in) - 1
<1>15. q \in 0..(Len(new) - 1) /\ q + 1 = Min(in) /\ new[q + 1] >= now - MidsKept
  BY <1>9, <1>13, <1>14
<1>16. \A i \in 1..Len(new) : new[i] >= now - MidsKept => q + 1 <= i
  BY <1>9, <1>14, <1>15
<1> HIDE DEF q, in
<1> DEFINE r == SubSeq(new, q + 1, Len(new))
<1>17. r \in Seq(Int) /\ Len(r) = Len(new) - q /\ \A i \in 1..(Len(new) - q) : r[i] = new[i + q]
  BY <1>7, <1>15, SuffixIs
<1>18. midsKept' = r
  BY <1>3, <1>15
<1> HIDE DEF r
<1>19. DOMAIN r = 1..Len(r) /\ Len(r) \in Nat /\ Len(r) >= 1
  BY <1>9, <1>15, <1>17
<1>20. \A i \in 1..Len(r) : i + q + k \in 1..(n + 1) /\ r[i] = long[i + q + k]
  <2> TAKE i \in 1..Len(r)
  <2>1. i + q \in 1..Len(new) /\ (i + q) + k \in 1..(n + 1) /\ (i + q) + k = i + q + k /\ r[i] = new[i + q]
    BY <1>1, <1>9, <1>10, <1>15, <1>17
  <2> QED BY <1>10, <2>1
<1>21. ASSUME NEW i \in 1..Len(r), NEW j \in 1..Len(r), i <= j PROVE r[i] <= r[j] /\ r[j] <= now
  <2>1. i + q + k <= j + q + k
    BY <1>10, <1>15, <1>19, <1>21
  <2> QED BY <1>6, <1>20, <2>1
<1>22. Len(r) <= MidsMax
  BY <1>1, <1>9, <1>10, <1>11, <1>12, <1>15, <1>17
<1>23. r[Len(r)] = now
  <2>1. Len(r) + q = Len(new) /\ Len(r) \in 1..(Len(new) - q)
    BY <1>9, <1>15, <1>17
  <2> QED BY <1>13, <1>17, <2>1
<1>24. ASSUME NEW t \in Int, NEW i \in 1..(n + 1), long[i] = t, t >= now - MidsKept
       PROVE  (\E j \in 1..Len(r) : r[j] = t) \/ (Len(r) = MidsMax /\ t <= r[1])
  <2>1. CASE i > k
    <3>1. i - k \in 1..Len(new) /\ (i - k) + k = i
      BY <1>1, <1>9, <1>10, <2>1
    <3>2. new[i - k] = t
      BY <1>10, <1>24, <3>1
    <3>3. q + 1 <= i - k
      BY <1>16, <1>24, <3>1, <3>2
    <3>4. i - k - q \in 1..Len(r) /\ i - k - q \in 1..(Len(new) - q) /\ (i - k - q) + q = i - k
      BY <1>9, <1>10, <1>15, <1>17, <3>1, <3>3
    <3> QED BY <1>17, <3>2, <3>4
  <2>2. CASE ~(i > k)
    <3>1. k > 0 /\ n + 1 - k = MidsMax /\ 1 + k \in 1..(n + 1) /\ i <= 1 + k /\ 1 \in 1..Len(new)
      BY <1>1, <1>9, <1>10, <1>11, <1>12, <2>2
    <3>2. new[1] = long[1 + k] /\ t <= new[1] /\ new[1] \in Int
      BY <1>6, <1>10, <1>24, <3>1
    <3>3. q = 0
      <4>1. new[1] >= now - MidsKept
        BY <1>1, <1>12, <1>24, <3>2
      <4> QED BY <1>9, <1>15, <1>16, <3>1, <4>1
    <3>4. Len(r) = MidsMax /\ r[1] = new[1]
      BY <1>1, <1>9, <1>10, <1>17, <3>1, <3>3
    <3> QED BY <3>2, <3>4
  <2> QED BY <2>1, <2>2
<1>25. ASSUME NEW t \in heard'.mids, t >= r[Len(r)] - MidsKept
       PROVE  (\E j \in DOMAIN r : r[j] = t) \/ (Len(r) = MidsMax /\ t <= r[1])
  <2>0. t \in Int /\ t >= now - MidsKept
    BY <1>1, <1>4, <1>23, <1>25
  <2>1. CASE t = now
    <3>1. Len(r) \in DOMAIN r
      BY <1>19
    <3> QED BY <1>23, <2>1, <3>1
  <2>2. CASE t # now
    <3>1. t \in heard.mids
      BY <1>4, <2>2
    <3>2. n > 0 /\ n \in 1..n /\ 1 \in 1..n
      <4>1. n # 0
        BY <1>1, <1>5, <3>1, EmptySeq DEF n
      <4> QED BY <1>1, <4>1
    <3>3. midsKept[n] <= now /\ midsKept[n] \in Int /\ midsKept[1] \in Int
      BY <1>1, <1>5, <3>2
    <3>4. t >= midsKept[n] - MidsKept
      BY <1>1, <1>12, <2>0, <3>3
    <3>5. CASE \E i \in 1..n : midsKept[i] = t
      <4>1. PICK i \in 1..n : midsKept[i] = t
        BY <3>5
      <4>2. i \in 1..(n + 1) /\ long[i] = t
        BY <1>1, <1>2, <4>1
      <4> QED BY <1>19, <1>24, <2>0, <4>2
    <3>6. CASE n = MidsMax /\ t <= midsKept[1]
      <4>1. k = 1 /\ 1 \in 1..Len(new) /\ 2 \in 1..(n + 1) /\ 1 \in 1..(n + 1)
        BY <1>1, <1>9, <1>10, <1>11, <1>12, <3>2, <3>6
      <4>2. new[1] = long[2] /\ long[1] = midsKept[1] /\ long[1] <= long[2] /\ new[1] \in Int
        BY <1>2, <1>6, <1>10, <3>2, <4>1
      <4>3. t <= new[1]
        BY <2>0, <3>3, <3>6, <4>2
      <4>4. q = 0
        <5>1. new[1] >= now - MidsKept
          BY <1>1, <1>12, <2>0, <4>2, <4>3
        <5> QED BY <1>9, <1>15, <1>16, <4>1, <5>1
      <4>5. Len(r) = MidsMax /\ r[1] = new[1]
        BY <1>1, <1>9, <1>10, <1>17, <3>6, <4>1, <4>4
      <4> QED BY <4>3, <4>5
    <3> QED BY <1>5, <3>1, <3>4, <3>5, <3>6
  <2> QED BY <2>1, <2>2
<1>26. \A i, j \in DOMAIN r : i < j => r[i] <= r[j]
  BY <1>19, <1>21
<1>27. \A i \in DOMAIN r : r[i] <= now'
  BY <1>3, <1>19, <1>21
<1>28. r # <<>>
  BY <1>19
<1> QED BY <1>17, <1>18, <1>22, <1>25, <1>26, <1>27, <1>28 DEF MidsHeld

LEMMA FeedsBegin == FeedInit => FeedsSound
<1> SUFFICES ASSUME FeedInit PROVE FeedsSound
  OBVIOUS
<1>1. now \in Nat
  BY FeedConstants DEF FeedInit
<1>2. FeedsTyped
  BY <1>1 DEF FeedInit, FeedsTyped
<1>3. samples = <<>> /\ bars = <<>> /\ midsKept = <<>> /\ current = Unset /\ stage = "seed" /\ DOMAIN <<>> = {} /\ Len(<<>>) = 0
      /\ heard.ticks = {} /\ heard.minutes = {} /\ heard.seam = {} /\ heard.mids = {}
  BY DEF FeedInit
<1>4. SamplesApart
  BY <1>3 DEF SamplesApart
<1>5. SeedAlone
  BY <1>3 DEF SeedAlone
<1>6. BarsFetched /\ BarsSewn
  BY <1>3 DEF BarsFetched, BarsSewn, Rising
<1>7. MidsHeld
  BY <1>3, FeedConstants DEF MidsHeld
<1> QED BY <1>2, <1>4, <1>5, <1>6, <1>7 DEF FeedsSound

LEMMA SeedSound ==
  ASSUME FeedsSound, SeedPrice
  PROVE  FeedsSound'
<1>1. /\ stage = "seed" /\ stage' = "klines" /\ now' = now /\ fetched' = fetched /\ midsKept' = midsKept
      /\ current = Unset /\ bars = <<>> /\ heard.minutes = {} /\ now \in Int
  BY DEF SeedPrice, FeedsSound, SeedAlone, FeedsTyped
<1>2. CASE Record(now)
  <2>1. /\ SamplesApart' /\ samples' \in Seq(Int) /\ heard'.ticks \in SUBSET Int
        /\ BarsSewn' /\ bars' \in Seq(Bars) /\ current' \in Bars /\ current' # Unset
        /\ heard'.minutes \in SUBSET Int /\ heard'.seam \in SUBSET Int /\ heard'.mids = heard.mids
        /\ heard' = [ticks |-> heard'.ticks, minutes |-> heard'.minutes, seam |-> heard'.seam, mids |-> heard'.mids]
        /\ bars' = bars /\ heard'.minutes = heard.minutes \cup {current'.minute}
    BY <1>1, <1>2, RecordSamples, RecordBars DEF FeedsSound
  <2>2. heard.mids \in SUBSET Int
    BY DEF FeedsSound, FeedsTyped
  <2>3. FeedsTyped'
    BY <1>1, <2>1, <2>2 DEF FeedsSound, FeedsTyped
  <2>4. SeedAlone'
    BY <1>1, <2>1 DEF SeedAlone
  <2>5. BarsFetched'
    BY <2>1 DEF BarsFetched
  <2>6. MidsHeld'
    BY <1>1, <2>1 DEF FeedsSound, MidsHeld
  <2> QED BY <2>1, <2>3, <2>4, <2>5, <2>6 DEF FeedsSound
<1>3. CASE UNCHANGED <<samples, bars, current, heard>>
  BY <1>1, <1>3 DEF FeedsSound, FeedsTyped, SamplesApart, SeedAlone, BarsFetched, BarsSewn, MidsHeld
<1> QED BY <1>2, <1>3 DEF SeedPrice

LEMMA FetchSound ==
  ASSUME FeedsSound, FetchKlines
  PROVE  FeedsSound'
<1>1. /\ stage = "klines" /\ stage' = "backfill"
      /\ UNCHANGED <<now, samples, bars, current, midsKept, heard>> /\ now \in Nat
  BY DEF FetchKlines, FeedsSound, FeedsTyped
<1>2. PICK k \in 0..MaxBars : fetched' = [i \in 1..k |-> Bar(MinuteOf(now) - k + i, Close(MinuteOf(now) - k + i))]
  BY DEF FetchKlines
<1>3. MinuteOf(now) \in Int /\ k \in Nat /\ Minute \in Int
  BY <1>1, FeedConstants, MinuteIs
<1>4. ASSUME NEW i \in 1..k
      PROVE  /\ Bar(MinuteOf(now) - k + i, Close(MinuteOf(now) - k + i)) \in Bars
             /\ Bar(MinuteOf(now) - k + i, Close(MinuteOf(now) - k + i)).minute = MinuteOf(now) - k + i
  <2>1. MinuteOf(now) - k + i \in Int
    BY <1>3
  <2>2. \A x \in Int : Close(x) \in Int
    BY <1>1, <1>3 DEF Close
  <2> QED BY <2>1, <2>2 DEF Bar, Bars
<1>5. fetched' \in Seq(Bars) /\ DOMAIN fetched' = 1..k /\ \A i \in 1..k : fetched'[i].minute = MinuteOf(now) - k + i
  BY <1>2, <1>3, <1>4
<1>6. Rising(fetched')
  BY <1>3, <1>5 DEF Rising
<1>7. FeedsTyped'
  BY <1>1, <1>5 DEF FeedsSound, FeedsTyped
<1>8. SeedAlone'
  BY <1>1, <1>6 DEF FeedsSound, SeedAlone, Rising
<1> QED BY <1>1, <1>7, <1>8 DEF FeedsSound, SamplesApart, BarsFetched, BarsSewn, MidsHeld

LEMMA BackfillSound ==
  ASSUME FeedsSound, Backfill
  PROVE  FeedsSound'
<1> DEFINE those == {fetched[i].minute : i \in DOMAIN fetched}
           over  == IF current = Unset \/ fetched = <<>> THEN {} ELSE current.minute..Last(fetched).minute
<1>1. /\ stage = "backfill" /\ stage' = "connect" /\ bars' = fetched /\ fetched' = <<>>
      /\ UNCHANGED <<now, samples, current, midsKept>>
      /\ fetched \in Seq(Bars) /\ current \in Bars \cup {Unset} /\ Rising(fetched)
      /\ heard.minutes = (IF current = Unset THEN {} ELSE {current.minute})
  BY DEF Backfill, FeedsSound, FeedsTyped, SeedAlone
<1>2. heard' = [heard EXCEPT !.minutes = @ \cup those, !.seam = over]
  BY DEF Backfill
<1>3. heard \in [ticks : SUBSET Int, minutes : SUBSET Int, seam : SUBSET Int, mids : SUBSET Int]
  BY DEF FeedsSound, FeedsTyped
<1>4. heard'.ticks = heard.ticks /\ heard'.mids = heard.mids /\ heard'.minutes = heard.minutes \cup those /\ heard'.seam = over
  BY <1>2, <1>3
<1>5. \A i \in DOMAIN fetched : fetched[i].minute \in Int /\ fetched # <<>>
                                /\ Last(fetched).minute \in Int /\ fetched[i].minute <= Last(fetched).minute
  <2> TAKE i \in DOMAIN fetched
  <2>1. fetched[i] \in Bars
    BY <1>1, ElementOfSeq
  <2> QED BY <1>1, <2>1, RisingEnds DEF Bars
<1>6. those \in SUBSET Int
  BY <1>5
<1>7. over \in SUBSET Int
  OBVIOUS
<1>8. heard' \in [ticks : SUBSET Int, minutes : SUBSET Int, seam : SUBSET Int, mids : SUBSET Int]
  <2> HIDE DEF those, over
  <2> QED BY <1>2, <1>3, <1>6, <1>7
<1>9. FeedsTyped'
  BY <1>1, <1>8 DEF FeedsSound, FeedsTyped
<1>10. SamplesApart'
  BY <1>1, <1>4 DEF FeedsSound, SamplesApart
<1>11. SeedAlone'
  BY <1>1 DEF SeedAlone
<1>12. BarsFetched'
  BY <1>1, <1>4 DEF BarsFetched
<1>13. MidsHeld'
  BY <1>1, <1>4 DEF FeedsSound, MidsHeld
<1>14. BarsSewn'
  <2>1. BarsSewn' <=> (current # Unset => /\ SeamFrom(heard.minutes \cup those, over, current.minute)
                                          /\ \A m \in heard.minutes \cup those : m < current.minute => CoveredBy(fetched, over, m))
    BY <1>1, <1>4 DEF BarsSewn, SeamFrom, CoveredBy
  <2> SUFFICES ASSUME current # Unset
               PROVE  /\ SeamFrom(heard.minutes \cup those, over, current.minute)
                      /\ \A m \in heard.minutes \cup those : m < current.minute => CoveredBy(fetched, over, m)
    BY <2>1
  <2>2. heard.minutes = {current.minute} /\ current.minute \in Int
    BY <1>1 DEF Bars
  <2>3. \A m \in heard.minutes \cup those : m # current.minute => \E k \in DOMAIN fetched : m = fetched[k].minute
    BY <2>2
  <2>4. fetched # <<>> => over = current.minute..Last(fetched).minute
    OBVIOUS
  <2>5. fetched = <<>> => over = {}
    OBVIOUS
  <2>6. fetched # <<>> => Last(fetched).minute \in Int
    <3>1. fetched # <<>> => 1 \in DOMAIN fetched
      BY <1>1, EmptySeq
    <3> QED BY <1>5, <3>1
  <2> HIDE DEF over, those
  <2>7. ASSUME NEW m \in heard.minutes \cup those, m > current.minute PROVE m \in over
    <3>1. PICK k \in DOMAIN fetched : m = fetched[k].minute
      BY <2>2, <2>3, <2>7
    <3>2. m \in Int /\ fetched # <<>> /\ Last(fetched).minute \in Int /\ m <= Last(fetched).minute
      BY <1>5, <3>1
    <3> QED BY <2>2, <2>4, <2>7, <3>2
  <2>8. \A m \in over, x \in Int : current.minute <= x /\ x <= m => x \in over
    BY <2>2, <2>4, <2>5, <2>6
  <2>9. ASSUME NEW m \in heard.minutes \cup those, m < current.minute PROVE CoveredBy(fetched, over, m)
    <3>1. PICK k \in DOMAIN fetched : m = fetched[k].minute
      BY <2>2, <2>3, <2>9
    <3> QED BY <1>1, <3>1, RisingCovers
  <2> QED BY <2>7, <2>8, <2>9 DEF SeamFrom
<1> QED BY <1>9, <1>10, <1>11, <1>12, <1>13, <1>14 DEF FeedsSound

LEMMA ReceiveSound ==
  ASSUME FeedsSound, Receive
  PROVE  FeedsSound'
<1>1. stage = "stream" /\ UNCHANGED <<now, stage, fetched, midsKept>> /\ now \in Nat
  BY DEF Receive, FeedsSound, FeedsTyped
<1>2. PICK t \in Max({0, now - Lag})..now : Record(t)
  BY DEF Receive
<1>3. t \in Int
  OBVIOUS
<1>4. /\ SamplesApart' /\ samples' \in Seq(Int) /\ heard'.ticks \in SUBSET Int
      /\ BarsSewn' /\ bars' \in Seq(Bars) /\ current' \in Bars /\ current' # Unset
      /\ heard'.minutes \in SUBSET Int /\ heard'.seam \in SUBSET Int /\ heard'.mids = heard.mids
      /\ heard' = [ticks |-> heard'.ticks, minutes |-> heard'.minutes, seam |-> heard'.seam, mids |-> heard'.mids]
  BY <1>2, <1>3, RecordSamples, RecordBars DEF FeedsSound
<1>5. heard.mids \in SUBSET Int
  BY DEF FeedsSound, FeedsTyped
<1>6. FeedsTyped'
  BY <1>1, <1>4, <1>5 DEF FeedsSound, FeedsTyped
<1>7. SeedAlone'
  BY <1>1 DEF SeedAlone
<1>8. BarsFetched'
  BY <1>4 DEF BarsFetched
<1>9. MidsHeld'
  BY <1>1, <1>4 DEF FeedsSound, MidsHeld
<1> QED BY <1>4, <1>6, <1>7, <1>8, <1>9 DEF FeedsSound

LEMMA FeedsKeep ==
  ASSUME FeedsSound, [FeedNext]_feedVars
  PROVE  FeedsSound'
<1>1. ASSUME Subscribe \/ Break PROVE FeedsSound'
  <2>1. UNCHANGED <<now, fetched, samples, bars, current, midsKept, heard>> /\ stage' \in {"stream", "connect"}
    BY <1>1 DEF Subscribe, Break
  <2>2. FeedsTyped'
    BY <2>1 DEF FeedsSound, FeedsTyped
  <2>3. SamplesApart' /\ SeedAlone'
    BY <2>1 DEF FeedsSound, SamplesApart, SeedAlone
  <2>4. BarsFetched' /\ BarsSewn' /\ MidsHeld'
    BY <2>1 DEF FeedsSound, BarsFetched, BarsSewn, MidsHeld
  <2> QED BY <2>2, <2>3, <2>4 DEF FeedsSound
<1>2. ASSUME SampleOfMid PROVE FeedsSound'
  <2>1. MidsHeld' /\ midsKept' \in Seq(Int)
    BY <1>2, SampleHeld DEF FeedsSound
  <2>2. UNCHANGED <<now, stage, fetched, samples, bars, current>> /\ heard' = [heard EXCEPT !.mids = @ \cup {now}]
        /\ now \in Nat /\ heard \in [ticks : SUBSET Int, minutes : SUBSET Int, seam : SUBSET Int, mids : SUBSET Int]
    BY <1>2 DEF SampleOfMid, FeedsSound, FeedsTyped
  <2>3. /\ heard' \in [ticks : SUBSET Int, minutes : SUBSET Int, seam : SUBSET Int, mids : SUBSET Int]
        /\ heard'.ticks = heard.ticks /\ heard'.minutes = heard.minutes /\ heard'.seam = heard.seam
    BY <2>2
  <2>4. FeedsTyped'
    BY <2>1, <2>2, <2>3 DEF FeedsSound, FeedsTyped
  <2>5. SamplesApart' /\ SeedAlone'
    BY <2>2, <2>3 DEF FeedsSound, SamplesApart, SeedAlone
  <2>6. BarsFetched' /\ BarsSewn'
    BY <2>2, <2>3 DEF FeedsSound, BarsFetched, BarsSewn
  <2> QED BY <2>1, <2>4, <2>5, <2>6 DEF FeedsSound
<1>3. ASSUME Age PROVE FeedsSound'
  <2>1. now \in Nat /\ now' = now + 1 /\ UNCHANGED <<stage, fetched, samples, bars, current, midsKept, heard>>
        /\ midsKept \in Seq(Int)
    BY <1>3 DEF Age, btcVars, FeedsSound, FeedsTyped
  <2>2. \A i \in DOMAIN midsKept : midsKept[i] \in Int
    BY <2>1, ElementOfSeq
  <2>3. MidsHeld'
    BY <2>1, <2>2 DEF FeedsSound, MidsHeld
  <2>4. FeedsTyped'
    BY <2>1 DEF FeedsSound, FeedsTyped
  <2>5. SamplesApart' /\ SeedAlone' /\ BarsFetched' /\ BarsSewn'
    BY <2>1 DEF FeedsSound, SamplesApart, SeedAlone, BarsFetched, BarsSewn
  <2> QED BY <2>3, <2>4, <2>5 DEF FeedsSound
<1>4. ASSUME UNCHANGED feedVars PROVE FeedsSound'
  BY <1>4 DEF feedVars, FeedsSound, FeedsTyped, SamplesApart, SeedAlone, BarsFetched, BarsSewn, MidsHeld
<1> QED BY <1>1, <1>2, <1>3, <1>4, SeedSound, FetchSound, BackfillSound, ReceiveSound DEF FeedNext

\* The newest of what is up to a moment, when there is any.
LEMMA NewestIsUpTo ==
  ASSUME NEW s \in Seq(Int), NEW t \in Int, NEW i \in DOMAIN s, s[i] <= t
  PROVE  /\ NewestUpTo(s, t) \in DOMAIN s /\ Max({1, NewestUpTo(s, t)}) = NewestUpTo(s, t)
         /\ s[NewestUpTo(s, t)] <= t /\ NewestUpTo(s, t) >= i
         /\ \A j \in DOMAIN s : s[j] <= t => j <= NewestUpTo(s, t)
<1> DEFINE before == {j \in DOMAIN s : s[j] <= t}
<1>1. DOMAIN s = 1..Len(s) /\ Len(s) \in Nat
  OBVIOUS
<1>2. before \in SUBSET (0..Len(s)) /\ before # {} /\ i \in before
  BY <1>1
<1>3. NewestUpTo(s, t) = Max(before)
  BY <1>2 DEF NewestUpTo
<1>4. \A j \in before : j \in DOMAIN s /\ s[j] <= t
  OBVIOUS
<1>5. \A j \in DOMAIN s : s[j] <= t => j \in before
  OBVIOUS
<1> HIDE DEF before
<1>6. Max(before) \in before /\ \A j \in before : Max(before) >= j
  BY <1>1, <1>2, GreatestIsMax
<1> DEFINE p == Max(before)
<1>7. p \in 1..Len(s) /\ s[p] <= t /\ p >= i /\ \A j \in DOMAIN s : s[j] <= t => j <= p
  BY <1>1, <1>2, <1>4, <1>5, <1>6
<1> HIDE DEF p
<1>8. Max({1, p}) = p
  BY <1>1, <1>7 DEF Max
<1> QED BY <1>1, <1>3, <1>7, <1>8 DEF p

LEMMA SamplesStartRight ==
  ASSUME FeedsSound, NEW span \in TickSpans, samples # <<>>, Head(samples) <= now - span
  PROVE  /\ SampleReference(span) <= now - span
         /\ \A t \in heard.ticks : t <= now - span => t - SampleReference(span) < Apart
<1> DEFINE p == NewestUpTo(samples, now - span)
<1>1. samples \in Seq(Int) /\ now \in Nat /\ span \in Nat /\ heard.ticks \in SUBSET Int /\ Apart \in Nat /\ Apart > 0
  BY FeedConstants DEF FeedsSound, FeedsTyped
<1>2. 1 \in DOMAIN samples /\ samples[1] <= now - span /\ DOMAIN samples = 1..Len(samples) /\ Len(samples) \in Nat
  <2>1. Len(samples) > 0
    BY <1>1, EmptySeq
  <2> QED BY <1>1, <2>1
<1>3. /\ p \in DOMAIN samples /\ Max({1, p}) = p /\ samples[p] <= now - span
      /\ \A j \in DOMAIN samples : samples[j] <= now - span => j <= p
  <2>1. now - span \in Int
    BY <1>1
  <2> QED BY <1>1, <1>2, <2>1, NewestIsUpTo
<1> HIDE DEF p
<1>4. SampleReference(span) = samples[p] /\ samples[p] \in Int
  BY <1>1, <1>2, <1>3, ElementOfSeq DEF SampleReference, p
<1>5. ASSUME NEW t \in heard.ticks, t <= now - span PROVE t - samples[p] < Apart
  <2>1. CASE samples[p] <= t
    <3>1. ASSUME p + 1 \in DOMAIN samples PROVE t < samples[p + 1]
      <4>1. ~(samples[p + 1] <= now - span) /\ samples[p + 1] \in Int
        BY <1>1, <1>2, <1>3, <3>1, ElementOfSeq
      <4> QED BY <1>1, <1>5, <4>1
    <3> QED BY <1>3, <2>1, <3>1 DEF FeedsSound, SamplesApart
  <2>2. CASE ~(samples[p] <= t)
    BY <1>1, <1>4, <2>2
  <2> QED BY <2>1, <2>2
<1> QED BY <1>3, <1>4, <1>5

LEMMA BarsStartRight ==
  ASSUME FeedsSound, NEW span \in BarSpans, BarReference(span) # Unset, current # Unset,
         MinuteOf(now - span * Minute) \in heard.minutes
  PROVE  \/ BarReference(span).minute = MinuteOf(now - span * Minute)
         \/ current.minute <= MinuteOf(now - span * Minute)
         \/ {MinuteOf(now - span * Minute), BarReference(span).minute} \subseteq heard.seam
<1> DEFINE past   == now - span * Minute
           opened == {i \in DOMAIN bars : bars[i].minute * Minute <= past}
           m      == MinuteOf(past)
<1>1. bars \in Seq(Bars) /\ current \in Bars /\ past \in Int
  <2>1. now \in Nat /\ span \in Nat /\ Minute \in Nat
    BY FeedConstants DEF FeedsSound, FeedsTyped
  <2> QED BY <2>1 DEF FeedsSound, FeedsTyped
<1>2. BarReference(span) = IF opened = {} THEN Unset ELSE bars[Max(opened)]
  BY DEF BarReference
<1> HIDE DEF past
<1>3. m \in Int /\ \A k \in Int : k * Minute <= past <=> k <= m
  BY <1>1, MinuteIs
<1>4. \A i \in DOMAIN bars : bars[i].minute \in Int
  <2>1. \A i \in 1..Len(bars) : bars[i] \in Bars
    BY <1>1, ElementOfSeq
  <2>2. DOMAIN bars = 1..Len(bars)
    BY <1>1
  <2> QED BY <2>1, <2>2 DEF Bars
<1>5. \A i \in DOMAIN bars : i \in opened <=> bars[i].minute <= m
  BY <1>3, <1>4
<1>6. opened # {} /\ opened \in SUBSET (0..Len(bars)) /\ opened \subseteq DOMAIN bars /\ Len(bars) \in Nat
  BY <1>1, <1>2
<1> HIDE DEF opened, m
<1>7. Max(opened) \in opened /\ \A i \in opened : Max(opened) >= i
  BY <1>6, GreatestIsMax
<1>8. PICK p \in DOMAIN bars : p \in opened /\ BarReference(span) = bars[p] /\ \A i \in opened : p >= i
  BY <1>2, <1>6, <1>7
<1>9. SUFFICES ASSUME bars[p].minute # m, ~(current.minute <= m) PROVE {m, bars[p].minute} \subseteq heard.seam
  BY <1>8 DEF m, past
<1>10. m \in heard.minutes
  BY DEF m, past
<1>11. m < current.minute /\ bars[p].minute < m
  BY <1>1, <1>3, <1>4, <1>5, <1>8, <1>9 DEF Bars
<1>12. (\E j \in DOMAIN bars : j > p /\ bars[j].minute <= m) \/ {m, bars[p].minute} \subseteq heard.seam
  BY <1>8, <1>10, <1>11 DEF FeedsSound, BarsSewn
<1>13. ASSUME NEW j \in DOMAIN bars, j > p, bars[j].minute <= m PROVE FALSE
  <2>1. p >= j
    BY <1>5, <1>8, <1>13
  <2>2. DOMAIN bars = 1..Len(bars)
    BY <1>1
  <2> QED BY <1>13, <2>1, <2>2
<1> QED BY <1>12, <1>13

LEMMA MidsStartRight ==
  ASSUME FeedsSound, NEW span \in TickSpans, NEW t \in heard.mids,
         t <= now - span, t >= Last(midsKept) - MidsKept, Len(midsKept) < MidsMax \/ Head(midsKept) <= t
  PROVE  MidReference(span) \in t..(now - span)
<1> DEFINE p == NewestUpTo(midsKept, now - span)
<1>1. midsKept \in Seq(Int) /\ now \in Nat /\ span \in Nat /\ t \in Int
  BY FeedConstants DEF FeedsSound, FeedsTyped
<1>2. midsKept # <<>> /\ DOMAIN midsKept = 1..Len(midsKept) /\ Len(midsKept) \in Nat /\ Len(midsKept) > 0
  <2>1. midsKept # <<>>
    BY DEF FeedsSound, MidsHeld
  <2> QED BY <1>1, <2>1, EmptySeq
<1>3. Last(midsKept) = midsKept[Len(midsKept)] /\ Head(midsKept) = midsKept[1] /\ midsKept[1] \in Int
  BY <1>1, <1>2, ElementOfSeq DEF Last
<1>4. (\E i \in DOMAIN midsKept : midsKept[i] = t) \/ (Len(midsKept) = MidsMax /\ t <= midsKept[1])
  BY <1>3 DEF FeedsSound, MidsHeld
<1>5. PICK i \in DOMAIN midsKept : midsKept[i] = t
  <2>1. CASE Len(midsKept) = MidsMax /\ t <= midsKept[1]
    <3>1. midsKept[1] = t
      BY <1>1, <1>2, <1>3, <2>1
    <3>2. 1 \in DOMAIN midsKept
      BY <1>2
    <3> QED BY <3>1, <3>2
  <2> QED BY <1>4, <2>1
<1>6. p \in DOMAIN midsKept /\ Max({1, p}) = p /\ midsKept[p] <= now - span /\ p >= i
  <2>1. now - span \in Int /\ midsKept[i] <= now - span
    BY <1>1, <1>5
  <2> QED BY <1>1, <1>5, <2>1, NewestIsUpTo
<1> HIDE DEF p
<1>7. MidReference(span) = midsKept[p] /\ midsKept[p] \in Int
  BY <1>1, <1>2, <1>6, ElementOfSeq DEF MidReference, p
<1>8. t <= midsKept[p]
  <2>1. i = p \/ i < p
    BY <1>2, <1>6
  <2>2. i < p => midsKept[i] <= midsKept[p]
    BY <1>5, <1>6 DEF FeedsSound, MidsHeld
  <2> QED BY <1>1, <1>5, <1>7, <2>1, <2>2
<1> QED BY <1>1, <1>6, <1>7, <1>8

\* A return starts where it says, however long the histories and the windows are, and
\* whatever order and moments the ticks come with (BtcState.record, _advance_minute_bar,
\* backfill_minute_bars, MarketState.mid_change_bps).
THEOREM ReturnsRight == FeedSpec => []ReturnsStartRight
<1>1. FeedsSound => ReturnsStartRight
  BY SamplesStartRight, BarsStartRight, MidsStartRight DEF ReturnsStartRight
<1> QED BY <1>1, FeedsBegin, FeedsKeep, PTL DEF FeedSpec
=============================================================================
