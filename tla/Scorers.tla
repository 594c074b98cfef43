------------------------------- MODULE Scorers -------------------------------
(***************************************************************************)
(* The scorers of the directional strategies.  Each is a function of one   *)
(* evidence packet and its settings that proposes a side of the market or  *)
(* abstains: the fair-value scorer (quant) with its gates and its shadow,  *)
(* the regime-gated wrapper of it (adaptive), the fade of overreactions    *)
(* (adaptive_v2), the tail buyer (penny) and the language model.           *)
(*                                                                         *)
(* Prices, edges, probabilities and log-returns are integers in units of   *)
(* 1/One of 1.00 (a basis point when One is 10000), volatilities are all   *)
(* per half hour, a book imbalance and a coefficient are in per cent.      *)
(* Reasons, which are wording, are left out.                               *)
(***************************************************************************)
EXTENDS Integers

CONSTANTS
    One,        \* a price of 1.00
    ZMax,       \* Cdf is flat beyond -ZMax..ZMax
    Cdf,        \* the normal distribution function of a whole number
    Seconds,    \* the seconds to expiry that occur
    RootTime,   \* of those, the share of a half hour's deviation, in per cent
    Malformed   \* a reply of the language model that is not of the shape asked for

ASSUME ScaleAssumption ==
    /\ One \in Nat /\ One > 0 /\ One % 1000 = 0
    /\ ZMax \in Nat
    /\ Cdf \in [(-ZMax)..ZMax -> Int]
    /\ \A z \in (-ZMax)..ZMax : Cdf[-z] = One - Cdf[z]
    /\ Seconds \subseteq Nat
    /\ RootTime \in [Seconds -> Nat \ {0}]

Cent == One \div 100
Mill == One \div 1000
Even == One \div 2

Sides == {"YES", "NO"}
Abs(x) == IF x < 0 THEN -x ELSE x
Larger(x, y) == IF x >= y THEN x ELSE y
Smaller(x, y) == IF x <= y THEN x ELSE y
Clamp(x, low, high) == Larger(low, Smaller(high, x))
Quot(x, y) == IF x > 0 THEN x \div y ELSE IF x < 0 THEN -((-x) \div y) ELSE 0

\* What packets and settings are made of.
Settings ==
    {"defaultVol", "damping", "tilt", "slipBaseline", "slipCoef", "fee", "tteFloor", "longHorizon",
     "invert", "minElapsed", "trendFilter", "trendMin", "strongMinEdge", "weakMinEdge",
     "distressedAsk", "flowGate", "flowMin", "volFilter", "volExtreme", "volHigh",
     "volHighMinEdge", "maxAbsEdge", "regimeVolHigh", "regimeTrendMin", "sensitivity",
     "fadeThreshold", "fadeFlowMin", "fadePressureMin", "fadeInvert", "costFloor", "pennyAsk",
     "pennyMove"}
Evidence(p) ==
    /\ {p.askYes, p.askNo, p.bidYes, p.bidNo, p.mid, p.spread, p.imbalance, p.flow, p.change,
        p.sinceOpen, p.vsStrike, p.return30s, p.return5m, p.return15m, p.return1h, p.return4h,
        p.vol} \subseteq Int
    /\ p.preMarket \in BOOLEAN
Tunable(s) ==
    /\ {s.defaultVol, s.damping, s.tilt, s.slipBaseline, s.slipCoef, s.fee,
        s.trendMin, s.strongMinEdge, s.weakMinEdge, s.flowMin, s.volHighMinEdge,
        s.sensitivity, s.fadeThreshold, s.fadeFlowMin, s.fadePressureMin,
        s.pennyAsk, s.pennyMove} \subseteq Int
    /\ s.costFloor \in Nat
    /\ {s.longHorizon, s.invert, s.fadeInvert} \subseteq BOOLEAN

Other(side) == IF side = "YES" THEN "NO" ELSE IF side = "NO" THEN "YES" ELSE side

-----------------------------------------------------------------------------
(* The fair value of YES (quant_scoring.py).                               *)

DriftLogReturn(s, p) ==
    IF p.preMarket        THEN 0
    ELSE IF p.sinceOpen # 0 THEN p.sinceOpen
    ELSE IF p.vsStrike # 0  THEN p.vsStrike
    ELSE IF s.longHorizon /\ p.return15m # 0 THEN p.return15m
    ELSE IF p.return5m # 0  THEN p.return5m
    ELSE p.return15m

Sigma(s, p) == IF p.vol > 0 THEN p.vol ELSE s.defaultVol

ExpectedStdev(s, p) == Sigma(s, p) * RootTime[Larger(p.tte, s.tteFloor)]

Tilt(s, p) == Quot(Clamp(p.imbalance, -100, 100) * s.tilt, 100)

FairValue(s, p) ==
    LET drift == DriftLogReturn(s, p)
        stdev == ExpectedStdev(s, p)
        z     == IF stdev > 0 THEN Clamp(Quot(drift * s.damping, stdev), -ZMax, ZMax) ELSE 0
        fair  == IF drift # 0 THEN Cdf[z] ELSE Even
    IN  Clamp((IF s.invert THEN One - fair ELSE fair) + Tilt(s, p), Cent, One - Cent)

(* The edges of both sides after costs, at the ask each would pay.         *)

Spread(p) == Larger(p.spread, 0)

EffectiveAskYes(p) ==
    IF p.askYes > 0 THEN p.askYes
    ELSE IF p.mid > 0 THEN Smaller(One - Mill, p.mid + Spread(p) \div 2)
    ELSE One

EffectiveAskNo(p) ==
    IF p.askNo > 0 THEN p.askNo
    ELSE IF p.bidYes > 0 THEN Clamp(One - p.bidYes, Mill, One - Mill)
    ELSE IF p.mid > 0 THEN Smaller(One - Mill, One - p.mid + Spread(p) \div 2)
    ELSE One

SlippageBps(s, p) == s.slipBaseline + Quot(Spread(p) * s.slipCoef, 100)

\* Slip: the fee is taken for a rebate.
EdgesRebated(s, p, fair) ==
    LET cost == SlippageBps(s, p) - s.fee
    IN  [YES |-> fair - EffectiveAskYes(p) - cost,
         NO  |-> One - fair - EffectiveAskNo(p) - cost]

EdgeBreakdown(s, p, fair) ==
    LET cost == SlippageBps(s, p) + s.fee
    IN  [YES |-> fair - EffectiveAskYes(p) - cost,
         NO  |-> One - fair - EffectiveAskNo(p) - cost]

PickSide(edge) ==
    IF edge.YES <= 0 /\ edge.NO <= 0 THEN "ABSTAIN"
    ELSE IF edge.YES >= edge.NO THEN "YES" ELSE "NO"

Best(edge) == Larger(edge.YES, edge.NO)

-----------------------------------------------------------------------------
(* The gates of the fair-value scorer.                                     *)

CandlePhaseBlocks(least, p) == least > 0 /\ p.elapsed > 0 /\ p.elapsed < least

Trend(s, p) ==
    IF Abs(p.return4h) >= s.trendMin THEN [return |-> p.return4h, strong |-> TRUE]
    ELSE IF Abs(p.return1h) >= s.trendMin THEN [return |-> p.return1h, strong |-> FALSE]
    ELSE [return |-> 0, strong |-> FALSE]

Against(signal, side) == IF side = "YES" THEN signal < 0 ELSE signal > 0

\* Slip: the price of YES whatever the side.
AskOfYes(p, side) == p.askYes

AskOf(p, side) == IF side = "YES" THEN p.askYes ELSE p.askNo

TrendBlocks(s, p, side, edge) ==
    LET t == Trend(s, p)
    IN  /\ s.trendFilter
        /\ Against(t.return, side)
        /\ \/ edge < IF t.strong THEN s.strongMinEdge ELSE s.weakMinEdge
           \/ s.distressedAsk > 0 /\ AskOf(p, side) < s.distressedAsk

(* A flow of nothing is not bullish, so it passes for pressure against YES *)
(* when the least flow the gate looks at is nothing, too.                  *)
FlowBlocks(least, p, side) ==
    /\ Abs(p.flow) >= least
    /\ IF side = "YES" THEN p.flow <= 0 ELSE p.flow > 0

VolBlocks(s, p, edge) ==
    /\ s.volFilter
    /\ \/ p.vol >= s.volExtreme
       \/ p.vol >= s.volHigh /\ edge < s.volHighMinEdge

RegimeGate(s, p, side, edge) ==
    \/ TrendBlocks(s, p, side, edge)
    \/ s.flowGate /\ FlowBlocks(s.flowMin, p, side)
    \/ VolBlocks(s, p, edge)

BeyondCeiling(ceiling, edge) == ceiling > 0 /\ Abs(edge) > ceiling

Confidence(s, p, edge) ==
    LET raw == Even + s.perEdge * edge
    IN  IF edge <= 0 THEN 0
        ELSE Clamp(IF SlippageBps(s, p) > Cent THEN Quot(9 * raw, 10) ELSE raw, 0, One - Cent)

ExpiryRisk(s, p) ==
    IF p.tte <= s.highRiskTte THEN "HIGH"
    ELSE IF p.tte <= s.mediumRiskTte THEN "MEDIUM" ELSE "LOW"

(* QuantScoringEngine.score_market: of what the edges say, a gate takes    *)
(* the edge, too, and the ceiling only the side.                           *)
Gated(s, p, edges) ==
    LET pick == PickSide(edges)
    IN  /\ pick # "ABSTAIN"
        /\ \/ CandlePhaseBlocks(s.minElapsed, p)
           \/ RegimeGate(s, p, pick, Best(edges))

Judge(s, p, fair, edges, gated) ==
    LET pick == PickSide(edges)
        edge == IF gated THEN 0 ELSE Best(edges)
        over == pick # "ABSTAIN" /\ ~gated /\ BeyondCeiling(s.maxAbsEdge, edge)
        side == IF gated \/ over THEN "ABSTAIN" ELSE pick
    IN  [side |-> side, fair |-> fair, edge |-> edge, edges |-> edges,
         confidence |-> IF gated \/ over THEN 0 ELSE Confidence(s, p, edge),
         risk |-> ExpiryRisk(s, p),
         tag  |-> IF s.fadePostOnly /\ side # "ABSTAIN" THEN "maker" ELSE "taker"]

QuantVerdict(s, p) ==
    LET fair  == FairValue(s, p)
        edges == EdgeBreakdown(s, p, fair)
    IN  Judge(s, p, fair, edges, Gated(s, p, edges))

NoShadow == [side |-> "NONE"]

(* QuantScoringEngine.score_shadow: the verdict of the variant that is     *)
(* logged beside the live one and never traded.                            *)
FlippedShadow(s, p, live) ==
    LET fair  == Clamp(One - live.fair, Cent, One - Cent)
        edges == EdgeBreakdown(s, p, fair)
        side  == Other(live.side)
    IN  [live EXCEPT !.side = side, !.fair = fair, !.edges = edges, !.tag = "shadow",
                     !.edge = IF side = "ABSTAIN" THEN 0 ELSE edges[side]]

TiltedShadow(s, p) ==
    LET trend == IF p.return1h > 0 THEN s.htfTilt ELSE IF p.return1h < 0 THEN -s.htfTilt ELSE 0
        tilt  == IF s.shadow = "htf_tilt" THEN trend + s.sessionBias[p.session] ELSE 0
        fair  == Clamp(FairValue(s, p) + tilt, Cent, One - Cent)
        edges == EdgeBreakdown(s, p, fair)
        over  == PickSide(edges) # "ABSTAIN" /\ BeyondCeiling(s.maxAbsEdge, Best(edges))
        edge  == IF over THEN 0 ELSE Best(edges)
    IN  [side |-> IF over THEN "ABSTAIN" ELSE PickSide(edges),
         fair |-> fair, edge |-> edge, edges |-> edges,
         confidence |-> Confidence(s, p, edge), risk |-> ExpiryRisk(s, p), tag |-> "shadow"]

Shadow(s, p, live) ==
    IF s.shadow = "" THEN NoShadow
    ELSE IF s.shadow = "fade_invert_side" THEN FlippedShadow(s, p, live)
    ELSE TiltedShadow(s, p)

-----------------------------------------------------------------------------
(* The regime and the scorer that trades by it (regime.py,                 *)
(* adaptive_scoring.py): outside of ranging and trending markets, and      *)
(* before the candle opens, it holds fire.                                 *)

ClassifyRegime(s, p) ==
    IF p.return1h = 0 /\ p.return4h = 0 THEN "UNKNOWN"
    ELSE IF p.vol >= s.regimeVolHigh THEN "HIGH_VOL"
    ELSE IF Abs(p.return4h) >= s.regimeTrendMin /\ (p.return1h > 0 /\ p.return4h > 0)
         THEN "TRENDING_UP"
    ELSE IF Abs(p.return4h) >= s.regimeTrendMin /\ (p.return1h < 0 /\ p.return4h < 0)
         THEN "TRENDING_DOWN"
    ELSE "RANGING"

HoldFire(v) ==
    [side |-> "ABSTAIN", fair |-> v.fair, edge |-> 0, edges |-> v.edges,
     confidence |-> 0, risk |-> v.risk, tag |-> "taker"]

AdaptiveVerdict(s, p) ==
    LET base == QuantVerdict(s, p)
    IN  IF p.preMarket \/ ClassifyRegime(s, p) \in {"UNKNOWN", "HIGH_VOL"}
        THEN HoldFire(base) ELSE base

-----------------------------------------------------------------------------
(* The fade of overreactions (overreaction_scoring.py).                    *)

Abstention(p, fair) ==
    [side |-> "ABSTAIN", fair |-> fair, edge |-> 0, edges |-> [YES |-> 0, NO |-> 0],
     confidence |-> 0, risk |-> "UNKNOWN", tag |-> "taker"]

OneSided(side, edge) == [YES |-> IF side = "YES" THEN edge ELSE 0,
                         NO  |-> IF side = "NO" THEN edge ELSE 0]

BtcMove(p) == IF p.return30s # 0 THEN p.return30s ELSE p.return5m

Excess(s, p) == p.change - BtcMove(p) * s.sensitivity

FadeSide(s, p) == IF (Excess(s, p) > 0) = s.fadeInvert THEN "YES" ELSE "NO"

PressureBlocks(least, p, side) == least > 0 /\ Abs(p.imbalance) >= least /\ Against(p.imbalance, side)

FadeHolds(s, p) ==
    LET edge == Abs(Excess(s, p)) - s.costFloor
        side == FadeSide(s, p)
    IN  \/ p.preMarket
        \/ p.change = 0 /\ BtcMove(p) = 0
        \/ p.tte < s.fadeMinTte
        \/ CandlePhaseBlocks(s.fadeMinElapsed, p)
        \/ Abs(Excess(s, p)) < s.fadeThreshold
        \/ edge <= 0
        \/ s.fadeMaxEdge > 0 /\ edge > s.fadeMaxEdge
        \/ s.fadeFlowGate /\ s.fadeFlowMin > 0 /\ FlowBlocks(s.fadeFlowMin, p, side)
        \/ s.fadePressureGate /\ PressureBlocks(s.fadePressureMin, p, side)

OverreactionVerdict(s, p) ==
    LET mid  == IF p.mid # 0 THEN p.mid ELSE Even
        size == Abs(Excess(s, p))
        side == FadeSide(s, p)
        edge == size - s.costFloor
    IN  IF FadeHolds(s, p) THEN Abstention(p, mid)
        ELSE [side |-> side, edge |-> edge, edges |-> OneSided(side, edge),
              fair |-> Clamp(IF side = "YES" THEN mid + size ELSE mid - size, Cent, One - Cent),
              confidence |-> 60 * Cent, risk |-> "LOW",
              tag |-> IF s.fadeMaker THEN "maker" ELSE "taker"]

-----------------------------------------------------------------------------
(* The tail buyer (penny_scoring.py): buys the side that costs next to     *)
(* nothing once it has begun to recover.                                   *)

Cheap(s, ask) == ask > 0 /\ ask <= s.pennyAsk

CheapSide(s, p) ==
    IF Cheap(s, p.askNo) THEN "NO" ELSE IF Cheap(s, p.askYes) THEN "YES" ELSE "ABSTAIN"

Recovers(s, p, side) ==
    s.pennyMove > 0 => IF side = "NO" THEN p.change <= -s.pennyMove ELSE p.change >= s.pennyMove

PennyVerdict(s, p) ==
    LET side == CheapSide(s, p)
        edge == Larger(0, One - AskOf(p, side))
    IN  IF p.preMarket \/ p.tte < s.pennyMinTte \/ side = "ABSTAIN" \/ ~Recovers(s, p, side)
        THEN Abstention(p, Even)
        ELSE [side |-> side, fair |-> IF side = "YES" THEN One ELSE 0,
              edge |-> edge, edges |-> OneSided(side, edge),
              confidence |-> 75 * Cent, risk |-> "LOW", tag |-> "penny"]

-----------------------------------------------------------------------------
(* The language model (scoring.py), used by the operator's commands.  Its  *)
(* reply is a probability, a confidence and a side, or not of that shape;  *)
(* the side it names gives way to the sign of its edge over the market.    *)

AlignSide(edge) == IF edge = 0 THEN "ABSTAIN" ELSE IF edge > 0 THEN "YES" ELSE "NO"

ModelVerdict(s, p, reply) ==
    IF reply = Malformed \/ ~({reply.fair, reply.confidence} \subseteq 0..One)
    THEN Abstention(p, p.marketProbability)
    ELSE [side |-> AlignSide(reply.fair - p.marketProbability),
          fair |-> reply.fair, edge |-> reply.fair - p.marketProbability,
          edges |-> EdgeBreakdown(s, p, reply.fair),
          confidence |-> reply.confidence, risk |-> reply.risk, tag |-> "taker"]

-----------------------------------------------------------------------------
(* What the scorers are compared by.                                       *)

(* The packet of the same market with YES and NO exchanged: what it said   *)
(* for the one it says for the other.                                      *)
Mirrored(p) ==
    [askYes |-> p.askNo, askNo |-> p.askYes, bidYes |-> p.bidNo, bidNo |-> p.bidYes,
     mid |-> One - p.mid, marketProbability |-> One - p.marketProbability, spread |-> p.spread,
     imbalance |-> -p.imbalance, flow |-> -p.flow, change |-> -p.change,
     sinceOpen |-> -p.sinceOpen, vsStrike |-> -p.vsStrike, return30s |-> -p.return30s,
     return5m |-> -p.return5m, return15m |-> -p.return15m, return1h |-> -p.return1h,
     return4h |-> -p.return4h, vol |-> p.vol, session |-> p.session,
     tte |-> p.tte, elapsed |-> p.elapsed, preMarket |-> p.preMarket]

MirroredVerdict(v) ==
    [side |-> Other(v.side), fair |-> One - v.fair, edge |-> v.edge,
     edges |-> [YES |-> v.edges.NO, NO |-> v.edges.YES],
     confidence |-> v.confidence, risk |-> v.risk, tag |-> v.tag]

Undecided(v) == v.edges.YES = v.edges.NO /\ v.edges.YES > 0

(* The two verdicts agree on a side, or the second one stays out.          *)
AgreesOrAbstains(v, w) == w.side \in {v.side, "ABSTAIN"}
=============================================================================
