------------------------------ MODULE MCSignals ------------------------------
(* The instance for TLC of what the daemon makes of the market: the books   *)
(* with their fills, the price histories, and the decisions.  They share no *)
(* variable, so that each moves while the others wait at their start: what  *)
(* is checked is the three state spaces one after the other.  Volatility is *)
(* high beyond 50 bp, a trade has 40 dollars; the settings are the baseline *)
(* and three that turn on the gates, the inversions, and the maker routes.  *)
EXTENDS MarketBook, Feeds, Decisions, TLC

VARIABLE part       \* the component that moves

SomeSkews == -2..2

BasisPoints == 10000
Normal == (-3 :> 13) @@ (-2 :> 228) @@ (-1 :> 1587) @@ (0 :> 5000) @@ (1 :> 8413) @@ (2 :> 9772) @@ (3 :> 9987)
SomeSeconds == {1000, 400, 20}
Roots == (1000 :> 75) @@ (400 :> 47) @@ (20 :> 11)

Base ==
    [window |-> 900, horizon |-> 1000, times |-> {400}, implied |-> 5000, threshold |-> FALSE,
     longHorizon |-> TRUE, defaultVol |-> 64, tteFloor |-> 5, damping |-> 100, invert |-> FALSE,
     tilt |-> 300, slipBaseline |-> 15, slipCoef |-> 25, fee |-> 0, maxAbsEdge |-> 0,
     trendFilter |-> FALSE, trendMin |-> 30, strongMinEdge |-> 1500, weakMinEdge |-> 600,
     distressedAsk |-> 0, flowGate |-> FALSE, flowMin |-> 30, volFilter |-> FALSE,
     volExtreme |-> 100, volHigh |-> 50, volHighMinEdge |-> 800, perEdge |-> 10, minElapsed |-> 0,
     highRiskTte |-> 15, mediumRiskTte |-> 60, fadePostOnly |-> FALSE,
     shadow |-> "", htfTilt |-> 1000, sessionBias |-> [asia |-> 0, eu |-> 0, us |-> 200, off |-> 0],
     regimeVolHigh |-> 50, regimeTrendMin |-> 30,
     sensitivity |-> 10, fadeInvert |-> FALSE, fadeMinTte |-> 60, fadeMinElapsed |-> 0,
     fadeThreshold |-> 200, costFloor |-> 50, fadeMaxEdge |-> 3000, fadeFlowGate |-> FALSE,
     fadeFlowMin |-> 30, fadePressureGate |-> FALSE, fadePressureMin |-> 10, fadeMaker |-> FALSE,
     pennyAsk |-> 300, pennyMove |-> 25, pennyMinTte |-> 100,
     adaptive |-> FALSE, penny |-> TRUE, adaptiveV2 |-> TRUE, mm |-> FALSE, mmUniverse |-> TRUE,
     model |-> FALSE, minCandle |-> 0, maxCandle |-> 0,
     maxSpread |-> 400, minDepth |-> 200 * One, minEdge |-> 300, minConfidence |-> 6000,
     minEntryTte |-> 0, exitFloor |-> 10, exitShare |-> 0, minEntryPrice |-> 0, maxEntryPrice |-> 0,
     maxPosition |-> 10, maxOpen |-> 1, maxOpenSetting |-> 1, maxNet |-> 50,
     maxDailyLoss |-> 25, maxRejected |-> 5, pennySize |-> 1]

SomeTunings ==
    {Base,
     [Base EXCEPT !.adaptive = TRUE, !.trendFilter = TRUE, !.flowGate = TRUE, !.volFilter = TRUE,
                  !.maxAbsEdge = 3000, !.shadow = "fade_invert_side", !.fee = 100],
     [Base EXCEPT !.invert = TRUE, !.fadeInvert = TRUE, !.flowMin = 0, !.flowGate = TRUE,
                  !.adaptive = TRUE, !.shadow = "htf_tilt", !.minEntryPrice = 500,
                  !.maxEntryPrice = 8000, !.fadePressureGate = TRUE, !.fadeFlowGate = TRUE,
                  !.minCandle = 300, !.maxCandle = 800, !.exitShare = 10],
     [Base EXCEPT !.mm = TRUE, !.fadePostOnly = TRUE, !.fadeMaker = TRUE, !.model = TRUE,
                  !.times = {20}, !.window = 0, !.threshold = TRUE, !.minEntryTte = 100]}
SomeTops ==
    {NoTop,
     [bid |-> 4800, bidSize |-> 900, ask |-> 5000, askSize |-> 600],
     [bid |-> 100, bidSize |-> 900, ask |-> 200, askSize |-> 15000],
     [bid |-> 200, bidSize |-> 900, ask |-> 300, askSize |-> 15000],
     [bid |-> 9700, bidSize |-> 300, ask |-> 9800, askSize |-> 100],
     [bid |-> 9900, bidSize |-> 500, ask |-> 0, askSize |-> 0]}
SomeTrades == {[token |-> "YES", side |-> "SELL"], [token |-> "NO", side |-> "SELL"]}
Calm == [sinceOpen |-> 0, vsStrike |-> 0, return30s |-> 0, return5m |-> 0, return15m |-> 0,
         return1h |-> 0, return4h |-> 0, vol |-> 40, session |-> "asia"]
SomeMoves ==
    {[Calm EXCEPT !.sinceOpen = 60, !.vsStrike = 120, !.return5m = 20, !.return1h = 40, !.return4h = 10],
     [Calm EXCEPT !.sinceOpen = -80, !.return30s = -30, !.return1h = 20, !.return4h = 50, !.session = "us"],
     [Calm EXCEPT !.return15m = -25, !.return1h = -10, !.return4h = -50, !.vol = 60]}
SomeAccounts ==
    {[lost |-> 0, rejected |-> 0, free |-> 100, open |-> 0, net |-> 0],
     [lost |-> 0, rejected |-> 0, free |-> 100, open |-> 0, net |-> 45],
     [lost |-> 30, rejected |-> 9, free |-> 5, open |-> 1, net |-> 0]}
SomeReplies ==
    {[fair |-> 7000, confidence |-> 8000, risk |-> "LOW"], [fair |-> 2000, confidence |-> 8000, risk |-> "LOW"], Malformed}

SignalsInit ==
    /\ part \in {"books", "feeds", "decisions"}
    /\ Init /\ FeedInit /\ DecisionInit
    /\ part # "books" => venue = EmptyBook
    /\ part # "feeds" => now = 0

SignalsNext ==
    /\ UNCHANGED part
    /\ \/ part = "books" /\ Next /\ UNCHANGED <<feedVars, decisionVars>>
       \/ part = "feeds" /\ FeedNext /\ UNCHANGED <<vars, decisionVars>>
       \/ part = "decisions" /\ DecisionNext /\ UNCHANGED <<vars, feedVars>>

SignalsSpec == SignalsInit /\ [][SignalsNext]_<<part, vars, feedVars, decisionVars>>
=============================================================================
