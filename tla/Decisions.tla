------------------------------ MODULE Decisions ------------------------------
(***************************************************************************)
(* A decision tick of the daemon on one market, and the decision of an     *)
(* operator's command.  A tick takes the features of the market and of BTC *)
(* once, makes an evidence packet of them, has it scored by each strategy  *)
(* in turn and lets the risk engine approve, reject or price the entry.    *)
(* An entry that is to rest goes to the follow maker, a held position to   *)
(* its own lifecycle, and the market maker to its quotes.                  *)
(*                                                                         *)
(* The strategies of a tick are separated by awaits.  What they read after *)
(* one is the clock, the account and the universe of the market maker; the *)
(* books, the tape and BTC are read at the start of the tick alone, so     *)
(* that their moves during a tick are those after it.                      *)
(*                                                                         *)
(* Units are those of Scorers.  A book is its best level of each side with *)
(* the shares there, a price of 0 standing for an empty side.              *)
(***************************************************************************)
EXTENDS Scorers, Sequences

CONSTANTS
    Tunings,    \* settings the daemon may be started with
    TopsOfBook, \* books of the YES token
    BtcMoves,   \* returns and volatility of BTC
    Trades,     \* trades that print: the token and its side
    Trade,      \* dollars of a trade
    Accounts,   \* accounts of a strategy's slice
    Replies,    \* replies of the language model
    NoTrade, NoTick, NoTuning

\* Prices of a book quoted on both sides are of the grid of the venue, a cent
\* away from nothing and from 1.00, and its mid is a whole number.
ASSUME DecisionAssumption ==
    /\ NoTuning \notin Tunings
    /\ \A s \in Tunings :
         /\ Tunable(s) /\ Settings \subseteq DOMAIN s
         /\ {s.window, s.implied, s.minEdge} \subseteq Int /\ s.threshold \in BOOLEAN
         /\ \A t \in s.times \cup {s.horizon} : t \in Int /\ Larger(t, s.tteFloor) \in Seconds
    /\ \A b \in TopsOfBook :
         /\ {b.bid, b.bidSize, b.ask, b.askSize} \subseteq Nat
         /\ b.bid > 0 /\ b.ask > 0 =>
              Cent <= b.bid /\ b.bid < b.ask /\ b.ask <= One - Cent /\ (b.bid + b.ask) % 2 = 0
    /\ \A b \in BtcMoves :
         {b.sinceOpen, b.vsStrike, b.return30s, b.return5m, b.return15m, b.return1h, b.return4h,
          b.vol} \subseteq Int
    /\ Trade \in Int

VARIABLES
    tuning,     \* the settings in force
    tops,       \* best levels: token -> book
    tape,       \* the last trade, while in the window of the signed flow
    mids,       \* mid of YES as last sampled and as of thirty seconds ago
    btc,        \* what the BTC state reports
    tte,        \* seconds to the expiry of the market
    quoted,     \* the market is in the universe of the market maker
    tick,       \* what the running tick took at its start
    todo,       \* strategies the tick has yet to run
    decision    \* what the last step decided

decisionVars == <<tuning, tops, tape, mids, btc, tte, quoted, tick, todo, decision>>
inputs       == <<tops, tape, mids, btc>>

-----------------------------------------------------------------------------
(* Features of the books (market_state.py).                                *)

NoTop == [bid |-> 0, bidSize |-> 0, ask |-> 0, askSize |-> 0]

Reflect(b) == [bid |-> IF b.ask > 0 THEN One - b.ask ELSE 0, bidSize |-> b.askSize,
               ask |-> IF b.bid > 0 THEN One - b.bid ELSE 0, askSize |-> b.bidSize]

Quoted(b) == b.bid > 0 /\ b.ask > 0

Mid(b) == IF Quoted(b) THEN (b.bid + b.ask) \div 2 ELSE b.bid + b.ask

Gap(b) == IF Quoted(b) THEN Larger(b.ask - b.bid, 0) ELSE 0

Dollars(b) == b.bid * b.bidSize + b.ask * b.askSize

Imbalance(b) ==
    IF Dollars(b) > 0 THEN Quot(100 * (b.bid * b.bidSize - b.ask * b.askSize), Dollars(b)) ELSE 0

TradeSign(t) == IF (t.token = "YES") = (t.side = "BUY") THEN 1 ELSE -1

SignedFlow == IF tape = NoTrade THEN 0 ELSE TradeSign(tape) * Trade

MidChange ==
    IF mids.reference > 0 THEN Quot((mids.latest - mids.reference) * One, mids.reference) ELSE 0

SampleMid(b) ==
    IF Mid(b) > 0 THEN [latest |-> Mid(b), reference |-> IF mids.reference > 0 THEN mids.reference ELSE Mid(b)]
                  ELSE mids

-----------------------------------------------------------------------------
(* The evidence packet (research.py).                                      *)

PreMarket == tuning.window > 0 /\ tte > tuning.window

Elapsed == IF tuning.window > 0 THEN Larger(0, tuning.window - tte) ELSE 0

(* build_from_features, from the streams.                                  *)
FeaturePacket ==
    [askYes |-> tops.YES.ask, askNo |-> tops.NO.ask, bidYes |-> tops.YES.bid, bidNo |-> tops.NO.bid,
     mid |-> IF Mid(tops.YES) > 0 THEN Mid(tops.YES) ELSE tuning.implied,
     spread |-> Gap(tops.YES), imbalance |-> Imbalance(tops.YES),
     flow |-> SignedFlow, change |-> MidChange, marketProbability |-> tuning.implied,
     tte |-> tte, elapsed |-> Elapsed, preMarket |-> PreMarket,
     sinceOpen |-> IF Elapsed > 0 THEN btc.sinceOpen ELSE 0,
     vsStrike |-> IF tuning.threshold THEN btc.vsStrike ELSE 0,
     return30s |-> btc.return30s, return5m |-> btc.return5m, return15m |-> btc.return15m,
     return1h |-> btc.return1h, return4h |-> btc.return4h,
     vol |-> btc.vol, session |-> btc.session]

(* build_evidence_packet, from one answer of the venue for the YES book.   *)
AnswerPacket(b) ==
    LET half == Gap(b) \div 2
        mid  == Mid(b)
    IN  [askYes |-> IF mid > 0 THEN Smaller(One - Mill, mid + half) ELSE 0,
         bidYes |-> IF mid > 0 THEN Larger(Mill, mid - half) ELSE 0,
         askNo  |-> IF mid > 0 THEN Smaller(One - Mill, One - mid + half) ELSE 0,
         bidNo  |-> IF mid > 0 THEN Larger(Mill, One - mid - half) ELSE 0,
         mid |-> mid, spread |-> Gap(b), imbalance |-> 0, flow |-> 0,
         change |-> mid - tuning.implied, marketProbability |-> tuning.implied,
         tte |-> tte, elapsed |-> 0, preMarket |-> FALSE, sinceOpen |-> 0, vsStrike |-> 0,
         return30s |-> 0, return5m |-> 0, return15m |-> 0, return1h |-> 0, return4h |-> 0,
         vol |-> 0, session |-> "off"]

-----------------------------------------------------------------------------
(* The risk engine (risk.py).                                              *)

(* The order book the daemon hands to the risk engine has the NO ask of    *)
(* the streams, the one of a command has none.                             *)
DaemonBook(p) == [bid |-> p.bidYes, ask |-> p.askYes, askNo |-> p.askNo, spread |-> p.spread]
AnswerBook(b) == [bid |-> b.bid, ask |-> b.ask, askNo |-> 0, spread |-> Gap(b)]

ExitBuffer(s) ==
    LET share == IF s.window > 0 THEN Quot(s.exitShare * s.window, 100) ELSE 0
    IN  Larger(s.exitFloor, share)

BreachesNetCap(s, side, account) ==
    /\ side # "ABSTAIN"
    /\ Abs(account.net + (IF side = "YES" THEN s.maxPosition ELSE -s.maxPosition)) > s.maxNet

EntryPriceRefused(s, ask) ==
    /\ ask > 0
    /\ \/ s.minEntryPrice > 0 /\ ask < s.minEntryPrice
       \/ s.maxEntryPrice > 0 /\ ask > s.maxEntryPrice

(* The ask of the entry-price gates is that of NO for an abstention, too.  *)
Refused(s, book, depth, toExpiry, v, account) ==
    \/ account.lost >= s.maxDailyLoss
    \/ account.rejected >= s.maxRejected
    \/ book.spread > s.maxSpread
    \/ depth < s.minDepth
    \/ toExpiry <= ExitBuffer(s)
    \/ s.minEntryTte > 0 /\ toExpiry < s.minEntryTte
    \/ v.confidence < s.minConfidence
    \/ Abs(v.edge) < s.minEdge
    \/ EntryPriceRefused(s, IF v.side = "YES" THEN book.ask ELSE book.askNo)
    \/ account.free < s.maxPosition
    \/ account.open >= s.maxOpen
    \/ BreachesNetCap(s, v.side, account)

\* Slip: an entry of either side is priced at the YES ask.
LimitOfYes(book, side) == book.ask

EntryLimit(book, side) == IF side = "YES" THEN book.ask ELSE Larger(One - book.bid, Cent)

Nothing(by, why) == [by |-> by, outcome |-> why, side |-> "ABSTAIN", limit |-> 0, size |-> 0, from |-> NoTick]

DecideTrade(s, by, from, book, depth, toExpiry, v, account) ==
    IF Refused(s, book, depth, toExpiry, v, account) THEN Nothing(by, "REJECTED")
    ELSE IF v.side = "ABSTAIN" THEN Nothing(by, "ABSTAIN")
    ELSE [by |-> by, outcome |-> "APPROVED", side |-> v.side, limit |-> EntryLimit(book, v.side),
          size |-> s.maxPosition, from |-> from]

-----------------------------------------------------------------------------
(* The market, BTC and the clock.                                          *)

Start(s) ==
    /\ tuning = NoTuning
    /\ tuning' = s /\ tte' = s.horizon
    /\ UNCHANGED <<inputs, quoted, tick, todo, decision>>

Idle == tuning # NoTuning /\ todo = <<>>

\* A snapshot or a change of the YES book; the NO book follows it or lags.
BookMoves(b, follows) ==
    /\ Idle /\ b # tops.YES
    /\ tops' = [YES |-> b, NO |-> IF follows THEN Reflect(b) ELSE tops.NO]
    /\ mids' = SampleMid(b)
    /\ decision' = Nothing("", "")
    /\ UNCHANGED <<tuning, tape, btc, tte, quoted, tick, todo>>

TradePrints(t) ==
    /\ Idle /\ tape = NoTrade
    /\ tape' = t
    /\ decision' = Nothing("", "")
    /\ UNCHANGED <<tuning, tops, mids, btc, tte, quoted, tick, todo>>

BtcTicks(b) ==
    /\ Idle /\ b # btc
    /\ btc' = b
    /\ decision' = Nothing("", "")
    /\ UNCHANGED <<tuning, tops, tape, mids, tte, quoted, tick, todo>>

\* Time passes in steps longer than the windows of the flow and the change.
TimePasses ==
    /\ tuning # NoTuning
    /\ \E t \in tuning.times : t < tte /\ tte' = t
    /\ tape' = NoTrade
    /\ mids' = [mids EXCEPT !.reference = mids.latest]
    /\ decision' = Nothing("", "")
    /\ UNCHANGED <<tuning, tops, btc, quoted, tick, todo>>

\* The scanner of the market maker's universe takes the market in or out.
UniverseScan ==
    /\ tuning # NoTuning /\ tuning.mm /\ tuning.mmUniverse
    /\ quoted' = ~quoted
    /\ decision' = Nothing("", "")
    /\ UNCHANGED <<tuning, inputs, tte, tick, todo>>

-----------------------------------------------------------------------------
(* A decision tick (run.py).                                               *)

(* _build_strategies: in this order.                                       *)
Strategies(s) ==
    <<"fade">> \o (IF s.adaptive THEN <<"adaptive">> ELSE <<>>)
               \o (IF s.penny THEN <<"penny">> ELSE <<>>)
               \o (IF s.adaptiveV2 THEN <<"adaptive_v2">> ELSE <<>>)
               \o (IF s.mm THEN <<"market_maker">> ELSE <<>>)

\* The universes are told apart at the strategy's turn and only when the
\* market maker has one of its own.
InUniverse(s, strategy) ==
    s.mm /\ s.mmUniverse => (strategy = "market_maker") = quoted

Verdict(strategy, t) ==
    CASE strategy = "fade"        -> t.fade
      [] strategy = "adaptive"    -> AdaptiveVerdict(tuning, t.packet)
      [] strategy = "adaptive_v2" -> OverreactionVerdict(tuning, t.packet)
      [] strategy = "penny"       -> PennyVerdict(tuning, t.packet)

StartDecision ==
    /\ Idle
    /\ LET live == QuantVerdict(tuning, FeaturePacket)
       IN  tick' = [packet |-> FeaturePacket, fade |-> live,
                    shadow |-> Shadow(tuning, FeaturePacket, live)]
    /\ todo' = Strategies(tuning)
    /\ decision' = Nothing("", "")
    /\ UNCHANGED <<tuning, inputs, tte, quoted>>

CandleWindowBlocks(s, p) ==
    /\ s.window > 0
    /\ \/ s.minCandle > 0 /\ p.elapsed < s.minCandle
       \/ s.maxCandle > 0 /\ p.elapsed > s.maxCandle

(* _paper_execute_for_strategy, of a strategy without a position.          *)
Directional(strategy, account, cooling) ==
    LET v == Verdict(strategy, tick)
        p == tick.packet
    IN  IF v.tag = "maker" THEN Nothing(strategy, "rests")
        ELSE IF cooling \/ CandleWindowBlocks(tuning, p) THEN Nothing(strategy, "waits")
        ELSE DecideTrade(tuning, strategy, tick, DaemonBook(p), Dollars(tops.YES), tte, v, account)

(* _handle_penny_strategy, without a position: no risk engine.             *)
Penny(account) ==
    LET v == Verdict("penny", tick)
    IN  IF v.side = "ABSTAIN" THEN Nothing("penny", "ABSTAIN")
        ELSE IF tuning.maxOpenSetting > 0 /\ account.open >= tuning.maxOpenSetting THEN Nothing("penny", "waits")
        ELSE IF tuning.pennySize <= 0 THEN Nothing("penny", "waits")
        ELSE [by |-> "penny", outcome |-> "APPROVED", side |-> v.side,
              limit |-> AskOf(tick.packet, v.side), size |-> tuning.pennySize, from |-> tick]

Bookless == tops.YES.bid = 0 /\ tops.YES.ask = 0

\* The tick's next strategy: passed over outside of its universe, without a
\* book, or managing what it holds.
RunStrategy ==
    /\ todo # <<>>
    /\ todo' = Tail(todo)
    /\ LET strategy == Head(todo)
       IN  \/ /\ ~InUniverse(tuning, strategy)
              /\ decision' = Nothing(strategy, "passes")
           \/ /\ InUniverse(tuning, strategy) /\ strategy = "market_maker"
              /\ decision' = Nothing(strategy, "quotes")
           \/ /\ InUniverse(tuning, strategy) /\ strategy # "market_maker"
              /\ IF Bookless THEN decision' = Nothing(strategy, "bookless")
                 ELSE \/ decision' = Nothing(strategy, "manages")
                      \/ \E account \in Accounts :
                           IF strategy = "penny" THEN decision' = Penny(account)
                           ELSE \E cooling \in BOOLEAN :
                                  decision' = Directional(strategy, account, cooling)
    /\ tick' = IF todo' = <<>> THEN NoTick ELSE tick
    /\ UNCHANGED <<tuning, inputs, tte, quoted>>

(* An operator's command: _prepare_trade on an answer of the venue, scored *)
(* by the language model where a key is set and by the quant scorer where  *)
(* none is.                                                                *)
OperatorDecides(account, reply) ==
    /\ Idle
    /\ LET p == AnswerPacket(tops.YES)
           v == IF tuning.model THEN ModelVerdict(tuning, p, reply) ELSE QuantVerdict(tuning, p)
       IN  decision' = DecideTrade(tuning, IF tuning.model THEN "model" ELSE "operator",
                                   [packet |-> p, fade |-> v, shadow |-> NoShadow],
                                   AnswerBook(tops.YES), Dollars(tops.YES), tte, v, account)
    /\ UNCHANGED <<tuning, inputs, tte, quoted, tick, todo>>

DecisionInit ==
    /\ tuning = NoTuning /\ tops = [YES |-> NoTop, NO |-> NoTop]
    /\ tape = NoTrade /\ mids = [latest |-> 0, reference |-> 0]
    /\ btc = [sinceOpen |-> 0, vsStrike |-> 0, return30s |-> 0, return5m |-> 0, return15m |-> 0,
              return1h |-> 0, return4h |-> 0, vol |-> 0, session |-> "off"]
    /\ tte = 0 /\ quoted = FALSE /\ tick = NoTick /\ todo = <<>>
    /\ decision = Nothing("", "")

DecisionNext ==
    \/ \E s \in Tunings : Start(s)
    \/ \E b \in TopsOfBook, follows \in BOOLEAN : BookMoves(b, follows)
    \/ \E t \in Trades : TradePrints(t)
    \/ \E b \in BtcMoves : BtcTicks(b)
    \/ TimePasses \/ UniverseScan \/ StartDecision \/ RunStrategy
    \/ \E account \in Accounts, reply \in Replies : OperatorDecides(account, reply)

DecisionSpec == DecisionInit /\ [][DecisionNext]_decisionVars

-----------------------------------------------------------------------------
(* Properties.                                                             *)

DearerBy == {Cent, 5 * Cent}
Dearer(s, fee) == [s EXCEPT !.fee = @ + fee]

Scored == tick # NoTick

\* Costs only take trades away: with a higher fee the fair-value scorer and
\* its regime-gated wrapper keep their side or stay out of a market they
\* would have entered, and never turn to the other side; what they enter
\* only then is an edge that was above the ceiling before
\* (QuantScoringEngine._edge_breakdown, _pick_side, _regime_gate).
CostsOnlyRemove ==
    Scored => \A fee \in DearerBy :
      LET p == tick.packet
          v == QuantVerdict(tuning, p)
      IN  \/ BeyondCeiling(tuning.maxAbsEdge, v.edge)
          \/ /\ AgreesOrAbstains(v, QuantVerdict(Dearer(tuning, fee), p))
             /\ AgreesOrAbstains(AdaptiveVerdict(tuning, p), AdaptiveVerdict(Dearer(tuning, fee), p))

\* Neither side of a market is favoured: what was said for YES said for NO
\* gives the mirrored verdict, of every scorer, on a market with an ask for
\* both sides and a trade or a least flow to tell the flow by, unless both
\* edges are the same or both sides cost next to nothing
\* (QuantScoringEngine, AdaptiveScorer, OverreactionScorer, PennyScorer).
VerdictsMirror ==
    LET p == tick.packet m == Mirrored(tick.packet) IN
    Scored /\ p.askYes > 0 /\ p.askNo > 0 /\ p.mid \in 1..(One - 1) =>
      /\ (p.flow # 0 \/ tuning.flowMin > 0) /\ ~Undecided(QuantVerdict(tuning, p)) =>
           /\ QuantVerdict(tuning, m) = MirroredVerdict(QuantVerdict(tuning, p))
           /\ AdaptiveVerdict(tuning, m) = MirroredVerdict(AdaptiveVerdict(tuning, p))
      /\ OverreactionVerdict(tuning, m) = MirroredVerdict(OverreactionVerdict(tuning, p))
      /\ ~(Cheap(tuning, p.askYes) /\ Cheap(tuning, p.askNo)) =>
           PennyVerdict(tuning, m) = MirroredVerdict(PennyVerdict(tuning, p))

FairOf(v, side) == IF side = "YES" THEN v.fair ELSE One - v.fair

\* An edge that was approved is there at the price the order is sent with:
\* the fair value of the side less that limit, slippage and the fee is at
\* least the profile's edge, although the scorer reads the NO ask of the
\* NO book and the risk engine derives the limit from the YES bid.  A
\* command reads one book, a tick two: an entry of it into NO is promised
\* only while the NO book has no ask or none below what the YES bid gives
\* it.  A cheaper one, which a NO book behind its YES book has, is an edge
\* the limit does not have (QuantScoringEngine.score_market,
\* RiskEngine.decide_trade).
ApprovedEdgeIsReal ==
    LET d == decision
        v == IF d.by = "adaptive" THEN Verdict(d.by, d.from) ELSE d.from.fade
    IN
    /\ d.outcome = "APPROVED" /\ d.by \in {"fade", "adaptive", "operator"}
    /\ Quoted(tops.YES)
    /\ d.by = "operator" \/ d.side = "YES" \/ tops.NO.ask \notin 1..(One - tops.YES.bid - 1)
    => FairOf(v, d.side) - d.limit - SlippageBps(tuning, d.from.packet) - tuning.fee >= tuning.minEdge
=============================================================================
