-------------------------------- MODULE Feeds --------------------------------
(***************************************************************************)
(* The price histories that returns are computed from: the samples and     *)
(* minute bars of BTC and the mids of a market.  A price is known by the   *)
(* moment it is of, so that a return is known by the two moments it is     *)
(* between, and a wrong one by the moment its reference is of.             *)
(*                                                                         *)
(* BTC starts with a price asked for over REST, goes on with the minute    *)
(* bars of the last day and then follows the stream, which may break at    *)
(* any time.  Its ticks carry a moment of the exchange or of the daemon    *)
(* and may so come out of order.  The samples are thinned, the bars are    *)
(* kept of every tick.  The stream and the venue are external.             *)
(***************************************************************************)
EXTENDS Integers, Sequences, SequencesExt

CONSTANTS
    Minute,     \* moments in a minute
    Apart,      \* min_record_interval_seconds
    MaxSamples, \* samples kept
    MaxBars,    \* minute bars kept
    Lag,        \* how far behind the clock the moment of a tick may be
    MidsKept,   \* mid_history_window_seconds
    MidsMax,    \* mid_history_max
    TickSpans,  \* windows of the returns over samples and mids
    BarSpans,   \* windows of the returns over minute bars, in minutes
    MaxTime,    \* bound: moments
    MaxTicks,   \* bound: ticks of the stream
    MaxMids,    \* bound: changes of the book that sample a mid
    Unset

ASSUME FeedAssumption ==
    /\ {Minute, Apart, MaxSamples, MaxBars, MidsMax} \subseteq Nat \ {0}
    /\ {Lag, MidsKept, MaxTime, MaxTicks, MaxMids} \subseteq Nat
    /\ TickSpans \subseteq Nat \ {0} /\ BarSpans \subseteq Nat \ {0}
    /\ Unset \notin [minute : Int, at : Int]

VARIABLES
    now,
    stage,      \* _btc_loop: "seed", "klines", "backfill", "connect", "stream"
    fetched,    \* klines under way to the backfill
    samples,    \* moments of the samples, oldest first
    bars,       \* finalised minute bars: the minute and the moment of its close
    current,    \* the bar of the open minute
    midsKept,   \* moments of the mids, oldest first
    heard,      \* history: what came in order, by samples, bars and mids, and
                \* the minutes the fetched bars and the first open one share
    ticks, midCount

feedVars == <<now, stage, fetched, samples, bars, current, midsKept, heard, ticks, midCount>>
btcVars  == <<stage, fetched, samples, bars, current, heard, ticks>>

MinuteOf(t) == t \div Minute
Bar(m, t)   == [minute |-> m, at |-> t]

Newest(s, n) == SubSeq(s, Max({1, Len(s) - n + 1}), Len(s))      \* deque(maxlen=n)

-----------------------------------------------------------------------------
(* BtcState.                                                               *)

\* Slip: a tick of an earlier minute opens that minute again.
AdvanceBarEither(t) ==
    IF current = Unset \/ MinuteOf(t) = current.minute
    THEN current' = Bar(MinuteOf(t), t) /\ bars' = bars
    ELSE current' = Bar(MinuteOf(t), t) /\ bars' = Newest(Append(bars, current), MaxBars)

AdvanceBar(t) ==
    IF current = Unset \/ MinuteOf(t) = current.minute
    THEN current' = Bar(MinuteOf(t), t) /\ bars' = bars
    ELSE IF MinuteOf(t) < current.minute
    THEN UNCHANGED <<bars, current>>
    ELSE current' = Bar(MinuteOf(t), t) /\ bars' = Newest(Append(bars, current), MaxBars)

TooClose(t) == samples # <<>> /\ t - Last(samples) < Apart

\* record: the bars take every tick, the samples those far enough apart.
Record(t) ==
    /\ AdvanceBar(t)
    /\ samples' = IF TooClose(t) THEN samples ELSE Newest(Append(samples, t), MaxSamples)
    /\ heard' = [ticks   |-> IF samples = <<>> \/ t >= Last(samples) THEN heard.ticks \cup {t} ELSE heard.ticks,
                 minutes |-> IF current = Unset \/ MinuteOf(t) >= current.minute
                             THEN heard.minutes \cup {MinuteOf(t)} ELSE heard.minutes,
                 seam    |-> IF current = Unset /\ bars # <<>>
                             THEN MinuteOf(t)..Last(bars).minute ELSE heard.seam,
                 mids    |-> heard.mids]

-----------------------------------------------------------------------------
(* _btc_loop.                                                              *)

\* rest_price, stamped by the daemon, or no answer.
SeedPrice ==
    /\ stage = "seed"
    /\ stage' = "klines"
    /\ \/ Record(now)
       \/ UNCHANGED <<samples, bars, current, heard>>
    /\ UNCHANGED <<now, fetched, midsKept, ticks, midCount>>

Close(m) == IF m = MinuteOf(now) THEN now ELSE (m + 1) * Minute - 1

\* rest_klines: the bars up to that of the open minute, as many of them as
\* its pages were answered for.
FetchKlines ==
    /\ stage = "klines"
    /\ stage' = "backfill"
    /\ \E k \in 0..MaxBars :
          fetched' = [i \in 1..k |-> Bar(MinuteOf(now) - k + i, Close(MinuteOf(now) - k + i))]
    /\ UNCHANGED <<now, samples, bars, current, midsKept, heard, ticks, midCount>>

\* backfill_minute_bars: in place of the bars there are; the open minute stays.
Backfill ==
    /\ stage = "backfill"
    /\ stage' = "connect"
    /\ bars' = fetched /\ fetched' = <<>>
    /\ heard' = [heard EXCEPT !.minutes = @ \cup {fetched[i].minute : i \in DOMAIN fetched},
                              !.seam = IF current = Unset \/ fetched = <<>> THEN {}
                                       ELSE current.minute..Last(fetched).minute]
    /\ UNCHANGED <<now, samples, current, midsKept, ticks, midCount>>

Subscribe ==
    /\ stage = "connect"
    /\ stage' = "stream"
    /\ UNCHANGED <<now, fetched, samples, bars, current, midsKept, heard, ticks, midCount>>

Break ==
    /\ stage = "stream"
    /\ stage' = "connect"
    /\ UNCHANGED <<now, fetched, samples, bars, current, midsKept, heard, ticks, midCount>>

\* A quote has the moment it is read at, a trade the one it was made at.
Receive ==
    /\ stage = "stream" /\ ticks < MaxTicks
    /\ \E t \in Max({0, now - Lag})..now : Record(t)
    /\ ticks' = ticks + 1
    /\ UNCHANGED <<now, stage, fetched, midsKept, midCount>>

-----------------------------------------------------------------------------
(* MarketState: the mids of the YES book, sampled at each of its changes.  *)

\* The oldest mids go, one for the new one when there is no room left, and
\* all that the window has passed.
FromFirst(s, since) == SubSeq(s, Min({i \in DOMAIN s : s[i] >= since}), Len(s))

SampleOfMid ==
    /\ midCount < MaxMids
    /\ midsKept' = FromFirst(Newest(Append(midsKept, now), MidsMax), now - MidsKept)
    /\ heard' = [heard EXCEPT !.mids = @ \cup {now}]
    /\ midCount' = midCount + 1
    /\ UNCHANGED <<now, stage, fetched, samples, bars, current, ticks>>

Age ==
    /\ now < MaxTime
    /\ now' = now + 1
    /\ UNCHANGED <<btcVars, midsKept, midCount>>

FeedInit ==
    /\ now \in 0..(Minute - 1)
    /\ stage = "seed" /\ fetched = <<>> /\ samples = <<>> /\ bars = <<>> /\ current = Unset
    /\ midsKept = <<>> /\ heard = [ticks |-> {}, minutes |-> {}, seam |-> {}, mids |-> {}]
    /\ ticks = 0 /\ midCount = 0

FeedNext ==
    SeedPrice \/ FetchKlines \/ Backfill \/ Subscribe \/ Break \/ Receive \/ SampleOfMid \/ Age

FeedSpec == FeedInit /\ [][FeedNext]_feedVars

-----------------------------------------------------------------------------
(* What the returns refer to.                                              *)

NewestUpTo(s, t) ==
    LET before == {i \in DOMAIN s : s[i] <= t} IN IF before = {} THEN 0 ELSE Max(before)

\* log_return_over: the newest sample before the window, or the oldest there is.
SampleReference(span) == samples[Max({1, NewestUpTo(samples, now - span)})]

\* mid_change_bps.
MidReference(span) == midsKept[Max({1, NewestUpTo(midsKept, now - span)})]

\* log_return_over_minutes: of the bars, the last one that had opened by then.
BarReference(span) ==
    LET opened == {i \in DOMAIN bars : bars[i].minute * Minute <= now - span * Minute}
    IN  IF opened = {} THEN Unset ELSE bars[Max(opened)]

-----------------------------------------------------------------------------
(* Properties.                                                             *)

\* A return starts where it says.  Over samples, its reference is no older
\* than the newest price heard in order before the window, but for the
\* thinning; over minute bars it is of the very minute an hour or a day ago
\* when that minute was heard or fetched, except that in the minutes between
\* the opening of the first bar and the fetch one may stand for another, and
\* that a stream silent for the whole span leaves the last minute it heard
\* open, and the one closed before it is taken; of the mids it is the newest
\* before the window that the last change of the book did not find too old
\* or one too many.  Ticks out of order, a broken stream, bars fetched late
\* or in part and full histories do not move it
\* (BtcState.record, _advance_minute_bar, backfill_minute_bars,
\* MarketState.mid_change_bps, _btc_loop).
ReturnsStartRight ==
    /\ \A span \in TickSpans :
         samples # <<>> /\ Head(samples) <= now - span =>
           /\ SampleReference(span) <= now - span
           /\ \A t \in heard.ticks : t <= now - span => t - SampleReference(span) < Apart
    /\ \A span \in BarSpans :
         LET m == MinuteOf(now - span * Minute) r == BarReference(span)
         IN  r # Unset /\ current # Unset /\ m \in heard.minutes =>
               \/ r.minute = m \/ current.minute <= m
               \/ {m, r.minute} \subseteq heard.seam
    /\ \A span \in TickSpans, t \in heard.mids :
         t <= now - span /\ t >= Last(midsKept) - MidsKept /\ (Len(midsKept) < MidsMax \/ Head(midsKept) <= t) =>
           MidReference(span) \in t..(now - span)
=============================================================================
