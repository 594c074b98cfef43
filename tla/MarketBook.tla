----------------------------- MODULE MarketBook -----------------------------
(***************************************************************************)
(* The order books of one market as the daemon keeps them, and the prices  *)
(* it makes of them.  A subscription of the market stream delivers the     *)
(* venue's snapshots and level changes of the YES and the NO token in      *)
(* order; the stream may break at any time and starts over with fresh      *)
(* snapshots, and a market that leaves discovery takes its books along.    *)
(* A message of level changes names its token at the top, or inside each   *)
(* change, as in test_polymarket_ws.py: the daemon drops the latter.       *)
(* Entries, exits, resting orders and routed orders are priced from the    *)
(* books as they stand at that moment.                                     *)
(*                                                                         *)
(* Prices are ticks of 1/Ticks; resting orders are priced in fractions of  *)
(* a tick, Units of them.  The venue is external: it mirrors every order   *)
(* of one token as the opposite order of the other at Ticks - price.       *)
(***************************************************************************)
EXTENDS Integers, Sequences, SequencesExt

CONSTANTS
    Ticks,      \* ticks in a price of 1.00
    MaxSize,    \* bound: shares at one level
    MaxMoves,   \* bound: times the venue's book moves
    MaxDrops,   \* bound: breaks of the stream and departures of the market
    Units,      \* fractions of a tick in the price of a resting order
    Half,       \* mm half spread, in Units
    Skews,      \* inventory skews the quoter is given, in half spreads
    Discounts,  \* discounts of a followed order below the mid, in Units
    MinLevel,   \* paper_follow_min_level_size_shares
    Targets     \* order sizes, in shares

ASSUME BookAssumption ==
    /\ {Ticks, MaxSize, Units, Half} \subseteq Nat \ {0}
    /\ Units % 2 = 0
    /\ {MaxMoves, MaxDrops, MinLevel} \subseteq Nat
    /\ Skews \subseteq Int /\ Discounts \subseteq Nat /\ Targets \subseteq Nat \ {0}

VARIABLES
    venue,      \* the venue's book of the YES token
    wire,       \* messages of the subscription on their way to the daemon
    up,         \* the daemon is subscribed
    shape,      \* where level changes name their token on this subscription: "top", "inside"
    begun,      \* history: the venue's book when the subscription began
    books,      \* MarketState: token -> TokenBook
    moves, drops

vars == <<venue, wire, up, shape, begun, books, moves, drops>>

Tokens == {"YES", "NO"}
Prices == 1..(Ticks - 1)
Side   == [Prices -> 0..MaxSize]                  \* no level where the size is 0
Book   == [bids : Side, asks : Side]

Levels(s)  == {p \in Prices : s[p] > 0}
BestBid(b) == Max(Levels(b.bids) \cup {0})
BestAsk(b) == IF Levels(b.asks) = {} THEN 0 ELSE Min(Levels(b.asks))
TwoSided(b) == BestBid(b) > 0 /\ BestAsk(b) > 0
Uncrossed(b) == \A p \in Levels(b.bids), q \in Levels(b.asks) : p < q

NoLevels  == [p \in Prices |-> 0]
EmptyBook == [bids |-> NoLevels, asks |-> NoLevels]
Flip(s)   == [p \in Prices |-> s[Ticks - p]]
Mirror(b) == [bids |-> Flip(b.asks), asks |-> Flip(b.bids)]

-----------------------------------------------------------------------------
(* The stream.  A message is a snapshot of one token's book or the levels  *)
(* of it that changed, each with its side and new size.  Its token is the  *)
(* asset_id at its top, "" where there is none.                            *)

View(t, b) == IF t = "YES" THEN b ELSE Mirror(b)

Snapshot(t, b) == [token |-> t, kind |-> "book", book |-> b]

Changes(old, new) ==
    {[side |-> "BUY", price |-> p, size |-> new.bids[p]] : p \in {q \in Prices : old.bids[q] # new.bids[q]}}
    \cup
    {[side |-> "SELL", price |-> p, size |-> new.asks[p]] : p \in {q \in Prices : old.asks[q] # new.asks[q]}}

PriceChange(t, old, new) ==
    [token |-> t, kind |-> "price_change", changes |-> Changes(View(t, old), View(t, new))]

Unnamed(t, old, new) ==
    [token |-> "", kind |-> "price_change", changes |-> Changes(View(t, old), View(t, new))]

\* What the venue sends of a move: a message for each token, or one for both.
Sent(first, old, new) ==
    LET then == CHOOSE t \in Tokens : t # first
    IN  IF shape = "top" THEN <<PriceChange(first, old, new), PriceChange(then, old, new)>>
        ELSE <<Unnamed(first, old, new)>>

ApplyChange(s, changed) ==
    [p \in Prices |-> IF \E c \in changed : c.price = p
                      THEN (CHOOSE c \in changed : c.price = p).size ELSE s[p]]

ApplyPriceChange(b, changes) ==
    [bids |-> ApplyChange(b.bids, {c \in changes : c.side = "BUY"}),
     asks |-> ApplyChange(b.asks, {c \in changes : c.side = "SELL"})]

\* Slip: a snapshot leaves the levels it does not name.
MergeLevels(b, new) ==
    [bids |-> [p \in Prices |-> IF new.bids[p] > 0 THEN new.bids[p] ELSE b.bids[p]],
     asks |-> [p \in Prices |-> IF new.asks[p] > 0 THEN new.asks[p] ELSE b.asks[p]]]

ReplaceLevels(b, new) == new

OnEvent(b, e) ==
    IF e.kind = "book" THEN ReplaceLevels(b, e.book) ELSE ApplyPriceChange(b, e.changes)

Move ==
    /\ moves < MaxMoves
    /\ \E b \in Book, first \in Tokens :
          /\ Uncrossed(b)
          /\ Cardinality(Changes(venue, b)) \in 1..2
          /\ venue' = b
          /\ wire' = IF up THEN wire \o Sent(first, venue, b) ELSE wire
    /\ moves' = moves + 1
    /\ UNCHANGED <<up, shape, begun, books, drops>>

Connect ==
    /\ ~up
    /\ up' = TRUE
    /\ shape' \in {"top", "inside"} /\ begun' = venue
    /\ wire' = <<Snapshot("YES", venue), Snapshot("NO", Mirror(venue))>>
    /\ UNCHANGED <<venue, books, moves, drops>>

\* A message that names no token at its top is of no market.
After(t, b, e) == IF e.token = t THEN OnEvent(b, e) ELSE b

Deliver ==
    /\ wire # <<>>
    /\ books' = [t \in Tokens |-> After(t, books[t], Head(wire))]
    /\ wire' = Tail(wire)
    /\ UNCHANGED <<venue, up, shape, begun, moves, drops>>

Unsubscribed == up' = FALSE /\ wire' = <<>> /\ shape' = "top" /\ begun' = EmptyBook

\* The connection breaks, or the set of subscribed markets changed and the
\* subscriber is started anew: what was under way is lost, the books stay.
Drop ==
    /\ up /\ drops < MaxDrops
    /\ Unsubscribed /\ drops' = drops + 1
    /\ UNCHANGED <<venue, books, moves>>

\* The market leaves discovery and comes back with a new MarketState.
Relist ==
    /\ drops < MaxDrops
    /\ Unsubscribed /\ drops' = drops + 1
    /\ books' = [t \in Tokens |-> EmptyBook]
    /\ UNCHANGED <<venue, moves>>

Init ==
    /\ venue \in {b \in Book : Uncrossed(b)}
    /\ books = [t \in Tokens |-> EmptyBook]
    /\ wire = <<>> /\ up = FALSE /\ moves = 0 /\ drops = 0
    /\ shape = "top" /\ begun = EmptyBook

Next == Move \/ Connect \/ Deliver \/ Drop \/ Relist

Spec == Init /\ [][Next]_vars

-----------------------------------------------------------------------------
(* Prices made of the books.                                               *)

Bounded(x, lo, hi) == Max({lo, Min({hi, x})})

\* Slip: a NO entry reflects the asks instead of the bids.
EntryUnflipped(side) == IF side = "YES" THEN books["YES"].asks ELSE Flip(books["YES"].asks)

\* The levels a paper entry of a side consumes: the snapshot a strategy is
\* given holds the YES book only, reflected for a NO entry.  (It holds the ten
\* best levels of a side, which is all of it on the grids that are checked.)
EntryLevels(side) ==
    IF side = "YES" THEN books["YES"].asks ELSE Flip(books["YES"].bids)

ExitLevels(side) == books[side].bids

\* Slip: the levels are walked from the worst price.
TakeWorstFirst(levels, buying, n) ==
    LET Ahead(p) == SumFunctionOnSet(levels, {q \in Prices : IF buying THEN q > p ELSE q < p})
    IN  [p \in Prices |-> Min({levels[p], Max({0, n - Ahead(p)})})]

\* What an order of n shares takes of each level, best price first.
Take(levels, buying, n) ==
    LET Better(p) == {q \in Prices : IF buying THEN q < p ELSE q > p}
        Ahead(p)  == SumFunctionOnSet(levels, Better(p))
    IN  [p \in Prices |-> Min({levels[p], Max({0, n - Ahead(p)})})]

Notional(taken) == SumFunction([p \in Prices |-> p * taken[p]])
Filled(taken)   == SumFunction(taken)

EntryFill(side, n) == Take(EntryLevels(side), TRUE, n)
ExitFill(side, n)  == Take(ExitLevels(side), FALSE, n)

\* A stop that rests as a limit order sells all its shares at the limit or
\* better, or none.
NoFill == [p \in Prices |-> 0]
LimitExit(side, n, limit) ==
    LET out == Take([p \in Prices |-> IF p >= limit THEN ExitLevels(side)[p] ELSE 0], FALSE, n)
    IN  IF Filled(out) = n THEN out ELSE NoFill

\* The prices of the levels large enough to count.
Large(levels) == {p \in Levels(levels) : levels[p] >= MinLevel}

\* The best price of those, or of the side when no level is that large.
Quote(levels, best, buying) ==
    IF Large(levels) = {} THEN best ELSE IF buying THEN Max(Large(levels)) ELSE Min(Large(levels))

\* maker_limit_price of a followed order, 0 where the book does not allow one.
FollowLimit(side, discount) ==
    LET b   == books[side]
        bid == Quote(b.bids, BestBid(b), TRUE)
        ask == Quote(b.asks, BestAsk(b), FALSE)
    IN  IF bid = 0 \/ ask = 0 \/ bid >= ask THEN 0
        ELSE Bounded(((bid + ask) * Units) \div 2 - discount, Units, (Ticks - 1) * Units)

\* check_fill of a resting order at a limit in Units.
Crosses(side, limit) == BestAsk(books[side]) > 0 /\ BestAsk(books[side]) * Units <= limit

\* Slip: the skew is not cut.
SkewUncut(skew) == skew * Half

\* The skew of the quotes, cut to one half spread each way.
Skewed(skew) == Bounded(skew, -1, 1) * Half

\* compute_quote_pair: both prices follow from the YES book alone.
QuotePair(skew) ==
    LET mid == ((BestBid(books["YES"]) + BestAsk(books["YES"])) * Units) \div 2
        InBand(x) == Bounded(x, Units, (Ticks - 1) * Units)
    IN  [yes |-> InBand(mid - Half - Skewed(skew)),
         no  |-> InBand(Ticks * Units - mid - Half + Skewed(skew))]

\* The router's price of an approved entry at the risk engine's limit: the
\* book it is given is that of the YES token, whatever the decision's side.
RiskPrice(side) ==
    IF side = "YES" THEN BestAsk(books["YES"]) ELSE Max({Ticks - BestBid(books["YES"]), 1})

RoutedPrice(side, maker) ==
    LET b == books["YES"]
    IN  IF maker /\ TwoSided(b) THEN BestBid(b)
        ELSE IF BestAsk(b) = 0 THEN RiskPrice(side) ELSE BestAsk(b)

-----------------------------------------------------------------------------
(* Properties.                                                             *)

Message ==
    [token : Tokens, kind : {"book"}, book : Book]
    \cup [token : Tokens \cup {""}, kind : {"price_change"},
          changes : SUBSET [side : {"BUY", "SELL"}, price : Prices, size : 0..MaxSize]]

\* Every book has the levels of its token and sizes the venue has, and the
\* messages are those the stream parses.
TypeOK ==
    /\ venue \in Book /\ Uncrossed(venue)
    /\ books \in [Tokens -> Book]
    /\ wire \in Seq(Message)
    /\ shape \in {"top", "inside"} /\ begun \in Book /\ Uncrossed(begun)
    /\ up \in BOOLEAN /\ moves \in 0..MaxMoves /\ drops \in 0..MaxDrops

\* A token's book after all of the messages under way.
Replayed(t) ==
    LET book[i \in 0..Len(wire)] == IF i = 0 THEN books[t] ELSE After(t, book[i - 1], wire[i])
    IN  book[Len(wire)]

\* The venue's book as far as the daemon reads of it.
Told == IF shape = "top" THEN venue ELSE begun

\* While subscribed to changes that name their token at the top, the books lag
\* behind the venue by the messages under way and by nothing else: applying
\* those gives the venue's books, however often the stream broke before and
\* whatever was lost with it, so that a level gone at the venue never stays
\* behind to cross the book.  Where the changes name it inside, as in
\* test_polymarket_ws.py:6, the books stay what the venue's were when the
\* subscription began: no half of a change gets in, but none of it either
\* (MarketState.apply_book_snapshot, apply_price_change, _on_polymarket_event).
BooksLagOnlyByTheWire == up => \A t \in Tokens : Replayed(t) = View(t, Told)

Listed == \E t \in Tokens : books[t] # EmptyBook

Whole == books["NO"] = Mirror(books["YES"])

\* With nothing under way, an entry filled off the YES book is the cheapest
\* one for that many shares of its own token, and an exit the dearest: no choice
\* of the same number of shares from that token's levels does better.  A stop
\* at a limit fills exactly when that exit is whole and at no level below the
\* limit, and then at the same levels
\* (ExecutionEngine._paper_entry_fill, _paper_exit_fill, _paper_limit_exit_fill).
FillsAreBest ==
    Listed /\ Whole /\ wire = <<>> =>
    \A t \in Tokens, n \in Targets :
      LET in  == EntryFill(t, n)
          out == ExitFill(t, n)
      IN  /\ \A a \in [Prices -> 0..MaxSize] :
                /\ ((\A p \in Prices : a[p] <= books[t].asks[p]) /\ Filled(a) = Filled(in))
                      => Notional(in) <= Notional(a)
                /\ ((\A p \in Prices : a[p] <= books[t].bids[p]) /\ Filled(a) = Filled(out))
                      => Notional(a) <= Notional(out)
          /\ Filled(in) = Min({n, SumFunction(books[t].asks)})
          /\ Filled(out) = Min({n, SumFunction(books[t].bids)})
          /\ \A limit \in Prices :
                LimitExit(t, n, limit) =
                  IF Filled(out) = n /\ \A p \in 1..(limit - 1) : out[p] = 0 THEN out ELSE NoFill

\* Paper trading prints no money: buying a token and selling it back off the
\* same books loses, at average prices and whatever part of each is filled,
\* and a YES and a NO share bought together cost more than the 1.00 one of
\* them pays (_paper_entry_fill's reflection of NO, _paper_exit_fill).
NoFreeMoney ==
    Listed =>
      /\ Whole =>
           \A t \in Tokens, n \in Targets :
             LET in == EntryFill(t, n) out == ExitFill(t, n)
             IN  Filled(in) > 0 /\ Filled(out) > 0 =>
                   Notional(out) * Filled(in) < Notional(in) * Filled(out)
      /\ \A n \in Targets :
           LET yes == EntryFill("YES", n) no == EntryFill("NO", n)
           IN  Filled(yes) > 0 /\ Filled(no) > 0 =>
                 Notional(yes) * Filled(no) + Notional(no) * Filled(yes) > Ticks * Filled(yes) * Filled(no)

\* What is meant to rest does rest: of the very book it was priced from no
\* level large enough to count fills a followed order, and no level at all
\* one of the market maker's quotes; and a pair of quotes bought on both
\* sides costs less than it pays
\* (_depth_filtered_quotes, maker_limit_price, compute_quote_pair, check_fill).
QuotesRest ==
    Listed =>
      /\ \A t \in Tokens, d \in Discounts : \A p \in Large(books[t].asks) : FollowLimit(t, d) < p * Units
      /\ Whole /\ TwoSided(books["YES"]) =>
           \A s \in Skews : LET q == QuotePair(s) IN
             /\ ~Crosses("YES", q.yes) /\ ~Crosses("NO", q.no)
             /\ q.yes + q.no < Ticks * Units

\* "otherwise FOK_TAKER crossing the best opposite level" (README.md:384):
\* a routed entry is priced at or through the best ask of the token it buys
\* (ExecutionRouter.route, _taker_price).
TakerCrossesBestLevel ==
    Whole => \A t \in Tokens : BestAsk(books[t]) > 0 => RoutedPrice(t, FALSE) >= BestAsk(books[t])

=============================================================================
