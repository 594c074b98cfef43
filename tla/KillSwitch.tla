----------------------------- MODULE KillSwitch -----------------------------
(***************************************************************************)
(* What stops the trading: the daemon-wide kill switch, polled by the      *)
(* heartbeat from the rows of the portfolio, and the limits a strategy's   *)
(* entries are checked against, daily loss and concurrent positions.       *)
(*                                                                         *)
(* A position is worth one stake, and closes with a win or a loss of one.  *)
(* The reasons that need no row (authentication, a stale heartbeat) are    *)
(* left out.                                                               *)
(* Losses are counted over rows ordered by the time they are stamped with, *)
(* which for a position orphaned by discovery lies in the past.            *)
(***************************************************************************)
EXTENDS Integers, Sequences, FiniteSets, SequencesExt

CONSTANTS
  Takers,         \* strategies whose entries the risk engine decides on
  Makers,         \* strategies that enter by a resting order
  Pennies,        \* strategies that enter on their scorer's word
  Desk,           \* the strategy the operator's orders are booked on
  DailyLimit,     \* max_daily_loss_usd, in stakes
  MaxConcurrent,  \* max_concurrent_positions
  MaxStreak,      \* max_consecutive_losses, 0 for no limit
  MaxRejected,    \* max_rejected_orders
  Bankroll,       \* paper_starting_balance_usd, in stakes
  MaxHeld,        \* bound: positions a maker comes to hold
  MaxCloses,      \* bound: closed positions kept
  MaxExtra        \* bound: entries by the operator and by cancelled ticks

Strategies == Takers \cup Makers \cup Pennies

ASSUME StrategiesAssumption ==
  /\ Takers \cap Makers = {} /\ Takers \cap Pennies = {} /\ Makers \cap Pennies = {}
  /\ Desk \in Strategies /\ IsFiniteSet(Strategies)
ASSUME LimitsAssumption ==
  /\ DailyLimit \in Nat \ {0} /\ MaxConcurrent \in Nat \ {0} /\ MaxStreak \in Nat
  /\ MaxRejected \in Nat \ {0} /\ Bankroll \in Nat /\ MaxHeld \in Nat /\ MaxCloses \in Nat /\ MaxExtra \in Nat

VARIABLES
  open,      \* open positions of a strategy
  day,       \* the profit of the rows stamped today
  closes,    \* closed rows, newest stamp first
  rejected,  \* orders a venue rejected today
  resting,   \* strategies with a resting order
  switch,    \* metrics.safety_stop_reason
  tick,      \* the decision tick: strategies still to run, the one that has counted its
             \* positions and their number, and an entry on its way
  desk,      \* TRUE while an operator's order is decided but not booked
  stray,     \* entries that cancelled ticks left running in threads
  extra,     \* history: entries booked by the operator or such threads
  late       \* history: entries of the ticks since the switch is on

vars == <<open, day, closes, rejected, resting, switch, tick, desk, stray, extra, late>>

Zero     == [s \in Strategies |-> 0]
IdleTick == [todo |-> {}, counted |-> {}, held |-> 0, entry |-> {}]

Init ==
  /\ open = Zero /\ day = Zero /\ closes = <<>>
  /\ rejected = Zero
  /\ resting = {} /\ switch = "none" /\ tick = IdleTick /\ desk = FALSE /\ stray = Zero
  /\ extra = Zero /\ late = Zero

Total(f) == FoldFunction(+, 0, f)

\* safety_stop_reason: get_consecutive_losses counts from the newest stamp to the first win.
Losing == /\ MaxStreak > 0 /\ Len(closes) >= MaxStreak
          /\ \A i \in 1..MaxStreak : closes[i].pnl <= 0
Reason == IF Total(rejected) >= MaxRejected THEN "rejected"
          ELSE IF Losing THEN "streak" ELSE "none"

-----------------------------------------------------------------------------
(* Rows.                                                                   *)

rows    == <<open, day, closes, late>>
offRows == <<rejected, switch, desk, stray, extra>>

\* Where a row may stand: rows of today are newer than all others.
Fits(r, k) == /\ k \in 0..Len(closes)
              /\ \A i \in 1..k : r.today => closes[i].today
              /\ \A i \in k + 1..Len(closes) : closes[i].today => r.today

Close(s, pnl, today, k) ==
  LET r == [s |-> s, pnl |-> pnl, today |-> today] IN
  /\ open[s] > 0 /\ Len(closes) < MaxCloses /\ Fits(r, k) /\ UNCHANGED late
  /\ closes' = InsertAt(closes, k + 1, r)
  /\ open' = [open EXCEPT ![s] = @ - 1]
  /\ day' = [day EXCEPT ![s] = @ + IF today THEN pnl ELSE 0]

Book(s) == open' = [open EXCEPT ![s] = @ + 1] /\ UNCHANGED <<day, closes>>

\* get_total_realized_pnl and the stakes a strategy has left.
Realized(s)     == FoldSeq(LAMBDA r, sum : sum + IF r.s = s THEN r.pnl ELSE 0, 0, closes)
Available(s, n) == Bankroll + Realized(s) - n

\* RiskEngine.evaluate on the account state of the strategy, which held n positions.
\* Slip: the loss must exceed the limit.
ApprovedBeyond(s, n) == /\ day[s] >= -DailyLimit /\ rejected[s] < MaxRejected
                        /\ n < MaxConcurrent /\ Available(s, n) >= 1
Approved(s, n) == /\ day[s] > -DailyLimit /\ rejected[s] < MaxRejected
                  /\ n < MaxConcurrent /\ Available(s, n) >= 1
\* The operator's orders are decided on the account of all strategies, here read at once.
DeskApproved == /\ Total(day) > -DailyLimit /\ Total(rejected) < MaxRejected
                /\ Total(open) < MaxConcurrent
                /\ Bankroll + Total([s \in Strategies |-> Realized(s)]) - Total(open) >= 1

-----------------------------------------------------------------------------
(* The decision tick runs the strategies one after the other.              *)

\* Slip: nobody asks for the switch.
TickStartAnyway ==
  /\ tick = IdleTick
  /\ tick' = [IdleTick EXCEPT !.todo = Strategies]
  /\ UNCHANGED <<rows, resting, offRows>>
TickStart ==
  /\ tick = IdleTick /\ switch = "none"
  /\ tick' = [IdleTick EXCEPT !.todo = Strategies]
  /\ UNCHANGED <<rows, resting, offRows>>

Turn(s) == s \in tick.todo /\ tick.counted = {} /\ tick.entry = {}
Done(s) == tick' = [IdleTick EXCEPT !.todo = tick.todo \ {s}]
\* An entry of the tick.
Enter(s) == Book(s) /\ late' = [late EXCEPT ![s] = @ + IF switch = "none" THEN 0 ELSE 1]

\* A held position may be closed, or nothing is to be done on this market.
TickExit(s, pnl) ==
  /\ Turn(s) /\ Close(s, pnl, TRUE, 0) /\ Done(s)
  /\ UNCHANGED <<resting, offRows>>
TickSkip(s) == (Turn(s) \/ tick.counted = {s}) /\ Done(s) /\ UNCHANGED <<rows, resting, offRows>>

\* A taker's account is read piece by piece, its open positions first: what comes after
\* them is taken for one read, and the entry decided on is booked later.
TickCount(s) ==
  /\ s \in Takers /\ Turn(s)
  /\ tick' = [tick EXCEPT !.counted = {s}, !.held = open[s]]
  /\ UNCHANGED <<rows, resting, offRows>>
TickDecide(s) ==
  /\ tick.counted = {s} /\ Approved(s, tick.held)
  /\ tick' = [tick EXCEPT !.counted = {}, !.held = 0, !.entry = {s}]
  /\ UNCHANGED <<rows, resting, offRows>>
\* The penny handler reads the account for its count of positions only.
\* Slip: one position too many.
TickPennyOneMore(s) ==
  /\ s \in Pennies /\ Turn(s) /\ open[s] <= MaxConcurrent
  /\ tick' = [tick EXCEPT !.entry = {s}]
  /\ UNCHANGED <<rows, resting, offRows>>
TickPenny(s) ==
  /\ s \in Pennies /\ Turn(s) /\ open[s] < MaxConcurrent
  /\ tick' = [tick EXCEPT !.entry = {s}]
  /\ UNCHANGED <<rows, resting, offRows>>
TickBook(s) ==
  /\ tick.entry = {s} /\ Enter(s) /\ Done(s)
  /\ UNCHANGED <<resting, offRows>>

\* A maker rests an order, which a later tick finds crossed; neither asks the risk engine.
TickRest(s) ==
  /\ s \in Makers /\ Turn(s) /\ s \notin resting /\ open[s] < MaxHeld
  /\ resting' = resting \cup {s} /\ Done(s)
  /\ UNCHANGED <<rows, offRows>>
TickFill(s) ==
  /\ s \in resting /\ Turn(s) /\ Enter(s)
  /\ resting' = resting \ {s} /\ Done(s)
  /\ UNCHANGED offRows

Tick == \/ TickStart
        \/ \E s \in Strategies : \/ \E pnl \in {-1, 1} : TickExit(s, pnl)
                                 \/ TickSkip(s) \/ TickCount(s) \/ TickDecide(s)
                                 \/ TickPenny(s) \/ TickBook(s)
                                 \/ TickRest(s) \/ TickFill(s)

-----------------------------------------------------------------------------
(* What goes on beside it.                                                 *)

\* The subscriber is restarted in the middle of a tick: an insert under way runs on.
Cancel ==
  /\ tick # IdleTick /\ tick' = IdleTick
  /\ Total(stray) + Total(extra) < MaxExtra
  /\ stray' = [s \in Strategies |-> stray[s] + IF s \in tick.entry THEN 1 ELSE 0]
  /\ UNCHANGED <<rows, resting, rejected, switch, desk, extra>>
StrayBook(s) ==
  /\ stray[s] > 0 /\ Book(s) /\ UNCHANGED late
  /\ stray' = [stray EXCEPT ![s] = @ - 1] /\ extra' = [extra EXCEPT ![s] = @ + 1]
  /\ UNCHANGED <<rejected, resting, switch, tick, desk>>

\* Discovery closes what dropped out of it, switch or no switch, and stamps it before the expiry.
OrphanClose(s, pnl, today, k) ==
  /\ Close(s, pnl, today, k)
  /\ UNCHANGED <<resting, tick, offRows>>

\* An operator's order runs in a process of its own and asks for no switch.
DeskDecide ==
  /\ ~desk /\ Total(extra) + Total(stray) < MaxExtra /\ DeskApproved
  /\ desk' = TRUE
  /\ UNCHANGED <<rows, resting, tick, rejected, switch, stray, extra>>
DeskBook ==
  /\ desk /\ desk' = FALSE /\ Book(Desk) /\ UNCHANGED late
  /\ extra' = [extra EXCEPT ![Desk] = @ + 1]
  /\ UNCHANGED <<rejected, resting, switch, tick, stray>>

\* A live order passes the preflight and fails at the venue.
LiveFails ==
  /\ Reason = "none" /\ DeskApproved
  /\ rejected' = [rejected EXCEPT ![Desk] = @ + 1]
  /\ UNCHANGED <<rows, resting, switch, tick, desk, stray, extra>>

\* The switch follows the reason, and goes off without anyone's word when there is none.
Follow    == switch' = Reason
Heartbeat ==
  /\ Follow
  /\ late' = IF switch' = "none" THEN Zero ELSE late
  /\ UNCHANGED <<open, day, closes, resting, rejected, tick, desk, stray, extra>>

NewDay ==
  /\ day' = Zero /\ rejected' = Zero
  /\ closes' = [i \in 1..Len(closes) |-> [closes[i] EXCEPT !.today = FALSE]]
  /\ UNCHANGED <<open, resting, switch, tick, desk, stray, extra, late>>

\* prune_history: the oldest row goes.
Prune ==
  /\ closes # <<>> /\ ~Last(closes).today
  /\ closes' = Front(closes)
  /\ UNCHANGED <<open, day, late, resting, tick, offRows>>

Restart ==
  /\ tick' = IdleTick /\ switch' = "none" /\ resting' = {} /\ stray' = Zero
  /\ late' = Zero
  /\ UNCHANGED <<open, day, closes, rejected, desk, extra>>

Next ==
  \/ Tick \/ Cancel \/ DeskDecide \/ DeskBook \/ LiveFails
  \/ Heartbeat \/ NewDay \/ Prune \/ Restart
  \/ \E s \in Strategies :
       \/ StrayBook(s)
       \/ \E pnl \in {-1, 1}, today \in BOOLEAN, k \in 0..MaxCloses : OrphanClose(s, pnl, today, k)

Spec == Init /\ [][Next]_vars

-----------------------------------------------------------------------------
(* Properties.                                                             *)

\* Every variable keeps its type; no count falls below zero.
TypeOK ==
  /\ open \in [Strategies -> Nat] /\ day \in [Strategies -> Int]
  /\ rejected \in [Strategies -> Nat]
  /\ closes \in Seq([s : Strategies, pnl : {-1, 1}, today : BOOLEAN])
  /\ resting \subseteq Makers /\ switch \in {"none", "rejected", "streak"}
  /\ tick \in [todo : SUBSET Strategies, counted : SUBSET Strategies, held : Nat,
              entry : SUBSET Strategies]
  /\ desk \in BOOLEAN /\ stray \in [Strategies -> Nat] /\ extra \in [Strategies -> Nat]
  /\ late \in [Strategies -> Nat]

\* What a strategy loses in a day, its open positions counted as lost, exceeds its budget by
\* no more than the positions it may hold at once and those booked behind the tick's back.
Worst(s) == day[s] - open[s]
Budget(s) == 1 - DailyLimit - MaxConcurrent - extra[s]
DailyLossBounded == \A s \in Takers : Worst(s) >= Budget(s)

\* A strategy holds no more positions than it may, but for those booked behind the tick's back.
ConcurrencyBounded == \A s \in Takers \cup Pennies : open[s] <= MaxConcurrent + extra[s]

\* While the switch is on a strategy enters at most once, and only by the tick that the
\* switch found under way, the insert a cancelled tick left running apart: no decision
\* begins until the reason is gone (run.py:896).
StopEndsEntries == \A s \in Strategies : late[s] <= 1
=============================================================================
