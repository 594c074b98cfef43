----------------------------- MODULE LiveOrders -----------------------------
(***************************************************************************)
(* Live orders: operator commands that decide, post to the venue and       *)
(* record the order in the table live_orders, commands that refresh the    *)
(* table from the venue, and the pruning of old rows.  Every command is a  *)
(* process of its own; they meet in the table and at the venue only.       *)
(*                                                                         *)
(* order_attempts, which is written in the same transaction, is left out,  *)
(* and whether the preflight lets a command through is anyone's guess:     *)
(* KillSwitch has those reasons.  Which rows of the table were updated     *)
(* last is left open as well.                                              *)
(***************************************************************************)
EXTENDS Integers, FiniteSets

CONSTANTS
  Traders,   \* commands that trade
  Watchers,  \* commands that refresh the table
  MaxPosts,  \* bound: orders the venue ever accepts
  Local,     \* the order id of the execution engine: its counter starts from the paper orders
             \* in the table, so commands with no paper trade in between draw the same
  Limit      \* rows a refresh looks at

ASSUME LiveAssumption == MaxPosts \in Nat /\ Limit \in Nat \ {0} /\ Local \notin 0..MaxPosts

VARIABLES
  venue,     \* the orders the venue knows
  posts,     \* orders it has accepted
  table,     \* live_orders: the status of every id, "none" without a row
  trader, watcher,
  untracked  \* history: orders whose id no command lived to record

vars == <<venue, posts, table, trader, watcher, untracked>>

Orders   == 1..MaxPosts
Ids      == Orders \cup {Local}
NoOrder  == 0
Over     == {"matched", "cancelled"}   \* TERMINAL_LIVE_ORDER_STATUSES
Placed   == {"live"} \cup Over
Statuses == {"refused"} \cup Placed
Tracked  == {i \in Ids : table[i] # "none"}

IdleTrader  == [pc |-> "idle", order |-> NoOrder, status |-> "live"]
NoRows      == [i \in Ids |-> "none"]
IdleWatcher == [pc |-> "idle", todo |-> {}, listed |-> NoRows, order |-> NoOrder,
                answer |-> "none", due |-> {}]

Init ==
  /\ venue = [o \in Orders |-> "absent"] /\ posts = 0 /\ table = NoRows
  /\ trader = [t \in Traders |-> IdleTrader] /\ watcher = [w \in Watchers |-> IdleWatcher]
  /\ untracked = {}

-----------------------------------------------------------------------------
(* live_trade: preflight, decision, post, record.                          *)

At(t, pc)      == trader[t].pc = pc
Carry(t, i, s) == trader' = [trader EXCEPT ![t] = [pc |-> "record", order |-> i, status |-> s]]
Rest(t)        == trader' = [trader EXCEPT ![t] = IdleTrader]

Preflight(t) ==
  /\ At(t, "idle") /\ trader' = [trader EXCEPT ![t] = [IdleTrader EXCEPT !.pc = "cleared"]]
  /\ UNCHANGED <<venue, posts, table, watcher, untracked>>

\* The decision is made anew: it may be refused now, or name no asset.
Refuse(t) ==
  /\ At(t, "cleared") /\ Carry(t, Local, "refused")
  /\ UNCHANGED <<venue, posts, table, watcher, untracked>>

\* The venue accepts an order: it rests, or is matched or killed at once.
Accept(s) == /\ posts < MaxPosts /\ posts' = posts + 1
             /\ venue' = [venue EXCEPT ![posts + 1] = s]

Post(t) ==
  /\ At(t, "cleared")
  /\ \E s \in Placed : Accept(s) /\ Carry(t, posts + 1, s)
  /\ UNCHANGED <<table, watcher, untracked>>

\* The answer has no order id, or never comes, and the command fails.
PostUnseen(t) ==
  /\ At(t, "cleared") /\ \E s \in Placed : Accept(s)
  /\ untracked' = untracked \cup {posts + 1} /\ Rest(t)
  /\ UNCHANGED <<table, watcher>>

\* record_execution: order_id is the primary key, and a second row with it fails the
\* whole transaction.
Record(t) ==
  /\ At(t, "record")
  /\ table' = IF table[trader[t].order] = "none"
              THEN [table EXCEPT ![trader[t].order] = trader[t].status] ELSE table
  /\ Rest(t)
  /\ UNCHANGED <<venue, posts, watcher, untracked>>

\* The command dies between the post and the record.
Die(t) ==
  /\ At(t, "record") /\ Rest(t)
  /\ untracked' = untracked \cup ({trader[t].order} \cap Orders)
  /\ UNCHANGED <<venue, posts, table, watcher>>

\* _close_live_position posts a selling order and never records it.
ClosePosts ==
  /\ \E s \in Placed : Accept(s)
  /\ untracked' = untracked \cup {posts + 1}
  /\ UNCHANGED <<table, trader, watcher>>

Trade == ClosePosts \/ \E t \in Traders : \/ Preflight(t) \/ Refuse(t) \/ Post(t) \/ PostUnseen(t)
                                          \/ Record(t) \/ Die(t)

-----------------------------------------------------------------------------
(* refresh_live_order_tracking: list, then ask and update row by row.      *)

Walking(w)   == watcher[w].pc = "walk"
Answered(w)  == watcher[w].answer # "none"
NextRow(w, i) == Walking(w) /\ ~Answered(w) /\ i \in watcher[w].todo

\* What a pass is to catch up with: the orders it lists that are over as it begins.
Due(rows) == {o \in rows \cap Orders : venue[o] \in Over}

\* list_live_orders: all rows, or as many as the limit allows.
List(w, rows) ==
  /\ watcher[w].pc = "idle" /\ rows \subseteq Tracked
  /\ Cardinality(rows) = Limit \/ (Cardinality(rows) < Limit /\ rows = Tracked)
  /\ watcher' = [watcher EXCEPT ![w] = [IdleWatcher EXCEPT !.pc = "walk", !.todo = rows,
                                                           !.listed = table, !.due = Due(rows)]]
  /\ UNCHANGED <<venue, posts, table, trader, untracked>>

\* get_live_order.
Ask(w, i) ==
  /\ NextRow(w, i) /\ i \in Orders
  /\ watcher' = [watcher EXCEPT ![w].todo = @ \ {i}, ![w].order = i, ![w].answer = venue[i]]
  /\ UNCHANGED <<venue, posts, table, trader, untracked>>

\* Slip: an answer without a status means that the venue has dropped the order.
AskBlankDropped(w, i) ==
  /\ NextRow(w, i) /\ i \in Orders
  /\ watcher' = [watcher EXCEPT ![w].todo = @ \ {i}, ![w].order = i, ![w].answer = "cancelled",
                               ![w].due = @ \ {i}]
  /\ UNCHANGED <<venue, posts, table, trader, untracked>>
\* An answer without a status: the status that was listed is written again.
AskBlank(w, i) ==
  /\ NextRow(w, i) /\ i \in Orders
  /\ watcher' = [watcher EXCEPT ![w].todo = @ \ {i}, ![w].order = i,
                               ![w].answer = watcher[w].listed[i], ![w].due = @ \ {i}]
  /\ UNCHANGED <<venue, posts, table, trader, untracked>>

\* Slip: one failure ends the pass.
AskFailsAll(w, i) ==
  /\ NextRow(w, i)
  /\ watcher' = [watcher EXCEPT ![w].todo = {}, ![w].due = @ \ {i}]
  /\ UNCHANGED <<venue, posts, table, trader, untracked>>
\* The venue does not answer, or does not know the id: the next row is tried.
AskFails(w, i) ==
  /\ NextRow(w, i)
  /\ watcher' = [watcher EXCEPT ![w].todo = @ \ {i}, ![w].due = @ \ {i}]
  /\ UNCHANGED <<venue, posts, table, trader, untracked>>

\* The order that a write by w takes from pass v: v is done with it, and the answer is older.
Undone(w, v) ==
  {o \in {watcher[w].order} : /\ watcher[w].answer \notin Over
                              /\ o \notin watcher[v].todo /\ watcher[v].order # o}

\* update_live_order changes the row if it is still there.
Update(w) ==
  /\ Walking(w) /\ Answered(w)
  /\ table' = IF watcher[w].order \in Tracked
              THEN [table EXCEPT ![watcher[w].order] = watcher[w].answer] ELSE table
  /\ watcher' = [v \in Watchers |->
       IF v = w THEN [watcher[w] EXCEPT !.order = NoOrder, !.answer = "none"]
                ELSE [watcher[v] EXCEPT !.due = @ \ Undone(w, v)]]
  /\ UNCHANGED <<venue, posts, trader, untracked>>

Finish(w) ==
  /\ Walking(w) /\ ~Answered(w) /\ watcher[w].todo = {}
  /\ watcher' = [watcher EXCEPT ![w] = IdleWatcher]
  /\ UNCHANGED <<venue, posts, table, trader, untracked>>

Refresh == \E w \in Watchers :
  \/ \E rows \in SUBSET Ids : List(w, rows)
  \/ \E i \in Ids : Ask(w, i) \/ AskBlank(w, i) \/ AskFails(w, i)
  \/ Update(w) \/ Finish(w)

-----------------------------------------------------------------------------
(* The venue and the maintenance loop.                                     *)

\* An order is matched, or cancelled by the operator's live-cancel or the venue.
Settle(o) ==
  /\ venue[o] = "live"
  /\ \E s \in Over : venue' = [venue EXCEPT ![o] = s]
  /\ UNCHANGED <<posts, table, trader, watcher, untracked>>

\* Slip: age alone decides.
PruneOld(i) ==
  /\ table[i] # "none" /\ table' = [table EXCEPT ![i] = "none"]
  /\ UNCHANGED <<venue, posts, trader, watcher, untracked>>
\* prune_history: of the rows not updated for long, those go that are terminal (and spelled
\* in capitals: which spelling a row has is left open).
Prune(i) ==
  /\ table[i] \in Over /\ table' = [table EXCEPT ![i] = "none"]
  /\ UNCHANGED <<venue, posts, trader, watcher, untracked>>

Next == Trade \/ Refresh \/ (\E i \in Ids : Prune(i)) \/ \E o \in Orders : Settle(o)

Spec == Init /\ [][Next]_vars

-----------------------------------------------------------------------------
(* Properties.                                                             *)

Trading  == [pc : {"idle", "cleared", "record"}, order : Ids \cup {NoOrder}, status : Statuses]
Watching == [pc : {"idle", "walk"}, todo : SUBSET Ids, listed : [Ids -> Statuses \cup {"none"}],
             order : Orders \cup {NoOrder}, answer : Placed \cup {"none"}, due : SUBSET Orders]

\* Every variable keeps its type; in particular a refresh answers for orders the venue knows.
TypeOK ==
  /\ venue \in [Orders -> {"absent"} \cup Placed] /\ posts \in 0..MaxPosts
  /\ table \in [Ids -> Statuses \cup {"none"}]
  /\ trader \in [Traders -> Trading] /\ watcher \in [Watchers -> Watching]
  /\ untracked \subseteq Orders

\* What the table calls over is over at the venue, in the same way: no refresh, however its
\* answers mix with those of other commands, ends an order that still rests.
TableIsTrue == \A o \in Orders : table[o] \in Over => venue[o] = table[o]

\* An order that rests at the venue is in the table, through refreshes and pruning, but for
\* those no command lived to record.
RestingIsTracked ==
  \A o \in Orders :
    venue[o] = "live" /\ o \notin untracked /\ (\A t \in Traders : trader[t].order # o)
      => o \in Tracked

\* A refresh catches up: what was over as its pass began, of the rows it lists, is over in the
\* table as it ends, or pruned.  Excepted are an order it got no answer for, and one that
\* another refresh wrote an older answer to after this one had written its own
\* (service.py:309-315): until then no overlapping pass can leave it behind.
RefreshCatchesUp ==
  [][\A w \in Watchers : Walking(w) /\ watcher'[w].pc = "idle" =>
       \A o \in watcher[w].due : table[o] \in Over \cup {"none"}]_vars
=============================================================================
