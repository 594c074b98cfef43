-------------------------- MODULE LiveOrdersProofs --------------------------
(* What the table of live orders says of the venue, for any number of      *)
(* commands that trade and of refreshes, any limit of a refresh and any    *)
(* bound on the orders: no refresh ends an order that rests, an order that *)
(* rests is in the table, and a refresh catches up with what was over as   *)
(* it began.                                                               *)
EXTENDS LiveOrders, TLAPS

-----------------------------------------------------------------------------
(* The invariant.                                                          *)

\* The venue knows the orders it accepted, and no other.
Known == \A o \in Orders : venue[o] = "absent" <=> o > posts

\* A command that trades holds an order of its own, from the answer of the venue until it
\* records it: no row and no refresh has it yet.
Carried ==
  \A t \in Traders :
    /\ ~At(t, "record") => trader[t].order = NoOrder
    /\ trader[t].order \in Orders =>
         /\ trader[t].order <= posts
         /\ trader[t].status \in Placed
         /\ trader[t].status \in Over => venue[trader[t].order] = trader[t].status
         /\ table[trader[t].order] = "none"
         /\ \A u \in Traders : trader[u].order = trader[t].order => u = t
         /\ \A w \in Watchers : trader[t].order \notin watcher[w].due

\* What rows say of the orders is what the venue said of them once, which is the truth when
\* it said that they are over.
True(rows) ==
  \A o \in Orders :
    /\ rows[o] \in Placed \cup {"none"}
    /\ rows[o] # "none" => o <= posts
    /\ rows[o] \in Over => venue[o] = rows[o]

\* So it is with the rows a refresh has listed, and with its answer.
Heard ==
  \A w \in Watchers :
    /\ True(watcher[w].listed)
    /\ \A i \in watcher[w].todo : watcher[w].listed[i] # "none"
    /\ Answered(w) <=> watcher[w].order # NoOrder
    /\ watcher[w].answer \in Over => venue[watcher[w].order] = watcher[w].answer

\* An order a refresh is to catch up with is over; it is still to be asked for, or the answer
\* that says so is at hand, or written.
Catching ==
  \A w \in Watchers : \A o \in watcher[w].due :
    /\ venue[o] \in Over
    /\ watcher[w].order = o => watcher[w].answer \in Over
    /\ \/ o \in watcher[w].todo \/ watcher[w].order = o
       \/ table[o] \in Over \cup {"none"}

IInv == TypeOK /\ Known /\ Carried /\ True(table) /\ Heard /\ Catching /\ RestingIsTracked

-----------------------------------------------------------------------------
(* Every step keeps it.                                                    *)

\* Orders are taken away from what a refresh is to catch up with, and nothing else changes.
LEMMA DueLess ==
  ASSUME NEW x \in Watching, NEW gone
  PROVE  /\ [x EXCEPT !.due = @ \ gone] \in Watching
         /\ [x EXCEPT !.due = @ \ gone].due = x.due \ gone
         /\ [x EXCEPT !.due = @ \ gone].pc = x.pc
         /\ [x EXCEPT !.due = @ \ gone].listed = x.listed
         /\ [x EXCEPT !.due = @ \ gone].todo = x.todo
         /\ [x EXCEPT !.due = @ \ gone].order = x.order
         /\ [x EXCEPT !.due = @ \ gone].answer = x.answer
BY DEF Watching

\* A write leaves the refresh without an answer, and takes from the others what an older answer
\* was written over.
LEMMA Written ==
  ASSUME IInv, NEW w \in Watchers, Update(w)
  PROVE  /\ UNCHANGED <<venue, posts, trader, untracked>>
         /\ Answered(w) /\ watcher[w].order \in Orders /\ watcher[w].answer \in Placed
         /\ table' = IF watcher[w].order \in Tracked
                     THEN [table EXCEPT ![watcher[w].order] = watcher[w].answer] ELSE table
         /\ \A v \in Watchers :
              /\ watcher'[v].due \subseteq watcher[v].due /\ watcher'[v].todo = watcher[v].todo
              /\ watcher'[v].pc = watcher[v].pc /\ watcher'[v].listed = watcher[v].listed
              /\ v # w => /\ watcher'[v].due = watcher[v].due \ Undone(w, v)
                         /\ watcher'[v].order = watcher[v].order
                         /\ watcher'[v].answer = watcher[v].answer
         /\ watcher'[w].order = NoOrder /\ watcher'[w].answer = "none"
         /\ watcher' \in [Watchers -> Watching]
<1>1. watcher \in [Watchers -> Watching] /\ Answered(w)
  BY DEF Update, IInv, TypeOK
<1>2. watcher[w].order \in Orders /\ watcher[w].answer \in Placed
  BY <1>1 DEF Answered, IInv, Heard, Watching
<1>3. watcher'[w] = [watcher[w] EXCEPT !.order = NoOrder, !.answer = "none"]
  BY DEF Update
<1>4. /\ watcher'[w].due = watcher[w].due /\ watcher'[w].todo = watcher[w].todo
      /\ watcher'[w].pc = watcher[w].pc /\ watcher'[w].listed = watcher[w].listed
      /\ watcher'[w].order = NoOrder /\ watcher'[w].answer = "none" /\ watcher'[w] \in Watching
  BY <1>1, <1>3 DEF Watching
<1>5. ASSUME NEW v \in Watchers, v # w
      PROVE  /\ watcher'[v].due = watcher[v].due \ Undone(w, v) /\ watcher'[v].todo = watcher[v].todo
             /\ watcher'[v].pc = watcher[v].pc /\ watcher'[v].listed = watcher[v].listed
             /\ watcher'[v].order = watcher[v].order /\ watcher'[v].answer = watcher[v].answer
             /\ watcher'[v] \in Watching
  <2>1. watcher[v] \in Watching /\ watcher'[v] = [watcher[v] EXCEPT !.due = @ \ Undone(w, v)]
    BY <1>1, <1>5 DEF Update
  <2> QED BY <2>1, DueLess
<1>6. watcher' \in [Watchers -> Watching]
  <2>1. watcher' = [v \in Watchers |-> watcher'[v]]
    BY DEF Update
  <2> QED BY <1>4, <1>5, <2>1
<1>7. UNCHANGED <<venue, posts, trader, untracked>>
  BY DEF Update
<1>8. table' = IF watcher[w].order \in Tracked
               THEN [table EXCEPT ![watcher[w].order] = watcher[w].answer] ELSE table
  BY DEF Update
<1>9. \A v \in Watchers : v = w \/ v # w
  OBVIOUS
<1> QED BY <1>1, <1>2, <1>4, <1>5, <1>6, <1>7, <1>8, <1>9

LEMMA LeftTyped ==
  ASSUME NEW x \in Watching, NEW i
  PROVE  [x EXCEPT !.todo = @ \ {i}, !.due = @ \ {i}] \in Watching
BY DEF Watching

LEMMA NextTyped ==
  ASSUME IInv, [Next]_vars
  PROVE  TypeOK'
<1> USE LiveAssumption DEF Orders, Ids, Over, Placed, Statuses, NoOrder, At
<1>1. CASE ClosePosts
  BY <1>1 DEF ClosePosts, Accept, IInv, TypeOK, True, Heard, Known, Trading, Watching
<1>2. ASSUME NEW t \in Traders, Preflight(t) PROVE TypeOK'
  BY <1>2 DEF Preflight, IdleTrader, IInv, TypeOK, True, Heard, Known, Trading, Watching
<1>3. ASSUME NEW t \in Traders, Refuse(t) PROVE TypeOK'
  BY <1>3 DEF Refuse, Carry, IInv, TypeOK, True, Heard, Known, Trading, Watching
<1>4. ASSUME NEW t \in Traders, Post(t) PROVE TypeOK'
  <2>1. PICK s \in Placed : /\ posts < MaxPosts /\ posts' = posts + 1
                             /\ venue' = [venue EXCEPT ![posts + 1] = s]
                             /\ trader' = [trader EXCEPT ![t] = [pc |-> "record", order |-> posts + 1, status |-> s]]
    BY <1>4 DEF Post, Accept, Carry
  <2>2. venue' \in [Orders -> {"absent"} \cup Placed] /\ posts' \in 0..MaxPosts
    BY <2>1 DEF IInv, TypeOK
  <2>3. [pc |-> "record", order |-> posts + 1, status |-> s] \in Trading
    BY <2>1 DEF IInv, TypeOK, Trading
  <2>4. trader' \in [Traders -> Trading]
    BY <2>1, <2>3 DEF IInv, TypeOK
  <2> QED BY <1>4, <2>2, <2>4 DEF Post, IInv, TypeOK
<1>5. ASSUME NEW t \in Traders, PostUnseen(t) PROVE TypeOK'
  BY <1>5 DEF PostUnseen, Accept, Rest, IdleTrader, IInv, TypeOK, True, Heard, Known, Trading, Watching
<1>6. ASSUME NEW t \in Traders, Record(t) PROVE TypeOK'
  BY <1>6 DEF Record, Rest, IdleTrader, IInv, TypeOK, True, Heard, Known, Trading, Watching
<1>7. ASSUME NEW t \in Traders, Die(t) PROVE TypeOK'
  BY <1>7 DEF Die, Rest, IdleTrader, IInv, TypeOK, True, Heard, Known, Trading, Watching
<1>8. ASSUME NEW w \in Watchers, NEW r \in SUBSET Ids, List(w, r) PROVE TypeOK'
  BY <1>8 DEF List, IdleWatcher, NoRows, Due, Tracked, IInv, TypeOK, True, Heard, Known, Trading, Watching
<1>9. ASSUME NEW w \in Watchers, NEW i \in Ids, Ask(w, i) PROVE TypeOK'
  BY <1>9 DEF Ask, NextRow, Walking, Answered, IInv, TypeOK, True, Heard, Known, Trading, Watching
<1>10. ASSUME NEW w \in Watchers, NEW i \in Ids, AskBlank(w, i) PROVE TypeOK'
  <2>1. watcher[w] \in Watching /\ watcher[w].listed[i] \in Placed /\ i \in Orders
    BY <1>10 DEF AskBlank, NextRow, IInv, TypeOK, Heard, True, Watching
  <2>2. [watcher[w] EXCEPT !.todo = @ \ {i}, !.order = i, !.answer = watcher[w].listed[i],
                           !.due = @ \ {i}] \in Watching
    BY <2>1 DEF Watching
  <2> QED BY <1>10, <2>2 DEF AskBlank, IInv, TypeOK
<1>11. ASSUME NEW w \in Watchers, NEW i \in Ids, AskFails(w, i) PROVE TypeOK'
  <2>1. watcher[w] \in Watching
    BY DEF IInv, TypeOK
  <2>2. [watcher[w] EXCEPT !.todo = @ \ {i}, !.due = @ \ {i}] \in Watching
    BY <2>1, LeftTyped
  <2> QED BY <1>11, <2>2 DEF AskFails, IInv, TypeOK
<1>12. ASSUME NEW w \in Watchers, Update(w) PROVE TypeOK'
  <2>1. watcher' \in [Watchers -> Watching] /\ UNCHANGED <<venue, posts, trader, untracked>>
    BY <1>12, Written
  <2>2. table' \in [Ids -> Statuses \cup {"none"}]
    BY <1>12, Written DEF IInv, TypeOK
  <2> QED BY <2>1, <2>2 DEF IInv, TypeOK
<1>13. ASSUME NEW w \in Watchers, Finish(w) PROVE TypeOK'
  BY <1>13 DEF Finish, Walking, Answered, IdleWatcher, NoRows, IInv, TypeOK, True, Heard, Known, Trading, Watching
<1>14. ASSUME NEW i \in Ids, Prune(i) PROVE TypeOK'
  BY <1>14 DEF Prune, IInv, TypeOK, True, Heard, Known, Trading, Watching
<1>15. ASSUME NEW o \in Orders, Settle(o) PROVE TypeOK'
  BY <1>15 DEF Settle, IInv, TypeOK, True, Heard, Known, Trading, Watching
<1>16. CASE UNCHANGED vars
  BY <1>16 DEF vars, IInv, TypeOK, True, Heard, Known, Trading, Watching
<1> QED BY <1>1, <1>2, <1>3, <1>4, <1>5, <1>6, <1>7, <1>8, <1>9, <1>10, <1>11, <1>12, <1>13, <1>14, <1>15, <1>16 DEF Next, Trade, Refresh

LEMMA NextKnown ==
  ASSUME IInv, [Next]_vars
  PROVE  Known'
<1> USE LiveAssumption DEF Orders, Ids, Over, Placed, Statuses, NoOrder, At
<1>1. CASE ClosePosts
  BY <1>1 DEF ClosePosts, Accept, IInv, TypeOK, Trading, Watching, Known
<1>2. ASSUME NEW t \in Traders, Preflight(t) PROVE Known'
  BY <1>2 DEF Preflight, IdleTrader, IInv, TypeOK, Trading, Watching, Known
<1>3. ASSUME NEW t \in Traders, Refuse(t) PROVE Known'
  BY <1>3 DEF Refuse, Carry, IInv, TypeOK, Trading, Watching, Known
<1>4. ASSUME NEW t \in Traders, Post(t) PROVE Known'
  BY <1>4 DEF Post, Accept, Carry, IInv, TypeOK, Trading, Watching, Known
<1>5. ASSUME NEW t \in Traders, PostUnseen(t) PROVE Known'
  BY <1>5 DEF PostUnseen, Accept, Rest, IdleTrader, IInv, TypeOK, Trading, Watching, Known
<1>6. ASSUME NEW t \in Traders, Record(t) PROVE Known'
  BY <1>6 DEF Record, Rest, IdleTrader, IInv, TypeOK, Trading, Watching, Known
<1>7. ASSUME NEW t \in Traders, Die(t) PROVE Known'
  BY <1>7 DEF Die, Rest, IdleTrader, IInv, TypeOK, Trading, Watching, Known
<1>8. ASSUME NEW w \in Watchers, NEW r \in SUBSET Ids, List(w, r) PROVE Known'
  BY <1>8 DEF List, IdleWatcher, NoRows, Due, Tracked, IInv, TypeOK, Trading, Watching, Known
<1>9. ASSUME NEW w \in Watchers, NEW i \in Ids, Ask(w, i) PROVE Known'
  BY <1>9 DEF Ask, NextRow, Walking, Answered, IInv, TypeOK, Trading, Watching, Known
<1>10. ASSUME NEW w \in Watchers, NEW i \in Ids, AskBlank(w, i) PROVE Known'
  BY <1>10 DEF AskBlank, NextRow, Walking, Answered, IInv, TypeOK, Trading, Watching, Known
<1>11. ASSUME NEW w \in Watchers, NEW i \in Ids, AskFails(w, i) PROVE Known'
  BY <1>11 DEF AskFails, NextRow, Walking, Answered, IInv, TypeOK, Trading, Watching, Known
<1>12. ASSUME NEW w \in Watchers, Update(w) PROVE Known'
  BY <1>12 DEF Update, IInv, Known
<1>13. ASSUME NEW w \in Watchers, Finish(w) PROVE Known'
  BY <1>13 DEF Finish, Walking, Answered, IdleWatcher, NoRows, IInv, TypeOK, Trading, Watching, Known
<1>14. ASSUME NEW i \in Ids, Prune(i) PROVE Known'
  BY <1>14 DEF Prune, IInv, TypeOK, Trading, Watching, Known
<1>15. ASSUME NEW o \in Orders, Settle(o) PROVE Known'
  BY <1>15 DEF Settle, IInv, TypeOK, Trading, Watching, Known
<1>16. CASE UNCHANGED vars
  BY <1>16 DEF vars, IInv, TypeOK, Trading, Watching, Known
<1> QED BY <1>1, <1>2, <1>3, <1>4, <1>5, <1>6, <1>7, <1>8, <1>9, <1>10, <1>11, <1>12, <1>13, <1>14, <1>15, <1>16 DEF Next, Trade, Refresh

LEMMA NextCarried ==
  ASSUME IInv, [Next]_vars
  PROVE  Carried'
<1> USE LiveAssumption DEF Orders, Ids, Over, Placed, Statuses, NoOrder, At
<1>1. CASE ClosePosts
  BY <1>1 DEF ClosePosts, Accept, IInv, TypeOK, Trading, Watching, Known, Carried, True
<1>2. ASSUME NEW t \in Traders, Preflight(t) PROVE Carried'
  BY <1>2 DEF Preflight, IdleTrader, IInv, TypeOK, Trading, Watching, Known, Carried, True
<1>3. ASSUME NEW t \in Traders, Refuse(t) PROVE Carried'
  BY <1>3 DEF Refuse, Carry, IInv, TypeOK, Trading, Watching, Known, Carried, True
<1>4. ASSUME NEW t \in Traders, Post(t) PROVE Carried'
  <2>1. PICK s \in Placed : /\ posts < MaxPosts /\ posts' = posts + 1
                             /\ venue' = [venue EXCEPT ![posts + 1] = s]
                             /\ trader' = [trader EXCEPT ![t] = [pc |-> "record", order |-> posts + 1, status |-> s]]
    BY <1>4 DEF Post, Accept, Carry
  <2>2. /\ posts + 1 \in Orders /\ venue'[posts + 1] = s /\ table[posts + 1] = "none"
        /\ \A w \in Watchers : posts + 1 \notin watcher[w].due
        /\ \A u \in Traders : trader[u].order # posts + 1
    <3>1. posts + 1 \in Orders /\ posts \in Nat /\ posts + 1 \in Ids
      BY <2>1 DEF IInv, TypeOK
    <3>2. venue'[posts + 1] = s /\ venue[posts + 1] = "absent"
      BY <2>1, <3>1 DEF IInv, TypeOK, Known
    <3>3. table[posts + 1] = "none"
      BY <3>1 DEF IInv, True
    <3>4. \A w \in Watchers : posts + 1 \notin watcher[w].due
      BY <3>1, <3>2 DEF IInv, Catching
    <3>5. \A u \in Traders : trader[u].order # posts + 1
      BY <3>1 DEF IInv, Carried
    <3> QED BY <3>1, <3>2, <3>3, <3>4, <3>5
  <2>3. \A u \in Traders \ {t} : trader'[u] = trader[u]
    BY <2>1 DEF IInv, TypeOK, Trading, Watching
  <2>4. trader'[t] = [pc |-> "record", order |-> posts + 1, status |-> s]
    BY <2>1 DEF IInv, TypeOK, Trading, Watching
  <2>5. UNCHANGED <<table, watcher>>
    BY <1>4 DEF Post
  <2> QED BY <2>1, <2>2, <2>3, <2>4, <2>5 DEF IInv, TypeOK, Trading, Watching, Carried
<1>5. ASSUME NEW t \in Traders, PostUnseen(t) PROVE Carried'
  BY <1>5 DEF PostUnseen, Accept, Rest, IdleTrader, IInv, TypeOK, Trading, Watching, Known, Carried, True
<1>6. ASSUME NEW t \in Traders, Record(t) PROVE Carried'
  BY <1>6 DEF Record, Rest, IdleTrader, IInv, TypeOK, Trading, Watching, Known, Carried, True
<1>7. ASSUME NEW t \in Traders, Die(t) PROVE Carried'
  BY <1>7 DEF Die, Rest, IdleTrader, IInv, TypeOK, Trading, Watching, Known, Carried, True
<1>8. ASSUME NEW w \in Watchers, NEW r \in SUBSET Ids, List(w, r) PROVE Carried'
  BY <1>8 DEF List, IdleWatcher, NoRows, Due, Tracked, IInv, TypeOK, Trading, Watching, Known, Carried, True
<1>9. ASSUME NEW w \in Watchers, NEW i \in Ids, Ask(w, i) PROVE Carried'
  BY <1>9 DEF Ask, NextRow, Walking, Answered, IInv, TypeOK, Trading, Watching, Known, Carried, True
<1>10. ASSUME NEW w \in Watchers, NEW i \in Ids, AskBlank(w, i) PROVE Carried'
  BY <1>10 DEF AskBlank, NextRow, Walking, Answered, IInv, TypeOK, Trading, Watching, Known, Carried, True
<1>11. ASSUME NEW w \in Watchers, NEW i \in Ids, AskFails(w, i) PROVE Carried'
  BY <1>11 DEF AskFails, NextRow, Walking, Answered, IInv, TypeOK, Trading, Watching, Known, Carried, True
<1>12. ASSUME NEW w \in Watchers, Update(w) PROVE Carried'
  <2>1. UNCHANGED <<venue, posts, trader>> /\ \A u \in Watchers : watcher'[u].due \subseteq watcher[u].due
    BY <1>12, Written
  <2>2. \A o \in Orders : table[o] = "none" => table'[o] = "none"
    BY <1>12, Written DEF Tracked, IInv, TypeOK
  <2> QED BY <2>1, <2>2 DEF IInv, Carried
<1>13. ASSUME NEW w \in Watchers, Finish(w) PROVE Carried'
  BY <1>13 DEF Finish, Walking, Answered, IdleWatcher, NoRows, IInv, TypeOK, Trading, Watching, Known, Carried, True
<1>14. ASSUME NEW i \in Ids, Prune(i) PROVE Carried'
  BY <1>14 DEF Prune, IInv, TypeOK, Trading, Watching, Known, Carried, True
<1>15. ASSUME NEW o \in Orders, Settle(o) PROVE Carried'
  BY <1>15 DEF Settle, IInv, TypeOK, Trading, Watching, Known, Carried, True
<1>16. CASE UNCHANGED vars
  BY <1>16 DEF vars, IInv, TypeOK, Trading, Watching, Known, Carried, True
<1> QED BY <1>1, <1>2, <1>3, <1>4, <1>5, <1>6, <1>7, <1>8, <1>9, <1>10, <1>11, <1>12, <1>13, <1>14, <1>15, <1>16 DEF Next, Trade, Refresh

LEMMA NextTrue ==
  ASSUME IInv, [Next]_vars
  PROVE  True(table)'
<1> USE LiveAssumption DEF Orders, Ids, Over, Placed, Statuses, NoOrder, At
<1>1. CASE ClosePosts
  BY <1>1 DEF ClosePosts, Accept, IInv, TypeOK, Trading, Watching, Known, Carried, True, Heard, Tracked
<1>2. ASSUME NEW t \in Traders, Preflight(t) PROVE True(table)'
  BY <1>2 DEF Preflight, IdleTrader, IInv, TypeOK, Trading, Watching, Known, Carried, True, Heard, Tracked
<1>3. ASSUME NEW t \in Traders, Refuse(t) PROVE True(table)'
  BY <1>3 DEF Refuse, Carry, IInv, TypeOK, Trading, Watching, Known, Carried, True, Heard, Tracked
<1>4. ASSUME NEW t \in Traders, Post(t) PROVE True(table)'
  BY <1>4 DEF Post, Accept, Carry, IInv, TypeOK, Trading, Watching, Known, Carried, True, Heard, Tracked
<1>5. ASSUME NEW t \in Traders, PostUnseen(t) PROVE True(table)'
  BY <1>5 DEF PostUnseen, Accept, Rest, IdleTrader, IInv, TypeOK, Trading, Watching, Known, Carried, True, Heard, Tracked
<1>6. ASSUME NEW t \in Traders, Record(t) PROVE True(table)'
  BY <1>6 DEF Record, Rest, IdleTrader, IInv, TypeOK, Trading, Watching, Known, Carried, True, Heard, Tracked
<1>7. ASSUME NEW t \in Traders, Die(t) PROVE True(table)'
  BY <1>7 DEF Die, Rest, IdleTrader, IInv, TypeOK, Trading, Watching, Known, Carried, True, Heard, Tracked
<1>8. ASSUME NEW w \in Watchers, NEW r \in SUBSET Ids, List(w, r) PROVE True(table)'
  BY <1>8 DEF List, IdleWatcher, NoRows, Due, Tracked, IInv, TypeOK, Trading, Watching, Known, Carried, True, Heard, Tracked
<1>9. ASSUME NEW w \in Watchers, NEW i \in Ids, Ask(w, i) PROVE True(table)'
  BY <1>9 DEF Ask, NextRow, Walking, Answered, IInv, TypeOK, Trading, Watching, Known, Carried, True, Heard, Tracked
<1>10. ASSUME NEW w \in Watchers, NEW i \in Ids, AskBlank(w, i) PROVE True(table)'
  BY <1>10 DEF AskBlank, NextRow, Walking, Answered, IInv, TypeOK, Trading, Watching, Known, Carried, True, Heard, Tracked
<1>11. ASSUME NEW w \in Watchers, NEW i \in Ids, AskFails(w, i) PROVE True(table)'
  BY <1>11 DEF AskFails, NextRow, Walking, Answered, IInv, TypeOK, Trading, Watching, Known, Carried, True, Heard, Tracked
<1>12. ASSUME NEW w \in Watchers, Update(w) PROVE True(table)'
  <2>1. UNCHANGED <<venue, posts>>
    BY <1>12, Written
  <2>2. watcher[w].answer \in Over => venue[watcher[w].order] = watcher[w].answer
    BY DEF IInv, Heard
  <2>3. ASSUME NEW o \in Orders
        PROVE  \/ table'[o] = table[o]
               \/ o = watcher[w].order /\ table[o] # "none" /\ table'[o] = watcher[w].answer
    BY <1>12, Written DEF Tracked, IInv, TypeOK
  <2>4. watcher[w].answer \in Placed
    BY <1>12, Written
  <2> QED BY <2>1, <2>2, <2>3, <2>4 DEF IInv, True
<1>13. ASSUME NEW w \in Watchers, Finish(w) PROVE True(table)'
  BY <1>13 DEF Finish, Walking, Answered, IdleWatcher, NoRows, IInv, TypeOK, Trading, Watching, Known, Carried, True, Heard, Tracked
<1>14. ASSUME NEW i \in Ids, Prune(i) PROVE True(table)'
  BY <1>14 DEF Prune, IInv, TypeOK, Trading, Watching, Known, Carried, True, Heard, Tracked
<1>15. ASSUME NEW o \in Orders, Settle(o) PROVE True(table)'
  BY <1>15 DEF Settle, IInv, TypeOK, Trading, Watching, Known, Carried, True, Heard, Tracked
<1>16. CASE UNCHANGED vars
  BY <1>16 DEF vars, IInv, TypeOK, Trading, Watching, Known, Carried, True, Heard, Tracked
<1> QED BY <1>1, <1>2, <1>3, <1>4, <1>5, <1>6, <1>7, <1>8, <1>9, <1>10, <1>11, <1>12, <1>13, <1>14, <1>15, <1>16 DEF Next, Trade, Refresh

LEMMA NextHeard ==
  ASSUME IInv, [Next]_vars
  PROVE  Heard'
<1> USE LiveAssumption DEF Orders, Ids, Over, Placed, Statuses, NoOrder, At
<1>1. CASE ClosePosts
  BY <1>1 DEF ClosePosts, Accept, IInv, TypeOK, Trading, Watching, Known, True, Heard, Answered
<1>2. ASSUME NEW t \in Traders, Preflight(t) PROVE Heard'
  BY <1>2 DEF Preflight, IdleTrader, IInv, TypeOK, Trading, Watching, Known, True, Heard, Answered
<1>3. ASSUME NEW t \in Traders, Refuse(t) PROVE Heard'
  BY <1>3 DEF Refuse, Carry, IInv, TypeOK, Trading, Watching, Known, True, Heard, Answered
<1>4. ASSUME NEW t \in Traders, Post(t) PROVE Heard'
  BY <1>4 DEF Post, Accept, Carry, IInv, TypeOK, Trading, Watching, Known, True, Heard, Answered
<1>5. ASSUME NEW t \in Traders, PostUnseen(t) PROVE Heard'
  BY <1>5 DEF PostUnseen, Accept, Rest, IdleTrader, IInv, TypeOK, Trading, Watching, Known, True, Heard, Answered
<1>6. ASSUME NEW t \in Traders, Record(t) PROVE Heard'
  BY <1>6 DEF Record, Rest, IdleTrader, IInv, TypeOK, Trading, Watching, Known, True, Heard, Answered
<1>7. ASSUME NEW t \in Traders, Die(t) PROVE Heard'
  BY <1>7 DEF Die, Rest, IdleTrader, IInv, TypeOK, Trading, Watching, Known, True, Heard, Answered
<1>8. ASSUME NEW w \in Watchers, NEW r \in SUBSET Ids, List(w, r) PROVE Heard'
  BY <1>8 DEF List, IdleWatcher, NoRows, Due, Tracked, IInv, TypeOK, Trading, Watching, Known, True, Heard, Answered
<1>9. ASSUME NEW w \in Watchers, NEW i \in Ids, Ask(w, i) PROVE Heard'
  BY <1>9 DEF Ask, NextRow, Walking, Answered, IInv, TypeOK, Trading, Watching, Known, True, Heard, Answered
<1>10. ASSUME NEW w \in Watchers, NEW i \in Ids, AskBlank(w, i) PROVE Heard'
  <2>1. watcher[w].listed[i] \in Placed /\ i \in Orders /\ UNCHANGED <<venue, posts>>
    BY <1>10 DEF AskBlank, NextRow, IInv, Heard, True
  <2>2. watcher[w].listed[i] \in Over => venue[i] = watcher[w].listed[i]
    BY <2>1 DEF IInv, Heard, True
  <2>3. /\ watcher'[w].listed = watcher[w].listed /\ watcher'[w].todo = watcher[w].todo \ {i}
        /\ watcher'[w].order = i /\ watcher'[w].answer = watcher[w].listed[i]
        /\ \A v \in Watchers \ {w} : watcher'[v] = watcher[v]
    BY <1>10 DEF AskBlank, IInv, TypeOK, Watching
  <2>4. ASSUME NEW v \in Watchers
        PROVE  /\ True(watcher[v].listed)' /\ \A j \in watcher'[v].todo : watcher'[v].listed[j] # "none"
               /\ Answered(v)' <=> watcher'[v].order # NoOrder
               /\ watcher'[v].answer \in Over => venue'[watcher'[v].order] = watcher'[v].answer
    <3>1. True(watcher[v].listed) /\ \A j \in watcher[v].todo : watcher[v].listed[j] # "none"
      BY DEF IInv, Heard
    <3>2. True(watcher[v].listed)' /\ \A j \in watcher'[v].todo : watcher'[v].listed[j] # "none"
      BY <2>1, <2>3, <3>1 DEF True
    <3>3. CASE v = w
      BY <2>1, <2>2, <2>3, <3>2, <3>3 DEF Answered
    <3>4. CASE v # w
      BY <2>1, <2>3, <3>2, <3>4 DEF IInv, Heard, Answered
    <3> QED BY <3>3, <3>4
  <2> QED BY <2>4 DEF Heard
<1>11. ASSUME NEW w \in Watchers, NEW i \in Ids, AskFails(w, i) PROVE Heard'
  BY <1>11 DEF AskFails, NextRow, Walking, Answered, IInv, TypeOK, Trading, Watching, Known, True, Heard, Answered
<1>12. ASSUME NEW w \in Watchers, Update(w) PROVE Heard'
  <2>1. ASSUME NEW v \in Watchers
        PROVE  /\ True(watcher[v].listed)' /\ \A j \in watcher'[v].todo : watcher'[v].listed[j] # "none"
               /\ Answered(v)' <=> watcher'[v].order # NoOrder
               /\ watcher'[v].answer \in Over => venue'[watcher'[v].order] = watcher'[v].answer
    <3>1. True(watcher[v].listed)' /\ \A j \in watcher'[v].todo : watcher'[v].listed[j] # "none"
      BY <1>12, Written DEF IInv, Heard, True
    <3>2. CASE v = w
      BY <1>12, <3>1, <3>2, Written DEF Answered
    <3>3. CASE v # w
      BY <1>12, <3>1, <3>3, Written DEF IInv, Heard, Answered
    <3> QED BY <3>2, <3>3
  <2> QED BY <2>1 DEF Heard
<1>13. ASSUME NEW w \in Watchers, Finish(w) PROVE Heard'
  BY <1>13 DEF Finish, Walking, Answered, IdleWatcher, NoRows, IInv, TypeOK, Trading, Watching, Known, True, Heard, Answered
<1>14. ASSUME NEW i \in Ids, Prune(i) PROVE Heard'
  BY <1>14 DEF Prune, IInv, TypeOK, Trading, Watching, Known, True, Heard, Answered
<1>15. ASSUME NEW o \in Orders, Settle(o) PROVE Heard'
  BY <1>15 DEF Settle, IInv, TypeOK, Trading, Watching, Known, True, Heard, Answered
<1>16. CASE UNCHANGED vars
  BY <1>16 DEF vars, IInv, TypeOK, Trading, Watching, Known, True, Heard, Answered
<1> QED BY <1>1, <1>2, <1>3, <1>4, <1>5, <1>6, <1>7, <1>8, <1>9, <1>10, <1>11, <1>12, <1>13, <1>14, <1>15, <1>16 DEF Next, Trade, Refresh

LEMMA NextCatching ==
  ASSUME IInv, [Next]_vars
  PROVE  Catching'
<1> USE LiveAssumption DEF Orders, Ids, Over, Placed, Statuses, NoOrder, At
<1>1. CASE ClosePosts
  BY <1>1 DEF ClosePosts, Accept, IInv, TypeOK, Trading, Watching, Known, Catching
<1>2. ASSUME NEW t \in Traders, Preflight(t) PROVE Catching'
  BY <1>2 DEF Preflight, IdleTrader, IInv, TypeOK, Trading, Watching, Carried, Heard, Catching, Answered
<1>3. ASSUME NEW t \in Traders, Refuse(t) PROVE Catching'
  BY <1>3 DEF Refuse, Carry, IInv, TypeOK, Trading, Watching, Carried, Heard, Catching, Answered
<1>4. ASSUME NEW t \in Traders, Post(t) PROVE Catching'
  BY <1>4 DEF Post, Accept, Carry, IInv, TypeOK, Trading, Watching, Known, Catching
<1>5. ASSUME NEW t \in Traders, PostUnseen(t) PROVE Catching'
  BY <1>5 DEF PostUnseen, Accept, Rest, IdleTrader, IInv, TypeOK, Trading, Watching, Known, Catching
<1>6. ASSUME NEW t \in Traders, Record(t) PROVE Catching'
  BY <1>6 DEF Record, Rest, IdleTrader, IInv, TypeOK, Trading, Watching, Carried, Heard, Catching, Answered
<1>7. ASSUME NEW t \in Traders, Die(t) PROVE Catching'
  BY <1>7 DEF Die, Rest, IdleTrader, IInv, TypeOK, Trading, Watching, Carried, Heard, Catching, Answered
<1>8. ASSUME NEW w \in Watchers, NEW r \in SUBSET Ids, List(w, r) PROVE Catching'
  BY <1>8 DEF List, IdleWatcher, NoRows, Due, Tracked, IInv, TypeOK, Trading, Watching, Carried, Heard, Catching, Answered
<1>9. ASSUME NEW w \in Watchers, NEW i \in Ids, Ask(w, i) PROVE Catching'
  BY <1>9 DEF Ask, NextRow, Walking, Answered, IInv, TypeOK, Trading, Watching, Carried, Heard, Catching, Answered
<1>10. ASSUME NEW w \in Watchers, NEW i \in Ids, AskBlank(w, i) PROVE Catching'
  BY <1>10 DEF AskBlank, NextRow, Walking, Answered, IInv, TypeOK, Trading, Watching, Carried, Heard, Catching
<1>11. ASSUME NEW w \in Watchers, NEW i \in Ids, AskFails(w, i) PROVE Catching'
  BY <1>11 DEF AskFails, NextRow, Walking, Answered, IInv, TypeOK, Trading, Watching, Carried, Heard, Catching, Answered
<1>12. ASSUME NEW w \in Watchers, Update(w) PROVE Catching'
  <2>a. table' = IF watcher[w].order \in Tracked
                 THEN [table EXCEPT ![watcher[w].order] = watcher[w].answer] ELSE table
    BY <1>12, Written
  <2>b. table \in [Ids -> Statuses \cup {"none"}]
    BY DEF IInv, TypeOK
  <2>1. ASSUME NEW v \in Watchers, NEW o \in watcher'[v].due
        PROVE  /\ venue'[o] \in Over
               /\ watcher'[v].order = o => watcher'[v].answer \in Over
               /\ o \in watcher'[v].todo \/ watcher'[v].order = o \/ table'[o] \in Over \cup {"none"}
    <3>1. o \in watcher[v].due /\ o \in Orders /\ o # NoOrder /\ o \in Ids
      <4>1. o \in watcher[v].due
        BY <1>12, <2>1, Written
      <4>2. watcher[v].due \subseteq Orders
        BY DEF IInv, TypeOK, Watching
      <4> QED BY <4>1, <4>2
    <3>2. /\ venue[o] \in Over
          /\ watcher[v].order = o => watcher[v].answer \in Over
          /\ o \in watcher[v].todo \/ watcher[v].order = o \/ table[o] \in Over \cup {"none"}
      BY <3>1 DEF IInv, Catching
    <3>3. \/ table'[o] = table[o]
          \/ o = watcher[w].order /\ table'[o] = watcher[w].answer
      BY <2>a, <2>b, <3>1
    <3>4. CASE v = w
      <4>1. o = watcher[w].order => table'[o] \in Over \cup {"none"}
        <5>1. CASE o \in Tracked
          BY <2>a, <2>b, <3>1, <3>2, <3>4, <5>1
        <5>2. CASE o \notin Tracked
          BY <2>a, <2>b, <3>1, <5>2 DEF Tracked
        <5> QED BY <5>1, <5>2
      <4>2. watcher'[v].todo = watcher[v].todo /\ watcher'[v].order = NoOrder /\ venue' = venue
        BY <1>12, <3>4, Written
      <4> QED BY <3>1, <3>2, <3>3, <3>4, <4>1, <4>2
    <3>5. CASE v # w
      <4>1. o \notin Undone(w, v) /\ watcher'[v].todo = watcher[v].todo
            /\ watcher'[v].order = watcher[v].order /\ watcher'[v].answer = watcher[v].answer
        BY <1>12, <2>1, <3>5, Written
      <4>2. \/ o # watcher[w].order \/ watcher[w].answer \in Over
            \/ o \in watcher[v].todo \/ watcher[v].order = o
        BY <4>1 DEF Undone
      <4>3. venue' = venue
        BY <1>12, Written
      <4>4. o \in watcher[v].todo \/ watcher[v].order = o \/ table'[o] \in Over \cup {"none"}
        BY <3>2, <3>3, <4>2
      <4> QED BY <3>2, <4>1, <4>3, <4>4
    <3> QED BY <3>4, <3>5
  <2> QED BY <2>1 DEF Catching
<1>13. ASSUME NEW w \in Watchers, Finish(w) PROVE Catching'
  BY <1>13 DEF Finish, Walking, Answered, IdleWatcher, NoRows, IInv, TypeOK, Trading, Watching, Carried, Heard, Catching, Answered
<1>14. ASSUME NEW i \in Ids, Prune(i) PROVE Catching'
  BY <1>14 DEF Prune, IInv, TypeOK, Trading, Watching, Carried, Heard, Catching, Answered
<1>15. ASSUME NEW o \in Orders, Settle(o) PROVE Catching'
  BY <1>15 DEF Settle, IInv, TypeOK, Trading, Watching, Carried, Heard, Catching, Answered
<1>16. CASE UNCHANGED vars
  BY <1>16 DEF vars, IInv, TypeOK, Trading, Watching, Carried, Heard, Catching, Answered
<1> QED BY <1>1, <1>2, <1>3, <1>4, <1>5, <1>6, <1>7, <1>8, <1>9, <1>10, <1>11, <1>12, <1>13, <1>14, <1>15, <1>16 DEF Next, Trade, Refresh

LEMMA NextTracked ==
  ASSUME IInv, [Next]_vars
  PROVE  RestingIsTracked'
<1> USE LiveAssumption DEF Orders, Ids, Over, Placed, Statuses, NoOrder, At
<1>1. CASE ClosePosts
  BY <1>1 DEF ClosePosts, Accept, IInv, TypeOK, Trading, Watching, Known, Carried, True, RestingIsTracked, Tracked
<1>2. ASSUME NEW t \in Traders, Preflight(t) PROVE RestingIsTracked'
  BY <1>2 DEF Preflight, IdleTrader, IInv, TypeOK, Trading, Watching, Known, Carried, True, RestingIsTracked, Tracked
<1>3. ASSUME NEW t \in Traders, Refuse(t) PROVE RestingIsTracked'
  BY <1>3 DEF Refuse, Carry, IInv, TypeOK, Trading, Watching, Known, Carried, True, RestingIsTracked, Tracked
<1>4. ASSUME NEW t \in Traders, Post(t) PROVE RestingIsTracked'
  BY <1>4 DEF Post, Accept, Carry, IInv, TypeOK, Trading, Watching, Known, Carried, True, RestingIsTracked, Tracked
<1>5. ASSUME NEW t \in Traders, PostUnseen(t) PROVE RestingIsTracked'
  BY <1>5 DEF PostUnseen, Accept, Rest, IdleTrader, IInv, TypeOK, Trading, Watching, Known, Carried, True, RestingIsTracked, Tracked
<1>6. ASSUME NEW t \in Traders, Record(t) PROVE RestingIsTracked'
  BY <1>6 DEF Record, Rest, IdleTrader, IInv, TypeOK, Trading, Watching, Known, Carried, True, RestingIsTracked, Tracked
<1>7. ASSUME NEW t \in Traders, Die(t) PROVE RestingIsTracked'
  BY <1>7 DEF Die, Rest, IdleTrader, IInv, TypeOK, Trading, Watching, Known, Carried, True, RestingIsTracked, Tracked
<1>8. ASSUME NEW w \in Watchers, NEW r \in SUBSET Ids, List(w, r) PROVE RestingIsTracked'
  BY <1>8 DEF List, IdleWatcher, NoRows, Due, Tracked, IInv, TypeOK, Trading, Watching, Known, Carried, True, RestingIsTracked, Tracked
<1>9. ASSUME NEW w \in Watchers, NEW i \in Ids, Ask(w, i) PROVE RestingIsTracked'
  BY <1>9 DEF Ask, NextRow, Walking, Answered, IInv, TypeOK, Trading, Watching, Known, Carried, True, RestingIsTracked, Tracked
<1>10. ASSUME NEW w \in Watchers, NEW i \in Ids, AskBlank(w, i) PROVE RestingIsTracked'
  BY <1>10 DEF AskBlank, NextRow, Walking, Answered, IInv, TypeOK, Trading, Watching, Known, Carried, True, RestingIsTracked, Tracked
<1>11. ASSUME NEW w \in Watchers, NEW i \in Ids, AskFails(w, i) PROVE RestingIsTracked'
  BY <1>11 DEF AskFails, NextRow, Walking, Answered, IInv, TypeOK, Trading, Watching, Known, Carried, True, RestingIsTracked, Tracked
<1>12. ASSUME NEW w \in Watchers, Update(w) PROVE RestingIsTracked'
  <2>1. UNCHANGED <<venue, trader, untracked>>
    BY <1>12, Written
  <2>2. \A o \in Orders : o \in Tracked => table'[o] # "none"
    BY <1>12, Written DEF Tracked, IInv, TypeOK
  <2> QED BY <2>1, <2>2 DEF IInv, RestingIsTracked, Tracked
<1>13. ASSUME NEW w \in Watchers, Finish(w) PROVE RestingIsTracked'
  BY <1>13 DEF Finish, Walking, Answered, IdleWatcher, NoRows, IInv, TypeOK, Trading, Watching, Known, Carried, True, RestingIsTracked, Tracked
<1>14. ASSUME NEW i \in Ids, Prune(i) PROVE RestingIsTracked'
  BY <1>14 DEF Prune, IInv, TypeOK, Trading, Watching, Known, Carried, True, RestingIsTracked, Tracked
<1>15. ASSUME NEW o \in Orders, Settle(o) PROVE RestingIsTracked'
  BY <1>15 DEF Settle, IInv, TypeOK, Trading, Watching, Known, Carried, True, RestingIsTracked, Tracked
<1>16. CASE UNCHANGED vars
  BY <1>16 DEF vars, IInv, TypeOK, Trading, Watching, Known, Carried, True, RestingIsTracked, Tracked
<1> QED BY <1>1, <1>2, <1>3, <1>4, <1>5, <1>6, <1>7, <1>8, <1>9, <1>10, <1>11, <1>12, <1>13, <1>14, <1>15, <1>16 DEF Next, Trade, Refresh

-----------------------------------------------------------------------------
(* The theorems.                                                           *)

\* The invariant holds in every reachable state.
LEMMA Invariance == Spec => []IInv
<1>1. Init => IInv
  <2> SUFFICES ASSUME Init PROVE IInv
    OBVIOUS
  <2> USE LiveAssumption DEF Orders, Ids, Placed, Over, NoOrder
  <2>1. TypeOK
    <3>1. NoRows \in [Ids -> Statuses \cup {"none"}]
      BY DEF NoRows
    <3>2. IdleTrader \in Trading /\ IdleWatcher \in Watching
      BY <3>1 DEF IdleTrader, IdleWatcher, Trading, Watching, Statuses
    <3> QED BY <3>1, <3>2 DEF Init, TypeOK
  <2>2. True(NoRows)
    BY DEF NoRows, True
  <2>3. Known /\ Carried /\ True(table)
    BY <2>2 DEF Init, Known, Carried, IdleTrader, At
  <2>4. Heard
    BY <2>2 DEF Init, Heard, IdleWatcher, Answered
  <2>5. Catching /\ RestingIsTracked
    BY DEF Init, Catching, RestingIsTracked, IdleWatcher
  <2> QED BY <2>1, <2>2, <2>3, <2>4, <2>5 DEF IInv, True, Init
<1>2. IInv /\ [Next]_vars => IInv'
  BY NextTyped, NextKnown, NextCarried, NextTrue, NextHeard, NextCatching, NextTracked DEF IInv
<1> QED BY <1>1, <1>2, PTL DEF Spec

\* The state is well formed; a refresh has answers for orders the venue knows only.
THEOREM TypeCorrect == Spec => []TypeOK
BY Invariance, PTL DEF IInv

\* An order the table calls over is over at the venue, and in the same way, however the
\* answers of refreshes overtake each other and other commands
\* (refresh_live_order_tracking, update_live_order, prune_history).
THEOREM OverIsOver == Spec => []TableIsTrue
<1>1. IInv => TableIsTrue
  BY DEF IInv, True, TableIsTrue
<1> QED BY <1>1, Invariance, PTL

\* An order that rests is in the table, but for those no command lived to record
\* (live_trade, record_execution, prune_history).
THEOREM RestingOrdersAreKnown == Spec => []RestingIsTracked
BY Invariance, PTL DEF IInv

\* A refresh ends with the truth about the orders it listed that were over as it began, but for
\* those it got no answer for and those that another refresh wrote an older answer to after it
\* (refresh_live_order_tracking).
THEOREM RefreshesCatchUp == Spec => RefreshCatchesUp
<1> DEFINE Ends(w) == Walking(w) /\ watcher'[w].pc = "idle"
           CaughtUp == \A w \in Watchers : Ends(w) =>
                         \A o \in watcher[w].due : table[o] \in Over \cup {"none"}
<1>1. IInv /\ [Next]_vars => CaughtUp
  <2> SUFFICES ASSUME IInv, [Next]_vars, NEW w \in Watchers, Ends(w), NEW o \in watcher[w].due
               PROVE  table[o] \in Over \cup {"none"}
    OBVIOUS
  <2>1. Finish(w)
    <3> USE DEF IInv, TypeOK, Watching, Walking
    <3>1. ASSUME UNCHANGED watcher PROVE FALSE
      BY <3>1
    <3>2. CASE Trade
      BY <3>1, <3>2 DEF Trade, ClosePosts, Preflight, Refuse, Post, PostUnseen, Record, Die
    <3>3. ASSUME NEW v \in Watchers, NEW r \in SUBSET Ids, List(v, r) PROVE FALSE
      BY <3>3 DEF List, IdleWatcher
    <3>4. ASSUME NEW v \in Watchers, NEW i \in Ids, Ask(v, i) \/ AskFails(v, i) PROVE FALSE
      <4>1. CASE Ask(v, i)
        BY <4>1 DEF Ask, NextRow
      <4>2. CASE AskFails(v, i)
        BY <4>2 DEF AskFails, NextRow
      <4> QED BY <3>4, <4>1, <4>2
    <3>5. ASSUME NEW v \in Watchers, NEW i \in Ids, AskBlank(v, i) PROVE FALSE
      BY <3>5 DEF AskBlank, NextRow
    <3>6. ASSUME NEW v \in Watchers, Update(v) PROVE FALSE
      BY <3>6, Written
    <3>7. ASSUME NEW v \in Watchers, Finish(v) PROVE v = w
      BY <3>7 DEF Finish
    <3>8. ASSUME NEW i \in Ids, Prune(i) PROVE FALSE
      BY <3>1, <3>8 DEF Prune
    <3>9. ASSUME NEW p \in Orders, Settle(p) PROVE FALSE
      BY <3>1, <3>9 DEF Settle
    <3> QED BY <3>1, <3>2, <3>3, <3>4, <3>5, <3>6, <3>7, <3>8, <3>9 DEF Next, Refresh, vars
  <2>2. watcher[w].todo = {} /\ watcher[w].order = NoOrder /\ o # NoOrder
    BY <2>1 DEF Finish, IInv, Heard, TypeOK, Watching, Orders, NoOrder
  <2> QED BY <2>2 DEF IInv, Catching
<1>2. RefreshCatchesUp <=> [][CaughtUp]_vars
  BY DEF RefreshCatchesUp
<1> QED BY <1>1, <1>2, Invariance, PTL DEF Spec
=============================================================================
