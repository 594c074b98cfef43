---------------------------- MODULE PositionBook ----------------------------
(***************************************************************************)
(* What the positions table promises its readers, whoever writes it and in *)
(* whatever order: rows are appended in order, an open row may be resized  *)
(* or closed together with everything open on its market, and a row that   *)
(* was closed never changes its market, status or size again.              *)
(***************************************************************************)
EXTENDS Integers

CONSTANTS Rows, Markets

VARIABLES book,   \* per row: market, status and remaining size
          count   \* rows appended so far

bookVars == <<book, count>>

OpenIn(m) == {r \in Rows : book[r].status = "open" /\ book[r].market = m}

BookInit ==
  /\ \A r \in Rows : book[r].status = "absent"
  /\ count = 0

\* Everything outside S stays as it is.
Only(S) == /\ DOMAIN book' = DOMAIN book
           /\ \A r \in Rows \ S : book'[r] = book[r]

Append(m) ==
  LET r == count + 1
  IN /\ r \in Rows /\ book[r].status = "absent"
     /\ Only({r}) /\ book'[r].status = "open" /\ book'[r].market = m
     /\ count' = r

Resize(m) ==
  /\ Only(OpenIn(m))
  /\ \A r \in OpenIn(m) : book'[r].status = "open" /\ book'[r].market = m
  /\ UNCHANGED count

CloseAll(m) ==
  /\ Only(OpenIn(m))
  /\ \A r \in OpenIn(m) : book'[r] = [book[r] EXCEPT !.status = "closed"]
  /\ UNCHANGED count

BookNext == \E m \in Markets : Append(m) \/ Resize(m) \/ CloseAll(m)

BookSpec == BookInit /\ [][BookNext]_bookVars
=============================================================================
