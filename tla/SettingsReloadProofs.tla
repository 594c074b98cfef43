------------------------ MODULE SettingsReloadProofs ------------------------
(***************************************************************************)
(* Theorems about SettingsReload for any fields, values, writers, bounds   *)
(* and failing reads.                                                      *)
(***************************************************************************)
EXTENDS SettingsReload, FiniteSetTheorems, WellFoundedInduction, TLAPS

(* What the rows of a write and a read of the overrides look like.         *)

\* A finite set's sequence lists its elements, one each.
LEMMA SeqOfSet ==
  ASSUME NEW S, IsFiniteSet(S)
  PROVE  Cardinality(S) \in Nat /\ SetToSeq(S) \in [1..Cardinality(S) -> S]
<1>1. Cardinality(S) \in Nat /\ ExistsBijection(1..Cardinality(S), S)
  BY FS_CardinalityType
<1>2. \E f \in [1..Cardinality(S) -> S] : IsInjective(f)
  BY <1>1 DEF ExistsBijection, Bijection, Injection, IsInjective
<1> QED BY <1>1, <1>2 DEF SetToSeq

\* Ids up to n have a latest one: of the intervals that reach up to n, one contains no other.
LEMMA LatestExists ==
  ASSUME NEW n \in Nat, NEW S \in SUBSET (1..n), S # {}
  PROVE  \E x \in S : \A y \in S : y <= x
<1> DEFINE R == StrictSubsetOrdering(1..n)
           T == {i..n : i \in S}
<1>1. T \subseteq FiniteSubsetsOf(1..n) /\ T # {}
  <2>1. \A i \in S : i..n \in SUBSET (1..n) /\ IsFiniteSet(i..n)
    BY FS_Interval
  <2> QED BY <2>1 DEF FiniteSubsetsOf
<1>2. IsWellFoundedOn(R, FiniteSubsetsOf(1..n))
  BY FS_StrictSubsetOrderingWellFounded
<1> HIDE DEF R, T
<1>3. PICK A \in T : \A B \in T : ~(<<B, A>> \in R)
  BY <1>1, <1>2, WFMin
<1>4. PICK x \in S : A = x..n
  BY DEF T
<1>5. ASSUME NEW y \in S PROVE y <= x
  <2> SUFFICES ASSUME y > x PROVE FALSE
    OBVIOUS
  <2>1. y..n \in T /\ ~(<<y..n, x..n>> \in R)
    BY <1>3, <1>4 DEF T
  <2>2. y..n \subseteq x..n /\ x \in x..n /\ x \notin y..n
    OBVIOUS
  <2>3. y..n \in SUBSET (1..n) /\ x..n \in SUBSET (1..n)
    OBVIOUS
  <2> QED BY <2>1, <2>2, <2>3 DEF R, StrictSubsetOrdering
<1> QED BY <1>5

\* The value in effect after n rows is a value.
LEMMA LatestTyped ==
  ASSUME log \in Seq(Rows), NEW n \in Nat, n <= last, NEW f \in Fields
  PROVE  Latest(n, f) \in Values
<1> DEFINE S == {i \in 1..n : log[i].field = f}
<1>1. CASE S = {}
  BY <1>1, FieldsAssumption DEF Latest
<1>2. CASE S # {}
  <2>1. PICK x \in S : \A y \in S : y <= x
    BY <1>2, LatestExists
  <2> DEFINE c == CHOOSE i \in S : \A j \in S : j <= i
  <2>2. c \in S
    BY <2>1
  <2>3. last \in Nat /\ c \in 1..last
    BY <2>2 DEF last
  <2>4. log[c] \in Rows
    BY <2>3 DEF last
  <2>5. log[c].after \in Values
    BY <2>4 DEF Rows
  <2> QED BY <1>2, <2>5 DEF Latest
<1> QED BY <1>1, <1>2

\* An idle reload has its shape.
LEMMA IdleTyped ==
  /\ IdleReload \in [pc : {"idle", "list", "read", "journal", "apply"}, max : 0..MaxRows,
                     rows : 0..MaxRows, version : 0..MaxRows, next : 1..Len(Rebound) + 1]
  /\ IdleReload.pc = "idle" /\ IdleReload.next = 1
<1>1. Len(Rebound) = 6
  BY DEF Rebound
<1> QED BY <1>1, BoundsAssumption DEF IdleReload

\* Reads of the database see a version that exists.
LEMMA SeenTyped ==
  ASSUME TypeOK
  PROVE  /\ last \in Nat /\ last <= MaxRows /\ Seen \subseteq 0..MaxRows
         /\ \A v \in Seen : v \in Nat /\ v <= last
BY BoundsAssumption DEF TypeOK, Seen, last

\* Appending rows to rows yields rows.
LEMMA ConcatTyped ==
  ASSUME NEW S, NEW s \in Seq(S), NEW t \in Seq(S)
  PROVE  s \o t \in Seq(S) /\ Len(s \o t) = Len(s) + Len(t)
OBVIOUS

\* A write appends well-formed rows, one for every field that differs.
LEMMA ChangesTyped ==
  ASSUME TypeOK, NEW w \in Writers, writer[w].seen <= last
  PROVE  /\ Cardinality(Differing(w)) \in Nat
         /\ Changes(w, Differing(w)) \in Seq(Rows)
         /\ Len(Changes(w, Differing(w))) = Cardinality(Differing(w))
<1> DEFINE D == Differing(w)
<1>0. writer[w] \in [pc : {"idle", "read", "insert", "list"}, fields : SUBSET Fields,
                     value : Values, since : 0..MaxRows, seen : 0..MaxRows]
  BY DEF TypeOK
<1>1. D \subseteq Fields /\ IsFiniteSet(D)
  BY <1>0, FieldsAssumption, FS_Subset DEF Differing
<1>2. Cardinality(D) \in Nat /\ SetToSeq(D) \in [1..Cardinality(D) -> D]
  BY <1>1, SeqOfSet
<1>3. ASSUME NEW i \in 1..Cardinality(D)
      PROVE  [field |-> SetToSeq(D)[i], before |-> Latest(writer[w].seen, SetToSeq(D)[i]),
              after |-> writer[w].value, by |-> w, reason |-> NoWriter] \in Rows
  <2>1. SetToSeq(D)[i] \in Fields
    BY <1>1, <1>2
  <2>2. Latest(writer[w].seen, SetToSeq(D)[i]) \in Values
    BY <2>1, <1>0, LatestTyped DEF TypeOK
  <2> QED BY <1>0, <2>1, <2>2 DEF Rows
<1> HIDE DEF D
<1>4. Changes(w, D) \in [1..Cardinality(D) -> Rows]
  BY <1>3 DEF Changes
<1>5. Changes(w, D) \in Seq(Rows) /\ Len(Changes(w, D)) = Cardinality(D)
  BY <1>2, <1>4
<1> QED BY <1>2, <1>5 DEF D

-----------------------------------------------------------------------------
(* Type correctness, with what a step needs to keep it: nobody has seen    *)
(* rows that are not there.                                                *)

SeenExists == \A w \in Writers : writer[w].seen <= last
Typed == TypeOK /\ SeenExists

\* The initial state has its shapes.
LEMMA InitTyped == Init => Typed
<1> SUFFICES ASSUME Init PROVE Typed
  OBVIOUS
<1>1. Len(Rebound) = 6 /\ last = 0 /\ log \in Seq(Rows)
  BY DEF Rebound, Init, last
<1> QED
  BY <1>1, FieldsAssumption, BoundsAssumption
     DEF Init, Typed, TypeOK, SeenExists, IdleWriter, IdleReload, Ids

\* Every step of a writer keeps the shapes, and never shortens the log.
LEMMA WriteTyped ==
  ASSUME Typed, Write
  PROVE  Typed' /\ last' \in Nat /\ last' >= last
<1>0. TypeOK /\ SeenExists /\ last \in Nat /\ last <= MaxRows /\ MaxRows \in Nat
  BY SeenTyped, BoundsAssumption DEF Typed
<1>1. ASSUME NEW w \in Writers, NEW fs \in SUBSET Fields, NEW v \in Values, WriteStart(w, fs, v)
      PROVE  Typed' /\ last' = last
  <2>1. last' = last /\ log' = log /\ UNCHANGED daemonVars
    BY <1>1 DEF WriteStart, last
  <2>2. writer' \in [Writers -> [pc : {"idle", "read", "insert", "list"}, fields : SUBSET Fields,
                             value : Values, since : 0..MaxRows, seen : 0..MaxRows]]
    <3>1. [writer[w] EXCEPT !.pc = "read", !.fields = fs, !.value = v, !.since = last]
             \in [pc : {"idle", "read", "insert", "list"}, fields : SUBSET Fields,
                  value : Values, since : 0..MaxRows, seen : 0..MaxRows]
      <4>1. writer[w] \in [pc : {"idle", "read", "insert", "list"}, fields : SUBSET Fields,
                           value : Values, since : 0..MaxRows, seen : 0..MaxRows]
        BY <1>0 DEF TypeOK
      <4>2. last \in 0..MaxRows
        BY <1>0
      <4> QED BY <4>1, <4>2
    <3> QED BY <1>0, <1>1, <3>1 DEF WriteStart, TypeOK
  <2>3. \A x \in Writers : writer'[x].seen = writer[x].seen
    BY <1>0, <1>1 DEF WriteStart, TypeOK
  <2> QED BY <1>0, <2>1, <2>2, <2>3 DEF Typed, TypeOK, SeenExists, daemonVars, events
<1>2. ASSUME NEW w \in Writers, WriteRead(w)
      PROVE  Typed' /\ last' = last
  <2>1. last' = last /\ log' = log /\ UNCHANGED daemonVars
    BY <1>2 DEF WriteRead, last
  <2>2. PICK v \in Seen : writer' = [writer EXCEPT ![w] = [@ EXCEPT !.pc = "insert", !.seen = v]]
    BY <1>2 DEF WriteRead
  <2>3. v \in 0..MaxRows /\ v <= last
    BY <1>0, SeenTyped
  <2>4. writer' \in [Writers -> [pc : {"idle", "read", "insert", "list"}, fields : SUBSET Fields,
                             value : Values, since : 0..MaxRows, seen : 0..MaxRows]]
    <3>1. [writer[w] EXCEPT !.pc = "insert", !.seen = v]
             \in [pc : {"idle", "read", "insert", "list"}, fields : SUBSET Fields,
                  value : Values, since : 0..MaxRows, seen : 0..MaxRows]
      <4>1. writer[w] \in [pc : {"idle", "read", "insert", "list"}, fields : SUBSET Fields,
                           value : Values, since : 0..MaxRows, seen : 0..MaxRows]
        BY <1>0 DEF TypeOK
      <4> QED BY <2>3, <4>1
    <3> QED BY <1>0, <2>2, <3>1 DEF TypeOK
  <2>5. \A x \in Writers : writer'[x].seen <= last
    BY <1>0, <2>2, <2>3 DEF TypeOK, SeenExists
  <2> QED BY <1>0, <2>1, <2>4, <2>5 DEF Typed, TypeOK, SeenExists, daemonVars, events
<1>3. ASSUME NEW w \in Writers, WriteInsert(w)
      PROVE  Typed' /\ last' \in Nat /\ last' >= last
  <2>1. /\ Cardinality(Differing(w)) \in Nat
        /\ Changes(w, Differing(w)) \in Seq(Rows)
        /\ Len(Changes(w, Differing(w))) = Cardinality(Differing(w))
    BY <1>0, ChangesTyped DEF SeenExists
  <2>2. log' = log \o Changes(w, Differing(w)) /\ last + Cardinality(Differing(w)) <= MaxRows
    BY <1>3 DEF WriteInsert
  <2>3. log' \in Seq(Rows) /\ Len(log') = last + Cardinality(Differing(w))
    <3>1. log \in Seq(Rows)
      BY <1>0 DEF TypeOK
    <3>2. log \o Changes(w, Differing(w)) \in Seq(Rows)
      BY <2>1, <3>1, ConcatTyped
    <3>3. Len(log \o Changes(w, Differing(w))) = Len(log) + Len(Changes(w, Differing(w)))
      BY <2>1, <3>1, ConcatTyped
    <3> QED BY <2>1, <2>2, <3>2, <3>3 DEF last
  <2>4. last' \in Nat /\ last' >= last /\ last' <= MaxRows
    BY <1>0, <2>1, <2>2, <2>3 DEF last
  <2>5. writer' \in [Writers -> [pc : {"idle", "read", "insert", "list"}, fields : SUBSET Fields,
                             value : Values, since : 0..MaxRows, seen : 0..MaxRows]]
    <3>1. [writer[w] EXCEPT !.pc = "list"]
             \in [pc : {"idle", "read", "insert", "list"}, fields : SUBSET Fields,
                  value : Values, since : 0..MaxRows, seen : 0..MaxRows]
      <4>1. writer[w] \in [pc : {"idle", "read", "insert", "list"}, fields : SUBSET Fields,
                           value : Values, since : 0..MaxRows, seen : 0..MaxRows]
        BY <1>0 DEF TypeOK
      <4> QED BY <4>1
    <3>2. writer' = [writer EXCEPT ![w] = [@ EXCEPT !.pc = "list"]]
      BY <1>3 DEF WriteInsert
    <3> QED BY <1>0, <3>1, <3>2 DEF TypeOK
  <2>6. \A x \in Writers : writer'[x].seen <= last'
    <3>1. writer' = [writer EXCEPT ![w] = [@ EXCEPT !.pc = "list"]]
      BY <1>3 DEF WriteInsert
    <3>2. \A x \in Writers : writer[x].seen <= last /\ writer[x].seen \in 0..MaxRows
      BY <1>0 DEF TypeOK, SeenExists
    <3>3. \A x \in Writers : writer'[x].seen = writer[x].seen
      BY <1>0, <3>1 DEF TypeOK
    <3> QED BY <1>0, <2>4, <3>2, <3>3
  <2>7. UNCHANGED daemonVars
    BY <1>3 DEF WriteInsert
  <2> QED BY <1>0, <2>3, <2>4, <2>5, <2>6, <2>7 DEF Typed, TypeOK, SeenExists, daemonVars, events
<1>4. ASSUME NEW w \in Writers, WriteReason(w)
      PROVE  Typed' /\ last' = last
  <2>1. log' \in Seq(Rows) /\ Len(log') = last
    <3>1. CASE log' = [i \in 1..last |-> IF i > writer[w].since THEN [log[i] EXCEPT !.reason = w] ELSE log[i]]
      <4>1. ASSUME NEW i \in 1..last
            PROVE  log[i] \in Rows /\ [log[i] EXCEPT !.reason = w] \in Rows
        <5>1. log[i] \in Rows
          BY <1>0 DEF TypeOK, last
        <5> QED BY <5>1 DEF Rows
      <4>2. log' \in [1..last -> Rows]
        BY <3>1, <4>1
      <4> QED BY <1>0, <4>2
    <3>2. CASE UNCHANGED log
      BY <1>0, <3>2 DEF TypeOK, last
    <3> QED BY <1>4, <3>1, <3>2 DEF WriteReason
  <2>2. last' = last
    BY <2>1 DEF last
  <2>3. writer' \in [Writers -> [pc : {"idle", "read", "insert", "list"}, fields : SUBSET Fields,
                             value : Values, since : 0..MaxRows, seen : 0..MaxRows]]
    BY <1>0, <1>4, FieldsAssumption DEF WriteReason, TypeOK, IdleWriter
  <2>4. \A x \in Writers : writer'[x].seen <= last
    BY <1>0, <1>4 DEF WriteReason, TypeOK, SeenExists, IdleWriter
  <2>5. UNCHANGED daemonVars
    BY <1>4 DEF WriteReason
  <2> QED BY <1>0, <2>1, <2>2, <2>3, <2>4, <2>5 DEF Typed, TypeOK, SeenExists, daemonVars, events
<1> QED BY <1>0, <1>1, <1>2, <1>3, <1>4 DEF Write

\* Every step of the daemon keeps the shapes and leaves the log alone.
LEMMA DaemonTyped ==
  ASSUME Typed, Boot \/ BootCursor \/ Reload \/ Stop
  PROVE  Typed' /\ log' = log
<1>0. TypeOK /\ last \in Nat /\ last <= MaxRows /\ MaxRows \in Nat /\ Len(Rebound) = 6
  BY SeenTyped, BoundsAssumption DEF Typed, Rebound
<1>1. \A v \in Seen : v \in 0..MaxRows
  BY <1>0, SeenTyped
<1>2. SUFFICES /\ UNCHANGED <<log, writer>>
               /\ daemon' \in {"down", "booting", "up"} /\ boots' \in 0..MaxBoots
               /\ held' \in [Holders -> 0..MaxRows]
               /\ cursor' \in 0..MaxRows
               /\ reload' \in [pc : {"idle", "list", "read", "journal", "apply"}, max : 0..MaxRows,
                               rows : 0..MaxRows, version : 0..MaxRows, next : 1..Len(Rebound) + 1]
               /\ reported' \in SUBSET Ids /\ unlogged' \in SUBSET Ids
  BY DEF Typed, TypeOK, SeenExists, last
<1> USE <1>0, BoundsAssumption DEF TypeOK, events
<1>3. CASE Boot
  BY <1>1, <1>3 DEF Boot
<1>4. CASE BootCursor
  <2>1. PICK c \in Seen : cursor' = c /\ reported' = 1..c
    BY <1>4 DEF BootCursor
  <2>2. c \in 0..MaxRows /\ 1..c \in SUBSET Ids
    BY <1>1 DEF Ids
  <2> QED BY <1>4, <2>1, <2>2 DEF BootCursor
<1>5. CASE ReloadMax
  <2>1. last \in 0..MaxRows OBVIOUS
  <2>2. [IdleReload EXCEPT !.pc = "list", !.max = last]
           \in [pc : {"idle", "list", "read", "journal", "apply"}, max : 0..MaxRows,
                rows : 0..MaxRows, version : 0..MaxRows, next : 1..Len(Rebound) + 1]
    BY <2>1, IdleTyped
  <2>3. reload' \in [pc : {"idle", "list", "read", "journal", "apply"}, max : 0..MaxRows,
                     rows : 0..MaxRows, version : 0..MaxRows, next : 1..Len(Rebound) + 1]
    BY <1>5, <2>2, Zenon DEF ReloadMax
  <2> QED BY <1>5, <2>3 DEF ReloadMax, others
<1>6. CASE ReloadList
  <2>1. last \in 0..MaxRows OBVIOUS
  <2>2. [reload EXCEPT !.pc = "read", !.rows = last]
           \in [pc : {"idle", "list", "read", "journal", "apply"}, max : 0..MaxRows,
                rows : 0..MaxRows, version : 0..MaxRows, next : 1..Len(Rebound) + 1]
    BY <2>1
  <2> QED BY <1>6, <2>2 DEF ReloadList, others
<1>7. CASE ReloadRead
  BY <1>1, <1>7 DEF ReloadRead, others
<1>8. CASE ReloadRaise
  BY <1>8 DEF ReloadRaise, IdleReload, others
<1>9. CASE ReloadJournal
  <2>1. NewRows \subseteq Ids
    <3>1. cursor \in 0..MaxRows /\ reload.rows \in 0..MaxRows OBVIOUS
    <3> QED BY <3>1 DEF NewRows, Ids
  <2>2. [reload EXCEPT !.pc = "apply"]
           \in [pc : {"idle", "list", "read", "journal", "apply"}, max : 0..MaxRows,
                rows : 0..MaxRows, version : 0..MaxRows, next : 1..Len(Rebound) + 1]
    OBVIOUS
  <2> QED BY <1>9, <2>1, <2>2 DEF ReloadJournal, others
<1>10. CASE ReloadApply
  <2>1. reload.next <= 6 /\ reload.next \in 1..7 /\ reload.version \in 0..MaxRows
    BY <1>10 DEF ReloadApply
  <2>2. reload.next + 1 \in 1..Len(Rebound) + 1
    BY <2>1
  <2>3. [reload EXCEPT !.next = @ + 1]
           \in [pc : {"idle", "list", "read", "journal", "apply"}, max : 0..MaxRows,
                rows : 0..MaxRows, version : 0..MaxRows, next : 1..Len(Rebound) + 1]
    BY <2>2
  <2>4. [held EXCEPT ![Rebound[reload.next]] = reload.version] \in [Holders -> 0..MaxRows]
    BY <2>1
  <2> QED BY <1>10, <2>3, <2>4 DEF ReloadApply, others
<1>11. CASE ReloadDone
  BY <1>11 DEF ReloadDone, IdleReload, EndCursor, others
<1>13. CASE Stop
  BY <1>13 DEF Stop, IdleReload, others
<1> QED BY <1>3, <1>4, <1>5, <1>6, <1>7, <1>8, <1>9, <1>10, <1>11, <1>13 DEF Reload

\* A step of the specification, stuttering included, keeps the shapes and never shortens the log.
LEMMA NextTyped == Typed /\ [Next]_vars => Typed' /\ last' \in Nat /\ last' >= last
<1> SUFFICES ASSUME Typed, [Next]_vars PROVE Typed' /\ last' \in Nat /\ last' >= last
  OBVIOUS
<1>0. last \in Nat
  BY SeenTyped DEF Typed
<1>1. CASE Write
  BY <1>1, WriteTyped
<1>2. CASE Boot \/ BootCursor \/ Reload \/ Stop
  BY <1>0, <1>2, DaemonTyped DEF last
<1>3. CASE UNCHANGED vars
  BY <1>0, <1>3 DEF vars, events, Typed, TypeOK, SeenExists, last
<1> QED BY <1>1, <1>2, <1>3 DEF Next

\* Type correctness: every variable keeps its type whatever writers, polls and restarts do.
THEOREM TypeCorrect == Spec => []TypeOK
<1>1. Typed => TypeOK
  BY DEF Typed
<1> QED BY InitTyped, NextTyped, <1>1, PTL DEF Spec

-----------------------------------------------------------------------------
(* No row is passed over.                                                  *)

\* Only a running daemon reloads.
ReloadsUp == daemon # "up" => reload.pc = "idle"
\* The rows a reload lists reach at least to the id it will move the cursor to.
ListedEnough == reload.pc \in {"read", "journal", "apply"} => reload.max <= reload.rows
\* What a reload has journaled are all the rows it is about to pass.
Journaled == reload.pc = "apply" => (cursor + 1)..reload.rows \subseteq reported \cup unlogged
MaxExists == reload.pc # "idle" => reload.max <= last

Reports == ReloadsUp /\ ListedEnough /\ Journaled /\ MaxExists /\ EveryRowReported

\* Nothing has been passed when nothing has started.
LEMMA InitReports == Init => Reports
BY DEF Init, Reports, ReloadsUp, ListedEnough, Journaled, MaxExists, EveryRowReported, IdleReload

\* Every step keeps the rows behind the cursor reported.
LEMMA NextReports == Typed /\ Typed' /\ last' >= last /\ Reports /\ [Next]_vars => Reports'
<1> SUFFICES ASSUME Typed, Typed', last' >= last, Reports, [Next]_vars PROVE Reports'
  OBVIOUS
<1>0. /\ cursor \in Nat /\ reload.max \in Nat /\ reload.rows \in Nat
      /\ last \in Nat /\ last' \in Nat
      /\ reload \in [pc : {"idle", "list", "read", "journal", "apply"}, max : 0..MaxRows,
                     rows : 0..MaxRows, version : 0..MaxRows, next : 1..Len(Rebound) + 1]
  BY BoundsAssumption DEF Typed, TypeOK, last
<1> USE <1>0 DEF Reports, ReloadsUp, ListedEnough, Journaled, MaxExists, EveryRowReported, events
<1>1. CASE UNCHANGED daemonVars
  BY <1>1 DEF daemonVars
<1>2. CASE Boot
  BY <1>2 DEF Boot, last
<1>3. CASE BootCursor
  BY <1>3, SeenTyped DEF BootCursor, Typed, last
<1>4. CASE ReloadMax
  BY <1>4 DEF ReloadMax, Reloading, IdleReload, others, last
<1>5. CASE ReloadList
  BY <1>5 DEF ReloadList, Reloading, others, last
<1>6. CASE ReloadRead
  BY <1>6 DEF ReloadRead, Reloading, others, last
<1>7. CASE ReloadRaise
  BY <1>7 DEF ReloadRaise, IdleReload, Reloading, others, last
<1>8. CASE ReloadJournal
  BY <1>8 DEF ReloadJournal, Reloading, NewRows, others, last
<1>9. CASE ReloadApply
  BY <1>9 DEF ReloadApply, Reloading, others, last
<1>10. CASE ReloadDone
  BY <1>10 DEF ReloadDone, EndCursor, Reloading, IdleReload, others, last
<1>12. CASE Stop
  BY <1>12 DEF Stop, IdleReload, others, last
<1>13. Write => UNCHANGED daemonVars
  BY DEF Write, WriteStart, WriteRead, WriteInsert, WriteReason
<1> QED
  BY <1>1, <1>2, <1>3, <1>4, <1>5, <1>6, <1>7, <1>8, <1>9, <1>10, <1>12, <1>13
     DEF Next, Reload, vars, daemonVars

\* No change is passed over: every row the cursor passed was there when the daemon started,
\* or was named by a settings_changed event, or by one whose journal write failed and was only
\* warned about, with any number of writers, failing reads and writes, and restarts.
THEOREM EveryRowIsReported == Spec => []EveryRowReported
<1>1. Typed /\ Reports /\ [Next]_vars => (Typed /\ Reports)'
  BY NextTyped, NextReports
<1>2. Reports => EveryRowReported
  BY DEF Reports
<1> QED BY InitTyped, InitReports, <1>1, <1>2, PTL DEF Spec

-----------------------------------------------------------------------------
(* The cursor follows the settings.                                        *)

\* A reload reads settings at least as new as the rows it is to pass, and the runner's own
\* reference is the first it replaces.
FreshEnough == reload.pc \in {"journal", "apply"} => AsNew(reload.version, reload.max)
RunnerFirst == reload.pc = "apply" /\ reload.next > 1 => held["runner"] = reload.version
StartsFirst == reload.pc \in {"list", "read", "journal"} => reload.next = 1

Kept == FreshEnough /\ RunnerFirst /\ StartsFirst

\* No reload is under way at first.
LEMMA InitKept == Init => Kept
BY DEF Init, Kept, FreshEnough, RunnerFirst, StartsFirst, IdleReload

\* The runner's reference comes first and only there.
LEMMA RunnerIsFirst == Rebound[1] = "runner" /\ Len(Rebound) = 6 /\ \A i \in 2..6 : Rebound[i] # "runner"
<1>1. \A i \in 2..6 : i = 2 \/ i = 3 \/ i = 4 \/ i = 5 \/ i = 6 OBVIOUS
<1> QED BY <1>1 DEF Rebound

\* Every step keeps the settings read ahead of the cursor they are read for.
LEMMA NextKept == Typed /\ Reports /\ Kept /\ [Next]_vars => Kept'
<1> SUFFICES ASSUME Typed, Reports, Kept, [Next]_vars PROVE Kept'
  OBVIOUS
<1>0. /\ reload \in [pc : {"idle", "list", "read", "journal", "apply"}, max : 0..MaxRows,
                     rows : 0..MaxRows, version : 0..MaxRows, next : 1..Len(Rebound) + 1]
      /\ MaxRows \in Nat /\ last \in Nat /\ held \in [Holders -> 0..MaxRows] /\ MaxExists
  BY BoundsAssumption, SeenTyped DEF Typed, TypeOK, Reports
<1> USE <1>0 DEF Kept, FreshEnough, RunnerFirst, StartsFirst, AsNew
<1>1. CASE UNCHANGED <<reload, held>>
  BY <1>1
<1>2. CASE Boot
  <2>1. reload.pc = "idle" /\ reload' = reload
    BY <1>2 DEF Boot, Reports, ReloadsUp
  <2> QED BY <2>1
<1>3. CASE ReloadMax \/ ReloadRaise \/ ReloadDone \/ Stop
  <2>1. reload' = IdleReload \/ reload' = [IdleReload EXCEPT !.pc = "list", !.max = last]
    BY <1>3 DEF ReloadMax, ReloadRaise, ReloadDone, Stop
  <2>2. reload'.pc \in {"idle", "list"} /\ reload'.next = 1
    BY <2>1, IdleTyped
  <2> QED BY <2>2
<1>7. CASE ReloadList
  BY <1>7 DEF ReloadList, Reloading
<1>8. CASE ReloadJournal
  BY <1>8 DEF ReloadJournal, Reloading
<1>4. CASE ReloadRead
  <2>1. PICK v \in Seen : reload' = [reload EXCEPT !.pc = "journal", !.version = v]
    BY <1>4 DEF ReloadRead
  <2>2. reload.pc = "read" /\ (v = last \/ (ReadsFail /\ v = 0))
    BY <1>4, <2>1 DEF ReloadRead, Reloading, Seen
  <2> QED BY <2>1, <2>2 DEF MaxExists
<1>5. CASE ReloadApply
  <2>1. /\ reload.pc = "apply" /\ reload.next \in 1..6
        /\ held' = [held EXCEPT ![Rebound[reload.next]] = reload.version]
        /\ reload' = [reload EXCEPT !.next = @ + 1]
    BY <1>5, RunnerIsFirst DEF ReloadApply, Reloading
  <2>2. "runner" \in Holders
    <3>1. Rebound[1] = "runner" /\ 1 \in DOMAIN Rebound
      BY DEF Rebound
    <3> QED BY <3>1 DEF Holders, Range
  <2>3. CASE reload.next = 1
    BY <2>1, <2>2, <2>3, RunnerIsFirst
  <2>4. CASE reload.next > 1
    <3>1. held'["runner"] = held["runner"]
      BY <2>1, <2>2, <2>4, RunnerIsFirst
    <3> QED BY <2>1, <2>4, <3>1
  <2> QED BY <2>1, <2>3, <2>4
<1>6. Write \/ BootCursor => UNCHANGED <<reload, held>>
  BY DEF Write, WriteStart, WriteRead, WriteInsert, WriteReason, daemonVars, BootCursor
<1> QED BY <1>1, <1>2, <1>3, <1>4, <1>5, <1>6, <1>7, <1>8 DEF Next, Reload, vars

\* A step that moves the cursor of a running daemon ends a reload, after the runner was rebound.
LEMMA StepKeepsUp ==
  Typed /\ Kept /\ [Next]_vars => (cursor' > cursor /\ daemon = "up" => AsNew(held'["runner"], cursor'))
<1> SUFFICES ASSUME Typed, Kept, Next, cursor' > cursor, daemon = "up"
             PROVE  AsNew(held'["runner"], cursor')
  BY DEF vars, Typed, TypeOK
<1>1. ReloadDone
  <2>1. cursor' # cursor /\ cursor' # 0
    BY BoundsAssumption DEF Typed, TypeOK
  <2> QED BY <2>1 DEF Next, Write, WriteStart, WriteRead, WriteInsert, WriteReason, daemonVars, Boot,
                     BootCursor, Reload, ReloadMax, ReloadList, ReloadRead, ReloadRaise,
                     ReloadJournal, ReloadApply, Stop
<1>2. /\ reload.pc = "apply" /\ reload.next > 6 /\ cursor' = reload.max /\ held' = held
  BY <1>1, RunnerIsFirst DEF ReloadDone, Reloading, EndCursor
<1>3. held["runner"] = reload.version /\ AsNew(reload.version, reload.max)
  BY <1>2 DEF Kept, FreshEnough, RunnerFirst, Typed, TypeOK
<1> QED BY <1>2, <1>3

\* The cursor never runs ahead of the settings: the daemon runs on settings at least as new as
\* every change its cursor passes, or on the code's defaults after a read that failed.
THEOREM SettingsAreKept == Spec => SettingsKeepUp
<1>1. Typed /\ Reports /\ Kept /\ [Next]_vars => (Typed /\ Reports /\ Kept)'
  BY NextTyped, NextReports, NextKept
<1>2. Typed /\ Kept /\ [Next]_vars
        => [cursor' > cursor /\ daemon = "up" => AsNew(held'["runner"], cursor')]_vars
  BY StepKeepsUp
<1> QED BY InitTyped, InitReports, InitKept, <1>1, <1>2, PTL DEF Spec, SettingsKeepUp
=============================================================================
