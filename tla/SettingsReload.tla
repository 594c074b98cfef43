--------------------------- MODULE SettingsReload ---------------------------
(***************************************************************************)
(* Runtime settings: the append-only table settings_changes, the processes *)
(* that write it (the HTTP API and the operator CLI), and the daemon, that *)
(* polls its highest id and rebinds every engine when it advances.         *)
(*                                                                         *)
(* The reload rebinds the holders of settings one assignment at a time.  A *)
(* holder is known by the version it holds: the length of the log its      *)
(* settings were materialised from, 0 for the code's own defaults.         *)
(***************************************************************************)
EXTENDS Integers, Sequences, FiniteSets, SequencesExt

CONSTANTS
  Fields,    \* editable settings
  Values,    \* values a field may take
  Default,   \* the value of every field before the first change
  Writers,   \* API requests and CLI commands that change settings
  NoWriter,  \* the author of a reason nobody gave
  MaxRows,   \* bound: rows ever written
  MaxBoots,  \* bound: starts of the daemon
  MaxLost,   \* bound: rows, since a start, whose events the journal does not take
  ReadsFail  \* TRUE when a read of the database may fail (busy, unreadable)

ASSUME FieldsAssumption == IsFiniteSet(Fields) /\ Default \in Values /\ NoWriter \notin Writers
ASSUME BoundsAssumption == MaxRows \in Nat /\ MaxBoots \in Nat /\ MaxLost \in Nat
                             /\ ReadsFail \in BOOLEAN

VARIABLES
  log,       \* settings_changes, in order of id
  writer,    \* what each writer is doing
  daemon,    \* "down", "booting" or "up"
  boots,
  held,      \* the version each holder of settings has
  cursor,    \* _last_settings_id
  reload,    \* the reload under way
  reported,  \* ids the daemon started from, or named by a settings_changed event of it
  unlogged   \* history: ids whose event the journal did not take

events == <<reported, unlogged>>
vars == <<log, writer, daemon, boots, held, cursor, reload, events>>

\* The holders _apply_settings rebinds, in its order, and the one it does not know of.
Rebound == <<"runner", "ladder", "risk", "execution", "portfolio", "strategies">>
Holders == Range(Rebound) \cup {"service"}

last == Len(log)
\* current_overrides over the first n rows: the latest row of a field wins.
Latest(n, f) == LET rows == {i \in 1..n : log[i].field = f}
                IN  IF rows = {} THEN Default
                    ELSE log[CHOOSE i \in rows : \A j \in rows : j <= i].after

IdleWriter == [pc |-> "idle", fields |-> {}, value |-> Default, since |-> 0, seen |-> 0]
IdleReload == [pc |-> "idle", max |-> 0, rows |-> 0, version |-> 0, next |-> 1]

Init ==
  /\ log = <<>> /\ writer = [w \in Writers |-> IdleWriter]
  /\ daemon = "down" /\ boots = 0 /\ held = [h \in Holders |-> 0]
  /\ cursor = 0 /\ reload = IdleReload /\ reported = {} /\ unlogged = {}

-----------------------------------------------------------------------------
(* Writers: the highest id, the effective settings, the insert and the     *)
(* look at what was inserted are four accesses to the database.            *)

\* Slip: the effective settings are those of the last reload.
SeenAtCursor == {cursor}
\* A read that fails inside load_runtime_overrides yields no overrides and no error.
Seen == {last} \cup (IF ReadsFail THEN {0} ELSE {})

daemonVars == <<daemon, boots, held, cursor, reload, events>>
Writer(w, pc) == writer[w].pc = pc

WriteStart(w, fs, v) ==
  /\ Writer(w, "idle") /\ last + Cardinality(fs) <= MaxRows
  /\ writer' = [writer EXCEPT ![w] = [@ EXCEPT !.pc = "read", !.fields = fs, !.value = v,
                                               !.since = last]]
  /\ UNCHANGED <<log, daemonVars>>

WriteRead(w) ==
  /\ Writer(w, "read")
  /\ \E v \in Seen : writer' = [writer EXCEPT ![w] = [@ EXCEPT !.pc = "insert", !.seen = v]]
  /\ UNCHANGED <<log, daemonVars>>

\* save_runtime_overrides: a row for every field that is to change, in one transaction.
Changes(w, fs) == LET me == writer[w] IN
  [i \in 1..Cardinality(fs) |->
     [field |-> SetToSeq(fs)[i], before |-> Latest(me.seen, SetToSeq(fs)[i]),
      after |-> me.value, by |-> w, reason |-> NoWriter]]
Differing(w) == {f \in writer[w].fields : Latest(writer[w].seen, f) # writer[w].value}

WriteInsert(w) ==
  /\ Writer(w, "insert") /\ last + Cardinality(Differing(w)) <= MaxRows
  /\ log' = log \o Changes(w, Differing(w))
  /\ writer' = [writer EXCEPT ![w] = [@ EXCEPT !.pc = "list"]]
  /\ UNCHANGED daemonVars

\* The rows since the first access are taken for the writer's own; the CLI gives them its reason.
WriteReason(w) ==
  /\ Writer(w, "list")
  /\ \/ log' = [i \in 1..last |-> IF i > writer[w].since THEN [log[i] EXCEPT !.reason = w] ELSE log[i]]
     \/ UNCHANGED log
  /\ writer' = [writer EXCEPT ![w] = IdleWriter]
  /\ UNCHANGED daemonVars

Write == \E w \in Writers :
  \/ \E fs \in SUBSET Fields \ {{}}, v \in Values : WriteStart(w, fs, v)
  \/ WriteRead(w) \/ WriteInsert(w) \/ WriteReason(w)

-----------------------------------------------------------------------------
(* The daemon: start, reload loop, stop.                                   *)

others == <<log, writer, boots>>

Boot ==
  /\ daemon = "down" /\ boots < MaxBoots
  /\ daemon' = "booting" /\ boots' = boots + 1
  /\ \E v \in Seen : held' = [h \in Holders |-> v]
  /\ UNCHANGED <<log, writer, cursor, reload, events>>

BootCursor ==
  /\ daemon = "booting" /\ daemon' = "up"
  /\ \E c \in Seen : cursor' = c /\ reported' = 1..c
  /\ UNCHANGED <<log, writer, boots, held, reload, unlogged>>

Reloading(pc) == daemon = "up" /\ reload.pc = pc

\* Slip: the last row is not counted as new.
AdvancedLate == last > cursor + 1
Advanced     == last > cursor
\* Slip: the rows are selected with >= instead of >.
NewRowsFrom == cursor..reload.rows
NewRows     == (cursor + 1)..reload.rows
\* Slip: the cursor is read anew from the table.
EndCursorAnew == last
EndCursor     == reload.max

ReloadMax ==
  /\ Reloading("idle") /\ Advanced
  /\ reload' = [IdleReload EXCEPT !.pc = "list", !.max = last]
  /\ UNCHANGED <<daemon, held, cursor, events, others>>

ReloadList ==
  /\ Reloading("list")
  /\ reload' = [reload EXCEPT !.pc = "read", !.rows = last]
  /\ UNCHANGED <<daemon, held, cursor, events, others>>

ReloadRead ==
  /\ Reloading("read")
  /\ \E v \in Seen : reload' = [reload EXCEPT !.pc = "journal", !.version = v]
  /\ UNCHANGED <<daemon, held, cursor, events, others>>

\* get_max_id and list_changes do raise: the loop reports the failure and polls again.
ReloadRaise ==
  /\ ReadsFail /\ Reloading("list")
  /\ reload' = IdleReload
  /\ UNCHANGED <<daemon, held, cursor, events, others>>

\* An event the journal does not take is only warned about: the reload goes on.
ReloadJournal ==
  /\ Reloading("journal")
  /\ \/ reported' = reported \cup NewRows /\ UNCHANGED unlogged
     \/ /\ unlogged' = unlogged \cup NewRows /\ UNCHANGED reported
        /\ Cardinality(unlogged') <= MaxLost
  /\ reload' = [reload EXCEPT !.pc = "apply"]
  /\ UNCHANGED <<daemon, held, cursor, others>>

ReloadApply ==
  /\ Reloading("apply") /\ reload.next <= Len(Rebound)
  /\ held' = [held EXCEPT ![Rebound[reload.next]] = reload.version]
  /\ reload' = [reload EXCEPT !.next = @ + 1]
  /\ UNCHANGED <<daemon, cursor, events, others>>

ReloadDone ==
  /\ Reloading("apply") /\ reload.next > Len(Rebound)
  /\ cursor' = EndCursor /\ reload' = IdleReload
  /\ UNCHANGED <<daemon, held, events, others>>

Reload == \/ ReloadMax \/ ReloadList \/ ReloadRead \/ ReloadRaise
          \/ ReloadJournal \/ ReloadApply \/ ReloadDone

\* What the process holds goes with it.
Stop ==
  /\ daemon # "down" /\ daemon' = "down"
  /\ held' = [h \in Holders |-> 0] /\ cursor' = 0
  /\ reload' = IdleReload /\ reported' = {} /\ unlogged' = {}
  /\ UNCHANGED others

Next == Write \/ Boot \/ BootCursor \/ Reload \/ Stop

Spec == Init /\ [][Next]_vars

\* The loop polls for as long as the daemon runs, its thread finishes what it began, and a
\* database that can be read again and again is read in the end.
Fairness == WF_vars(Reload) /\ WF_vars(BootCursor) /\ SF_vars(ReloadList)
FairSpec == Spec /\ Fairness

-----------------------------------------------------------------------------
(* Properties.                                                             *)

Rows == [field : Fields, before : Values, after : Values, by : Writers,
         reason : Writers \cup {NoWriter}]
Ids  == 1..MaxRows

\* Every variable keeps its type; in particular only ids that exist are reported.
TypeOK ==
  /\ log \in Seq(Rows) /\ last <= MaxRows
  /\ writer \in [Writers -> [pc : {"idle", "read", "insert", "list"}, fields : SUBSET Fields,
                             value : Values, since : 0..MaxRows, seen : 0..MaxRows]]
  /\ daemon \in {"down", "booting", "up"} /\ boots \in 0..MaxBoots
  /\ held \in [Holders -> 0..MaxRows] /\ cursor \in 0..MaxRows
  /\ reload \in [pc : {"idle", "list", "read", "journal", "apply"}, max : 0..MaxRows,
                 rows : 0..MaxRows, version : 0..MaxRows, next : 1..Len(Rebound) + 1]
  /\ reported \in SUBSET Ids /\ unlogged \in SUBSET Ids

\* No change is passed over: whatever the order of writes and polls, every row the cursor
\* has passed was there when the daemon started, or was named by a settings_changed event,
\* or by one that the journal did not take and that only a warning of the log tells of
\* (_poll_settings_once).
EveryRowReported == daemon = "up" => 1..cursor \subseteq reported \cup unlogged

\* At least as new as row i, or the code's defaults after a failed read.
AsNew(v, i) == v >= i \/ (ReadsFail /\ v = 0)

\* The cursor never runs ahead of the settings: when a reload ends, the daemon runs on
\* settings at least as new as the rows the cursor now passes, or on the code's defaults if
\* the read failed.
SettingsKeepUp == [][cursor' > cursor /\ daemon = "up" => AsNew(held'["runner"], cursor')]_vars

\* A change made while the daemon runs takes effect, unless the daemon stops first.
EditTakesEffect ==
  \A i \in Ids : (daemon = "up" /\ cursor < i /\ i <= last)
                   ~> (daemon # "up" \/ (cursor >= i /\ \A h \in Range(Rebound) : AsNew(held[h], i)))
=============================================================================
