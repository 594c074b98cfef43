----------------------------- MODULE RiskProfiles -----------------------------
(***************************************************************************)
(* Where the risk gates take their numbers from: the defaults in the code, *)
(* the environment file over them, the rows of settings_changes over both, *)
(* and the profile of the market family for the fields nobody set.         *)
(*                                                                         *)
(* Settings are their values and, as pydantic keeps it, the set of the     *)
(* fields they were given explicitly.  How a change reaches the engines of *)
(* a running daemon is the subject of SettingsReload.  Shares are in       *)
(* hundredths.                                                             *)
(***************************************************************************)
EXTENDS Integers, TLC

CONSTANTS
    Choices,    \* for each field, the values an operator may give it
    MaxEdits    \* bound: edits, of the environment file and of the settings

VARIABLES
    environ,    \* the environment file: the fields it sets, and their values
    rows,       \* settings_changes: the latest value of each field that has a row
    held,       \* the settings of the risk engine that runs
    profile,    \* its RiskProfile
    news,       \* there are rows that the process has not reloaded
    chosen,     \* history: the fields an operator has set
    running, edits

profileVars == <<environ, rows, held, profile, news, chosen, running, edits>>

BuiltIn ==
    [market_family |-> "btc_1h", stale_data_seconds |-> 30, exit_buffer_seconds |-> 5,
     exit_buffer_pct_of_tte |-> 0, max_position_usd |-> 10, max_concurrent_positions |-> 1]
Fields == DOMAIN BuiltIn

Baseline == [BuiltIn EXCEPT !.market_family = "btc_15m", !.max_position_usd = 2]

FamilyProfiles ==
    [btc_1h  |-> [stale_data_seconds |-> 5, exit_buffer_pct_of_tte |-> 5, max_concurrent_positions |-> 2],
     btc_15m |-> [stale_data_seconds |-> 3, exit_buffer_pct_of_tte |-> 7, max_concurrent_positions |-> 2],
     btc_5m  |-> [stale_data_seconds |-> 2, exit_buffer_pct_of_tte |-> 10, max_concurrent_positions |-> 1]]
Windows == [btc_1h |-> 3600, btc_15m |-> 900, btc_5m |-> 300]

None == [f \in {} |-> 0]

\* f, and what g says where it says something.
Over(f, g) == [x \in DOMAIN f |-> IF x \in DOMAIN g THEN g[x] ELSE f[x]]

-----------------------------------------------------------------------------
(* The settings and the profile.                                           *)

Base == [values |-> Over(BuiltIn, environ), explicit |-> DOMAIN environ]

\* get_effective_settings: with rows, the settings are built anew from all the
\* values of the old ones.
Effective(r) ==
    IF DOMAIN r = {} THEN Base
    ELSE [values |-> Over(Base.values, r), explicit |-> Fields]

\* A table that cannot be read has no rows.
Readings(r) == {Effective(r), Effective(None)}

Family(s) == s.values.market_family
Tightened(s) ==
    IF Family(s) \in DOMAIN FamilyProfiles THEN FamilyProfiles[Family(s)] ELSE None

\* resolve_risk_profile.
Pick(s, field) ==
    IF field \in s.explicit THEN s.values[field] ELSE Over(s.values, Tightened(s))[field]
Resolve(s) ==
    [f \in Fields \ {"market_family"} |-> Pick(s, f)] @@
    [family |-> Family(s),
     family_window_seconds |-> IF Family(s) \in DOMAIN Windows THEN Windows[Family(s)] ELSE 0]

-----------------------------------------------------------------------------

\* A process starts.  The migrations have run before the daemon reads its
\* settings, and run after the API has read its own; an operator command asks
\* for no rows.
Start(who) ==
    /\ ~running /\ running' = TRUE
    /\ rows' = IF rows = None THEN Baseline ELSE rows
    /\ held' \in CASE who = "daemon"  -> Readings(rows')
                   [] who = "api"     -> Readings(rows)
                   [] who = "command" -> {Base}
    /\ profile' = Resolve(held')
    /\ news' = FALSE
    /\ UNCHANGED <<environ, chosen, edits>>

Stop ==
    /\ running /\ running' = FALSE
    /\ UNCHANGED <<environ, rows, held, profile, news, chosen, edits>>

\* The reload of a running daemon, after somebody's edit.
Refresh ==
    /\ running /\ news /\ news' = FALSE
    /\ held' \in Readings(rows)
    /\ profile' = Resolve(held')
    /\ UNCHANGED <<environ, rows, chosen, running, edits>>

\* save_runtime_overrides: a row for what differs from the effective value.
Save(field, value) ==
    /\ edits < MaxEdits /\ edits' = edits + 1
    /\ rows # None
    /\ \E now \in Readings(rows) :
         IF now.values[field] = value THEN UNCHANGED <<rows, news>>
         ELSE /\ rows' = [f \in DOMAIN rows \cup {field} |-> IF f = field THEN value ELSE rows[f]]
              /\ news' = TRUE
    /\ chosen' = chosen \cup {field}
    /\ UNCHANGED <<environ, held, profile, running>>

EditEnviron(field, value) ==
    /\ edits < MaxEdits /\ edits' = edits + 1
    /\ environ' = [f \in DOMAIN environ \cup {field} |-> IF f = field THEN value ELSE environ[f]]
    /\ chosen' = chosen \cup {field}
    /\ UNCHANGED <<rows, held, profile, news, running>>

Init ==
    /\ environ = None /\ rows = None
    /\ held = Base /\ profile = Resolve(Base)
    /\ news = FALSE /\ chosen = {} /\ running = FALSE /\ edits = 0

Next ==
    \/ \E who \in {"daemon", "api", "command"} : Start(who)
    \/ Stop \/ Refresh
    \/ \E f \in Fields : \E v \in Choices[f] : Save(f, v) \/ EditEnviron(f, v)

Spec == Init /\ [][Next]_profileVars

-----------------------------------------------------------------------------
(* Properties.                                                             *)

\* A field that nobody set, and that is left at the default of the code, takes
\* the value of the market family (resolve_risk_profile's contract).
FamilyApplies ==
    running => \A f \in DOMAIN Tightened(held) :
        f \notin chosen /\ held.values[f] = BuiltIn[f] => profile[f] = Tightened(held)[f]
=============================================================================
