----------------------------- MODULE Migrations -----------------------------
(***************************************************************************)
(* The schema migrations every process runs before its engines come up.    *)
(* The daemon, the API and operator commands boot side by side on one      *)
(* SQLite file: each reads which migrations are marked applied, runs the   *)
(* others in order, one transaction each, and marks them; a migration that *)
(* fails is rolled back, marked failed and stops that boot, and a later    *)
(* boot tries it again.                                                    *)
(*                                                                         *)
(* External is SQLite in WAL mode: one writer at a time, a transaction     *)
(* reads the database as of its first read, and its first write is refused *)
(* at once when somebody committed since, or after a timeout while another *)
(* writes.                                                                 *)
(***************************************************************************)
EXTENDS Integers, Sequences, SequencesExt

CONSTANTS
    Procs,       \* processes that boot on the database
    NoProc,      \* nobody
    MaxBoots,    \* bound: boots of each process
    MaxFaults    \* bound: upgrades that raise, and deaths of processes

ASSUME MigrationAssumption ==
    NoProc \notin Procs /\ MaxBoots \in Nat /\ MaxFaults \in Nat

\* The migrations, oldest first, and those whose first statement creates a
\* table; the others begin by reading what is there.
Order   == <<"baseline_schema", "settings_changes", "seed", "strategy_id", "reward_accruals">>
Names   == Range(Order)
Creates == {"baseline_schema", "settings_changes", "reward_accruals"}

VARIABLES
    effects,    \* migrations whose effects the database has
    marks,      \* table migrations: name -> its status
    seeds,      \* baseline batches in settings_changes
    ingested,   \* the legacy overrides are in settings_changes
    legacy,     \* data/runtime_settings.json: never there, there, unlinked
    writer,     \* the process whose transaction holds the write lock
    pc,         \* where each process is in its boot
    done,       \* migrations a boot need not run, or ran
    stale,      \* somebody committed since the transaction's first read
    need,       \* the transaction has work to do beside the mark
    carries,    \* the transaction has inserted the legacy overrides
    boots, faults, torn

vars == <<effects, marks, seeds, ingested, legacy, writer, pc, done, stale, need, carries, boots, faults, torn>>
data == <<effects, marks, seeds, ingested>>
tx   == <<stale, need, carries>>

\* What the boot has still to run, by its place in the order, and the next of it.
Left(p)    == {i \in DOMAIN Order : Order[i] \notin done[p]}
Current(p) == Order[CHOOSE i \in Left(p) : \A j \in Left(p) : i <= j]

Committed == stale' = [p \in Procs |-> TRUE]

Go(p, to) == pc' = [pc EXCEPT ![p] = to]

-----------------------------------------------------------------------------
(* A boot.                                                                 *)

AlreadyApplied == {m \in Names : marks[m] = "applied"}

Boot(p) ==
    /\ pc[p] \in {"down", "halted"} /\ boots[p] < MaxBoots
    /\ done' = [done EXCEPT ![p] = AlreadyApplied]
    /\ boots' = [boots EXCEPT ![p] = @ + 1]
    /\ Go(p, "next")
    /\ UNCHANGED <<data, legacy, writer, tx, faults, torn>>

Ready(p) ==
    /\ pc[p] = "next" /\ Left(p) = {}
    /\ Go(p, "up")
    /\ UNCHANGED <<data, legacy, writer, done, tx, boots, faults, torn>>

\* BEGIN takes neither a lock nor a snapshot.
Begin(p) ==
    /\ pc[p] = "next" /\ Left(p) # {}
    /\ Go(p, "begun")
    /\ UNCHANGED <<data, legacy, writer, done, tx, boots, faults, torn>>

\* What the upgrade still has to do, by its own guard: IF NOT EXISTS, the
\* missing column, the empty table.
\* Slip: the seed does not look whether the table is empty.
SeedsAlways(m) == m = "seed" \/ m \notin effects

ToDo(m) == IF m = "seed" THEN seeds = 0 ELSE m \notin effects

\* Slip: a column that is there already is added again, and raises.
LookUnguarded(p) ==
    /\ pc[p] = "begun" /\ ~(Current(p) \in Creates /\ ToDo(Current(p)))
    /\ stale' = [stale EXCEPT ![p] = FALSE]
    /\ need' = [need EXCEPT ![p] = ToDo(Current(p))]
    /\ Go(p, IF Current(p) = "strategy_id" /\ ~ToDo(Current(p)) THEN "failing" ELSE "looked")
    /\ UNCHANGED <<data, legacy, writer, done, carries, boots, faults, torn>>

\* The first statement reads: a guard, or CREATE IF NOT EXISTS of a table
\* that is there.
Look(p) ==
    /\ pc[p] = "begun" /\ ~(Current(p) \in Creates /\ ToDo(Current(p)))
    /\ stale' = [stale EXCEPT ![p] = FALSE]
    /\ need' = [need EXCEPT ![p] = ToDo(Current(p))]
    /\ Go(p, "looked")
    /\ UNCHANGED <<data, legacy, writer, done, carries, boots, faults, torn>>

\* Slip: a file that cannot be parsed is unlinked too.
WriteUnlinks(p, works) ==
    /\ writer = NoProc
    /\ writer' = p
    /\ IF works /\ Current(p) = "seed" /\ legacy = "there"
       THEN legacy' = "gone" /\ carries' \in {carries, [carries EXCEPT ![p] = TRUE]}
       ELSE UNCHANGED <<carries, legacy>>
    /\ need' = [need EXCEPT ![p] = works]
    /\ Go(p, "written")
    /\ UNCHANGED <<data, done, stale, boots, faults, torn>>

\* The writes of the transaction.  The seed inserts the legacy overrides
\* after the baseline and unlinks their file at once; a file that cannot be
\* parsed, or not be unlinked, stays.
Write(p, works) ==
    /\ writer = NoProc
    /\ writer' = p
    /\ \/ /\ works /\ Current(p) = "seed" /\ legacy = "there"
          /\ carries' = [carries EXCEPT ![p] = TRUE]
          /\ legacy' \in {"there", "gone"}
       \/ UNCHANGED <<carries, legacy>>
    /\ need' = [need EXCEPT ![p] = works]
    /\ Go(p, "written")
    /\ UNCHANGED <<data, done, stale, boots, faults, torn>>

WriteFirst(p) ==
    /\ pc[p] = "begun" /\ Current(p) \in Creates /\ ToDo(Current(p))
    /\ Write(p, TRUE)

WriteOn(p) == pc[p] = "looked" /\ ~stale[p] /\ Write(p, need[p])

Refused(p) ==
    \/ pc[p] = "looked" /\ stale[p]
    \/ pc[p] \in {"begun", "looked"} /\ writer \notin {p, NoProc}

\* The transaction is gone, and with it all it wrote but the file.
Rollback(p) ==
    /\ writer' = IF writer = p THEN NoProc ELSE writer
    /\ carries' = [carries EXCEPT ![p] = FALSE]
    /\ torn' = (torn \/ (carries[p] /\ legacy = "gone"))

Commit(p) ==
    /\ pc[p] = "written"
    /\ effects' = effects \cup {Current(p)}
    /\ marks' = [marks EXCEPT ![Current(p)] = "applied"]
    /\ seeds' = IF need[p] /\ Current(p) = "seed" THEN seeds + 1 ELSE seeds
    /\ ingested' = (ingested \/ carries[p])
    /\ Committed /\ writer' = NoProc
    /\ done' = [done EXCEPT ![p] = @ \cup {Current(p)}]
    /\ carries' = [carries EXCEPT ![p] = FALSE]
    /\ Go(p, "next")
    /\ UNCHANGED <<legacy, need, boots, faults, torn>>

Conflict(p) ==
    /\ Refused(p)
    /\ Rollback(p)
    /\ Go(p, "failing")
    /\ UNCHANGED <<data, legacy, done, stale, need, boots, faults>>

Raise(p) ==
    /\ pc[p] \in {"begun", "looked", "written"} /\ faults < MaxFaults
    /\ faults' = faults + 1
    /\ Rollback(p)
    /\ Go(p, "failing")
    /\ UNCHANGED <<data, legacy, done, stale, need, boots>>

\* Slip: the failure is marked and the process comes up all the same.
FailAndComeUp(p) ==
    /\ pc[p] = "failing" /\ writer = NoProc
    /\ marks' = [marks EXCEPT ![Current(p)] = "failed"]
    /\ Committed
    /\ Go(p, "up")
    /\ UNCHANGED <<effects, seeds, ingested, legacy, writer, done, need, carries, boots, faults, torn>>

\* The failure is marked in a transaction of its own, whatever mark another
\* process has set since, and the boot stops.
Fail(p) ==
    /\ pc[p] = "failing" /\ writer = NoProc
    /\ marks' = [marks EXCEPT ![Current(p)] = "failed"]
    /\ Committed
    /\ Go(p, "halted")
    /\ UNCHANGED <<effects, seeds, ingested, legacy, writer, done, need, carries, boots, faults, torn>>

\* Marking it times out while another writes: the boot stops all the same.
FailUnmarked(p) ==
    /\ pc[p] = "failing" /\ writer # NoProc
    /\ Go(p, "halted")
    /\ UNCHANGED <<data, legacy, writer, done, tx, boots, faults, torn>>

Die(p) ==
    /\ pc[p] \notin {"down", "halted", "up"} /\ faults < MaxFaults
    /\ faults' = faults + 1
    /\ Rollback(p)
    /\ Go(p, "down")
    /\ UNCHANGED <<data, legacy, done, stale, need, boots>>

Stop(p) ==
    /\ pc[p] = "up"
    /\ Go(p, "down")
    /\ UNCHANGED <<data, legacy, writer, done, tx, boots, faults, torn>>

Init ==
    /\ effects = {} /\ marks = [m \in Names |-> "none"]
    /\ seeds = 0 /\ ingested = FALSE /\ legacy \in {"absent", "there"}
    /\ writer = NoProc
    /\ pc = [p \in Procs |-> "down"]
    /\ done = [p \in Procs |-> {}]
    /\ stale = [p \in Procs |-> FALSE]
    /\ need = [p \in Procs |-> FALSE]
    /\ carries = [p \in Procs |-> FALSE]
    /\ boots = [p \in Procs |-> 0] /\ faults = 0 /\ torn = FALSE

Booting(p) ==
    \/ Boot(p) \/ Ready(p) \/ Begin(p) \/ Look(p) \/ WriteFirst(p) \/ WriteOn(p)
    \/ Commit(p) \/ Conflict(p) \/ Fail(p) \/ FailUnmarked(p)

Next == \E p \in Procs : Booting(p) \/ Raise(p) \/ Die(p) \/ Stop(p)

Spec == Init /\ [][Next]_vars /\ \A p \in Procs : WF_vars(Booting(p))

-----------------------------------------------------------------------------
(* Properties.                                                             *)

TypeOK ==
    /\ effects \subseteq Names
    /\ marks \in [Names -> {"none", "applied", "failed"}]
    /\ seeds \in Nat /\ ingested \in BOOLEAN /\ legacy \in {"absent", "there", "gone"}
    /\ writer \in Procs \cup {NoProc}
    /\ pc \in [Procs -> {"down", "next", "begun", "looked", "written", "failing", "halted", "up"}]
    /\ done \in [Procs -> SUBSET Names]
    /\ stale \in [Procs -> BOOLEAN] /\ need \in [Procs -> BOOLEAN] /\ carries \in [Procs -> BOOLEAN]
    /\ boots \in [Procs -> 0..MaxBoots] /\ faults \in 0..MaxFaults /\ torn \in BOOLEAN
    /\ \A p \in Procs : pc[p] = "written" <=> writer = p

\* A process whose engines are up works on the whole schema, whoever ran the
\* migrations and whatever failed in between (MigrationRunner.run).
UpMeansMigrated == \A p \in Procs : pc[p] = "up" => effects = Names

\* The baseline is seeded at most once however many processes boot at the
\* same moment, and once when any is up: a second batch would bury every
\* override made since the first (the empty-table guard of the seed).
SeededOnce == seeds <= 1 /\ ((\E p \in Procs : pc[p] = "up") => seeds = 1)

\* The overrides of the legacy file are in the file, in the table or in a
\* transaction on its way, unless one that had unlinked the file was rolled
\* back or died (upgrade of the seed).
OverridesKept ==
    legacy = "gone" => ingested \/ torn \/ \E p \in Procs : carries[p]

\* Whatever conflicts and failures left behind, the next boot that is left
\* alone comes up: every migration may run again over its own effects
\* (the IF NOT EXISTS, column and empty-table guards of the upgrades).
Alone(p) ==
    /\ faults = MaxFaults
    /\ \A q \in Procs \ {p} : pc[q] \in {"down", "halted", "up"} /\ boots[q] = MaxBoots

FailuresHeal == \A p \in Procs : (Alone(p) /\ pc[p] = "next") ~> pc[p] = "up"
=============================================================================
