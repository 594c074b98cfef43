------------------------------ MODULE MCStorage ------------------------------
(* The instance for TLC of what the processes share on disk: the schema of  *)
(* the database and the event journal.  They share no variable, so that one *)
(* moves while the other waits at its start.  A daemon of two threads, one  *)
(* of them the maintenance, and the API write the journal.                  *)
EXTENDS Migrations, Journal, TLC

CONSTANTS Loop, Worker, Api, Daemon, Server

VARIABLE part       \* the component that moves

SomeThreads == (Loop :> Daemon) @@ (Worker :> Daemon) @@ (Api :> Server)

StorageInit == part \in {"schema", "journal"} /\ Init /\ JournalInit /\ (part = "journal" => legacy = "absent")

StorageNext ==
    /\ UNCHANGED part
    /\ \/ part = "schema" /\ Next /\ UNCHANGED journalVars
       \/ part = "journal" /\ JournalNext /\ UNCHANGED vars

StorageSpec ==
    /\ StorageInit /\ [][StorageNext]_<<part, vars, journalVars>>
    /\ \A p \in Procs : WF_vars(part = "schema" /\ Booting(p))
=============================================================================
