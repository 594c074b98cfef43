------------------------------- MODULE Journal -------------------------------
(***************************************************************************)
(* The event journal.  Threads of several processes append lines to one    *)
(* file, events.jsonl, each opening it by its name; every so many lines of *)
(* a process, and in its maintenance, a file that has grown too large is   *)
(* replaced by a copy of its tail, written beside it under one name that   *)
(* all prunes share.  Nothing locks the file.                              *)
(*                                                                         *)
(* A file is what was opened, not its name: who opened it before it was    *)
(* replaced goes on with the old one.  A line is one unit long and is      *)
(* written at once, and the part of a line a tail begins with is left out  *)
(* with it.  The file system is external.                                  *)
(***************************************************************************)
EXTENDS Integers, Sequences, SequencesExt, FiniteSets

CONSTANTS
    Writers,      \* threads that append and prune
    JournalOf,    \* the Journal object of each, one per process
    Objects,      \* the Journal objects
    Keepers,      \* of the writers, those that run the maintenance
    MaxLines,     \* events_jsonl_max_bytes, in lines
    Kept,         \* whole lines in the tail a prune keeps
    KeepAll,      \* events_jsonl_keep_tail_bytes is 0: the maintenance keeps all
    Every,        \* prune_check_every
    MaxAppends,   \* bound: lines appended
    MaxPasses,    \* bound: maintenance passes
    MaxDeaths     \* bound: processes that die in the middle of a prune

ASSUME JournalAssumption ==
    /\ JournalOf \in [Writers -> Objects] /\ Keepers \subseteq Writers
    /\ {MaxLines, Every} \subseteq Nat \ {0} /\ Kept \in 0..MaxLines /\ KeepAll \in BOOLEAN
    /\ {MaxAppends, MaxPasses, MaxDeaths} \subseteq Nat

VARIABLES
    files,      \* contents of the files there were, by their number
    events,     \* the file named events.jsonl
    beside,     \* the file named events.jsonl.prune-tmp, 0 if there is none
    task,       \* where each writer is, what it opened and what it read
    counted,    \* _writes_since_prune of each object
    appended,   \* history: lines in the order they were appended
    exposed,    \* history: lines appended while a prune was under way
    spoiled,    \* history: a prune read the journal, or died, while the file
                \* it shared with another prune was emptied and not filled,
                \* or wrote a shorter tail over a longer one
    passes, deaths

journalVars == <<files, events, beside, task, counted, appended, exposed, spoiled, passes, deaths>>
disk        == <<files, events, beside>>
lines       == <<appended, exposed>>

Resting == [pc |-> "idle", handle |-> 0, data |-> <<>>, overlaps |-> FALSE]

At(t, steps) == task[t].pc \in steps

\* From its reading to its end a prune does not see what is appended.
Pruning(t) == At(t, {"tmp", "fill", "rename"})

\* Between opening and writing its file a prune has emptied it, and the file
\* may be the journal, or become it when another prune renames what is there.
Emptied(t) ==
    At(t, {"fill"}) /\ \/ task[t].handle = events
                       \/ task[t].handle = beside /\ \E u \in Writers \ {t} : At(u, {"fill", "rename"})

Size == Len(files[events])

-----------------------------------------------------------------------------
(* log_event.                                                              *)

\* Slip: a process keeps the file it opened at its start.
OpenedOnce(t) ==
    /\ At(t, {"idle"}) /\ Len(appended) + Cardinality({u \in Writers : At(u, {"write"})}) < MaxAppends
    /\ task' = [task EXCEPT ![t] = [pc |-> "write", handle |-> 1, data |-> <<>>,
                                    overlaps |-> \E u \in Writers : Pruning(u)]]
    /\ UNCHANGED <<disk, counted, lines, spoiled, passes, deaths>>

Open(t) ==
    /\ At(t, {"idle"}) /\ Len(appended) + Cardinality({u \in Writers : At(u, {"write"})}) < MaxAppends
    /\ task' = [task EXCEPT ![t] = [pc |-> "write", handle |-> events, data |-> <<>>,
                                    overlaps |-> \E u \in Writers : Pruning(u)]]
    /\ UNCHANGED <<disk, counted, lines, spoiled, passes, deaths>>

WriteLine(t) ==
    /\ At(t, {"write"})
    /\ LET line == Len(appended) + 1
       IN  /\ files' = [files EXCEPT ![task[t].handle] = Append(@, line)]
           /\ appended' = Append(appended, line)
           /\ exposed' = IF task[t].overlaps THEN exposed \cup {line} ELSE exposed
    /\ task' = [task EXCEPT ![t] = [Resting EXCEPT !.pc = "count"]]
    /\ UNCHANGED <<events, beside, counted, spoiled, passes, deaths>>

\* _maybe_prune.
Count(t) ==
    /\ At(t, {"count"})
    /\ LET o == JournalOf[t] due == counted[o] + 1 >= Every
       IN  /\ counted' = [counted EXCEPT ![o] = IF due THEN 0 ELSE @ + 1]
           /\ task' = [task EXCEPT ![t] = IF due THEN [Resting EXCEPT !.pc = "stat"] ELSE Resting]
    /\ UNCHANGED <<disk, lines, spoiled, passes, deaths>>

-----------------------------------------------------------------------------
(* prune_events_jsonl.                                                     *)

Maintain(t) ==
    /\ t \in Keepers /\ At(t, {"idle"}) /\ passes < MaxPasses
    /\ task' = [task EXCEPT ![t] = [Resting EXCEPT !.pc = IF KeepAll THEN "statAll" ELSE "stat"]]
    /\ passes' = passes + 1
    /\ UNCHANGED <<disk, counted, lines, spoiled, deaths>>

End(t) == task' = [task EXCEPT ![t] = Resting]

Stat(t) ==
    /\ At(t, {"stat", "statAll"})
    /\ IF Size <= MaxLines THEN End(t)
       ELSE task' = [task EXCEPT ![t].pc = IF @ = "stat" THEN "read" ELSE "readAll"]
    /\ UNCHANGED <<disk, counted, lines, spoiled, passes, deaths>>

\* A file that was replaced since by one shorter than the tail cannot be
\* sought in: that raises.
ReadTail(t) ==
    /\ At(t, {"read", "readAll"})
    /\ IF At(t, {"read"}) /\ Size <= Kept THEN End(t)
       ELSE task' = [u \in Writers |->
              IF u = t THEN [Resting EXCEPT !.pc = "tmp",
                              !.data = IF At(t, {"readAll"}) THEN files[events]
                                       ELSE SubSeq(files[events], Size - Kept + 1, Size)]
              ELSE [task[u] EXCEPT !.overlaps = At(u, {"write"})]]
    /\ spoiled' = (spoiled \/ \E u \in Writers : Emptied(u))
    /\ UNCHANGED <<disk, counted, lines, passes, deaths>>

\* Opening the file beside empties the one another prune has there.
OpenBeside(t) ==
    /\ At(t, {"tmp"})
    /\ LET f == IF beside = 0 THEN Len(files) + 1 ELSE beside
       IN  /\ beside' = f
           /\ files' = IF beside = 0 THEN Append(files, <<>>) ELSE [files EXCEPT ![f] = <<>>]
           /\ task' = [task EXCEPT ![t].pc = "fill", ![t].handle = f]
    /\ UNCHANGED <<events, counted, lines, spoiled, passes, deaths>>

\* The tail is written from the start of what was opened, whatever is there: the end of
\* a longer one stays behind it.
Fill(t) ==
    /\ At(t, {"fill"})
    /\ LET d == task[t].data f == task[t].handle
           rest == SubSeq(files[f], Len(d) + 1, Len(files[f]))
       IN  /\ files' = [files EXCEPT ![f] = d \o rest]
           /\ spoiled' = (spoiled \/ \E old \in Range(rest), new \in Range(d) : old <= new)
    /\ task' = [task EXCEPT ![t].pc = "rename"]
    /\ UNCHANGED <<events, beside, counted, lines, passes, deaths>>

\* Another prune may have taken the file beside away: that raises, too.
Rename(t) ==
    /\ At(t, {"rename"})
    /\ IF beside = 0 THEN UNCHANGED disk
       ELSE events' = beside /\ beside' = 0 /\ files' = files
    /\ End(t)
    /\ UNCHANGED <<counted, lines, spoiled, passes, deaths>>

\* The process of a prune dies, and its threads with it; it comes back.
DieInPrune(t) ==
    /\ Pruning(t) /\ deaths < MaxDeaths
    /\ LET gone == {u \in Writers : JournalOf[u] = JournalOf[t]}
       IN  /\ task' = [u \in Writers |-> IF u \in gone THEN Resting ELSE task[u]]
           /\ counted' = [counted EXCEPT ![JournalOf[t]] = 0]
           /\ spoiled' = (spoiled \/ \E u \in gone : Emptied(u))
    /\ deaths' = deaths + 1
    /\ UNCHANGED <<disk, lines, passes>>

JournalInit ==
    /\ files = <<(<<>>)>> /\ events = 1 /\ beside = 0
    /\ task = [t \in Writers |-> Resting]
    /\ counted = [o \in Objects |-> 0]
    /\ appended = <<>> /\ exposed = {} /\ spoiled = FALSE /\ passes = 0 /\ deaths = 0

JournalNext ==
    \E t \in Writers :
       \/ Open(t) \/ WriteLine(t) \/ Count(t) \/ Maintain(t)
       \/ Stat(t) \/ ReadTail(t) \/ OpenBeside(t) \/ Fill(t) \/ Rename(t) \/ DieInPrune(t)

JournalSpec == JournalInit /\ [][JournalNext]_journalVars

-----------------------------------------------------------------------------
(* Properties.                                                             *)

\* A line stays in the journal until as many newer ones as a tail holds were
\* appended.  Only a line appended while a prune was under way may be lost
\* before, and only while prunes overlap may older ones be missing for the
\* time it takes the later of them to write them back; or for good if its
\* process dies in that moment, and if a tail is written over a longer one,
\* so that the file ends in lines it repeats and its next tail lacks others
\* (Journal.log_event, prune_events_jsonl).
LinesKept ==
    spoiled \/ \A line \in Range(appended) \ (Range(files[events]) \cup exposed) :
      \/ Len(appended) - line >= Kept
      \/ \E t \in Writers : At(t, {"fill"}) /\ line \in Range(task[t].data)
=============================================================================
