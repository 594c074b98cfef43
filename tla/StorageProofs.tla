--------------------------- MODULE StorageProofs ---------------------------
(***************************************************************************)
(* Theorems about what the processes share on disk: Migrations, for any    *)
(* set of processes and any number of boots, upgrades that raise and       *)
(* processes that die, and Journal, for any set of writers and any limits, *)
(* passes and deaths.                                                      *)
(*                                                                         *)
(* The migrations are safe to run side by side because a transaction whose *)
(* guard was read before another process committed cannot write: the guard *)
(* of what is being written is always true of the database as it is.       *)
(* Nothing guards the journal: what it owes its readers is in the file, or *)
(* in the tail some prune has read and is about to write into it.          *)
(***************************************************************************)
EXTENDS Migrations, Journal, SequenceTheorems, TLAPS

-----------------------------------------------------------------------------
(* Migrations.                                                             *)

\* A mark, and a migration a boot passes over, is of something that was done.
MarksReal ==
    /\ \A m \in Names : marks[m] = "applied" => m \in effects
    /\ \A p \in Procs : done[p] \subseteq effects

\* A transaction has a migration to run.
UnderWay ==
    \A p \in Procs : pc[p] \in {"begun", "looked", "written", "failing"} => Left(p) # {}

\* The guard a transaction works by is true of the database, or it is refused.
GuardFresh ==
    \A p \in Procs : (pc[p] = "looked" /\ ~stale[p]) \/ pc[p] = "written"
                       => need[p] = ToDo(Current(p))

\* A batch of the baseline goes with the effects of the seed.
SeedCounted == seeds = IF "seed" \in effects THEN 1 ELSE 0

IInv == TypeOK /\ MarksReal /\ UnderWay /\ GuardFresh /\ SeedCounted /\ UpMeansMigrated /\ OverridesKept

-----------------------------------------------------------------------------
(* The order of the migrations.                                            *)

\* The five migrations, by place and by name.
LEMMA Ordered ==
  /\ DOMAIN Order = 1..5
  /\ \A i \in 1..5 : Order[i] \in Names
  /\ \A m \in Names : \E i \in 1..5 : Order[i] = m
  /\ "seed" \in Names
<1>1. DOMAIN Order = 1..5 BY DEF Order
<1>2. Names = {Order[i] : i \in 1..5} BY <1>1 DEF Names, Range
<1>3. Order[3] = "seed" BY DEF Order
<1> QED BY <1>1, <1>2, <1>3

\* A boot with nothing left has run everything; otherwise what it runs next is a
\* migration it has not run.
LEMMA LeftIs ==
  ASSUME NEW p \in Procs
  PROVE  /\ Left(p) = {} => Names \subseteq done[p]
         /\ Left(p) # {} => Current(p) \in Names \ done[p]
<1>1. /\ Left(p) \subseteq 1..5
      /\ \A i \in 1..5 : i \in Left(p) <=> Order[i] \notin done[p]
  BY Ordered DEF Left
<1>2. Left(p) = {} => Names \subseteq done[p] BY <1>1, Ordered
<1> DEFINE L == Left(p)
<1>3. ASSUME L # {} PROVE \E i \in L : \A j \in L : i <= j
  <2> HIDE DEF L
  <2>1. L \subseteq {1, 2, 3, 4, 5}
    <3>1. L \subseteq 1..5 BY <1>1 DEF L
    <3> QED BY <3>1
  <2>2. CASE 1 \in L BY <2>1, <2>2
  <2>3. CASE 1 \notin L /\ 2 \in L BY <2>1, <2>3
  <2>4. CASE 1 \notin L /\ 2 \notin L /\ 3 \in L BY <2>1, <2>4
  <2>5. CASE 1 \notin L /\ 2 \notin L /\ 3 \notin L /\ 4 \in L BY <2>1, <2>5
  <2>6. CASE 1 \notin L /\ 2 \notin L /\ 3 \notin L /\ 4 \notin L
    <3>1. PICK i \in L : TRUE BY <1>3
    <3>2. \A j \in L : j = 5 BY <2>1, <2>6
    <3> QED BY <3>1, <3>2
  <2> QED BY <2>2, <2>3, <2>4, <2>5, <2>6
<1>4. ASSUME L # {} PROVE Current(p) \in Names \ done[p]
  <2> DEFINE c == CHOOSE i \in L : \A j \in L : i <= j
  <2>1. c \in L BY <1>3, <1>4
  <2>2. Current(p) = Order[c] BY DEF Current
  <2> HIDE DEF c, L
  <2>3. c \in 1..5 /\ Order[c] \notin done[p] BY <1>1, <2>1 DEF L
  <2> QED BY <2>2, <2>3, Ordered
<1> QED BY <1>2, <1>4

\* What a boot has left depends on nothing but what it ran.
LEMMA LeftStays ==
  ASSUME NEW p \in Procs, done'[p] = done[p]
  PROVE  Left(p)' = Left(p) /\ Current(p)' = Current(p)
BY DEF Left, Current

-----------------------------------------------------------------------------
(* The invariant.                                                          *)

\* Before the first boot nothing is marked and nothing runs.
LEMMA InitIInv == Init => IInv
<1> SUFFICES ASSUME Init PROVE IInv OBVIOUS
<1>1. TypeOK
  <2>1. 0 \in 0..MaxBoots /\ 0 \in 0..MaxFaults /\ NoProc \notin Procs BY MigrationAssumption
  <2>2. boots \in [Procs -> 0..MaxBoots] BY <2>1 DEF Init
  <2>3. marks \in [Names -> {"none", "applied", "failed"}] BY DEF Init
  <2>4. /\ pc \in [Procs -> {"down", "next", "begun", "looked", "written", "failing", "halted", "up"}]
        /\ done \in [Procs -> SUBSET Names]
    BY DEF Init
  <2>5. stale \in [Procs -> BOOLEAN] /\ need \in [Procs -> BOOLEAN] /\ carries \in [Procs -> BOOLEAN]
    BY DEF Init
  <2>6. \A p \in Procs : pc[p] = "written" <=> writer = p BY <2>1 DEF Init
  <2> QED BY <2>1, <2>2, <2>3, <2>4, <2>5, <2>6 DEF Init, TypeOK
<1>2. \A p \in Procs : pc[p] = "down" /\ done[p] = {}
  BY DEF Init
<1>3. MarksReal BY <1>2 DEF Init, MarksReal
<1>4. UnderWay /\ GuardFresh /\ UpMeansMigrated BY <1>2 DEF UnderWay, GuardFresh, UpMeansMigrated
<1>5. SeedCounted /\ OverridesKept BY DEF Init, SeedCounted, OverridesKept
<1> QED BY <1>1, <1>3, <1>4, <1>5 DEF IInv

\* A step of one process that changes nothing in the schema keeps what is known of it.
LEMMA SchemaStays ==
  ASSUME IInv, TypeOK', OverridesKept', NEW p \in Procs, UNCHANGED <<effects, seeds>>,
         \A m \in Names : marks'[m] = "applied" => marks[m] = "applied",
         done'[p] \subseteq effects,
         \A q \in Procs \ {p} : /\ pc'[q] = pc[q] /\ done'[q] = done[q] /\ need'[q] = need[q]
                                /\ stale'[q] \in {stale[q], TRUE},
         pc'[p] \in {"begun", "looked", "written", "failing"}
           => done'[p] = done[p] /\ Left(p) # {},
         (pc'[p] = "looked" /\ ~stale'[p]) \/ pc'[p] = "written" => need'[p] = ToDo(Current(p)),
         pc'[p] = "up" => effects = Names
  PROVE  IInv'
<1> USE DEF IInv
<1>1. MarksReal' BY DEF MarksReal
<1>2. UnderWay' BY LeftStays DEF UnderWay
<1>3. GuardFresh'
  <2> SUFFICES ASSUME NEW q \in Procs, (pc'[q] = "looked" /\ ~stale'[q]) \/ pc'[q] = "written"
               PROVE  need'[q] = ToDo(Current(q))'
    BY DEF GuardFresh
  <2>1. Current(q)' = Current(q) BY LeftStays
  <2>2. ToDo(Current(q))' = ToDo(Current(q)) BY <2>1 DEF ToDo
  <2>3. need'[q] = ToDo(Current(q)) BY DEF GuardFresh
  <2> QED BY <2>2, <2>3
<1>4. SeedCounted' /\ UpMeansMigrated' BY DEF SeedCounted, UpMeansMigrated
<1> QED BY <1>1, <1>2, <1>3, <1>4

\* Moving a process on: no process writes but the one that holds the lock.
LEMMA GoTyped ==
  ASSUME TypeOK, NEW p \in Procs, NEW to, Go(p, to),
         to \in {"down", "next", "begun", "looked", "written", "failing", "halted", "up"}
  PROVE  /\ pc' \in [Procs -> {"down", "next", "begun", "looked", "written", "failing", "halted", "up"}]
         /\ pc'[p] = to /\ \A q \in Procs \ {p} : pc'[q] = pc[q]
BY DEF Go, TypeOK

\* A new boot takes what is marked for applied, and it is.
LEMMA BootKeeps == ASSUME IInv, NEW p \in Procs, Boot(p) PROVE IInv'
<1> USE DEF IInv
<1>1. Go(p, "next") /\ pc[p] \in {"down", "halted"} BY DEF Boot
<1>2. /\ pc'[p] = "next" /\ \A q \in Procs \ {p} : pc'[q] = pc[q]
      /\ pc' \in [Procs -> {"down", "next", "begun", "looked", "written", "failing", "halted", "up"}]
  BY <1>1, GoTyped
<1>3. AlreadyApplied \subseteq effects /\ AlreadyApplied \subseteq Names
  BY DEF AlreadyApplied, MarksReal
<1>4. /\ done' \in [Procs -> SUBSET Names] /\ done'[p] = AlreadyApplied
      /\ \A q \in Procs \ {p} : done'[q] = done[q]
  BY <1>3 DEF Boot, TypeOK
<1>5. boots' \in [Procs -> 0..MaxBoots]
  <2>1. boots[p] + 1 \in 0..MaxBoots BY MigrationAssumption DEF Boot, TypeOK
  <2>2. boots' = [boots EXCEPT ![p] = boots[p] + 1] BY DEF Boot
  <2> QED BY <2>1, <2>2 DEF TypeOK
<1>6. UNCHANGED <<effects, marks, seeds, ingested, legacy, writer, stale, need, carries, faults, torn>>
  BY DEF Boot, data, tx
<1>7. TypeOK' BY <1>1, <1>2, <1>4, <1>5, <1>6 DEF TypeOK
<1>8. OverridesKept' BY <1>6 DEF OverridesKept
<1> QED BY <1>2, <1>3, <1>4, <1>6, <1>7, <1>8, SchemaStays

\* Steps that only move a process on, away from its writes.
LEMMA MoveKeeps ==
  ASSUME IInv, NEW p \in Procs, NEW to, Go(p, to), pc[p] # "written",
         to \in {"down", "next", "begun", "failing", "halted", "up"},
         to \in {"begun", "failing"} => Left(p) # {},
         to = "up" => effects = Names,
         UNCHANGED <<data, legacy, writer, done, tx, boots, faults, torn>>
  PROVE  IInv'
<1> USE DEF IInv
<1>1. /\ pc'[p] = to /\ \A q \in Procs \ {p} : pc'[q] = pc[q]
      /\ pc' \in [Procs -> {"down", "next", "begun", "looked", "written", "failing", "halted", "up"}]
  BY GoTyped
<1>2. UNCHANGED <<effects, marks, seeds, ingested, legacy, writer, done, stale, need, carries, boots, faults, torn>>
  BY DEF data, tx
<1>3. TypeOK' BY <1>1, <1>2 DEF TypeOK
<1>4. OverridesKept' BY <1>2 DEF OverridesKept
<1> QED BY <1>1, <1>2, <1>3, <1>4, SchemaStays DEF MarksReal

\* Coming up, beginning, giving up unmarked and stopping.
LEMMA PlainKeeps ==
  ASSUME IInv, NEW p \in Procs, Ready(p) \/ Begin(p) \/ FailUnmarked(p) \/ Stop(p)
  PROVE  IInv'
<1>1. CASE Ready(p)
  <2>1. effects = Names
    BY <1>1, LeftIs DEF Ready, IInv, MarksReal, TypeOK
  <2> QED BY <1>1, <2>1, MoveKeeps DEF Ready
<1>2. CASE Begin(p) BY <1>2, MoveKeeps DEF Begin
<1>3. CASE FailUnmarked(p) BY <1>3, MoveKeeps DEF FailUnmarked
<1>4. CASE Stop(p) BY <1>4, MoveKeeps DEF Stop
<1> QED BY <1>1, <1>2, <1>3, <1>4

\* Looking reads the guard of the migration, and a transaction has its first read.
LEMMA LookKeeps == ASSUME IInv, NEW p \in Procs, Look(p) PROVE IInv'
<1> USE DEF IInv
<1>1. /\ pc'[p] = "looked" /\ \A q \in Procs \ {p} : pc'[q] = pc[q]
      /\ pc' \in [Procs -> {"down", "next", "begun", "looked", "written", "failing", "halted", "up"}]
      /\ pc[p] = "begun"
  BY GoTyped DEF Look
<1>2. ToDo(Current(p)) \in BOOLEAN BY DEF ToDo
<1>3. /\ need' \in [Procs -> BOOLEAN] /\ need'[p] = ToDo(Current(p))
      /\ \A q \in Procs \ {p} : need'[q] = need[q]
  BY <1>2 DEF Look, TypeOK
<1>4. /\ stale' \in [Procs -> BOOLEAN] /\ \A q \in Procs \ {p} : stale'[q] = stale[q]
  BY DEF Look, TypeOK
<1>5. UNCHANGED <<effects, marks, seeds, ingested, legacy, writer, done, carries, boots, faults, torn>>
  BY DEF Look, data
<1>6. TypeOK' BY <1>1, <1>3, <1>4, <1>5 DEF TypeOK
<1>7. OverridesKept' BY <1>5 DEF OverridesKept
<1>8. Left(p) # {} BY <1>1 DEF UnderWay
<1> QED BY <1>1, <1>3, <1>4, <1>5, <1>6, <1>7, <1>8, SchemaStays DEF MarksReal

\* Writing takes the lock, by a guard that is true; the file goes only with its
\* overrides in the transaction.
LEMMA WriteKeeps ==
  ASSUME IInv, NEW p \in Procs, NEW works \in BOOLEAN, Write(p, works),
         pc[p] \in {"begun", "looked"}, works = ToDo(Current(p)),
         UNCHANGED <<effects, marks, seeds, ingested>>
  PROVE  IInv'
<1> USE DEF IInv
<1>1. /\ pc'[p] = "written" /\ \A q \in Procs \ {p} : pc'[q] = pc[q]
      /\ pc' \in [Procs -> {"down", "next", "begun", "looked", "written", "failing", "halted", "up"}]
  BY GoTyped DEF Write
<1>2. /\ need' \in [Procs -> BOOLEAN] /\ need'[p] = works
      /\ \A q \in Procs \ {p} : need'[q] = need[q]
  BY DEF Write, TypeOK
<1>3. /\ writer = NoProc /\ writer' = p
      /\ UNCHANGED <<done, stale, boots, faults, torn>>
  BY DEF Write
<1>4. /\ carries' \in [Procs -> BOOLEAN]
      /\ \A q \in Procs : carries[q] => carries'[q]
      /\ legacy' \in {"absent", "there", "gone"}
      /\ legacy' = "gone" => legacy = "gone" \/ carries'[p]
  <2>1. CASE carries' = [carries EXCEPT ![p] = TRUE] /\ legacy' \in {"there", "gone"}
    BY <2>1 DEF TypeOK
  <2>2. CASE UNCHANGED <<carries, legacy>> BY <2>2 DEF TypeOK
  <2> QED BY <2>1, <2>2 DEF Write
<1>5. \A q \in Procs : pc'[q] = "written" <=> writer' = q
  BY <1>1, <1>3, MigrationAssumption DEF TypeOK
<1>6. TypeOK' BY <1>1, <1>2, <1>3, <1>4, <1>5 DEF TypeOK
<1>7. OverridesKept' BY <1>3, <1>4 DEF OverridesKept
<1>8. Left(p) # {} BY DEF UnderWay
<1> QED BY <1>1, <1>2, <1>3, <1>6, <1>7, <1>8, SchemaStays DEF MarksReal

\* Both ways to write keep the invariant: a transaction that was refused does not write.
LEMMA WritesKeep == ASSUME IInv, NEW p \in Procs, WriteFirst(p) \/ WriteOn(p) PROVE IInv'
<1>1. CASE WriteFirst(p)
  <2>1. UNCHANGED <<effects, marks, seeds, ingested>> BY <1>1 DEF WriteFirst, Write, data
  <2>2. ToDo(Current(p)) = TRUE /\ pc[p] = "begun" /\ Write(p, TRUE)
    BY <1>1 DEF WriteFirst, ToDo
  <2> QED BY <2>1, <2>2, WriteKeeps
<1>2. CASE WriteOn(p)
  <2>1. UNCHANGED <<effects, marks, seeds, ingested>> BY <1>2 DEF WriteOn, Write, data
  <2>2. need[p] = ToDo(Current(p)) /\ need[p] \in BOOLEAN /\ pc[p] = "looked" /\ Write(p, need[p])
    BY <1>2 DEF WriteOn, IInv, GuardFresh, TypeOK
  <2> QED BY <2>1, <2>2, WriteKeeps
<1> QED BY <1>1, <1>2

\* The commit makes the effects and the mark of one migration one step; every guard
\* read before it is void.
LEMMA CommitKeeps == ASSUME IInv, NEW p \in Procs, Commit(p) PROVE IInv'
<1> USE DEF IInv
<1> DEFINE m == Current(p)
<1>1. /\ pc[p] = "written" /\ writer = p /\ m \in Names \ done[p] /\ need[p] = ToDo(m)
  BY LeftIs DEF Commit, TypeOK, UnderWay, GuardFresh
<1>2. /\ effects' = effects \cup {m} /\ marks' = [marks EXCEPT ![m] = "applied"]
      /\ seeds' = IF need[p] /\ m = "seed" THEN seeds + 1 ELSE seeds
      /\ ingested' = (ingested \/ carries[p])
      /\ stale' = [q \in Procs |-> TRUE] /\ writer' = NoProc
      /\ done' = [done EXCEPT ![p] = done[p] \cup {m}]
      /\ carries' = [carries EXCEPT ![p] = FALSE]
      /\ UNCHANGED <<legacy, need, boots, faults, torn>>
  BY DEF Commit, Committed
<1>3. /\ pc'[p] = "next" /\ \A q \in Procs \ {p} : pc'[q] = pc[q]
      /\ pc' \in [Procs -> {"down", "next", "begun", "looked", "written", "failing", "halted", "up"}]
  BY GoTyped DEF Commit
<1> HIDE DEF m
<1>4. /\ done' \in [Procs -> SUBSET Names] /\ done'[p] = done[p] \cup {m}
      /\ \A q \in Procs \ {p} : done'[q] = done[q]
  BY <1>1, <1>2 DEF TypeOK
<1>5. /\ marks' \in [Names -> {"none", "applied", "failed"}]
      /\ \A n \in Names : n # m => marks'[n] = marks[n]
      /\ carries' \in [Procs -> BOOLEAN] /\ \A q \in Procs \ {p} : carries'[q] = carries[q]
  BY <1>1, <1>2 DEF TypeOK
<1>6. \A q \in Procs \ {p} : pc[q] # "written" BY <1>1 DEF TypeOK
<1>7. TypeOK'
  <2>1. effects' \subseteq Names /\ seeds' \in Nat /\ ingested' \in BOOLEAN
    BY <1>1, <1>2 DEF TypeOK
  <2>2. stale' \in [Procs -> BOOLEAN] BY <1>2
  <2>3. \A q \in Procs : pc'[q] = "written" <=> writer' = q
    BY <1>2, <1>3, <1>6, MigrationAssumption
  <2> QED BY <1>2, <1>3, <1>4, <1>5, <2>1, <2>2, <2>3 DEF TypeOK
<1>8. MarksReal'
  <2>1. ASSUME NEW n \in Names, marks'[n] = "applied" PROVE n \in effects'
    BY <1>2, <1>5, <2>1 DEF MarksReal
  <2>2. ASSUME NEW q \in Procs PROVE done'[q] \subseteq effects'
    BY <1>2, <1>4 DEF MarksReal
  <2> QED BY <2>1, <2>2 DEF MarksReal
<1>9. UnderWay' /\ GuardFresh'
  BY <1>2, <1>3, <1>4, <1>6, LeftStays DEF UnderWay, GuardFresh
<1>10. SeedCounted'
  <2>1. CASE m = "seed"
    <3>1. need[p] = (seeds = 0) BY <1>1, <2>1 DEF ToDo
    <3>2. seeds' = IF seeds = 0 THEN seeds + 1 ELSE seeds BY <1>2, <2>1, <3>1
    <3>3. seeds \in {0, 1} BY DEF SeedCounted
    <3>4. seeds' = 1 BY <3>2, <3>3
    <3> QED BY <1>2, <2>1, <3>4 DEF SeedCounted
  <2>2. CASE m # "seed" BY <1>2, <2>2 DEF SeedCounted
  <2> QED BY <2>1, <2>2
<1>11. UpMeansMigrated'
  BY <1>1, <1>2, <1>3 DEF UpMeansMigrated, TypeOK
<1>12. OverridesKept' BY <1>2, <1>5 DEF OverridesKept
<1> QED BY <1>7, <1>8, <1>9, <1>10, <1>11, <1>12

\* A transaction that ends without a commit leaves the schema as it was; overrides it
\* had taken from an unlinked file are gone, and torn says so.
LEMMA RollbackKeeps ==
  ASSUME IInv, NEW p \in Procs, Rollback(p), NEW to \in {"failing", "down"}, Go(p, to),
         pc[p] \notin {"down", "halted", "up"},
         to = "failing" => pc[p] \in {"begun", "looked", "written"},
         faults' \in 0..MaxFaults, UNCHANGED <<data, legacy, done, stale, need, boots>>
  PROVE  IInv'
<1> USE DEF IInv
<1>1. /\ pc'[p] = to /\ \A q \in Procs \ {p} : pc'[q] = pc[q]
      /\ pc' \in [Procs -> {"down", "next", "begun", "looked", "written", "failing", "halted", "up"}]
  BY GoTyped
<1>2. /\ writer' = IF writer = p THEN NoProc ELSE writer
      /\ carries' \in [Procs -> BOOLEAN] /\ \A q \in Procs \ {p} : carries'[q] = carries[q]
      /\ torn' = (torn \/ (carries[p] /\ legacy = "gone"))
  BY DEF Rollback, TypeOK
<1>3. UNCHANGED <<effects, marks, seeds, ingested, legacy, done, stale, need, boots>>
  BY DEF data
<1>4. \A q \in Procs : pc'[q] = "written" <=> writer' = q
  BY <1>1, <1>2, MigrationAssumption DEF TypeOK
<1>5. TypeOK' BY <1>1, <1>2, <1>3, <1>4 DEF TypeOK
<1>6. OverridesKept' BY <1>2, <1>3 DEF OverridesKept
<1>7. to = "failing" => Left(p) # {} BY DEF UnderWay
<1> QED BY <1>1, <1>3, <1>5, <1>6, <1>7, SchemaStays DEF MarksReal

\* A refusal, an upgrade that raises and a death end a transaction.
LEMMA EndsKeep == ASSUME IInv, NEW p \in Procs, Conflict(p) \/ Raise(p) \/ Die(p) PROVE IInv'
<1>1. CASE Conflict(p)
  <2>1. faults' \in 0..MaxFaults /\ pc[p] \in {"begun", "looked"}
    BY <1>1 DEF Conflict, Refused, IInv, TypeOK
  <2> QED BY <1>1, <2>1, RollbackKeeps DEF Conflict
<1>2. ASSUME faults < MaxFaults, faults' = faults + 1 PROVE faults' \in 0..MaxFaults
  BY <1>2, MigrationAssumption DEF IInv, TypeOK
<1>3. CASE Raise(p)
  <2>1. faults' \in 0..MaxFaults BY <1>2, <1>3 DEF Raise
  <2> QED BY <1>3, <2>1, RollbackKeeps DEF Raise
<1>4. CASE Die(p)
  <2>1. faults' \in 0..MaxFaults BY <1>2, <1>4 DEF Die
  <2> QED BY <1>4, <2>1, RollbackKeeps DEF Die
<1> QED BY <1>1, <1>3, <1>4

\* A failure marked over what another process applied loses the mark, not the effects.
LEMMA FailKeeps == ASSUME IInv, NEW p \in Procs, Fail(p) PROVE IInv'
<1> USE DEF IInv
<1>1. /\ pc'[p] = "halted" /\ \A q \in Procs \ {p} : pc'[q] = pc[q]
      /\ pc' \in [Procs -> {"down", "next", "begun", "looked", "written", "failing", "halted", "up"}]
      /\ pc[p] = "failing"
  BY GoTyped DEF Fail
<1>2. /\ marks' = [marks EXCEPT ![Current(p)] = "failed"]
      /\ stale' = [q \in Procs |-> TRUE]
      /\ UNCHANGED <<effects, seeds, ingested, legacy, writer, done, need, carries, boots, faults, torn>>
  BY DEF Fail, Committed
<1>3. /\ marks' \in [Names -> {"none", "applied", "failed"}]
      /\ \A n \in Names : marks'[n] = "applied" => marks[n] = "applied"
  BY <1>2 DEF TypeOK
<1>4. TypeOK'
  <2>1. stale' \in [Procs -> BOOLEAN] BY <1>2
  <2> QED BY <1>1, <1>2, <1>3, <2>1 DEF TypeOK
<1>5. OverridesKept' BY <1>2 DEF OverridesKept
<1>6. \A q \in Procs : stale'[q] = TRUE BY <1>2
<1> QED BY <1>1, <1>2, <1>3, <1>4, <1>5, <1>6, SchemaStays DEF MarksReal

\* Every step keeps the invariant.
LEMMA NextIInv == ASSUME IInv, [Next]_vars PROVE IInv'
<1>1. CASE UNCHANGED vars
  BY <1>1, LeftStays
     DEF vars, IInv, TypeOK, MarksReal, UnderWay, GuardFresh, SeedCounted, UpMeansMigrated,
         OverridesKept, ToDo
<1>2. ASSUME NEW p \in Procs, Booting(p) \/ Raise(p) \/ Die(p) \/ Stop(p) PROVE IInv'
  BY <1>2, BootKeeps, PlainKeeps, LookKeeps, WritesKeep, CommitKeeps, EndsKeep, FailKeeps
     DEF Booting
<1> QED BY <1>1, <1>2 DEF Next

-----------------------------------------------------------------------------
(* The theorems.                                                           *)

\* The invariant holds in every state.
LEMMA SpecIInv == Spec => []IInv
BY InitIInv, NextIInv, PTL DEF Spec

\* A process whose engines are up works on the whole schema, for any number of processes
\* that boot side by side, conflicts, failures and deaths.
THEOREM UpIsMigrated == Spec => []UpMeansMigrated
<1>1. IInv => UpMeansMigrated BY DEF IInv
<1> QED BY SpecIInv, <1>1, PTL

\* The baseline is seeded exactly once before any process is up, and never again.
THEOREM SeedsOnce == Spec => []SeededOnce
<1>1. IInv => SeededOnce
  BY Ordered DEF IInv, SeedCounted, UpMeansMigrated, SeededOnce
<1> QED BY SpecIInv, <1>1, PTL

\* The overrides of the legacy file are never lost but by the rollback or death of a
\* transaction that had unlinked it.
THEOREM OverridesAreKept == Spec => []OverridesKept
<1>1. IInv => OverridesKept BY DEF IInv
<1> QED BY SpecIInv, <1>1, PTL

-----------------------------------------------------------------------------
(* Journal.                                                                *)

Steps == {"idle", "write", "count", "stat", "statAll", "read", "readAll", "tmp", "fill", "rename"}

\* The shapes of the state, and files that exist: what a writer works on, and two different
\* ones under the two names.
JournalTyped ==
    /\ files \in Seq(Seq(Nat)) /\ events \in 1..Len(files) /\ beside \in 0..Len(files)
    /\ events # beside
    /\ task \in [Writers -> [pc : Steps, handle : Nat, data : Seq(Nat), overlaps : BOOLEAN]]
    /\ \A t \in Writers : At(t, {"write", "fill"}) => task[t].handle \in 1..Len(files)
    /\ appended \in Seq(Nat) /\ spoiled \in BOOLEAN

\* A line is its number, and no file or tail holds one that was not appended.
Numbered == \A i \in DOMAIN appended : appended[i] = i
UpTo(n, s) == \A i \in DOMAIN s : s[i] <= n
AllWritten ==
    /\ \A f \in DOMAIN files : UpTo(Len(appended), files[f])
    /\ \A t \in Writers : UpTo(Len(appended), task[t].data)

\* While a prune is under way, a writer that holds a file knows; one that does not holds
\* the journal.
WritersKnow ==
    \A u \in Writers : At(u, {"write"}) =>
       /\ (\E t \in Writers : Pruning(t)) => task[u].overlaps
       /\ ~task[u].overlaps => task[u].handle = events

\* Between two lines of a file were at least as many appended as are between them in it.
Rising(s) == \A i, j \in DOMAIN s : i <= j => s[j] - s[i] >= j - i
AllRising ==
    /\ \A f \in DOMAIN files : Rising(files[f])
    /\ \A t \in Writers : Rising(task[t].data)

\* The lines a journal owes its readers: the last ones, but for those a prune may lose.
Owed == {line \in 1..Len(appended) \ exposed : Len(appended) - line < Kept}

\* A prune under way has read them, and a file that has emptied them is about to be filled.
TailsWhole == \A t \in Writers : Pruning(t) => Owed \subseteq Range(task[t].data)
Covered(f) == \/ Owed \subseteq Range(files[f])
              \/ \E t \in Writers : At(t, {"fill"}) /\ task[t].handle = f

\* The file beside is one of a prune that read while the others did: whoever renames it.
BesideCovered ==
    beside # 0 /\ (\E t \in Writers : At(t, {"fill", "rename"})) => Covered(beside)

JournalShaped == JournalTyped /\ Numbered /\ AllWritten /\ WritersKnow
JournalWhole  == spoiled \/ (AllRising /\ TailsWhole /\ Covered(events) /\ BesideCovered)

-----------------------------------------------------------------------------
(* Sequences of lines.                                                     *)

\* A sequence of numbers, its length and its domain.
LEMMA SeqNat ==
  ASSUME NEW s \in Seq(Nat)
  PROVE  /\ Len(s) \in Nat /\ DOMAIN s = 1..Len(s)
         /\ \A i \in 1..Len(s) : s[i] \in Nat
BY LenProperties, ElementOfSeq

\* The empty file.
LEMMA EmptyRises == <<>> \in Seq(Nat) /\ Rising(<<>>) /\ \A n : UpTo(n, <<>>)
<1>1. <<>> \in Seq(Nat) /\ Len(<<>>) = 0 BY EmptySeq
<1>2. DOMAIN <<>> = {}
  <2>1. DOMAIN <<>> = 1..0 BY <1>1, LenProperties
  <2> QED BY <2>1
<1> QED BY <1>1, <1>2 DEF Rising, UpTo

\* A line written behind older ones.
LEMMA AppendRises ==
  ASSUME NEW s \in Seq(Nat), NEW n \in Nat, UpTo(n, s)
  PROVE  /\ Append(s, n + 1) \in Seq(Nat)
         /\ Range(Append(s, n + 1)) = Range(s) \cup {n + 1}
         /\ UpTo(n + 1, Append(s, n + 1))
         /\ Rising(s) => Rising(Append(s, n + 1))
<1> DEFINE a == Append(s, n + 1)
           l == Len(s)
<1>1. /\ a \in Seq(Nat) /\ Len(a) = l + 1
      /\ \A i \in 1..l : a[i] = s[i] /\ a[l + 1] = n + 1
  BY AppendProperties
<1>2. /\ l \in Nat /\ DOMAIN s = 1..l /\ DOMAIN a = 1..(l + 1)
      /\ \A i \in 1..l : s[i] \in Nat
  BY <1>1, SeqNat
<1>3. a[l + 1] = n + 1 BY AppendProperties
<1> HIDE DEF a, l
<1>4. Range(a) = Range(s) \cup {n + 1}
  <2>1. 1..(l + 1) = 1..l \cup {l + 1} BY <1>2
  <2> QED BY <1>1, <1>2, <1>3, <2>1 DEF Range
<1>5. UpTo(n + 1, a)
  BY <1>1, <1>2, <1>3 DEF UpTo
<1>6. ASSUME Rising(s) PROVE Rising(a)
  <2> SUFFICES ASSUME NEW i \in 1..(l + 1), NEW j \in 1..(l + 1), i <= j
               PROVE  a[j] - a[i] >= j - i
    BY <1>2 DEF Rising
  <2>1. CASE j \in 1..l
    <3>1. i \in 1..l BY <1>2, <2>1
    <3> QED BY <1>1, <1>2, <1>6, <2>1, <3>1 DEF Rising
  <2>2. CASE j = l + 1 /\ i \in 1..l
    <3>1. l \in 1..l /\ i <= l BY <1>2, <2>2
    <3>2. s[l] - s[i] >= l - i BY <1>2, <1>6, <2>2, <3>1 DEF Rising
    <3>3. s[l] <= n /\ s[l] \in Nat /\ s[i] \in Nat BY <1>2, <2>2, <3>1 DEF UpTo
    <3>4. a[j] = n + 1 /\ a[i] = s[i] BY <1>1, <1>3, <2>2
    <3> QED BY <1>2, <2>2, <3>2, <3>3, <3>4
  <2>3. CASE j = l + 1 /\ i = l + 1
    BY <1>2, <1>3, <2>3
  <2> QED BY <1>2, <2>1, <2>2, <2>3
<1> QED BY <1>1, <1>4, <1>5, <1>6 DEF a

\* The tail of a file that rises has every line younger than its length.
LEMMA TailRises ==
  ASSUME NEW s \in Seq(Nat), NEW n \in Nat, UpTo(n, s),
         NEW k \in Nat, k < Len(s)
  PROVE  LET d == SubSeq(s, Len(s) - k + 1, Len(s))
         IN  /\ d \in Seq(Nat)
             /\ UpTo(n, d)
             /\ Rising(s) => /\ Rising(d)
                             /\ \A i \in DOMAIN s : n - s[i] < k => s[i] \in Range(d)
<1> DEFINE l == Len(s)
           d == SubSeq(s, l - k + 1, l)
<1>1. /\ l \in Nat /\ DOMAIN s = 1..l /\ \A i \in 1..l : s[i] \in Nat
  BY SeqNat
<1>2. /\ d \in Seq(Nat) /\ Len(d) = k /\ \A i \in 1..k : d[i] = s[l - k + i]
  <2>1. l - k + 1 \in Int /\ l \in Int /\ \A i \in (l - k + 1)..l : s[i] \in Nat
    BY <1>1
  <2> DEFINE a == l - k + 1
  <2>2. /\ d \in Seq(Nat) /\ Len(d) = IF a <= l THEN l - a + 1 ELSE 0
        /\ \A i \in 1..(l - a + 1) : d[i] = s[a + i - 1]
    <3> HIDE DEF a, l
    <3>1. a \in Int /\ l \in Int /\ \A i \in a..l : s[i] \in Nat BY <2>1 DEF a
    <3>2. SubSeq(s, a, l) \in Seq(Nat) BY <3>1, SubSeqProperties
    <3>3. /\ Len(SubSeq(s, a, l)) = IF a <= l THEN l - a + 1 ELSE 0
          /\ \A i \in 1..(l - a + 1) : SubSeq(s, a, l)[i] = s[a + i - 1]
      BY <3>1, SubSeqProperties
    <3> QED BY <3>2, <3>3 DEF a
  <2> HIDE DEF d, l
  <2>3. l - a + 1 = k /\ (~(a <= l) => k = 0) BY <1>1
  <2>4. \A i \in 1..k : a + i - 1 = l - k + i BY <1>1
  <2> QED BY <2>2, <2>3, <2>4
<1>3. DOMAIN d = 1..k BY <1>2, SeqNat
<1> HIDE DEF d, l
<1>4. \A i \in 1..k : l - k + i \in 1..l BY <1>1 DEF l
<1>5. UpTo(n, d) BY <1>1, <1>2, <1>3, <1>4 DEF UpTo
<1>6. ASSUME Rising(s) PROVE Rising(d)
  <2> SUFFICES ASSUME NEW i \in 1..k, NEW j \in 1..k, i <= j PROVE d[j] - d[i] >= j - i
    BY <1>3 DEF Rising
  <2>1. l - k + i <= l - k + j /\ (l - k + j) - (l - k + i) = j - i BY <1>1
  <2> QED BY <1>1, <1>2, <1>4, <1>6, <2>1 DEF Rising
<1>7. ASSUME Rising(s), NEW i \in 1..l, n - s[i] < k PROVE s[i] \in Range(d)
  <2>1. l \in 1..l /\ i <= l BY <1>1
  <2>2. s[l] - s[i] >= l - i BY <1>1, <1>7, <2>1 DEF Rising
  <2>3. s[l] <= n /\ s[l] \in Nat /\ s[i] \in Nat BY <1>1, <2>1 DEF UpTo
  <2>4. l - i < k BY <1>1, <1>7, <2>2, <2>3
  <2> DEFINE j == i - (l - k)
  <2>5. j \in 1..k /\ l - k + j = i BY <1>1, <2>4
  <2>6. d[j] = s[i] BY <1>2, <2>5
  <2> QED BY <1>3, <2>5, <2>6 DEF Range
<1> QED BY <1>1, <1>2, <1>5, <1>6, <1>7 DEF d, l

\* Two runs of a rising file, one behind the other.
LEMMA Chain ==
  ASSUME NEW i \in Nat, NEW j \in Nat, NEW k \in Nat, NEW p \in Nat, p = k + 1,
         NEW w \in Nat, NEW x \in Nat, NEW y \in Nat, NEW z \in Nat,
         x - w >= k - i, ~(y <= x), z - y >= j - p
  PROVE  z - w >= j - i
OBVIOUS

\* A tail written over the start of a file: the tail is in it, and it rises if no
\* line behind the tail is as old as one of the tail.
LEMMA FillRises ==
  ASSUME NEW d \in Seq(Nat), NEW s \in Seq(Nat), NEW n \in Nat, UpTo(n, d), UpTo(n, s)
  PROVE  LET rest == SubSeq(s, Len(d) + 1, Len(s))
         IN  /\ d \o rest \in Seq(Nat)
             /\ UpTo(n, d \o rest)
             /\ Range(d) \subseteq Range(d \o rest)
             /\ Rising(d) /\ Rising(s) /\ ~(\E old \in Range(rest), new \in Range(d) : old <= new)
                  => Rising(d \o rest)
<1> DEFINE k == Len(d)
           l == Len(s)
           rest == SubSeq(s, k + 1, l)
           m == Len(rest)
           a == d \o rest
<1>1. /\ k \in Nat /\ DOMAIN d = 1..k /\ \A i \in 1..k : d[i] \in Nat
      /\ l \in Nat /\ DOMAIN s = 1..l /\ \A i \in 1..l : s[i] \in Nat
  BY SeqNat
<1>2. /\ rest \in Seq(Nat) /\ m \in Nat /\ (m # 0 => m = l - k)
      /\ \A i \in 1..m : rest[i] = s[k + i] /\ k + i \in 1..l
  <2> DEFINE b == k + 1
  <2>1. b \in Int /\ l \in Int /\ \A i \in b..l : s[i] \in Nat BY <1>1
  <2> HIDE DEF k, l, b
  <2>2. /\ SubSeq(s, b, l) \in Seq(Nat)
        /\ Len(SubSeq(s, b, l)) = IF b <= l THEN l - b + 1 ELSE 0
        /\ \A i \in 1..(l - b + 1) : SubSeq(s, b, l)[i] = s[b + i - 1]
    BY <2>1, SubSeqProperties
  <2>3. rest \in Seq(Nat) /\ m = IF k + 1 <= l THEN l - k ELSE 0
    BY <2>2, <1>1 DEF b
  <2>4. ASSUME NEW i \in 1..m PROVE rest[i] = s[k + i] /\ k + i \in 1..l
    <3> HIDE DEF rest, m
    <3>1. i \in 1..(l - b + 1) /\ b + i - 1 = k + i /\ k + i \in 1..l
      BY <1>1, <2>3 DEF b
    <3> QED BY <2>2, <3>1 DEF b, rest
  <2> HIDE DEF rest, m
  <2> QED BY <1>1, <2>3, <2>4
<1>3. a \in Seq(Nat) /\ Len(a) = k + m /\ \A i \in 1..(k + m) : a[i] = IF i <= k THEN d[i] ELSE rest[i - k]
  BY <1>2, ConcatProperties
<1>4. DOMAIN rest = 1..m /\ \A i \in 1..m : rest[i] \in Nat BY <1>2, SeqNat
<1>5. DOMAIN a = 1..(k + m) BY <1>3, SeqNat
<1>n. k \in Nat /\ l \in Nat /\ m \in Nat BY <1>1, <1>2
<1>6. /\ \A i \in 1..k : i \in 1..(k + m) /\ a[i] = d[i]
      /\ \A i \in (k + 1)..(k + m) : i - k \in 1..m /\ k + (i - k) = i /\ a[i] = rest[i - k]
  <2> HIDE DEF k, l, a, m, rest
  <2>1. ASSUME NEW i \in 1..k PROVE i \in 1..(k + m) /\ a[i] = d[i]
    <3>1. i \in 1..(k + m) /\ i <= k BY <1>n
    <3> QED BY <1>3, <3>1
  <2>2. ASSUME NEW i \in (k + 1)..(k + m) PROVE i - k \in 1..m /\ k + (i - k) = i /\ a[i] = rest[i - k]
    <3>1. i \in 1..(k + m) /\ ~(i <= k) /\ i - k \in 1..m /\ k + (i - k) = i BY <1>n
    <3> QED BY <1>3, <3>1
  <2> QED BY <2>1, <2>2
<1>7. \A i \in 1..(k + m) : i \in 1..k \/ i \in (k + 1)..(k + m)
  BY <1>1, <1>2
<1> HIDE DEF k, l, rest, m, a
<1>8. UpTo(n, a)
  <2> SUFFICES ASSUME NEW i \in 1..(k + m) PROVE a[i] <= n BY <1>5 DEF UpTo
  <2>1. CASE i \in 1..k BY <1>1, <1>6, <2>1 DEF UpTo
  <2>2. CASE i \in (k + 1)..(k + m) BY <1>1, <1>2, <1>6, <2>2 DEF UpTo
  <2> QED BY <1>7, <2>1, <2>2
<1>9. Range(d) \subseteq Range(a)
  BY <1>1, <1>5, <1>6 DEF Range
<1>10. ASSUME Rising(d), Rising(s), ~(\E old \in Range(rest), new \in Range(d) : old <= new)
       PROVE  Rising(a)
  <2> SUFFICES ASSUME NEW i \in 1..(k + m), NEW j \in 1..(k + m), i <= j PROVE a[j] - a[i] >= j - i
    BY <1>5 DEF Rising
  <2>1. CASE j \in 1..k
    <3>1. i \in 1..k BY <1>1, <2>1
    <3> QED BY <1>1, <1>6, <1>10, <2>1, <3>1 DEF Rising
  <2>2. CASE i \in (k + 1)..(k + m)
    <3>1. j \in (k + 1)..(k + m) BY <1>1, <2>2
    <3>2. a[i] = s[i] /\ i \in 1..l BY <1>2, <1>6, <2>2
    <3>3. a[j] = s[j] /\ j \in 1..l BY <1>2, <1>6, <3>1
    <3> QED BY <1>1, <1>10, <3>2, <3>3 DEF Rising
  <2>3. CASE i \in 1..k /\ j \in (k + 1)..(k + m)
    <3> DEFINE p == k + 1
    <3>1. /\ k \in 1..k /\ i <= k /\ p \in (k + 1)..(k + m) /\ p <= j
      BY <1>1, <1>2, <2>3
    <3>2. a[i] = d[i] /\ a[j] = s[j] /\ j \in 1..l BY <1>2, <1>6, <2>3
    <3>3. s[p] = a[p] /\ p \in 1..l /\ s[p] \in Range(rest) BY <1>1, <1>2, <1>4, <1>6, <3>1 DEF Range
    <3>4. d[k] - d[i] >= k - i BY <1>1, <1>10, <2>3, <3>1 DEF Rising
    <3>5. s[j] - s[p] >= j - p BY <1>1, <1>10, <3>1, <3>2, <3>3 DEF Rising
    <3>6. d[k] \in Range(d) BY <1>1, <3>1 DEF Range
    <3>7. d[k] \in Nat /\ d[i] \in Nat /\ s[j] \in Nat /\ s[p] \in Nat BY <1>1, <2>3, <3>1, <3>2, <3>3
    <3>8. ~(s[p] <= d[k]) BY <1>10, <3>3, <3>6
    <3>9. p = k + 1 /\ p \in Nat /\ i \in Nat /\ j \in Nat BY <1>n, <2>3
    <3> HIDE DEF p
    <3>10. s[j] - d[i] >= j - i
      BY <1>n, <3>4, <3>5, <3>7, <3>8, <3>9, Chain
    <3> QED BY <3>2, <3>10
  <2> QED BY <1>7, <2>1, <2>2, <2>3
<1> QED BY <1>3, <1>8, <1>9, <1>10 DEF a, rest, k, l

\* One file with new contents among the others.
LEMMA Rewritten ==
  ASSUME NEW fs \in Seq(Seq(Nat)), NEW f \in 1..Len(fs), NEW s \in Seq(Nat)
  PROVE  LET g == [fs EXCEPT ![f] = s]
         IN  /\ g \in Seq(Seq(Nat)) /\ Len(g) = Len(fs) /\ DOMAIN g = 1..Len(fs)
             /\ g[f] = s /\ \A h \in 1..Len(fs) : h # f => g[h] = fs[h]
<1>1. [fs EXCEPT ![f] = s] \in Seq(Seq(Nat)) /\ Len([fs EXCEPT ![f] = s]) = Len(fs)
  BY ExceptSeq
<1>2. DOMAIN fs = 1..Len(fs) BY LenProperties
<1> QED BY <1>1, <1>2

\* One file more.
LEMMA Added ==
  ASSUME NEW fs \in Seq(Seq(Nat))
  PROVE  LET g == Append(fs, <<>>)
         IN  /\ g \in Seq(Seq(Nat)) /\ Len(g) = Len(fs) + 1 /\ DOMAIN g = 1..(Len(fs) + 1)
             /\ Len(fs) \in Nat
             /\ g[Len(fs) + 1] = <<>> /\ \A h \in 1..Len(fs) : g[h] = fs[h]
<1>1. <<>> \in Seq(Nat) BY EmptySeq
<1>2. Append(fs, <<>>) \in Seq(Seq(Nat)) /\ Len(Append(fs, <<>>)) = Len(fs) + 1
  BY <1>1, AppendProperties
<1>3. /\ \A h \in 1..Len(fs) : Append(fs, <<>>)[h] = fs[h]
      /\ Append(fs, <<>>)[Len(fs) + 1] = <<>>
  BY <1>1, AppendProperties
<1>4. DOMAIN Append(fs, <<>>) = 1..(Len(fs) + 1) /\ Len(fs) \in Nat BY <1>2, LenProperties
<1> QED BY <1>2, <1>3, <1>4

-----------------------------------------------------------------------------
(* The steps.                                                              *)

\* What one writer's step leaves to the others.
LEMMA OthersStay ==
  ASSUME JournalTyped, NEW t \in Writers,
         NEW r \in [pc : Steps, handle : Nat, data : Seq(Nat), overlaps : BOOLEAN],
         task' = [task EXCEPT ![t] = r]
  PROVE  /\ task' \in [Writers -> [pc : Steps, handle : Nat, data : Seq(Nat), overlaps : BOOLEAN]]
         /\ task'[t] = r /\ \A u \in Writers \ {t} : task'[u] = task[u]
BY DEF JournalTyped

LEMMA RestingTyped ==
  /\ Resting \in [pc : Steps, handle : Nat, data : Seq(Nat), overlaps : BOOLEAN]
  /\ Resting.pc = "idle" /\ Resting.data = <<>>
BY EmptySeq DEF Resting, Steps

LEMMA InitSound == JournalInit => JournalShaped /\ JournalWhole
<1> SUFFICES ASSUME JournalInit PROVE JournalShaped /\ JournalWhole
  OBVIOUS
<1>1. /\ files \in Seq(Seq(Nat)) /\ Len(files) = 1 /\ DOMAIN files = 1..1 /\ files[1] = <<>>
  <2>1. <<>> \in Seq(Nat) BY EmptySeq
  <2>2. files = <<(<<>>)>> BY DEF JournalInit
  <2>3. Len(files) = 1 /\ DOMAIN files = 1..1 /\ files[1] = <<>> BY <2>2
  <2>4. files \in Seq(Seq(Nat)) BY <2>1, <2>2
  <2> QED BY <2>3, <2>4
<1>2. \A t \in Writers : task[t] = Resting BY DEF JournalInit
<1>3. appended = <<>> /\ appended \in Seq(Nat) /\ Len(appended) = 0 /\ DOMAIN appended = {}
  BY EmptySeq, EmptyRises DEF JournalInit
<1>4. JournalTyped
  <2>1. events \in 1..Len(files) /\ beside \in 0..Len(files) /\ events # beside
    BY <1>1 DEF JournalInit
  <2>2. task \in [Writers -> [pc : Steps, handle : Nat, data : Seq(Nat), overlaps : BOOLEAN]]
    BY RestingTyped DEF JournalInit
  <2>3. \A t \in Writers : ~At(t, {"write", "fill"}) BY <1>2, RestingTyped DEF At
  <2> QED BY <1>1, <1>3, <2>1, <2>2, <2>3 DEF JournalTyped, JournalInit
<1>5. Numbered BY <1>3 DEF Numbered
<1>6. AllWritten BY <1>1, <1>2, RestingTyped, EmptyRises DEF AllWritten
<1>7. WritersKnow BY <1>2, RestingTyped DEF WritersKnow, At
<1>8. AllRising BY <1>1, <1>2, RestingTyped, EmptyRises DEF AllRising
<1>9. TailsWhole BY <1>2, RestingTyped DEF TailsWhole, Pruning, At
<1>10. Owed = {} BY <1>3 DEF Owed
<1>11. Covered(events) BY <1>10 DEF Covered
<1>12. BesideCovered BY DEF BesideCovered, JournalInit
<1> QED BY <1>4, <1>5, <1>6, <1>7, <1>8, <1>9, <1>11, <1>12 DEF JournalShaped, JournalWhole

\* A step of a writer that holds neither a file nor a tail, before it and after it.
LEMMA AsideSound ==
  ASSUME JournalShaped, JournalWhole, NEW t \in Writers,
         NEW r \in [pc : Steps, handle : Nat, data : Seq(Nat), overlaps : BOOLEAN],
         r.pc \notin {"write", "tmp", "fill", "rename"},
         ~At(t, {"write", "fill"}), r.data = <<>> \/ r.data = task[t].data,
         task' = [task EXCEPT ![t] = r],
         UNCHANGED <<disk, lines, spoiled>>
  PROVE  JournalShaped' /\ JournalWhole'
<1>1. /\ UNCHANGED <<files, events, beside, appended, exposed, spoiled>>
      /\ JournalTyped /\ Numbered /\ AllWritten /\ WritersKnow
  BY DEF disk, lines, JournalShaped
<1>2. /\ task' \in [Writers -> [pc : Steps, handle : Nat, data : Seq(Nat), overlaps : BOOLEAN]]
      /\ task'[t] = r /\ \A u \in Writers \ {t} : task'[u] = task[u]
  BY <1>1, OthersStay
<1>3. JournalTyped' BY <1>1, <1>2 DEF JournalTyped, At
<1>4. Numbered' BY <1>1 DEF Numbered
<1>5. AllWritten' BY <1>1, <1>2, EmptyRises DEF AllWritten
<1>6. \A u \in Writers : Pruning(u)' => Pruning(u) /\ task'[u] = task[u] BY <1>2 DEF Pruning, At
<1>7. WritersKnow' BY <1>1, <1>2, <1>6 DEF WritersKnow, At
<1>8. ASSUME ~spoiled PROVE AllRising' /\ TailsWhole' /\ Covered(events)' /\ BesideCovered'
  <2>1. AllRising /\ TailsWhole /\ Covered(events) /\ BesideCovered BY <1>8 DEF JournalWhole
  <2>2. Owed' = Owed BY <1>1 DEF Owed
  <2>3. AllRising' BY <1>1, <1>2, <2>1, EmptyRises DEF AllRising
  <2>4. TailsWhole' BY <1>6, <2>1, <2>2 DEF TailsWhole
  <2>5. \A u \in Writers : At(u, {"fill"}) => At(u, {"fill"})' /\ task'[u] = task[u]
    BY <1>2 DEF At
  <2>6. Covered(events)' BY <1>1, <2>1, <2>2, <2>5 DEF Covered
  <2>7. BesideCovered' BY <1>1, <1>2, <2>1, <2>2, <2>5 DEF BesideCovered, Covered, At
  <2> QED BY <2>3, <2>4, <2>6, <2>7
<1> QED BY <1>1, <1>3, <1>4, <1>5, <1>7, <1>8 DEF JournalShaped, JournalWhole

LEMMA CountSound ==
  ASSUME JournalShaped, JournalWhole, NEW t \in Writers, Count(t)
  PROVE  JournalShaped' /\ JournalWhole'
<1>1. PICK r \in {Resting, [Resting EXCEPT !.pc = "stat"]} : task' = [task EXCEPT ![t] = r]
  BY DEF Count
<1>2. /\ r \in [pc : Steps, handle : Nat, data : Seq(Nat), overlaps : BOOLEAN]
      /\ r.pc \notin {"write", "tmp", "fill", "rename"} /\ r.data = <<>>
  BY RestingTyped DEF Steps
<1>3. ~At(t, {"write", "fill"}) /\ UNCHANGED <<disk, lines, spoiled>> BY DEF Count, At
<1> QED BY <1>1, <1>2, <1>3, AsideSound

LEMMA MaintainSound ==
  ASSUME JournalShaped, JournalWhole, NEW t \in Writers, Maintain(t)
  PROVE  JournalShaped' /\ JournalWhole'
<1>1. PICK r \in {[Resting EXCEPT !.pc = "statAll"], [Resting EXCEPT !.pc = "stat"]} :
        task' = [task EXCEPT ![t] = r]
  BY DEF Maintain
<1>2. /\ r \in [pc : Steps, handle : Nat, data : Seq(Nat), overlaps : BOOLEAN]
      /\ r.pc \notin {"write", "tmp", "fill", "rename"} /\ r.data = <<>>
  BY RestingTyped DEF Steps
<1>3. ~At(t, {"write", "fill"}) /\ UNCHANGED <<disk, lines, spoiled>> BY DEF Maintain, At
<1> QED BY <1>1, <1>2, <1>3, AsideSound

LEMMA StatSound ==
  ASSUME JournalShaped, JournalWhole, NEW t \in Writers, Stat(t)
  PROVE  JournalShaped' /\ JournalWhole'
<1>1. PICK r \in {Resting, [task[t] EXCEPT !.pc = "read"], [task[t] EXCEPT !.pc = "readAll"]} :
        task' = [task EXCEPT ![t] = r]
  BY DEF Stat, End, JournalShaped, JournalTyped
<1>2. /\ r \in [pc : Steps, handle : Nat, data : Seq(Nat), overlaps : BOOLEAN]
      /\ r.pc \notin {"write", "tmp", "fill", "rename"} /\ (r.data = <<>> \/ r.data = task[t].data)
  BY RestingTyped DEF Steps, JournalShaped, JournalTyped
<1>3. ~At(t, {"write", "fill"}) /\ UNCHANGED <<disk, lines, spoiled>> BY DEF Stat, At
<1> QED BY <1>1, <1>2, <1>3, AsideSound

LEMMA OpenSound ==
  ASSUME JournalShaped, JournalWhole, NEW t \in Writers, Open(t)
  PROVE  JournalShaped' /\ JournalWhole'
<1> DEFINE r == [pc |-> "write", handle |-> events, data |-> <<>>,
                 overlaps |-> \E u \in Writers : Pruning(u)]
<1>1. /\ UNCHANGED <<files, events, beside, appended, exposed, spoiled>>
      /\ JournalTyped /\ Numbered /\ AllWritten /\ WritersKnow
      /\ At(t, {"idle"})
  BY DEF Open, disk, lines, JournalShaped
<1>2. r \in [pc : Steps, handle : Nat, data : Seq(Nat), overlaps : BOOLEAN]
  <2>1. events \in Nat BY <1>1 DEF JournalTyped
  <2> QED BY <2>1, EmptySeq DEF Steps
<1>3. task' = [task EXCEPT ![t] = r] BY DEF Open
<1>4. /\ task' \in [Writers -> [pc : Steps, handle : Nat, data : Seq(Nat), overlaps : BOOLEAN]]
      /\ task'[t] = r /\ \A u \in Writers \ {t} : task'[u] = task[u]
  <2> HIDE DEF r
  <2> QED BY <1>1, <1>2, <1>3, OthersStay
<1>r. /\ r.pc = "write" /\ r.handle = events /\ r.data = <<>>
      /\ r.overlaps = \E u \in Writers : Pruning(u)
  OBVIOUS
<1> HIDE DEF r
<1>5. JournalTyped' BY <1>1, <1>4, <1>r DEF JournalTyped, At
<1>6. Numbered' BY <1>1 DEF Numbered
<1>7. AllWritten' BY <1>1, <1>4, <1>r, EmptyRises DEF AllWritten
<1>8. \A u \in Writers : (Pruning(u)' <=> Pruning(u)) /\ (Pruning(u)' => task'[u] = task[u])
  BY <1>1, <1>4, <1>r DEF Pruning, At
<1>9. WritersKnow' BY <1>1, <1>4, <1>r, <1>8 DEF WritersKnow, At
<1>10. ASSUME ~spoiled PROVE AllRising' /\ TailsWhole' /\ Covered(events)' /\ BesideCovered'
  <2>1. AllRising /\ TailsWhole /\ Covered(events) /\ BesideCovered BY <1>10 DEF JournalWhole
  <2>2. Owed' = Owed BY <1>1 DEF Owed
  <2>3. AllRising' BY <1>1, <1>4, <1>r, <2>1, EmptyRises DEF AllRising
  <2>4. TailsWhole' BY <1>8, <2>1, <2>2 DEF TailsWhole
  <2>5. \A u \in Writers : At(u, {"fill"}) => At(u, {"fill"})' /\ task'[u] = task[u]
    BY <1>1, <1>4 DEF At
  <2>6. Covered(events)' BY <1>1, <2>1, <2>2, <2>5 DEF Covered
  <2>7. BesideCovered' BY <1>1, <1>4, <1>r, <2>1, <2>2, <2>5 DEF BesideCovered, Covered, At
  <2> QED BY <2>3, <2>4, <2>6, <2>7
<1> QED BY <1>1, <1>5, <1>6, <1>7, <1>9, <1>10 DEF JournalShaped, JournalWhole

LEMMA WriteLineSound ==
  ASSUME JournalShaped, JournalWhole, NEW t \in Writers, WriteLine(t)
  PROVE  JournalShaped' /\ JournalWhole'
<1> DEFINE n == Len(appended)
           h == task[t].handle
           s == Append(files[h], n + 1)
           r == [Resting EXCEPT !.pc = "count"]
<1>1. /\ UNCHANGED <<events, beside, spoiled>>
      /\ JournalTyped /\ Numbered /\ AllWritten /\ WritersKnow
      /\ At(t, {"write"}) /\ task[t].pc = "write"
  BY DEF WriteLine, JournalShaped, At
<1>2. /\ n \in Nat /\ h \in 1..Len(files) /\ DOMAIN files = 1..Len(files) /\ files \in Seq(Seq(Nat))
      /\ files[h] \in Seq(Nat) /\ UpTo(n, files[h]) /\ appended \in Seq(Nat)
  <2>1. h \in 1..Len(files) /\ files \in Seq(Seq(Nat)) /\ appended \in Seq(Nat)
    BY <1>1 DEF JournalTyped, At
  <2>2. DOMAIN files = 1..Len(files) /\ n \in Nat BY <2>1, LenProperties
  <2>3. files[h] \in Seq(Nat) BY <2>1, ElementOfSeq
  <2> QED BY <1>1, <2>1, <2>2, <2>3 DEF AllWritten
<1>3. files' = [files EXCEPT ![h] = s] /\ appended' = Append(appended, n + 1)
  BY DEF WriteLine
<1>4. exposed' = IF task[t].overlaps THEN exposed \cup {n + 1} ELSE exposed
  BY DEF WriteLine
<1>5. /\ r \in [pc : Steps, handle : Nat, data : Seq(Nat), overlaps : BOOLEAN]
      /\ r.pc = "count" /\ r.data = <<>>
  BY RestingTyped DEF Steps
<1>6. task' = [task EXCEPT ![t] = r] BY DEF WriteLine
<1>7. /\ task' \in [Writers -> [pc : Steps, handle : Nat, data : Seq(Nat), overlaps : BOOLEAN]]
      /\ task'[t] = r /\ \A u \in Writers \ {t} : task'[u] = task[u]
  <2> HIDE DEF r
  <2> QED BY <1>1, <1>5, <1>6, OthersStay
<1>8. /\ s \in Seq(Nat) /\ Range(s) = Range(files[h]) \cup {n + 1} /\ UpTo(n + 1, s)
      /\ Rising(files[h]) => Rising(s)
  BY <1>2, AppendRises
<1>9. /\ files' \in Seq(Seq(Nat)) /\ Len(files') = Len(files) /\ DOMAIN files' = 1..Len(files)
      /\ files'[h] = s /\ \A f \in 1..Len(files) : f # h => files'[f] = files[f]
  <2> HIDE DEF h, s
  <2> QED BY <1>2, <1>3, <1>8, Rewritten
<1>10. /\ appended' \in Seq(Nat) /\ Len(appended') = n + 1 /\ DOMAIN appended' = 1..(n + 1)
       /\ appended'[n + 1] = n + 1 /\ \A i \in 1..n : appended'[i] = appended[i]
       /\ DOMAIN appended = 1..n
  <2>1. Append(appended, n + 1) \in Seq(Nat) BY <1>2, AppendProperties
  <2>2. Len(Append(appended, n + 1)) = n + 1 BY <1>2, AppendProperties
  <2>3. Append(appended, n + 1)[n + 1] = n + 1 BY <1>2, AppendProperties
  <2>4. \A i \in 1..n : Append(appended, n + 1)[i] = appended[i] BY <1>2, AppendProperties
  <2>5. DOMAIN appended = 1..n /\ DOMAIN Append(appended, n + 1) = 1..(n + 1)
    BY <1>2, <2>1, <2>2, LenProperties
  <2> QED BY <1>3, <2>1, <2>2, <2>3, <2>4, <2>5
<1>h. h = task[t].handle /\ n = Len(appended) OBVIOUS
<1> HIDE DEF n, h, s, r
<1>11. JournalTyped'
  <2>1. \A u \in Writers : At(u, {"write", "fill"})' => task'[u].handle \in 1..Len(files)
    BY <1>1, <1>5, <1>7 DEF JournalTyped, At
  <2> QED BY <1>1, <1>7, <1>9, <1>10, <2>1 DEF JournalTyped
<1>12. Numbered'
  <2>1. \A i \in 1..(n + 1) : i \in 1..n \/ i = n + 1 BY <1>2
  <2> QED BY <1>1, <1>10, <2>1 DEF Numbered
<1>13. \A x \in Seq(Nat) : UpTo(n, x) => UpTo(n + 1, x)
  <2> SUFFICES ASSUME NEW x \in Seq(Nat), UpTo(n, x), NEW i \in DOMAIN x PROVE x[i] <= n + 1
    BY DEF UpTo
  <2>1. x[i] <= n BY DEF UpTo
  <2>2. x[i] \in Nat BY SeqNat
  <2> QED BY <1>2, <2>1, <2>2
<1>14. AllWritten'
  <2>1. ASSUME NEW f \in 1..Len(files) PROVE UpTo(n + 1, files'[f])
    <3>1. CASE f = h BY <1>8, <1>9, <3>1
    <3>2. CASE f # h
      <4>1. files[f] \in Seq(Nat) BY <1>2, ElementOfSeq
      <4>2. UpTo(n, files[f]) BY <1>1, <1>2, <1>h DEF AllWritten
      <4> QED BY <1>9, <1>13, <3>2, <4>1, <4>2
    <3> QED BY <3>1, <3>2
  <2>2. ASSUME NEW u \in Writers PROVE UpTo(n + 1, task'[u].data)
    <3>1. CASE u = t BY <1>5, <1>7, <3>1, EmptyRises
    <3>2. CASE u # t
      <4>1. task[u].data \in Seq(Nat) BY <1>1 DEF JournalTyped
      <4>2. UpTo(n, task[u].data) BY <1>1, <1>h DEF AllWritten
      <4> QED BY <1>7, <1>13, <3>2, <4>1, <4>2
    <3> QED BY <3>1, <3>2
  <2> QED BY <1>9, <1>10, <2>1, <2>2 DEF AllWritten
<1>15. \A u \in Writers : Pruning(u)' <=> Pruning(u)
  BY <1>1, <1>5, <1>7 DEF Pruning, At
<1>16. \A u \in Writers : Pruning(u) => task'[u] = task[u]
  BY <1>1, <1>7 DEF Pruning, At
<1>17. WritersKnow' BY <1>1, <1>5, <1>7, <1>15 DEF WritersKnow, At
<1>18. ASSUME ~spoiled PROVE AllRising' /\ TailsWhole' /\ Covered(events)' /\ BesideCovered'
  <2>1. AllRising /\ TailsWhole /\ Covered(events) /\ BesideCovered BY <1>18 DEF JournalWhole
  <2>2. AllRising'
    <3>1. \A f \in 1..Len(files) : Rising(files'[f])
      BY <1>2, <1>8, <1>9, <2>1 DEF AllRising
    <3>2. \A u \in Writers : Rising(task'[u].data)
      BY <1>5, <1>7, <2>1, EmptyRises DEF AllRising
    <3> QED BY <1>9, <3>1, <3>2 DEF AllRising
  <2>3. Owed' \subseteq Owed \cup ({n + 1} \ exposed')
    <3>1. Kept \in Nat BY JournalAssumption
    <3>2. exposed \subseteq exposed' BY <1>4
    <3> SUFFICES ASSUME NEW line \in Owed', line # n + 1 PROVE line \in Owed
      <4>1. \A line \in Owed' : line \notin exposed' BY DEF Owed
      <4> QED BY <4>1
    <3>3. line \in 1..(n + 1) /\ line \notin exposed' /\ n + 1 - line < Kept
      <4> DEFINE m == Len(appended')
      <4>1. line \in 1..m /\ line \notin exposed' /\ m - line < Kept BY DEF Owed
      <4>2. m = n + 1 BY <1>10
      <4> HIDE DEF m
      <4> QED BY <1>2, <3>1, <4>1, <4>2
    <3>4. line \in 1..n /\ n - line < Kept BY <1>2, <3>1, <3>3
    <3> QED BY <1>2, <1>h, <3>2, <3>3, <3>4 DEF Owed
  <2>4. \A f \in 1..Len(files) : Range(files[f]) \subseteq Range(files'[f])
    BY <1>8, <1>9
  <2>5. CASE \E u \in Writers : Pruning(u)
    <3>1. task[t].overlaps BY <1>1, <2>5 DEF WritersKnow
    <3>2. Owed' \subseteq Owed BY <1>4, <2>3, <3>1
    <3>3. TailsWhole' BY <1>15, <1>16, <2>1, <3>2 DEF TailsWhole
    <3>4. ASSUME NEW f \in 1..Len(files), Covered(f)
          PROVE  \/ Owed' \subseteq Range(files'[f])
                 \/ \E u \in Writers : At(u, {"fill"})' /\ task'[u].handle = f
      <4>1. CASE Owed \subseteq Range(files[f]) BY <2>4, <3>2, <4>1
      <4>2. CASE \E u \in Writers : At(u, {"fill"}) /\ task[u].handle = f
        <5>1. PICK u \in Writers : At(u, {"fill"}) /\ task[u].handle = f BY <4>2
        <5>2. u # t BY <1>1, <5>1 DEF At
        <5> QED BY <1>7, <5>1, <5>2 DEF At
      <4> QED BY <3>4, <4>1, <4>2 DEF Covered
    <3>5. Covered(events)' BY <1>1, <2>1, <3>4 DEF Covered, JournalTyped
    <3>6. BesideCovered'
      <4> SUFFICES ASSUME beside # 0, \E u \in Writers : At(u, {"fill", "rename"})' PROVE Covered(beside)'
        BY <1>1 DEF BesideCovered
      <4>1. \E u \in Writers : At(u, {"fill", "rename"}) BY <1>5, <1>7 DEF At
      <4>2. Covered(beside) /\ beside \in 1..Len(files) BY <1>1, <2>1, <4>1 DEF BesideCovered, JournalTyped
      <4> QED BY <1>1, <3>4, <4>2 DEF Covered
    <3> QED BY <2>2, <3>3, <3>5, <3>6
  <2>6. CASE ~\E u \in Writers : Pruning(u)
    <3>1. TailsWhole' BY <1>15, <2>6 DEF TailsWhole
    <3>2. ~\E u \in Writers : At(u, {"fill"}) BY <2>6 DEF Pruning, At
    <3>3. ~\E u \in Writers : At(u, {"fill", "rename"})'
      <4>1. \A u \in Writers : ~(Pruning(u)') BY <1>15, <2>6
      <4> QED BY <4>1 DEF Pruning, At
    <3>4. BesideCovered' BY <3>3 DEF BesideCovered
    <3>5. Owed \subseteq Range(files'[events]) BY <1>1, <2>1, <2>4, <3>2 DEF Covered, JournalTyped
    <3>6. CASE task[t].overlaps
      <4>1. Owed' \subseteq Owed BY <1>4, <2>3, <3>6
      <4> QED BY <1>1, <2>2, <3>1, <3>4, <3>5, <4>1 DEF Covered
    <3>7. CASE ~task[t].overlaps
      <4>1. h = events BY <1>1, <1>h, <3>7 DEF WritersKnow
      <4>2. n + 1 \in Range(files'[events]) BY <1>8, <1>9, <4>1
      <4> QED BY <1>1, <2>2, <2>3, <3>1, <3>4, <3>5, <4>2 DEF Covered
    <3> QED BY <3>6, <3>7
  <2> QED BY <2>5, <2>6
<1> QED BY <1>1, <1>11, <1>12, <1>14, <1>17, <1>18 DEF JournalShaped, JournalWhole

LEMMA RenameSound ==
  ASSUME JournalShaped, JournalWhole, NEW t \in Writers, Rename(t)
  PROVE  JournalShaped' /\ JournalWhole'
<1>1. /\ UNCHANGED <<appended, exposed, spoiled>> /\ files' = files
      /\ JournalTyped /\ Numbered /\ AllWritten /\ WritersKnow
      /\ At(t, {"rename"}) /\ task[t].pc = "rename" /\ Pruning(t)
      /\ task' = [task EXCEPT ![t] = Resting]
  BY DEF Rename, End, disk, lines, JournalShaped, At, Pruning
<1>2. CASE beside = 0
  <2>1. UNCHANGED <<events, beside>> BY <1>2 DEF Rename, disk
  <2> QED BY <1>1, <2>1, RestingTyped, AsideSound DEF disk, lines, At
<1>3. CASE beside # 0
  <2>1. events' = beside /\ beside' = 0 BY <1>3 DEF Rename
  <2>2. /\ task' \in [Writers -> [pc : Steps, handle : Nat, data : Seq(Nat), overlaps : BOOLEAN]]
        /\ task'[t] = Resting /\ \A u \in Writers \ {t} : task'[u] = task[u]
    BY <1>1, RestingTyped, OthersStay
  <2>3. JournalTyped'
    <3>1. Len(files) \in Nat BY <1>1, LenProperties DEF JournalTyped
    <3>2. events' \in 1..Len(files') /\ beside' \in 0..Len(files') /\ events' # beside'
      BY <1>1, <1>3, <2>1, <3>1 DEF JournalTyped
    <3> QED BY <1>1, <2>2, <3>2, RestingTyped DEF JournalTyped, At
  <2>4. Numbered' BY <1>1 DEF Numbered
  <2>5. AllWritten' BY <1>1, <2>2, RestingTyped, EmptyRises DEF AllWritten
  <2>6. \A u \in Writers : Pruning(u)' => Pruning(u) /\ task'[u] = task[u]
    BY <2>2, RestingTyped DEF Pruning, At
  <2>7. WritersKnow'
    <3>1. \A u \in Writers : At(u, {"write"})' => At(u, {"write"}) /\ task'[u] = task[u]
      BY <2>2, RestingTyped DEF At
    <3>2. \A u \in Writers : At(u, {"write"}) => task[u].overlaps BY <1>1 DEF WritersKnow
    <3> QED BY <3>1, <3>2 DEF WritersKnow
  <2>8. ASSUME ~spoiled PROVE AllRising' /\ TailsWhole' /\ Covered(events)' /\ BesideCovered'
    <3>1. AllRising /\ TailsWhole /\ BesideCovered BY <2>8 DEF JournalWhole
    <3>2. Owed' = Owed BY <1>1 DEF Owed
    <3>3. AllRising' BY <1>1, <2>2, <3>1, RestingTyped, EmptyRises DEF AllRising
    <3>4. TailsWhole' BY <2>6, <3>1, <3>2 DEF TailsWhole
    <3>5. At(t, {"fill", "rename"}) BY <1>1 DEF At
    <3>6. Covered(beside) BY <1>3, <3>1, <3>5 DEF BesideCovered
    <3>7. \A u \in Writers : At(u, {"fill"}) => At(u, {"fill"})' /\ task'[u] = task[u]
      BY <1>1, <2>2 DEF At
    <3>8. Covered(events)' BY <1>1, <2>1, <3>2, <3>6, <3>7 DEF Covered
    <3> QED BY <2>1, <3>3, <3>4, <3>8 DEF BesideCovered
  <2> QED BY <1>1, <2>3, <2>4, <2>5, <2>7, <2>8 DEF JournalShaped, JournalWhole
<1> QED BY <1>2, <1>3

LEMMA ReadTailSound ==
  ASSUME JournalShaped, JournalWhole, NEW t \in Writers, ReadTail(t)
  PROVE  JournalShaped' /\ JournalWhole'
<1> DEFINE n == Len(appended)
           file == files[events]
<1>1. /\ UNCHANGED <<files, events, beside, appended, exposed>>
      /\ JournalTyped /\ Numbered /\ AllWritten /\ WritersKnow
      /\ task[t].pc \in {"read", "readAll"}
      /\ spoiled' = (spoiled \/ \E u \in Writers : Emptied(u))
  BY DEF ReadTail, disk, lines, JournalShaped, At
<1>2. /\ n \in Nat /\ file \in Seq(Nat) /\ UpTo(n, file) /\ events \in DOMAIN files /\ Kept \in Nat
  <2>1. files \in Seq(Seq(Nat)) /\ events \in 1..Len(files) /\ appended \in Seq(Nat)
    BY <1>1 DEF JournalTyped
  <2>2. DOMAIN files = 1..Len(files) /\ n \in Nat BY <2>1, LenProperties
  <2>3. file \in Seq(Nat) BY <2>1, ElementOfSeq
  <2>4. UpTo(n, file) /\ events \in DOMAIN files BY <1>1, <2>1, <2>2 DEF AllWritten
  <2>5. Kept \in Nat BY JournalAssumption
  <2> QED BY <2>2, <2>3, <2>4, <2>5
<1>3. CASE At(t, {"read"}) /\ Size <= Kept
  <2>1. task' = [task EXCEPT ![t] = Resting] BY <1>3 DEF ReadTail, End
  <2>2. CASE spoiled' = spoiled
    BY <1>1, <2>1, <2>2, RestingTyped, AsideSound DEF disk, lines, At
  <2>3. CASE spoiled' # spoiled
    <3>1. spoiled' /\ ~spoiled BY <1>1, <2>3 DEF JournalTyped
    <3>2. /\ task' \in [Writers -> [pc : Steps, handle : Nat, data : Seq(Nat), overlaps : BOOLEAN]]
          /\ task'[t] = Resting /\ \A u \in Writers \ {t} : task'[u] = task[u]
      BY <1>1, <2>1, RestingTyped, OthersStay
    <3>3. JournalTyped' BY <1>1, <3>1, <3>2, RestingTyped DEF JournalTyped, At
    <3>4. Numbered' BY <1>1 DEF Numbered
    <3>5. AllWritten' BY <1>1, <3>2, RestingTyped, EmptyRises DEF AllWritten
    <3>6. WritersKnow' BY <1>1, <3>2, RestingTyped DEF WritersKnow, Pruning, At
    <3> QED BY <3>1, <3>3, <3>4, <3>5, <3>6 DEF JournalShaped, JournalWhole
  <2> QED BY <2>2, <2>3
<1>4. CASE ~(At(t, {"read"}) /\ Size <= Kept)
  <2> DEFINE d == IF At(t, {"readAll"}) THEN file ELSE SubSeq(file, Len(file) - Kept + 1, Len(file))
             r == [Resting EXCEPT !.pc = "tmp", !.data = d]
  <2>1. task' = [u \in Writers |-> IF u = t THEN r ELSE [task[u] EXCEPT !.overlaps = At(u, {"write"})]]
    BY <1>4 DEF ReadTail, Size
  <2>2. /\ d \in Seq(Nat) /\ UpTo(n, d)
        /\ Rising(file) => Rising(d) /\ \A i \in DOMAIN file : n - file[i] < Kept => file[i] \in Range(d)
    <3> HIDE DEF n, file
    <3>1. CASE At(t, {"readAll"}) BY <1>2, <3>1 DEF Range
    <3>2. CASE ~At(t, {"readAll"})
      <4>1. At(t, {"read"}) BY <1>1, <3>2 DEF At
      <4>2. Kept < Len(file)
        <5>1. Len(file) \in Nat BY <1>2, LenProperties
        <5> QED BY <1>2, <1>4, <4>1, <5>1 DEF Size, file
      <4>3. d = SubSeq(file, Len(file) - Kept + 1, Len(file)) BY <3>2
      <4> HIDE DEF d
      <4> QED BY <1>2, <4>2, <4>3, TailRises
    <3> QED BY <3>1, <3>2
  <2> HIDE DEF d
  <2>3. r \in [pc : Steps, handle : Nat, data : Seq(Nat), overlaps : BOOLEAN] /\ r.pc = "tmp" /\ r.data = d
    BY <2>2, RestingTyped DEF Steps, Resting
  <2> HIDE DEF r
  <2>4. /\ task'[t] = r
        /\ \A u \in Writers \ {t} : /\ task'[u] = [task[u] EXCEPT !.overlaps = At(u, {"write"})]
                                    /\ task'[u].pc = task[u].pc /\ task'[u].handle = task[u].handle
                                    /\ task'[u].data = task[u].data
                                    /\ task'[u].overlaps = At(u, {"write"})
    <3>1. ASSUME NEW u \in Writers \ {t}
          PROVE  /\ task'[u] = [task[u] EXCEPT !.overlaps = At(u, {"write"})]
                 /\ task'[u].pc = task[u].pc /\ task'[u].handle = task[u].handle
                 /\ task'[u].data = task[u].data
                 /\ task'[u].overlaps = At(u, {"write"})
      <4>1. task[u] \in [pc : Steps, handle : Nat, data : Seq(Nat), overlaps : BOOLEAN]
        BY <1>1 DEF JournalTyped
      <4>2. task'[u] = [task[u] EXCEPT !.overlaps = At(u, {"write"})] BY <2>1
      <4> QED BY <4>1, <4>2
    <3> QED BY <2>1, <3>1
  <2>5. task' \in [Writers -> [pc : Steps, handle : Nat, data : Seq(Nat), overlaps : BOOLEAN]]
    <3>1. ASSUME NEW u \in Writers \ {t}
          PROVE  [task[u] EXCEPT !.overlaps = At(u, {"write"})]
                    \in [pc : Steps, handle : Nat, data : Seq(Nat), overlaps : BOOLEAN]
      <4>1. task[u] \in [pc : Steps, handle : Nat, data : Seq(Nat), overlaps : BOOLEAN]
        BY <1>1 DEF JournalTyped
      <4>2. At(u, {"write"}) \in BOOLEAN BY DEF At
      <4> QED BY <4>1, <4>2
    <3> QED BY <2>1, <2>3, <3>1
  <2>6. JournalTyped'
    <3>1. \A u \in Writers : At(u, {"write", "fill"})' => u # t /\ At(u, {"write", "fill"})
      BY <2>3, <2>4 DEF At
    <3>2. spoiled' \in BOOLEAN BY <1>1 DEF JournalTyped
    <3>3. \A u \in Writers : At(u, {"write", "fill"})' => task'[u].handle \in 1..Len(files')
      BY <1>1, <2>4, <3>1 DEF JournalTyped
    <3> QED BY <1>1, <2>5, <3>2, <3>3 DEF JournalTyped
  <2>7. Numbered' BY <1>1 DEF Numbered
  <2>8. AllWritten' BY <1>1, <2>2, <2>3, <2>4 DEF AllWritten
  <2>9. WritersKnow'
    <3>1. \A u \in Writers : At(u, {"write"})' => task'[u].overlaps
      BY <2>3, <2>4 DEF At
    <3> QED BY <3>1 DEF WritersKnow
  <2>10. ASSUME ~spoiled' PROVE AllRising' /\ TailsWhole' /\ Covered(events)' /\ BesideCovered'
    <3>1. /\ AllRising /\ TailsWhole /\ Covered(events) /\ BesideCovered
          /\ ~\E u \in Writers : Emptied(u)
      BY <1>1, <2>10 DEF JournalWhole
    <3>2. Owed' = Owed BY <1>1 DEF Owed
    <3>3. Owed \subseteq Range(file) BY <3>1 DEF Covered, Emptied, At
    <3>4. Rising(file) BY <1>2, <3>1 DEF AllRising
    <3>5. Owed \subseteq Range(d)
      <4> SUFFICES ASSUME NEW line \in Owed PROVE line \in Range(d)
        OBVIOUS
      <4>1. PICK i \in DOMAIN file : file[i] = line BY <3>3 DEF Range
      <4>2. n - line < Kept BY DEF Owed
      <4> QED BY <2>2, <3>4, <4>1, <4>2
    <3>6. AllRising' BY <1>1, <2>2, <2>3, <2>4, <3>1, <3>4 DEF AllRising
    <3>7. TailsWhole'
      <4>1. ASSUME NEW u \in Writers, Pruning(u)' PROVE Owed \subseteq Range(task'[u].data)
        <5>1. CASE u = t BY <2>3, <2>4, <3>5, <5>1
        <5>2. CASE u # t
          <6>1. Pruning(u) BY <2>4, <4>1, <5>2 DEF Pruning, At
          <6> QED BY <2>4, <3>1, <5>2, <6>1 DEF TailsWhole
        <5> QED BY <5>1, <5>2
      <4> QED BY <3>2, <4>1 DEF TailsWhole
    <3>8. Covered(events)' BY <1>1, <3>2, <3>3 DEF Covered
    <3>9. BesideCovered'
      <4> SUFFICES ASSUME beside # 0, \E u \in Writers : At(u, {"fill", "rename"})' PROVE Covered(beside)'
        BY <1>1 DEF BesideCovered
      <4>1. \E u \in Writers : At(u, {"fill", "rename"}) BY <2>3, <2>4 DEF At
      <4>2. Covered(beside) BY <3>1, <4>1 DEF BesideCovered
      <4>3. \A u \in Writers : At(u, {"fill"}) => At(u, {"fill"})' /\ task'[u].handle = task[u].handle
        BY <1>1, <2>4 DEF At
      <4> QED BY <1>1, <3>2, <4>2, <4>3 DEF Covered
    <3> QED BY <3>6, <3>7, <3>8, <3>9
  <2> QED BY <2>6, <2>7, <2>8, <2>9, <2>10 DEF JournalShaped, JournalWhole
<1> QED BY <1>3, <1>4

LEMMA OpenBesideSound ==
  ASSUME JournalShaped, JournalWhole, NEW t \in Writers, OpenBeside(t)
  PROVE  JournalShaped' /\ JournalWhole'
<1> DEFINE f == IF beside = 0 THEN Len(files) + 1 ELSE beside
           r == [task[t] EXCEPT !.pc = "fill", !.handle = f]
<1>1. /\ UNCHANGED <<events, appended, exposed, spoiled>> /\ beside' = f
      /\ JournalTyped /\ Numbered /\ AllWritten /\ WritersKnow
      /\ task[t].pc = "tmp" /\ Pruning(t)
      /\ files' = IF beside = 0 THEN Append(files, <<>>) ELSE [files EXCEPT ![f] = <<>>]
  BY DEF OpenBeside, lines, JournalShaped, At, Pruning
<1>2. files \in Seq(Seq(Nat)) /\ Len(files) \in Nat /\ DOMAIN files = 1..Len(files) /\ events \in 1..Len(files)
  BY <1>1, LenProperties DEF JournalTyped
<1>3. /\ files' \in Seq(Seq(Nat)) /\ DOMAIN files' = 1..Len(files') /\ Len(files') \in Nat
      /\ Len(files) <= Len(files') /\ f \in 1..Len(files')
      /\ files'[f] = <<>> /\ \A g \in 1..Len(files') : g # f => g \in 1..Len(files) /\ files'[g] = files[g]
      /\ f # events /\ f # 0
  <2>1. CASE beside = 0
    <3>1. f = Len(files) + 1 /\ files' = Append(files, <<>>) BY <1>1, <2>1
    <3> HIDE DEF f
    <3>2. /\ files' \in Seq(Seq(Nat)) /\ Len(files') = Len(files) + 1 /\ DOMAIN files' = 1..(Len(files) + 1)
          /\ files'[f] = <<>> /\ \A g \in 1..Len(files) : files'[g] = files[g]
      BY <1>2, <3>1, Added
    <3>3. \A g \in 1..Len(files') : g # f => g \in 1..Len(files) BY <1>2, <3>1, <3>2
    <3>4. f \in 1..Len(files') /\ f # events /\ f # 0 /\ Len(files) <= Len(files') /\ Len(files') \in Nat
      BY <1>2, <3>1, <3>2
    <3> QED BY <3>2, <3>3, <3>4
  <2>2. CASE beside # 0
    <3>1. f = beside /\ files' = [files EXCEPT ![f] = <<>>] BY <1>1, <2>2
    <3>2. f \in 1..Len(files) /\ f # events BY <1>1, <1>2, <2>2, <3>1 DEF JournalTyped
    <3>3. <<>> \in Seq(Nat) BY EmptySeq
    <3> HIDE DEF f
    <3>4. /\ files' \in Seq(Seq(Nat)) /\ Len(files') = Len(files) /\ DOMAIN files' = 1..Len(files)
          /\ files'[f] = <<>> /\ \A g \in 1..Len(files) : g # f => files'[g] = files[g]
      BY <1>2, <3>1, <3>2, <3>3, Rewritten
    <3> QED BY <1>2, <3>1, <3>2, <3>4, <2>2
  <2> QED BY <2>1, <2>2
<1> HIDE DEF f
<1>4. task[t] \in [pc : Steps, handle : Nat, data : Seq(Nat), overlaps : BOOLEAN]
  BY <1>1 DEF JournalTyped
<1>5. /\ r \in [pc : Steps, handle : Nat, data : Seq(Nat), overlaps : BOOLEAN]
      /\ r.pc = "fill" /\ r.handle = f /\ r.data = task[t].data
  <2>1. f \in Nat BY <1>3
  <2> QED BY <1>4, <2>1 DEF Steps
<1>6. task' = [task EXCEPT ![t] = r]
  <2>1. task' = [task EXCEPT ![t].pc = "fill", ![t].handle = f] BY DEF OpenBeside, f
  <2>2. t \in DOMAIN task BY <1>1 DEF JournalTyped
  <2> QED BY <1>4, <2>1, <2>2
<1> HIDE DEF r
<1>7. /\ task' \in [Writers -> [pc : Steps, handle : Nat, data : Seq(Nat), overlaps : BOOLEAN]]
      /\ task'[t] = r /\ \A u \in Writers \ {t} : task'[u] = task[u]
  BY <1>1, <1>5, <1>6, OthersStay
<1>8. \A u \in Writers : At(u, {"write", "fill"})' => task'[u].handle \in 1..Len(files')
  <2> SUFFICES ASSUME NEW u \in Writers, At(u, {"write", "fill"})' PROVE task'[u].handle \in 1..Len(files')
    OBVIOUS
  <2>1. CASE u = t BY <1>3, <1>5, <1>7, <2>1
  <2>2. CASE u # t
    <3>1. task'[u].handle \in 1..Len(files) BY <1>1, <1>7, <2>2 DEF JournalTyped, At
    <3>2. Len(files) \in Nat /\ Len(files') \in Nat /\ Len(files) <= Len(files') BY <1>2, <1>3
    <3> QED BY <3>1, <3>2
  <2> QED BY <2>1, <2>2
<1>9. JournalTyped'
  <2>1. events' \in 1..Len(files') /\ beside' \in 0..Len(files') /\ events' # beside'
    BY <1>1, <1>2, <1>3
  <2> QED BY <1>1, <1>3, <1>7, <1>8, <2>1 DEF JournalTyped
<1>10. Numbered' BY <1>1 DEF Numbered
<1>11. AllWritten'
  <2>1. \A g \in 1..Len(files') : UpTo(Len(appended), files'[g])
    BY <1>1, <1>2, <1>3, EmptyRises DEF AllWritten
  <2>2. \A u \in Writers : UpTo(Len(appended), task'[u].data) BY <1>1, <1>5, <1>7 DEF AllWritten
  <2> QED BY <1>1, <1>3, <2>1, <2>2 DEF AllWritten
<1>12. \A u \in Writers : (Pruning(u)' <=> Pruning(u)) /\ task'[u].data = task[u].data
  BY <1>1, <1>5, <1>7 DEF Pruning, At
<1>13. WritersKnow' BY <1>1, <1>5, <1>7, <1>12 DEF WritersKnow, At
<1>14. ASSUME ~spoiled PROVE AllRising' /\ TailsWhole' /\ Covered(events)' /\ BesideCovered'
  <2>1. AllRising /\ TailsWhole /\ Covered(events) BY <1>14 DEF JournalWhole
  <2>2. Owed' = Owed BY <1>1 DEF Owed
  <2>3. AllRising'
    <3>1. \A g \in 1..Len(files') : Rising(files'[g])
      BY <1>2, <1>3, <2>1, EmptyRises DEF AllRising
    <3> QED BY <1>3, <1>12, <2>1, <3>1 DEF AllRising
  <2>4. TailsWhole' BY <1>12, <2>1, <2>2 DEF TailsWhole
  <2>5. files'[events] = files[events]
    <3>1. events \in 1..Len(files') BY <1>2, <1>3
    <3> QED BY <1>3, <3>1
  <2>6. \A u \in Writers : At(u, {"fill"}) => At(u, {"fill"})' /\ task'[u].handle = task[u].handle
    BY <1>1, <1>7 DEF At
  <2>7. Covered(events)' BY <1>1, <2>1, <2>2, <2>5, <2>6 DEF Covered
  <2>8. At(t, {"fill"})' /\ task'[t].handle = f BY <1>5, <1>7 DEF At
  <2>9. BesideCovered' BY <1>1, <2>8 DEF BesideCovered, Covered
  <2> QED BY <2>3, <2>4, <2>7, <2>9
<1> QED BY <1>1, <1>9, <1>10, <1>11, <1>13, <1>14 DEF JournalShaped, JournalWhole

LEMMA FillSound ==
  ASSUME JournalShaped, JournalWhole, NEW t \in Writers, Fill(t)
  PROVE  JournalShaped' /\ JournalWhole'
<1> DEFINE n == Len(appended)
           d == task[t].data
           f == task[t].handle
           rest == SubSeq(files[f], Len(d) + 1, Len(files[f]))
           r == [task[t] EXCEPT !.pc = "rename"]
<1>1. /\ UNCHANGED <<events, beside, appended, exposed>>
      /\ JournalTyped /\ Numbered /\ AllWritten /\ WritersKnow
      /\ task[t].pc = "fill" /\ At(t, {"fill"}) /\ Pruning(t)
      /\ files' = [files EXCEPT ![f] = d \o rest]
      /\ spoiled' = (spoiled \/ \E old \in Range(rest), new \in Range(d) : old <= new)
  BY DEF Fill, lines, JournalShaped, At, Pruning
<1>2. /\ files \in Seq(Seq(Nat)) /\ DOMAIN files = 1..Len(files) /\ events \in 1..Len(files)
      /\ f \in 1..Len(files) /\ files[f] \in Seq(Nat) /\ d \in Seq(Nat) /\ n \in Nat
      /\ UpTo(n, d) /\ UpTo(n, files[f])
  <2>1. /\ files \in Seq(Seq(Nat)) /\ events \in 1..Len(files) /\ d \in Seq(Nat) /\ appended \in Seq(Nat)
    BY <1>1 DEF JournalTyped
  <2>2. f \in 1..Len(files) BY <1>1 DEF JournalTyped, At
  <2>3. DOMAIN files = 1..Len(files) /\ n \in Nat BY <2>1, LenProperties
  <2>4. files[f] \in Seq(Nat) BY <2>1, <2>2, ElementOfSeq
  <2> QED BY <1>1, <2>1, <2>2, <2>3, <2>4 DEF AllWritten
<1>3. /\ d \o rest \in Seq(Nat) /\ UpTo(n, d \o rest) /\ Range(d) \subseteq Range(d \o rest)
      /\ Rising(d) /\ Rising(files[f]) /\ ~(\E old \in Range(rest), new \in Range(d) : old <= new)
           => Rising(d \o rest)
  BY <1>2, FillRises
<1>4. /\ files' \in Seq(Seq(Nat)) /\ Len(files') = Len(files) /\ DOMAIN files' = 1..Len(files)
      /\ files'[f] = d \o rest /\ \A g \in 1..Len(files) : g # f => files'[g] = files[g]
  <2> DEFINE s == d \o rest
  <2>1. s \in Seq(Nat) /\ files' = [files EXCEPT ![f] = s] BY <1>1, <1>3
  <2> HIDE DEF s, f
  <2>2. /\ files' \in Seq(Seq(Nat)) /\ Len(files') = Len(files) /\ DOMAIN files' = 1..Len(files)
        /\ files'[f] = s /\ \A g \in 1..Len(files) : g # f => files'[g] = files[g]
    BY <1>2, <2>1, Rewritten
  <2> QED BY <2>2 DEF s
<1>5. task[t] \in [pc : Steps, handle : Nat, data : Seq(Nat), overlaps : BOOLEAN]
  BY <1>1 DEF JournalTyped
<1>6. /\ r \in [pc : Steps, handle : Nat, data : Seq(Nat), overlaps : BOOLEAN]
      /\ r.pc = "rename" /\ r.handle = f /\ r.data = d
  BY <1>5 DEF Steps
<1>7. task' = [task EXCEPT ![t] = r]
  <2>1. task' = [task EXCEPT ![t].pc = "rename"] BY DEF Fill
  <2>2. t \in DOMAIN task BY <1>1 DEF JournalTyped
  <2> QED BY <2>1, <2>2
<1> HIDE DEF r
<1>8. /\ task' \in [Writers -> [pc : Steps, handle : Nat, data : Seq(Nat), overlaps : BOOLEAN]]
      /\ task'[t] = r /\ \A u \in Writers \ {t} : task'[u] = task[u]
  BY <1>1, <1>6, <1>7, OthersStay
<1>9. JournalTyped'
  <2>1. \A u \in Writers : At(u, {"write", "fill"})' => task'[u].handle \in 1..Len(files)
    BY <1>1, <1>6, <1>8 DEF JournalTyped, At
  <2>2. spoiled' \in BOOLEAN BY <1>1 DEF JournalTyped
  <2> QED BY <1>1, <1>4, <1>8, <2>1, <2>2 DEF JournalTyped
<1>n. d = task[t].data /\ f = task[t].handle /\ n = Len(appended) OBVIOUS
<1> DEFINE s == d \o rest
           mixed == \E old \in Range(rest), new \in Range(d) : old <= new
<1>m. /\ spoiled' = (spoiled \/ mixed)
      /\ UpTo(n, s) /\ Range(d) \subseteq Range(s) /\ (Rising(d) /\ Rising(files[f]) /\ ~mixed => Rising(s))
      /\ files'[f] = s
  BY <1>1, <1>3, <1>4
<1> HIDE DEF d, f, rest, n, s, mixed
<1>10. Numbered' BY <1>1 DEF Numbered
<1>11. AllWritten'
  <2>1. \A g \in 1..Len(files) : UpTo(n, files'[g])
    BY <1>1, <1>2, <1>m, <1>4, <1>n DEF AllWritten
  <2>2. \A u \in Writers : UpTo(n, task'[u].data) BY <1>1, <1>2, <1>6, <1>8, <1>n DEF AllWritten
  <2> QED BY <1>1, <1>4, <1>n, <2>1, <2>2 DEF AllWritten
<1>12. \A u \in Writers : (Pruning(u)' <=> Pruning(u)) /\ task'[u].data = task[u].data
  BY <1>1, <1>6, <1>8, <1>n DEF Pruning, At
<1>13. WritersKnow' BY <1>1, <1>6, <1>8, <1>12 DEF WritersKnow, At
<1>14. ASSUME ~spoiled' PROVE AllRising' /\ TailsWhole' /\ Covered(events)' /\ BesideCovered'
  <2>1. /\ ~spoiled /\ ~mixed /\ AllRising /\ TailsWhole /\ Covered(events) /\ BesideCovered
    BY <1>m, <1>14 DEF JournalWhole
  <2>2. Owed' = Owed BY <1>1 DEF Owed
  <2>3. AllRising'
    <3>1. \A g \in 1..Len(files) : Rising(files'[g])
      BY <1>2, <1>4, <1>m, <1>n, <2>1 DEF AllRising
    <3> QED BY <1>4, <1>12, <2>1, <3>1 DEF AllRising
  <2>4. TailsWhole' BY <1>12, <2>1, <2>2 DEF TailsWhole
  <2>5. Owed \subseteq Range(s) BY <1>1, <1>m, <1>n, <2>1 DEF TailsWhole
  <2>6. ASSUME NEW g \in 1..Len(files), Covered(g)
        PROVE  \/ Owed' \subseteq Range(files'[g])
               \/ \E u \in Writers : At(u, {"fill"})' /\ task'[u].handle = g
    <3>1. CASE g = f BY <1>m, <2>2, <2>5, <3>1
    <3>2. CASE g # f /\ Owed \subseteq Range(files[g]) BY <1>4, <2>2, <3>2
    <3>3. CASE g # f /\ \E u \in Writers : At(u, {"fill"}) /\ task[u].handle = g
      <4>1. PICK u \in Writers : At(u, {"fill"}) /\ task[u].handle = g BY <3>3
      <4>2. u # t BY <1>n, <3>3, <4>1
      <4> QED BY <1>8, <4>1, <4>2 DEF At
    <3> QED BY <2>6, <3>1, <3>2, <3>3 DEF Covered
  <2>7. Covered(events)' BY <1>1, <1>2, <2>1, <2>6 DEF Covered
  <2>8. BesideCovered'
    <3> SUFFICES ASSUME beside # 0 PROVE Covered(beside)'
      BY <1>1 DEF BesideCovered
    <3>1. At(t, {"fill", "rename"}) BY <1>1 DEF At
    <3>2. Covered(beside) /\ beside \in 1..Len(files)
      BY <1>1, <2>1, <3>1 DEF BesideCovered, JournalTyped
    <3> QED BY <1>1, <2>6, <3>2 DEF Covered
  <2> QED BY <2>3, <2>4, <2>7, <2>8
<1> QED BY <1>1, <1>9, <1>10, <1>11, <1>13, <1>14 DEF JournalShaped, JournalWhole

LEMMA DieInPruneSound ==
  ASSUME JournalShaped, JournalWhole, NEW t \in Writers, DieInPrune(t)
  PROVE  JournalShaped' /\ JournalWhole'
<1> DEFINE gone == {u \in Writers : JournalOf[u] = JournalOf[t]}
<1>1. /\ UNCHANGED <<files, events, beside, appended, exposed>>
      /\ JournalTyped /\ Numbered /\ AllWritten /\ WritersKnow
      /\ task' = [u \in Writers |-> IF u \in gone THEN Resting ELSE task[u]]
      /\ spoiled' = (spoiled \/ \E u \in gone : Emptied(u))
  BY DEF DieInPrune, disk, lines, JournalShaped
<1>2. gone \subseteq Writers OBVIOUS
<1> HIDE DEF gone
<1>3. \A u \in Writers : task'[u] = IF u \in gone THEN Resting ELSE task[u] BY <1>1
<1>4. task' \in [Writers -> [pc : Steps, handle : Nat, data : Seq(Nat), overlaps : BOOLEAN]]
  BY <1>1, RestingTyped DEF JournalTyped
<1>5. JournalTyped'
  <2>1. spoiled' \in BOOLEAN BY <1>1 DEF JournalTyped
  <2>2. \A u \in Writers : At(u, {"write", "fill"})' => task'[u].handle \in 1..Len(files)
    BY <1>1, <1>3, RestingTyped DEF JournalTyped, At
  <2> QED BY <1>1, <1>4, <2>1, <2>2 DEF JournalTyped
<1>6. Numbered' BY <1>1 DEF Numbered
<1>7. AllWritten' BY <1>1, <1>3, RestingTyped, EmptyRises DEF AllWritten
<1>8. \A u \in Writers : Pruning(u)' => Pruning(u) /\ task'[u] = task[u]
  BY <1>3, RestingTyped DEF Pruning, At
<1>9. WritersKnow'
  <2>1. \A u \in Writers : At(u, {"write"})' => At(u, {"write"}) /\ task'[u] = task[u]
    BY <1>3, RestingTyped DEF At
  <2> QED BY <1>1, <1>8, <2>1 DEF WritersKnow
<1>10. ASSUME ~spoiled' PROVE AllRising' /\ TailsWhole' /\ Covered(events)' /\ BesideCovered'
  <2>1. /\ AllRising /\ TailsWhole /\ Covered(events) /\ BesideCovered
        /\ ~\E u \in gone : Emptied(u)
    BY <1>1, <1>10 DEF JournalWhole
  <2>2. Owed' = Owed BY <1>1 DEF Owed
  <2>3. AllRising' BY <1>1, <1>3, <2>1, RestingTyped, EmptyRises DEF AllRising
  <2>4. TailsWhole' BY <1>8, <2>1, <2>2 DEF TailsWhole
  <2>5. \A u \in Writers \ gone : At(u, {"fill"}) => At(u, {"fill"})' /\ task'[u] = task[u]
    BY <1>3 DEF At
  <2>6. Covered(events)'
    <3>1. \A u \in Writers : At(u, {"fill"}) /\ task[u].handle = events => u \notin gone
      BY <2>1 DEF Emptied
    <3> QED BY <1>1, <2>1, <2>2, <2>5, <3>1 DEF Covered
  <2>7. BesideCovered'
    <3> SUFFICES ASSUME beside # 0, NEW u \in Writers, At(u, {"fill", "rename"})' PROVE Covered(beside)'
      BY <1>1 DEF BesideCovered
    <3>1. u \notin gone /\ At(u, {"fill", "rename"}) BY <1>3, RestingTyped DEF At
    <3>2. Covered(beside) BY <2>1, <3>1 DEF BesideCovered
    <3>3. \A v \in Writers : At(v, {"fill"}) /\ task[v].handle = beside => v \notin gone
      BY <2>1, <3>1 DEF Emptied
    <3> QED BY <1>1, <2>2, <2>5, <3>2, <3>3 DEF Covered
  <2> QED BY <2>3, <2>4, <2>6, <2>7
<1> QED BY <1>1, <1>5, <1>6, <1>7, <1>9, <1>10 DEF JournalShaped, JournalWhole

LEMMA NextSound ==
  ASSUME JournalShaped, JournalWhole, [JournalNext]_journalVars
  PROVE  JournalShaped' /\ JournalWhole'
<1>1. CASE JournalNext
  <2>1. PICK t \in Writers :
           \/ Open(t) \/ WriteLine(t) \/ Count(t) \/ Maintain(t)
           \/ Stat(t) \/ ReadTail(t) \/ OpenBeside(t) \/ Fill(t) \/ Rename(t) \/ DieInPrune(t)
    BY <1>1 DEF JournalNext
  <2>2. CASE Open(t) BY <2>2, OpenSound
  <2>3. CASE WriteLine(t) BY <2>3, WriteLineSound
  <2>4. CASE Count(t) BY <2>4, CountSound
  <2>5. CASE Maintain(t) BY <2>5, MaintainSound
  <2>6. CASE Stat(t) BY <2>6, StatSound
  <2>7. CASE ReadTail(t) BY <2>7, ReadTailSound
  <2>8. CASE OpenBeside(t) BY <2>8, OpenBesideSound
  <2>9. CASE Fill(t) BY <2>9, FillSound
  <2>10. CASE Rename(t) BY <2>10, RenameSound
  <2>11. CASE DieInPrune(t) BY <2>11, DieInPruneSound
  <2> QED BY <2>1, <2>2, <2>3, <2>4, <2>5, <2>6, <2>7, <2>8, <2>9, <2>10, <2>11
<1>2. CASE UNCHANGED journalVars
  <2>1. /\ UNCHANGED <<files, events, beside, task, appended, exposed, spoiled>>
    BY <1>2 DEF journalVars
  <2>2. JournalShaped'
    BY <2>1 DEF JournalShaped, JournalTyped, Numbered, AllWritten, WritersKnow, Pruning, At
  <2>3. JournalWhole'
    BY <2>1 DEF JournalWhole, AllRising, TailsWhole, Covered, BesideCovered, Owed, Pruning, At
  <2> QED BY <2>2, <2>3
<1> QED BY <1>1, <1>2

\* The last lines are in the journal, or in the hands of a prune that is about to write
\* them back.
LEMMA WholeIsKept == JournalShaped /\ JournalWhole => LinesKept
<1> SUFFICES ASSUME JournalShaped, JournalWhole, ~spoiled,
                    NEW line \in Range(appended) \ (Range(files[events]) \cup exposed),
                    ~(Len(appended) - line >= Kept)
             PROVE  \E t \in Writers : At(t, {"fill"}) /\ line \in Range(task[t].data)
  BY DEF LinesKept
<1>1. appended \in Seq(Nat) /\ Numbered /\ Kept \in Nat
  BY JournalAssumption DEF JournalShaped, JournalTyped
<1>2. DOMAIN appended = 1..Len(appended) /\ Len(appended) \in Nat BY <1>1, LenProperties
<1>3. line \in 1..Len(appended) BY <1>1, <1>2 DEF Numbered, Range
<1>4. line \in Owed BY <1>1, <1>2, <1>3 DEF Owed
<1>5. TailsWhole /\ Covered(events) BY DEF JournalWhole
<1>6. PICK t \in Writers : At(t, {"fill"}) BY <1>4, <1>5 DEF Covered
<1>7. Pruning(t) BY <1>6 DEF Pruning, At
<1> QED BY <1>4, <1>5, <1>6, <1>7 DEF TailsWhole

THEOREM LinesStay == JournalSpec => []LinesKept
<1>1. JournalInit => JournalShaped /\ JournalWhole BY InitSound
<1>2. JournalShaped /\ JournalWhole /\ [JournalNext]_journalVars => (JournalShaped /\ JournalWhole)'
  BY NextSound
<1>3. JournalShaped /\ JournalWhole => LinesKept BY WholeIsKept
<1> QED BY <1>1, <1>2, <1>3, PTL DEF JournalSpec
=============================================================================
