---------------------------- MODULE DurabilityProofs ----------------------------
(***************************************************************************)
(* What holds of the database files and the spool for any number of        *)
(* events, revisions, faults and files.                                    *)
(***************************************************************************)
EXTENDS Durability, TLAPS

FileNames == {"db", "backup", "staging", "rollback"}

Databases ==
  [is : {"database"}, rev : Nat, events : SUBSET Records, active : BOOLEAN,
   schema : {"legacy", "older", "current"}, synced : BOOLEAN]

\* Synchronized databases: what a power failure leaves as it is.
Whole == {file \in Databases : file.synced}

Steps ==
  {"down", "up", "stuck", "initialize", "migrate", "configure", "stage", "copy",
   "unstage", "sync", "publish", "checkpoint", "replace", "install", "undo",
   "load", "revert", "forget"}

Purposes == {"none", "open", "serve", "restore", "recover"}

\* Only the staged file is ever a database that no fsync has written.
Directory(ns) ==
  /\ ns \in [FileNames -> Databases \cup {Absent, Partial, Corrupt}]
  /\ ns.db \in Whole \cup {Absent, Partial, Corrupt}
  /\ ns.rollback \in Whole \cup {Absent, Partial, Corrupt}
  /\ ns.backup \in Whole \cup {Absent}

TypesOK ==
  /\ Directory(names) /\ Directory(durable)
  /\ wal \in Whole \cup {Absent}
  /\ engine \in [at : Steps, for : Purposes, next : Nat]
  /\ live \in Whole \cup {Absent}
  /\ issued \in SUBSET Whole

-----------------------------------------------------------------------------
(* The directory: what it holds of the content in force *)

\* The content in force is in the log, in the main file or set aside.
Safe(ns) ==
  \/ wal = live
  \/ wal = Absent /\ ns.db = live
  \/ ns.rollback = live

\* With nothing set aside, an opened database is the one in force and a missing
\* or unfinished one means that nothing has ever been committed.
Honest(ns) ==
  /\ live # Absent => Safe(ns)
  /\ live = Absent /\ ns.rollback = Absent => ns.db \notin Whole
  /\ ns.rollback = Absent /\ ns.db \in {Absent, Partial} => wal = Absent /\ issued = {}
  /\ issued = {} => ns.db # Corrupt /\ ns.rollback # Corrupt

-----------------------------------------------------------------------------
(* The steps of the engine *)

Staging == {"stage", "copy", "unstage", "sync", "publish"}

InService ==
  \/ engine.at \in {"up", "configure", "migrate", "checkpoint"}
  \/ engine.at \in Staging /\ engine.for # "recover"

PurposeFits ==
  /\ engine.at = "up" => engine.for = "none"
  /\ engine.at \in Staging => engine.for # "none"
  /\ engine.at = "publish" => engine.for \in {"open", "serve"}
  /\ engine.at = "checkpoint" => engine.for = "restore"
  /\ engine.at \in {"replace", "install", "load"} => Restoring
  /\ engine.at \in {"initialize", "migrate", "configure"} => engine.for = "open"

ServesLive == InService => live # Absent /\ Current = live

StepsFit ==
  /\ engine.at = "initialize" => names.rollback = Absent /\ names.db = Partial
  /\ engine.at \in Staging \cup {"replace"} /\ engine.for = "recover" =>
       live = Absent /\ wal = Absent /\ names.db = Corrupt
  /\ engine.at = "replace" /\ engine.for = "restore" =>
       live # Absent /\ wal = Absent /\ names.db = live
  /\ engine.at \in {"install", "undo", "load", "revert"} =>
       /\ names.rollback = durable.rollback
       /\ names.rollback = IF live = Absent THEN Corrupt ELSE live
  /\ engine.at \in {"install", "undo", "load", "forget"} => wal = Absent
  /\ engine.at = "forget" =>
       live # Absent /\ names.db = live /\ durable.db = live

StageFits ==
  /\ engine.at \in {"stage", "copy"} /\ Restoring => names.backup \in Whole
  /\ engine.at = "sync" => names.staging \in Databases
  /\ engine.at \in {"publish", "checkpoint", "replace", "install"} =>
       names.staging \in Whole
  /\ engine.at = "load" => names.db \in Whole

-----------------------------------------------------------------------------
(* Revisions *)

Latest(file) == file \in issued /\ \A c \in issued : c.rev <= file.rev

RevisionsGrow ==
  /\ RevisionsNotReused
  /\ issued # {} => \E file \in issued : Latest(file)
  /\ live # Absent => Latest(live)
  /\ Restoring /\ engine.at # "forget" => \A c \in issued : c.rev < engine.next

BackupInv ==
  /\ TypesOK /\ Honest(names) /\ Honest(durable)
  /\ PurposeFits /\ ServesLive /\ StepsFit /\ StageFits
  /\ RevisionsGrow

-----------------------------------------------------------------------------
(* Contents and files *)

LEMMA Kinds ==
  /\ Absent \notin Databases /\ Partial \notin Databases /\ Corrupt \notin Databases
  /\ Absent # Partial /\ Absent # Corrupt /\ Partial # Corrupt
  /\ \A file \in Databases : IsDatabase(file)
  /\ ~IsDatabase(Absent) /\ ~IsDatabase(Partial) /\ ~IsDatabase(Corrupt)
BY DEF Databases, Absent, Partial, Corrupt, IsDatabase

LEMMA Successors ==
  ASSUME NEW file \in Whole
  PROVE  /\ file \in Databases /\ file.rev \in Nat
         /\ Migrated(file) \in Whole /\ Migrated(file).rev = file.rev + 1
         /\ Invalidated(file) \in Whole
         /\ Invalidated(file) = file \/ Invalidated(file).rev = file.rev + 1
         /\ [file EXCEPT !.rev = @ + 1, !.active = TRUE] \in Whole
         /\ [file EXCEPT !.rev = @ + 1, !.active = TRUE].rev = file.rev + 1
<1> USE DEF Whole, Databases
<1>1. file \in Databases /\ file.rev \in Nat /\ file.rev + 1 \in Nat
  OBVIOUS
<1>2. Migrated(file) \in Whole /\ Migrated(file).rev = file.rev + 1
  <2>1. PICK active \in BOOLEAN : active = (file.active /\ file.schema # "legacy")
    OBVIOUS
  <2>2. Migrated(file) =
          [file EXCEPT !.rev = @ + 1, !.active = active, !.schema = "current"]
    BY <2>1, Zenon DEF Migrated
  <2> QED BY <1>1, <2>2
<1>3. /\ Invalidated(file) \in Whole
      /\ Invalidated(file) = file \/ Invalidated(file).rev = file.rev + 1
  BY <1>1 DEF Invalidated
<1>4. /\ [file EXCEPT !.rev = @ + 1, !.active = TRUE] \in Whole
      /\ [file EXCEPT !.rev = @ + 1, !.active = TRUE].rev = file.rev + 1
  BY <1>1
<1> QED BY <1>1, <1>2, <1>3, <1>4

LEMMA Committed ==
  ASSUME NEW file \in Whole, NEW r \in Records
  PROVE  /\ [file EXCEPT !.rev = @ + 1, !.events = @ \cup {r}] \in Whole
         /\ [file EXCEPT !.rev = @ + 1, !.events = @ \cup {r}].rev = file.rev + 1
<1> USE DEF Whole, Databases
<1>1. file.rev + 1 \in Nat /\ file.events \cup {r} \in SUBSET Records
  OBVIOUS
<1> QED BY <1>1

LEMMA NewDatabase ==
  /\ Database(0, {}, FALSE, "current") \in Whole
  /\ \A schema \in {"legacy", "older"} : Database(0, {}, TRUE, schema) \in Whole
BY DEF Whole, Databases, Database

LEMMA RestoredWhole ==
  ASSUME NEW file \in Whole, engine.next \in Nat
  PROVE  Restored(file) \in Whole /\ Restored(file).rev = engine.next
BY DEF Whole, Databases, Restored

LEMMA StagedForms ==
  /\ \A file \in Whole : [file EXCEPT !.synced = FALSE] \in Databases
  /\ \A file \in Databases : Synced(file) \in Whole
BY DEF Whole, Databases, Synced

\* A power failure tears at most the staged file, and leaves no name unused.
LEMMA PowerLossKeeps ==
  ASSUME NEW ns, Directory(ns)
  PROVE  /\ Directory(PowerLoss(ns))
         /\ PowerLoss(ns).db = ns.db
         /\ PowerLoss(ns).rollback = ns.rollback
         /\ PowerLoss(ns).backup = ns.backup
         /\ PowerLoss(ns).staging = Absent <=> ns.staging = Absent
<1>1. DOMAIN ns = FileNames
  BY DEF Directory
<1>2. ASSUME NEW name \in FileNames, ns[name] \in Whole \cup {Absent, Partial, Corrupt}
      PROVE  PowerLoss(ns)[name] = ns[name]
  BY <1>1, <1>2, Kinds DEF PowerLoss, Whole
<1>3. ASSUME NEW name \in FileNames
      PROVE  /\ PowerLoss(ns)[name] \in {ns[name], Partial}
             /\ ns[name] = Absent => PowerLoss(ns)[name] = Absent
  BY <1>1, <1>3, Kinds DEF PowerLoss
<1>4. PowerLoss(ns) \in [FileNames -> Databases \cup {Absent, Partial, Corrupt}]
  <2>1. PowerLoss(ns) = [name \in FileNames |-> PowerLoss(ns)[name]]
    BY <1>1 DEF PowerLoss
  <2> QED BY <1>3, <2>1 DEF Directory
<1>5. /\ PowerLoss(ns).db = ns.db
      /\ PowerLoss(ns).rollback = ns.rollback
      /\ PowerLoss(ns).backup = ns.backup
  BY <1>2 DEF Directory, FileNames
<1>6. PowerLoss(ns).staging = Absent <=> ns.staging = Absent
  BY <1>3, Kinds DEF FileNames
<1> QED BY <1>4, <1>5, <1>6 DEF Directory

-----------------------------------------------------------------------------
(* What a step has to show *)

\* Files other than the main one and the one set aside may change freely.
LEMMA HonestKept ==
  ASSUME BackupInv, UNCHANGED <<wal, live, issued>>,
         names'.db = names.db /\ names'.rollback = names.rollback,
         durable' \in {durable, names'}
  PROVE  Honest(names)' /\ Honest(durable)'
BY DEF BackupInv, Honest, Safe

\* No content is put in force, and a restore keeps the revision it has drawn.
LEMMA RevisionsKept ==
  ASSUME BackupInv, UNCHANGED <<live, issued>>,
         \/ engine'.for \notin {"restore", "recover"} \/ engine'.at = "forget"
         \/ /\ engine'.for = engine.for /\ engine'.next = engine.next
            /\ engine.at # "forget"
  PROVE  RevisionsGrow'
BY DEF BackupInv, RevisionsGrow, RevisionsNotReused, Latest, Restoring

\* The content put in force is the current one again or has a revision above all.
LEMMA RevisionsExtended ==
  ASSUME BackupInv, NEW file \in Whole, InForce(file),
         (live # Absent /\ file = live) \/ (\A c \in issued : c.rev < file.rev),
         engine'.for \notin {"restore", "recover"} \/ engine'.at = "forget"
  PROVE  RevisionsGrow'
<1>1. issued \in SUBSET Whole /\ file.rev \in Nat /\ \A c \in issued : c.rev \in Nat
  BY Successors DEF BackupInv, TypesOK
<1>2. Latest(file)'
  BY <1>1 DEF BackupInv, RevisionsGrow, Latest, InForce
<1>3. RevisionsNotReused'
  <2>1. CASE live # Absent /\ file = live
    BY <2>1 DEF BackupInv, RevisionsGrow, Latest, InForce, RevisionsNotReused
  <2>2. CASE \A c \in issued : c.rev < file.rev
    BY <1>1, <2>2 DEF BackupInv, RevisionsGrow, InForce, RevisionsNotReused
  <2> QED BY <2>1, <2>2
<1> QED BY <1>2, <1>3 DEF RevisionsGrow, Restoring, Latest, InForce

\* Where a step leads.
LEMMA EngineMoves ==
  ASSUME BackupInv
  PROVE  /\ \A step \in Steps :
              Goto(step) => /\ engine' \in [at : Steps, for : Purposes, next : Nat]
                            /\ engine'.at = step
                            /\ engine'.for = engine.for /\ engine'.next = engine.next
         /\ GiveUp => \/ engine' = Down
                      \/ engine' = Serving /\ engine.for \notin {"open", "recover"}
         /\ Lose => engine' \in {Down, Stuck}
BY DEF BackupInv, TypesOK, Goto, GiveUp, Lose

LEMMA Resting ==
  /\ Down \in [at : Steps, for : Purposes, next : Nat] /\ Down.at = "down"
  /\ Stuck \in [at : Steps, for : Purposes, next : Nat] /\ Stuck.at = "stuck"
  /\ Serving \in [at : Steps, for : Purposes, next : Nat] /\ Serving.at = "up"
  /\ Down.for = "none" /\ Stuck.for = "none" /\ Serving.for = "none"
BY DEF Down, Stuck, Serving, Steps, Purposes

LEMMA CurrentIsLive ==
  ASSUME BackupInv, InService
  PROVE  Current = live /\ live \in Whole /\ live # Absent
BY DEF BackupInv, TypesOK, ServesLive

\* Nothing more is asked of an engine at rest, or in service with the content in force.
LEMMA AtRest ==
  ASSUME BackupInv, TypesOK', engine' \in {Down, Stuck}
  PROVE  PurposeFits' /\ ServesLive' /\ StepsFit' /\ StageFits'
BY Resting DEF PurposeFits, ServesLive, InService, StepsFit, StageFits, Staging, Restoring

LEMMA InUse ==
  ASSUME BackupInv, engine' = Serving, Current' = live', live' # Absent
  PROVE  PurposeFits' /\ ServesLive' /\ StepsFit' /\ StageFits'
BY Resting DEF PurposeFits, ServesLive, StepsFit, StageFits, Staging, Restoring

-----------------------------------------------------------------------------
(* Staging a copy *)

\* Directories the steps of a staging leave.
LEMMA StagedDirectory ==
  ASSUME BackupInv, NEW file \in Databases \cup {Absent, Partial}
  PROVE  LET ns == [names EXCEPT !.staging = file] IN
         /\ Directory(ns) /\ ns.staging = file
         /\ ns.db = names.db /\ ns.rollback = names.rollback /\ ns.backup = names.backup
BY DEF BackupInv, TypesOK, Directory, FileNames

LEMMA PublishedDirectory ==
  ASSUME BackupInv, names.staging \in Whole
  PROVE  LET ns == [names EXCEPT !.backup = names.staging, !.staging = Absent] IN
         /\ Directory(ns) /\ ns.db = names.db /\ ns.rollback = names.rollback
BY DEF BackupInv, TypesOK, Directory, FileNames, Whole

\* The database is left alone.
MainKept ==
  /\ Directory(names)'
  /\ names'.db = names.db /\ names'.rollback = names.rollback
  /\ durable' \in {durable, names'}
  /\ UNCHANGED <<wal, live, issued>>

LEMMA MainKeptTypes ==
  ASSUME BackupInv, MainKept, engine' \in [at : Steps, for : Purposes, next : Nat]
  PROVE  TypesOK' /\ Current' = Current
BY DEF BackupInv, TypesOK, MainKept, Current, Effective

LEMMA StagingGivenUp ==
  ASSUME BackupInv, MainKept, engine.at \in Staging \cup {"checkpoint"}, GiveUp
  PROVE  BackupInv'
<1>1. /\ engine' \in {Down, Serving}
      /\ engine' = Serving => InService
  BY EngineMoves, Resting DEF InService, Staging
<1>2. TypesOK' /\ Current' = Current
  BY <1>1, Resting, MainKeptTypes
<1>3. PurposeFits' /\ ServesLive' /\ StepsFit' /\ StageFits'
  BY <1>1, <1>2, CurrentIsLive, AtRest, InUse DEF MainKept
<1>4. RevisionsGrow'
  BY <1>1, RevisionsKept, Resting DEF MainKept
<1> QED BY <1>2, <1>3, <1>4, HonestKept DEF BackupInv, MainKept

LEMMA StagingGoesOn ==
  ASSUME BackupInv, MainKept, engine.at \in Staging,
         NEW step \in Staging \cup {"checkpoint", "replace", "migrate"}, Goto(step),
         step = "replace" => engine.for = "recover", PurposeFits', StageFits'
  PROVE  BackupInv'
<1>1. /\ engine' \in [at : Steps, for : Purposes, next : Nat] /\ engine'.at = step
      /\ engine'.for = engine.for /\ engine'.next = engine.next
  BY EngineMoves DEF Steps, Staging
<1>2. TypesOK' /\ Current' = Current
  BY <1>1, MainKeptTypes
<1>3. ServesLive'
  BY <1>1, <1>2 DEF BackupInv, PurposeFits, ServesLive, InService, Staging, Restoring, MainKept
<1>4. StepsFit'
  BY <1>1, <1>2
  DEF BackupInv, TypesOK, PurposeFits, StepsFit, ServesLive, InService, Staging, Restoring,
      Current, Effective, MainKept
<1>5. RevisionsGrow'
  BY <1>1, RevisionsKept DEF MainKept, Staging
<1> QED BY <1>2, <1>3, <1>4, <1>5, HonestKept DEF BackupInv, MainKept

LEMMA CreateStagingStep == BackupInv /\ CreateStaging => BackupInv'
<1> SUFFICES ASSUME BackupInv, CreateStaging PROVE BackupInv'
  OBVIOUS
<1>1. /\ names' \in {names, [names EXCEPT !.staging = Partial]}
      /\ durable' \in {durable, names'}
      /\ UNCHANGED <<wal, live, issued>>
      /\ engine.at = "stage" /\ (Goto("copy") \/ GiveUp)
  BY DEF CreateStaging, Namespace, history
<1>2. MainKept /\ names'.backup = names.backup
  <2>1. CASE names' = names
    BY <1>1, <2>1 DEF MainKept, BackupInv, TypesOK
  <2>2. CASE names' = [names EXCEPT !.staging = Partial]
    BY <1>1, <2>2, StagedDirectory DEF MainKept
  <2> QED BY <1>1, <2>1, <2>2
<1>3. CASE Goto("copy")
  <2>1. engine'.at = "copy" /\ engine'.for = engine.for
    BY <1>3, EngineMoves DEF Steps
  <2>2. PurposeFits' /\ StageFits'
    BY <1>1, <1>2, <2>1 DEF BackupInv, PurposeFits, StageFits, Staging, Restoring
  <2> QED BY <1>1, <1>2, <1>3, <2>2, StagingGoesOn DEF Staging
<1> QED BY <1>1, <1>2, <1>3, StagingGivenUp DEF Staging

LEMMA CopyToStageStep == BackupInv /\ CopyToStage => BackupInv'
<1> SUFFICES ASSUME BackupInv, CopyToStage PROVE BackupInv'
  OBVIOUS
<1>1. engine.at = "copy" /\ UNCHANGED <<durable, wal, live, issued>>
  BY DEF CopyToStage, history
<1>2. CASE names' = [names EXCEPT !.staging = [Copied EXCEPT !.synced = FALSE]] /\ Goto("sync")
  <2>1. Copied \in Whole
    <3>1. CASE Restoring
      BY <1>1, <3>1, Successors DEF BackupInv, StageFits, Copied
    <3>2. CASE ~Restoring
      BY <1>1, <3>2, CurrentIsLive DEF Copied, InService, Staging, Restoring
    <3> QED BY <3>1, <3>2
  <2>2. [Copied EXCEPT !.synced = FALSE] \in Databases
    BY <2>1, StagedForms
  <2>3. MainKept /\ names'.staging \in Databases
    BY <1>1, <1>2, <2>2, StagedDirectory DEF MainKept
  <2>4. engine'.at = "sync" /\ engine'.for = engine.for
    BY <1>2, EngineMoves DEF Steps
  <2>5. PurposeFits' /\ StageFits'
    BY <1>1, <2>3, <2>4 DEF BackupInv, PurposeFits, StageFits, Staging, Restoring
  <2> QED BY <1>1, <1>2, <2>3, <2>5, StagingGoesOn DEF Staging
<1>3. CASE Goto("unstage") /\ UNCHANGED names
  <2>1. MainKept
    BY <1>1, <1>3 DEF MainKept, BackupInv, TypesOK
  <2>2. engine'.at = "unstage" /\ engine'.for = engine.for
    BY <1>3, EngineMoves DEF Steps
  <2>3. PurposeFits' /\ StageFits'
    BY <1>1, <2>1, <2>2 DEF BackupInv, PurposeFits, StageFits, Staging, Restoring
  <2> QED BY <1>1, <1>3, <2>1, <2>3, StagingGoesOn DEF Staging
<1> QED BY <1>2, <1>3 DEF CopyToStage

LEMMA UnstageStep == BackupInv /\ Unstage => BackupInv'
<1> SUFFICES ASSUME BackupInv, Unstage PROVE BackupInv'
  OBVIOUS
<1>1. /\ names' \in {names, [names EXCEPT !.staging = Absent]}
      /\ durable' \in {durable, names'}
      /\ UNCHANGED <<wal, live, issued>>
      /\ engine.at = "unstage" /\ GiveUp
  BY DEF Unstage, Namespace, history
<1>2. CASE names' = names
  <2>1. MainKept
    BY <1>1, <1>2 DEF MainKept, BackupInv, TypesOK
  <2> QED BY <1>1, <2>1, StagingGivenUp DEF Staging
<1>3. CASE names' = [names EXCEPT !.staging = Absent]
  <2>1. MainKept
    BY <1>1, <1>3, StagedDirectory DEF MainKept
  <2> QED BY <1>1, <2>1, StagingGivenUp DEF Staging
<1> QED BY <1>1, <1>2, <1>3

LEMMA SyncStagingStep == BackupInv /\ SyncStaging => BackupInv'
<1> SUFFICES ASSUME BackupInv, SyncStaging PROVE BackupInv'
  OBVIOUS
<1>1. engine.at = "sync" /\ UNCHANGED <<wal, live, issued>>
  BY DEF SyncStaging, history
<1>2. CASE GiveUp /\ UNCHANGED <<names, durable>>
  <2>1. MainKept
    BY <1>1, <1>2 DEF MainKept, BackupInv, TypesOK
  <2> QED BY <1>1, <1>2, <2>1, StagingGivenUp DEF Staging
<1>3. CASE ~(GiveUp /\ UNCHANGED <<names, durable>>)
  <2> DEFINE step == CASE engine.for \in {"open", "serve"} -> "publish"
                       [] engine.for = "restore" -> "checkpoint"
                       [] engine.for = "recover" -> "replace"
  <2>1. /\ names' = [names EXCEPT !.staging = Synced(@)] /\ durable' = names'
        /\ Goto(step)
    BY <1>3 DEF SyncStaging
  <2>2. engine.for \in {"open", "serve", "restore", "recover"}
    BY <1>1 DEF BackupInv, PurposeFits, TypesOK, Staging, Purposes
  <2>3. Synced(names.staging) \in Whole /\ Synced(names.staging) \in Databases
    BY <1>1, StagedForms DEF BackupInv, StageFits, Whole
  <2>4. MainKept /\ names'.staging \in Whole
    BY <1>1, <2>1, <2>3, StagedDirectory DEF MainKept
  <2>5. /\ step \in {"publish", "checkpoint", "replace"}
        /\ step = "replace" => engine.for = "recover"
    BY <2>2
  <2>6. engine'.at = step /\ engine'.for = engine.for
    BY <2>1, <2>5, EngineMoves DEF Steps
  <2>7. PurposeFits' /\ StageFits'
    BY <1>1, <2>2, <2>4, <2>6 DEF PurposeFits, StageFits, Staging, Restoring
  <2> HIDE DEF step
  <2> QED BY <1>1, <2>1, <2>4, <2>5, <2>7, StagingGoesOn DEF Staging
<1> QED BY <1>2, <1>3

LEMMA PublishBackupStep == BackupInv /\ PublishBackup => BackupInv'
<1> SUFFICES ASSUME BackupInv, PublishBackup PROVE BackupInv'
  OBVIOUS
<1>1. /\ names' \in {names, [names EXCEPT !.backup = names.staging, !.staging = Absent]}
      /\ durable' \in {durable, names'}
      /\ UNCHANGED <<wal, live, issued>>
      /\ engine.at = "publish"
      /\ IF engine.for = "open" THEN Goto("migrate") \/ GiveUp
                                ELSE engine' = Serving \/ GiveUp
  BY DEF PublishBackup, Namespace, history
<1>2. MainKept
  <2>1. CASE names' = names
    BY <1>1, <2>1 DEF MainKept, BackupInv, TypesOK
  <2>2. CASE names' = [names EXCEPT !.backup = names.staging, !.staging = Absent]
    <3>1. names.staging \in Whole
      BY <1>1 DEF BackupInv, StageFits
    <3> QED BY <1>1, <2>2, <3>1, PublishedDirectory DEF MainKept
  <2> QED BY <1>1, <2>1, <2>2
<1>3. CASE Goto("migrate") /\ engine.for = "open"
  <2>1. engine'.at = "migrate" /\ engine'.for = engine.for
    BY <1>3, EngineMoves DEF Steps
  <2>2. PurposeFits' /\ StageFits'
    BY <1>1, <1>3, <2>1 DEF PurposeFits, StageFits, Staging, Restoring
  <2> QED BY <1>1, <1>2, <1>3, <2>2, StagingGoesOn DEF Staging
<1>4. CASE engine' = Serving /\ engine.for # "open"
  <2>1. InService
    BY <1>1 DEF BackupInv, PurposeFits, InService, Staging
  <2>2. TypesOK' /\ Current' = Current
    BY <1>2, <1>4, MainKeptTypes, Resting
  <2>3. PurposeFits' /\ ServesLive' /\ StepsFit' /\ StageFits'
    BY <1>2, <1>4, <2>1, <2>2, CurrentIsLive, InUse DEF MainKept
  <2>4. RevisionsGrow'
    BY <1>2, <1>4, RevisionsKept, Resting DEF MainKept
  <2> QED BY <1>2, <2>2, <2>3, <2>4, HonestKept DEF BackupInv, MainKept
<1> QED BY <1>1, <1>2, <1>3, <1>4, StagingGivenUp DEF Staging

-----------------------------------------------------------------------------
(* Beginning an operation *)

\* Without leftovers an opened database holds the content in force.
LEMMA OpenedIsLive ==
  ASSUME BackupInv, IsDatabase(names.db), ~Leftovers
  PROVE  Current = live /\ live # Absent
<1>1. names.db \in Whole /\ names.rollback = Absent
  BY Kinds DEF BackupInv, TypesOK, Directory, Leftovers
<1>2. live # Absent /\ Safe(names)
  BY <1>1 DEF BackupInv, Honest
<1> QED BY <1>1, <1>2 DEF Safe, Current, Effective

LEMMA StartStep == BackupInv /\ Start => BackupInv'
<1> SUFFICES ASSUME BackupInv, Start PROVE BackupInv'
  OBVIOUS
<1>1. /\ Current = live /\ live # Absent
      /\ UNCHANGED <<names, durable, wal, live, issued>>
      /\ engine' \in [at : Steps, for : Purposes, next : Nat]
      /\ engine'.at \in {"stage", "configure"} /\ engine'.for = "open"
  BY OpenedIsLive DEF Start, history, Steps, Purposes
<1>2. MainKept
  BY <1>1 DEF MainKept, BackupInv, TypesOK
<1>3. TypesOK' /\ Current' = Current
  BY <1>1, <1>2, MainKeptTypes
<1>4. PurposeFits' /\ ServesLive' /\ StepsFit' /\ StageFits'
  BY <1>1, <1>3 DEF PurposeFits, ServesLive, StepsFit, StageFits, Staging, Restoring
<1>5. RevisionsGrow'
  BY <1>1, RevisionsKept
<1> QED BY <1>1, <1>3, <1>4, <1>5, HonestKept DEF BackupInv

LEMMA BackupStep == BackupInv /\ Backup => BackupInv'
<1> SUFFICES ASSUME BackupInv, Backup PROVE BackupInv'
  OBVIOUS
<1>1. /\ engine.at = "up" /\ UNCHANGED <<names, durable, wal, live, issued>>
      /\ engine' \in [at : Steps, for : Purposes, next : Nat]
      /\ engine'.at = "stage" /\ engine'.for = "serve"
  BY DEF Backup, history, Steps, Purposes
<1>2. Current = live /\ live # Absent
  BY <1>1, CurrentIsLive DEF InService
<1>3. MainKept
  BY <1>1 DEF MainKept, BackupInv, TypesOK
<1>4. TypesOK' /\ Current' = Current
  BY <1>1, <1>3, MainKeptTypes
<1>5. PurposeFits' /\ ServesLive' /\ StepsFit' /\ StageFits'
  BY <1>1, <1>2, <1>4 DEF PurposeFits, ServesLive, StepsFit, StageFits, Staging, Restoring
<1>6. RevisionsGrow'
  BY <1>1, RevisionsKept
<1> QED BY <1>1, <1>4, <1>5, <1>6, HonestKept DEF BackupInv

\* The revision drawn for a restored copy is above the floor and the copy's own.
LEMMA NextIsAbove ==
  ASSUME BackupInv, Restorable, NEW floor \in Nat
  PROVE  /\ names.backup \in Whole
         /\ NextRevision(floor) \in Nat /\ NextRevision(floor) > floor
<1>1. names.backup \in Whole /\ names.backup.rev \in Nat
  BY Kinds, Successors DEF BackupInv, TypesOK, Directory, Restorable
<1> QED BY <1>1 DEF NextRevision, Later

LEMMA RestoreStep == BackupInv /\ Restore => BackupInv'
<1> SUFFICES ASSUME BackupInv, Restore PROVE BackupInv'
  OBVIOUS
<1>1. /\ engine.at = "up" /\ UNCHANGED <<names, durable, wal, live, issued>>
      /\ engine' = [at |-> "stage", for |-> "restore", next |-> NextRevision(Current.rev)]
  BY DEF Restore, history
<1>2. Current = live /\ live # Absent /\ live \in Whole /\ live.rev \in Nat
  BY <1>1, CurrentIsLive, Successors DEF InService
<1>3. /\ names.backup \in Whole
      /\ engine'.next \in Nat /\ engine'.next > live.rev
  BY <1>1, <1>2, NextIsAbove DEF Restore
<1>4. engine' \in [at : Steps, for : Purposes, next : Nat]
  BY <1>1, <1>3 DEF Steps, Purposes
<1>5. MainKept
  BY <1>1 DEF MainKept, BackupInv, TypesOK
<1>6. TypesOK' /\ Current' = Current
  BY <1>4, <1>5, MainKeptTypes
<1>7. PurposeFits' /\ ServesLive' /\ StepsFit' /\ StageFits'
  BY <1>1, <1>2, <1>3, <1>6
  DEF PurposeFits, ServesLive, StepsFit, StageFits, Staging, Restoring
<1>8. \A c \in issued : c.rev < engine'.next
  <2> SUFFICES ASSUME NEW c \in issued PROVE c.rev < engine'.next
    OBVIOUS
  <2>1. c.rev <= live.rev /\ c.rev \in Nat
    BY <1>2, Successors DEF BackupInv, TypesOK, RevisionsGrow, Latest
  <2> QED BY <1>2, <1>3, <2>1
<1>9. RevisionsGrow'
  BY <1>1, <1>8 DEF BackupInv, RevisionsGrow, RevisionsNotReused, Latest
<1> QED BY <1>1, <1>6, <1>7, <1>9, HonestKept DEF BackupInv

\* The caller's floor bounds every revision ever committed.
LEMMA FloorBounds ==
  ASSUME BackupInv, issued # {}
  PROVE  Floor \in Nat /\ \A c \in issued : c.rev <= Floor
<1>1. \E n \in {c.rev : c \in issued} : \A c \in issued : c.rev <= n
  BY DEF BackupInv, RevisionsGrow, Latest
<1>2. \A c \in issued : c.rev \in Nat
  BY Successors DEF BackupInv, TypesOK
<1> QED BY <1>1, <1>2 DEF Floor

LEMMA RecoverStep == BackupInv /\ Recover => BackupInv'
<1> SUFFICES ASSUME BackupInv, Recover PROVE BackupInv'
  OBVIOUS
<1>1. /\ names.db = Corrupt /\ names.rollback = Absent /\ wal = Absent
      /\ UNCHANGED <<names, durable, wal, live, issued>>
      /\ engine' = [at |-> "stage", for |-> "recover", next |-> NextRevision(Floor)]
  BY DEF Recover, Restorable, Leftovers, history
<1>2. live = Absent
  BY <1>1, Kinds DEF BackupInv, TypesOK, Honest, Safe, Whole
<1>3. issued # {}
  BY <1>1 DEF BackupInv, Honest
<1>4. /\ names.backup \in Whole
      /\ engine'.next \in Nat /\ engine'.next > Floor /\ Floor \in Nat
  BY <1>1, <1>3, FloorBounds, NextIsAbove DEF Recover
<1>5. engine' \in [at : Steps, for : Purposes, next : Nat]
  BY <1>1, <1>4 DEF Steps, Purposes
<1>6. MainKept
  BY <1>1 DEF MainKept, BackupInv, TypesOK
<1>7. TypesOK'
  BY <1>5, <1>6, MainKeptTypes
<1>8. PurposeFits' /\ ServesLive' /\ StepsFit' /\ StageFits'
  BY <1>1, <1>2, <1>4
  DEF PurposeFits, ServesLive, InService, StepsFit, StageFits, Staging, Restoring
<1>9. \A c \in issued : c.rev < engine'.next
  <2> SUFFICES ASSUME NEW c \in issued PROVE c.rev < engine'.next
    OBVIOUS
  <2>1. c.rev <= Floor /\ c.rev \in Nat
    BY <1>3, FloorBounds, Successors DEF BackupInv, TypesOK
  <2> QED BY <1>4, <2>1
<1>10. RevisionsGrow'
  BY <1>1, <1>9 DEF BackupInv, RevisionsGrow, RevisionsNotReused, Latest
<1> QED BY <1>1, <1>7, <1>8, <1>10, HonestKept DEF BackupInv

-----------------------------------------------------------------------------
(* Writing the main file *)

LEMMA MainWritten ==
  ASSUME BackupInv, NEW file \in Whole \cup {Corrupt}, WriteMain(file)
  PROVE  /\ Directory(names)' /\ Directory(durable)'
         /\ names'.db = file /\ durable'.db = file
         /\ names'.rollback = names.rollback /\ durable'.rollback = durable.rollback
         /\ names'.staging = names.staging /\ names'.backup = names.backup
BY DEF BackupInv, TypesOK, WriteMain, Directory, FileNames, Whole

\* A content put in force is in the main file, or in the log of a database
\* that has been in force before.
LEMMA HonestInForce ==
  ASSUME BackupInv, NEW file \in Whole, InForce(file),
         \/ WriteMain(file) /\ wal' = Absent
         \/ wal' = file /\ UNCHANGED <<names, durable>> /\ issued # {}
  PROVE  Honest(names)' /\ Honest(durable)' /\ Current' = live' /\ live' # Absent
<1>1. file # Absent /\ file # Partial /\ file # Corrupt
  BY Kinds DEF Whole
<1>2. live' = file /\ issued' # {}
  BY DEF InForce
<1>3. CASE WriteMain(file) /\ wal' = Absent
  BY <1>1, <1>2, <1>3, MainWritten DEF Honest, Safe, Current, Effective
<1>4. CASE wal' = file /\ UNCHANGED <<names, durable>> /\ issued # {}
  BY <1>1, <1>2, <1>4 DEF BackupInv, Honest, Safe, Current, Effective
<1> QED BY <1>3, <1>4

LEMMA TypesInForce ==
  ASSUME BackupInv, NEW file \in Whole, InForce(file),
         \/ WriteMain(file) /\ wal' = Absent
         \/ wal' = file /\ UNCHANGED <<names, durable>>,
         engine' \in [at : Steps, for : Purposes, next : Nat]
  PROVE  TypesOK'
BY MainWritten DEF BackupInv, TypesOK, InForce

\* A database in service accepts the same content again or one with the next revision.
LEMMA ServiceGoesOn ==
  ASSUME BackupInv, InService, NEW file \in Whole, InForce(file),
         file = live \/ file.rev = live.rev + 1,
         \/ WriteMain(file) /\ wal' = Absent
         \/ wal' = file /\ UNCHANGED <<names, durable>>,
         \/ engine' \in {Down, Serving}
         \/ /\ engine' \in [at : Steps, for : Purposes, next : Nat]
            /\ engine'.at = "configure" /\ engine'.for = "open"
         \/ engine' = engine /\ engine.at = "up"
  PROVE  BackupInv'
<1>1. live \in Whole /\ live # Absent /\ live.rev \in Nat /\ Latest(live)
  BY CurrentIsLive, Successors DEF BackupInv, RevisionsGrow
<1>2. issued # {}
  BY <1>1 DEF Latest
<1>3. Honest(names)' /\ Honest(durable)' /\ Current' = live' /\ live' # Absent
  BY <1>2, HonestInForce
<1>4. TypesOK'
  BY TypesInForce, Resting DEF BackupInv, TypesOK
<1>5. file = live \/ \A c \in issued : c.rev < file.rev
  <2> SUFFICES ASSUME file # live, NEW c \in issued PROVE c.rev < file.rev
    OBVIOUS
  <2>1. c.rev <= live.rev /\ c.rev \in Nat
    BY <1>1, Successors DEF BackupInv, TypesOK, Latest
  <2> QED BY <1>1, <2>1
<1>6. CASE engine' = Down
  <2>1. PurposeFits' /\ ServesLive' /\ StepsFit' /\ StageFits'
    BY <1>4, <1>6, AtRest
  <2>2. RevisionsGrow'
    BY <1>1, <1>5, <1>6, RevisionsExtended, Resting
  <2> QED BY <1>3, <1>4, <2>1, <2>2 DEF BackupInv
<1>7. CASE engine' # Down
  <2>1. engine'.at \in {"up", "configure"} /\ (engine'.at = "up" \/ engine'.for = "open")
    BY <1>7, Resting
  <2>2. PurposeFits' /\ ServesLive' /\ StepsFit' /\ StageFits'
    BY <1>3, <2>1, Resting
    DEF BackupInv, PurposeFits, ServesLive, StepsFit, StageFits, Staging
  <2>3. engine'.for \notin {"restore", "recover"}
    BY <2>1, Resting DEF BackupInv, PurposeFits
  <2>4. RevisionsGrow'
    BY <1>1, <1>5, <2>3, RevisionsExtended
  <2> QED BY <1>3, <1>4, <2>2, <2>4 DEF BackupInv
<1> QED BY <1>6, <1>7
LEMMA ServiceStep ==
  ASSUME BackupInv, Migrate \/ Configure \/ Register \/ \E r \in Records : Commit(r)
  PROVE  BackupInv'
<1>1. /\ InService /\ live \in Whole /\ Current = live
      /\ Migrated(live) \in Whole /\ Migrated(live).rev = live.rev + 1
      /\ Invalidated(live) \in Whole
      /\ Invalidated(live) = live \/ Invalidated(live).rev = live.rev + 1
  <2>1. InService
    BY DEF Migrate, Configure, Register, Commit, InService
  <2> QED BY <2>1, CurrentIsLive, Successors
<1>2. ASSUME Fault, GiveUp, UNCHANGED <<names, durable, wal, live, issued>>,
             engine.at \in {"migrate", "configure"}
      PROVE  BackupInv'
  <2>1. MainKept
    BY <1>2 DEF MainKept, BackupInv, TypesOK
  <2>2. engine' \in {Down, Serving} /\ TypesOK' /\ Current' = Current
    BY <1>2, <2>1, EngineMoves, Resting, MainKeptTypes
  <2>3. PurposeFits' /\ ServesLive' /\ StepsFit' /\ StageFits'
    BY <1>1, <1>2, <2>2, AtRest, InUse, CurrentIsLive
  <2>4. RevisionsGrow'
    BY <1>2, <2>2, RevisionsKept, Resting
  <2> QED BY <1>2, <2>1, <2>2, <2>3, <2>4, HonestKept DEF BackupInv, MainKept
<1>3. CASE Migrate
  <2>1. CASE Fault /\ GiveUp /\ UNCHANGED <<wal, live, issued>>
    BY <1>2, <1>3, <2>1 DEF Migrate
  <2>2. CASE ~(Fault /\ GiveUp /\ UNCHANGED <<wal, live, issued>>)
    <3>1. /\ wal' = Migrated(live) /\ InForce(Migrated(live))
          /\ UNCHANGED <<names, durable>>
          /\ Goto("configure") /\ engine.at = "migrate"
      BY <1>1, <1>3, <2>2 DEF Migrate
    <3>2. /\ engine' \in [at : Steps, for : Purposes, next : Nat]
          /\ engine'.at = "configure" /\ engine'.for = "open"
      BY <3>1, EngineMoves DEF BackupInv, PurposeFits, Steps
    <3> QED BY <1>1, <3>1, <3>2, ServiceGoesOn
  <2> QED BY <2>1, <2>2
<1>4. CASE Configure
  <2>1. CASE WriteMain(Invalidated(Current)) /\ wal' = Absent
             /\ InForce(Invalidated(Current)) /\ engine' = Serving
    BY <1>1, <2>1, ServiceGoesOn
  <2>2. CASE wal' = Invalidated(Current) /\ InForce(Invalidated(Current))
             /\ GiveUp /\ UNCHANGED <<names, durable>>
    <3>1. engine' \in {Down, Serving}
      BY <2>2, EngineMoves
    <3> QED BY <1>1, <2>2, <3>1, ServiceGoesOn
  <2>3. CASE Fault /\ GiveUp /\ UNCHANGED <<names, durable, wal, live, issued>>
    BY <1>2, <1>4, <2>3 DEF Configure
  <2> QED BY <1>4, <2>1, <2>2, <2>3 DEF Configure
<1>5. ASSUME engine.at = "up", NEW file \in Whole, file.rev = live.rev + 1, Transaction(file)
      PROVE  BackupInv'
  BY <1>1, <1>5, ServiceGoesOn DEF Transaction
<1>6. CASE Register
  <2> DEFINE file == [live EXCEPT !.rev = @ + 1, !.active = TRUE]
  <2>1. file \in Whole /\ file.rev = live.rev + 1
    BY <1>1, Successors
  <2>2. engine.at = "up" /\ Transaction(file)
    BY <1>1, <1>6 DEF Register
  <2> HIDE DEF file
  <2> QED BY <1>5, <2>1, <2>2
<1>7. CASE \E r \in Records : Commit(r)
  <2> PICK r \in Records : Commit(r)
    BY <1>7
  <2> DEFINE file == [live EXCEPT !.rev = @ + 1, !.events = @ \cup {r}]
  <2>1. file \in Whole /\ file.rev = live.rev + 1
    BY <1>1, Committed
  <2>2. engine.at = "up" /\ Transaction(file)
    BY <1>1 DEF Commit
  <2> HIDE DEF file
  <2> QED BY <1>5, <2>1, <2>2
<1> QED BY <1>3, <1>4, <1>6, <1>7

LEMMA InitializeStep == BackupInv /\ Initialize => BackupInv'
<1> SUFFICES ASSUME BackupInv, Initialize PROVE BackupInv'
  OBVIOUS
<1> DEFINE empty == Database(0, {}, FALSE, "current")
<1>1. /\ engine.at = "initialize" /\ names.rollback = Absent /\ names.db = Partial
      /\ wal = Absent /\ issued = {} /\ live = Absent
  BY DEF Initialize, BackupInv, StepsFit, Honest, RevisionsGrow, Latest
<1>2. empty \in Whole
  BY NewDatabase
<1>3. CASE WriteMain(empty) /\ InForce(empty) /\ Goto("configure")
  <2> HIDE DEF empty
  <2>1. /\ engine' \in [at : Steps, for : Purposes, next : Nat]
        /\ engine'.at = "configure" /\ engine'.for = "open"
    BY <1>1, <1>3, EngineMoves DEF Steps, BackupInv, PurposeFits
  <2>2. wal' = Absent
    BY <1>1 DEF Initialize
  <2>3. Honest(names)' /\ Honest(durable)' /\ Current' = live' /\ live' # Absent
    BY <1>2, <1>3, <2>2, HonestInForce
  <2>4. TypesOK'
    BY <1>2, <1>3, <2>1, <2>2, TypesInForce
  <2>5. PurposeFits' /\ ServesLive' /\ StepsFit' /\ StageFits'
    BY <2>1, <2>3 DEF PurposeFits, ServesLive, StepsFit, StageFits, Staging
  <2>6. RevisionsGrow'
    BY <1>1, <1>2, <1>3, <2>1, RevisionsExtended
  <2> QED BY <2>3, <2>4, <2>5, <2>6 DEF BackupInv
<1>4. CASE GiveUp /\ UNCHANGED <<names, durable, live, issued>>
  <2>1. UNCHANGED wal
    BY DEF Initialize
  <2>2. MainKept
    BY <1>4, <2>1 DEF MainKept, BackupInv, TypesOK
  <2>3. engine' = Down
    BY <1>1, <1>4, EngineMoves DEF BackupInv, PurposeFits
  <2>4. TypesOK'
    BY <2>2, <2>3, MainKeptTypes, Resting
  <2>5. PurposeFits' /\ ServesLive' /\ StepsFit' /\ StageFits'
    BY <2>3, <2>4, AtRest
  <2>6. RevisionsGrow'
    BY <1>4, <2>3, RevisionsKept, Resting
  <2> QED BY <1>4, <2>1, <2>2, <2>4, <2>5, <2>6, HonestKept DEF BackupInv, MainKept
<1> QED BY <1>3, <1>4 DEF Initialize

LEMMA StartFreshStep == BackupInv /\ StartFresh => BackupInv'
<1> SUFFICES ASSUME BackupInv, StartFresh PROVE BackupInv'
  OBVIOUS
<1>1. /\ engine.at = "down" /\ names.rollback = Absent /\ names.db = Absent
      /\ wal = Absent /\ issued = {} /\ live = Absent
  BY DEF StartFresh, Leftovers, BackupInv, Honest, RevisionsGrow, Latest
<1>2. /\ names' \in {names, [names EXCEPT !.db = Partial]}
      /\ durable' \in {durable, names'}
      /\ UNCHANGED <<wal, live, issued>>
      /\ \/ UNCHANGED engine
         \/ /\ names' = [names EXCEPT !.db = Partial]
            /\ engine' = [at |-> "initialize", for |-> "open", next |-> 0]
  BY DEF StartFresh, Namespace, history
<1>3. /\ Directory(names') /\ names'.rollback = Absent
      /\ names'.db \in {Absent, Partial}
      /\ names' = [names EXCEPT !.db = Partial] => names'.db = Partial
  BY <1>1, <1>2 DEF BackupInv, TypesOK, Directory, FileNames
<1>4. engine' \in [at : Steps, for : Purposes, next : Nat]
  BY <1>2 DEF BackupInv, TypesOK, Steps, Purposes
<1>5. TypesOK'
  BY <1>2, <1>3, <1>4 DEF BackupInv, TypesOK
<1>6. Honest(names)'
  BY <1>1, <1>2, <1>3, Kinds DEF Honest, Whole
<1>7. Honest(durable)'
  BY <1>2, <1>6 DEF BackupInv, Honest, Safe
<1>8. PurposeFits' /\ ServesLive' /\ StepsFit' /\ StageFits'
  BY <1>1, <1>2, <1>3
  DEF PurposeFits, ServesLive, InService, StepsFit, StageFits, Staging, Restoring
<1>9. RevisionsGrow'
  BY <1>1, <1>2 DEF RevisionsGrow, RevisionsNotReused
<1> QED BY <1>5, <1>6, <1>7, <1>8, <1>9 DEF BackupInv

LEMMA StopStep == BackupInv /\ Stop => BackupInv'
<1> SUFFICES ASSUME BackupInv, Stop PROVE BackupInv'
  OBVIOUS
<1>1. engine' = Down /\ UNCHANGED <<live, issued>>
  BY DEF Stop, history
<1>2. RevisionsGrow'
  BY <1>1, RevisionsKept, Resting
<1>3. CASE UNCHANGED <<names, durable, wal>>
  <2>1. MainKept
    BY <1>1, <1>3 DEF MainKept, BackupInv, TypesOK
  <2>2. TypesOK'
    BY <1>1, <2>1, MainKeptTypes, Resting
  <2> QED BY <1>1, <1>2, <2>1, <2>2, AtRest, HonestKept DEF BackupInv, MainKept
<1>4. CASE engine.at = "up" /\ wal # Absent /\ WriteMain(wal) /\ wal' = Absent
  <2>1. wal = live /\ live \in Whole /\ live # Absent
    BY <1>4, CurrentIsLive DEF InService, Current, Effective
  <2>2. /\ Directory(names)' /\ Directory(durable)'
        /\ names'.db = live /\ durable'.db = live
    BY <1>4, <2>1, MainWritten
  <2>3. TypesOK'
    BY <1>1, <1>4, <2>2, Resting DEF BackupInv, TypesOK
  <2>4. Honest(names)' /\ Honest(durable)'
    BY <1>1, <1>4, <2>1, <2>2, Kinds DEF BackupInv, RevisionsGrow, Latest, Honest, Safe, Whole
  <2> QED BY <1>1, <1>2, <2>3, <2>4, AtRest DEF BackupInv
<1> QED BY <1>3, <1>4 DEF Stop

-----------------------------------------------------------------------------
(* Replacing the database *)

LEMMA CheckpointStep == BackupInv /\ Checkpoint => BackupInv'
<1> SUFFICES ASSUME BackupInv, Checkpoint PROVE BackupInv'
  OBVIOUS
<1>1. engine.at = "checkpoint" /\ engine.for = "restore" /\ UNCHANGED <<live, issued>>
  BY DEF Checkpoint, history, BackupInv, PurposeFits
<1>2. Current = live /\ live \in Whole /\ live # Absent
  BY <1>1, CurrentIsLive DEF InService
<1>3. CASE WriteMain(Current) /\ wal' = Absent /\ Goto("replace")
  <2>1. /\ Directory(names)' /\ Directory(durable)'
        /\ names'.db = live /\ durable'.db = live /\ names'.staging = names.staging
    BY <1>2, <1>3, MainWritten
  <2>2. /\ engine' \in [at : Steps, for : Purposes, next : Nat]
        /\ engine'.at = "replace" /\ engine'.for = "restore" /\ engine'.next = engine.next
    BY <1>1, <1>3, EngineMoves DEF Steps
  <2>3. TypesOK'
    BY <1>1, <1>3, <2>1, <2>2 DEF BackupInv, TypesOK
  <2>4. Honest(names)' /\ Honest(durable)'
    BY <1>1, <1>2, <1>3, <2>1, Kinds DEF BackupInv, RevisionsGrow, Latest, Honest, Safe, Whole
  <2>5. PurposeFits' /\ ServesLive' /\ StepsFit' /\ StageFits'
    BY <1>1, <1>2, <1>3, <2>1, <2>2
    DEF BackupInv, PurposeFits, ServesLive, InService, StepsFit, StageFits, Staging, Restoring
  <2>6. RevisionsGrow'
    BY <1>1, <2>2, RevisionsKept
  <2> QED BY <2>3, <2>4, <2>5, <2>6 DEF BackupInv
<1>4. CASE GiveUp /\ UNCHANGED <<names, durable, wal>>
  <2>1. MainKept
    BY <1>1, <1>4 DEF MainKept, BackupInv, TypesOK
  <2> QED BY <1>1, <1>4, <2>1, StagingGivenUp
<1> QED BY <1>3, <1>4 DEF Checkpoint

LEMMA SetAsideStep == BackupInv /\ SetAside => BackupInv'
<1> SUFFICES ASSUME BackupInv, SetAside PROVE BackupInv'
  OBVIOUS
<1> DEFINE main == IF live = Absent THEN Corrupt ELSE live
<1>1. /\ engine.at = "replace" /\ wal = Absent
      /\ names.db = main /\ main # Absent
      /\ names.staging \in Whole
  BY Kinds DEF SetAside, BackupInv, PurposeFits, StepsFit, StageFits, Restoring
<1>2. /\ names' \in {names, [names EXCEPT !.rollback = names.db, !.db = Absent]}
      /\ durable' \in {durable, names'}
      /\ UNCHANGED <<wal, live, issued>>
      /\ \/ /\ names' = [names EXCEPT !.rollback = names.db, !.db = Absent]
            /\ durable' = names' /\ Goto("install")
         \/ Lose
  BY DEF SetAside, Namespace, history
<1>3. ASSUME names' = [names EXCEPT !.rollback = names.db, !.db = Absent]
      PROVE  /\ Directory(names')
             /\ names'.rollback = main /\ names'.staging = names.staging
  BY <1>1, <1>3 DEF BackupInv, TypesOK, Directory, FileNames
<1> HIDE DEF main
<1>4. Directory(names') /\ Directory(durable')
  BY <1>2, <1>3 DEF BackupInv, TypesOK
<1>5. Honest(names)' /\ Honest(durable)'
  <2>1. CASE names' = names
    BY <1>2, <2>1 DEF BackupInv, Honest, Safe
  <2>2. CASE names' = [names EXCEPT !.rollback = names.db, !.db = Absent]
    <3>1. Honest(names)'
      BY <1>1, <1>2, <1>3, <2>2, Kinds DEF BackupInv, Honest, Safe, main
    <3> QED BY <1>2, <3>1 DEF BackupInv, Honest, Safe
  <2> QED BY <1>2, <2>1, <2>2
<1>6. CASE Goto("install") /\ durable' = names'
           /\ names' = [names EXCEPT !.rollback = names.db, !.db = Absent]
  <2>1. /\ engine' \in [at : Steps, for : Purposes, next : Nat]
        /\ engine'.at = "install" /\ engine'.for = engine.for /\ engine'.next = engine.next
    BY <1>6, EngineMoves DEF Steps
  <2>2. TypesOK'
    BY <1>2, <1>4, <2>1 DEF BackupInv, TypesOK
  <2>3. PurposeFits' /\ ServesLive' /\ StepsFit' /\ StageFits'
    BY <1>1, <1>2, <1>3, <1>6, <2>1
    DEF BackupInv, PurposeFits, ServesLive, InService, StepsFit, StageFits, Staging,
        Restoring, main
  <2>4. RevisionsGrow'
    BY <1>1, <1>2, <2>1, RevisionsKept
  <2> QED BY <1>5, <2>2, <2>3, <2>4 DEF BackupInv
<1>7. CASE Lose
  <2>1. engine' \in {Down, Stuck}
    BY <1>7, EngineMoves
  <2>2. TypesOK'
    BY <1>2, <1>4, <2>1, Resting DEF BackupInv, TypesOK
  <2>3. RevisionsGrow'
    BY <1>2, <2>1, RevisionsKept, Resting
  <2> QED BY <1>5, <2>1, <2>2, <2>3, AtRest DEF BackupInv
<1> QED BY <1>2, <1>6, <1>7

LEMMA InstallStep == BackupInv /\ Install => BackupInv'
<1> SUFFICES ASSUME BackupInv, Install PROVE BackupInv'
  OBVIOUS
<1>1. /\ engine.at = "install" /\ wal = Absent
      /\ names.rollback = durable.rollback
      /\ names.rollback = IF live = Absent THEN Corrupt ELSE live
      /\ names.rollback # Absent
      /\ names.staging \in Whole
  BY Kinds DEF Install, BackupInv, StepsFit, StageFits
<1>2. /\ names' \in {names, [names EXCEPT !.db = names.staging, !.staging = Absent]}
      /\ durable' \in {durable, names'}
      /\ UNCHANGED <<wal, live, issued>>
      /\ \/ /\ names' = [names EXCEPT !.db = names.staging, !.staging = Absent]
            /\ durable' = names' /\ Goto("load")
         \/ Goto("undo")
  BY DEF Install, Namespace, history
<1>3. /\ Directory(names') /\ Directory(durable')
      /\ names'.rollback = names.rollback /\ durable'.rollback = names.rollback
      /\ names' = names \/ names'.db \in Whole
  <2>1. CASE names' = names
    BY <1>1, <1>2, <2>1 DEF BackupInv, TypesOK
  <2>2. CASE names' = [names EXCEPT !.db = names.staging, !.staging = Absent]
    <3>1. Directory(names') /\ names'.rollback = names.rollback /\ names'.db \in Whole
      BY <1>1, <2>2 DEF BackupInv, TypesOK, Directory, FileNames
    <3> QED BY <1>1, <1>2, <3>1 DEF BackupInv, TypesOK
  <2> QED BY <1>2, <2>1, <2>2
<1>4. Honest(names)' /\ Honest(durable)'
  <2>1. Honest(names)'
    BY <1>1, <1>2, <1>3, Kinds DEF BackupInv, Honest, Safe, Whole
  <2> QED BY <1>2, <2>1 DEF BackupInv, Honest, Safe
<1>5. /\ engine' \in [at : Steps, for : Purposes, next : Nat]
      /\ engine'.for = engine.for /\ engine'.next = engine.next
      /\ \/ engine'.at = "load" /\ names'.db \in Whole
         \/ engine'.at = "undo"
  <2>1. names' = [names EXCEPT !.db = names.staging, !.staging = Absent] => names'.db \in Whole
    BY <1>1 DEF BackupInv, TypesOK, Directory, FileNames
  <2> QED BY <1>2, <2>1, EngineMoves DEF Steps
<1>6. TypesOK'
  BY <1>2, <1>3, <1>5 DEF BackupInv, TypesOK
<1>7. PurposeFits' /\ ServesLive' /\ StepsFit' /\ StageFits'
  BY <1>1, <1>2, <1>3, <1>5
  DEF BackupInv, PurposeFits, ServesLive, InService, StepsFit, StageFits, Staging, Restoring
<1>8. RevisionsGrow'
  BY <1>1, <1>2, <1>5, RevisionsKept
<1> QED BY <1>4, <1>6, <1>7, <1>8 DEF BackupInv

\* Putting the old database back is safe while no log is beside it.
LEMMA RolledBackStep ==
  ASSUME BackupInv, engine.at \in {"undo", "revert"}, wal = Absent,
         Namespace(RolledBack, Lose, Lose), UNCHANGED <<wal, live, issued>>
  PROVE  BackupInv'
<1>1. /\ names.rollback = durable.rollback
      /\ names.rollback = IF live = Absent THEN Corrupt ELSE live
      /\ names.rollback # Absent
  BY Kinds DEF BackupInv, StepsFit
<1>2. /\ names' \in {names, RolledBack}
      /\ durable' \in {durable, names'}
      /\ Lose
  BY DEF Namespace
<1>3. engine' \in {Down, Stuck}
  BY <1>2, EngineMoves
<1>4. ASSUME names' = RolledBack
      PROVE  Directory(names') /\ names'.db = names.rollback /\ names'.rollback = Absent
  BY <1>4 DEF RolledBack, BackupInv, TypesOK, Directory, FileNames
<1>5. TypesOK'
  BY <1>2, <1>3, <1>4, Resting DEF BackupInv, TypesOK
<1>6. Honest(names)' /\ Honest(durable)'
  <2>1. CASE names' = names
    BY <1>2, <2>1 DEF BackupInv, Honest, Safe
  <2>2. CASE names' = RolledBack
    <3>1. Honest(names)'
      BY <1>1, <1>4, <2>2, Kinds DEF BackupInv, Honest, Safe, TypesOK, Whole
    <3> QED BY <1>2, <3>1 DEF BackupInv, Honest, Safe
  <2> QED BY <1>2, <2>1, <2>2
<1>7. RevisionsGrow'
  BY <1>3, RevisionsKept, Resting
<1> QED BY <1>3, <1>5, <1>6, <1>7, AtRest DEF BackupInv

LEMMA UndoStep == BackupInv /\ Undo => BackupInv'
<1> SUFFICES ASSUME BackupInv, Undo PROVE BackupInv'
  OBVIOUS
<1>1. engine.at = "undo" /\ wal = Absent /\ UNCHANGED <<wal, live, issued>>
  BY DEF Undo, history, BackupInv, StepsFit
<1> QED BY <1>1, RolledBackStep DEF Undo

LEMMA RevertStep == BackupInv /\ Revert => BackupInv'
<1> SUFFICES ASSUME BackupInv, Revert PROVE BackupInv'
  OBVIOUS
<1>1. engine.at = "revert" /\ UNCHANGED <<wal, live, issued>>
  BY DEF Revert, history
<1>2. CASE wal = Absent /\ Namespace(RolledBack, Lose, Lose)
  BY <1>1, <1>2, RolledBackStep
<1>3. CASE Lose /\ UNCHANGED <<names, durable>>
  <2>1. engine' \in {Down, Stuck}
    BY <1>3, EngineMoves
  <2>2. MainKept
    BY <1>1, <1>3 DEF MainKept, BackupInv, TypesOK
  <2>3. TypesOK'
    BY <2>1, <2>2, MainKeptTypes, Resting
  <2>4. RevisionsGrow'
    BY <1>1, <2>1, RevisionsKept, Resting
  <2> QED BY <2>1, <2>2, <2>3, <2>4, AtRest, HonestKept DEF BackupInv, MainKept
<1> QED BY <1>2, <1>3 DEF Revert, Unambiguous

LEMMA LoadStep == BackupInv /\ Load => BackupInv'
<1> SUFFICES ASSUME BackupInv, Load PROVE BackupInv'
  OBVIOUS
<1> DEFINE file == Restored(names.db)
<1>1. /\ engine.at = "load" /\ wal = Absent
      /\ names.rollback = durable.rollback
      /\ names.rollback = IF live = Absent THEN Corrupt ELSE live
      /\ names.rollback # Absent
  BY Kinds DEF Load, BackupInv, StepsFit
<1>2. file \in Whole /\ file.rev = engine.next
  BY <1>1, RestoredWhole DEF BackupInv, TypesOK, StageFits
<1> HIDE DEF file
<1>3. CASE WriteMain(file) /\ wal' = Absent /\ InForce(file) /\ Goto("forget")
  <2>1. /\ engine' \in [at : Steps, for : Purposes, next : Nat] /\ engine'.at = "forget"
    BY <1>3, EngineMoves DEF Steps
  <2>2. Honest(names)' /\ Honest(durable)' /\ Current' = live' /\ live' # Absent
    BY <1>2, <1>3, HonestInForce
  <2>3. TypesOK'
    BY <1>2, <1>3, <2>1, TypesInForce
  <2>4. live' = file /\ names'.db = file /\ durable'.db = file
    BY <1>2, <1>3, MainWritten DEF InForce
  <2>5. PurposeFits' /\ ServesLive' /\ StepsFit' /\ StageFits'
    BY <1>3, <2>1, <2>2, <2>4
    DEF PurposeFits, ServesLive, InService, StepsFit, StageFits, Staging
  <2>6. Restoring => \A c \in issued : c.rev < file.rev
    BY <1>1, <1>2 DEF BackupInv, RevisionsGrow
  <2>7. RevisionsGrow'
    BY <1>1, <1>2, <1>3, <2>1, <2>6, RevisionsExtended DEF BackupInv, PurposeFits
  <2> QED BY <2>2, <2>3, <2>5, <2>7 DEF BackupInv
<1>4. CASE /\ \/ wal' = file /\ UNCHANGED <<names, durable>>
              \/ WriteMain(file) /\ UNCHANGED wal
              \/ UNCHANGED <<names, durable, wal>>
           /\ Goto("revert") /\ UNCHANGED <<live, issued>>
  <2>1. /\ Directory(names)' /\ Directory(durable)'
        /\ names'.rollback = names.rollback /\ durable'.rollback = durable.rollback
    BY <1>2, <1>4, MainWritten DEF BackupInv, TypesOK
  <2>2. wal' \in Whole \cup {Absent}
    BY <1>1, <1>2, <1>4
  <2>3. /\ engine' \in [at : Steps, for : Purposes, next : Nat]
        /\ engine'.at = "revert" /\ engine'.for = engine.for /\ engine'.next = engine.next
    BY <1>4, EngineMoves DEF Steps
  <2>4. TypesOK'
    BY <1>4, <2>1, <2>2, <2>3 DEF BackupInv, TypesOK
  <2>5. Honest(names)' /\ Honest(durable)'
    BY <1>1, <1>4, <2>1, Kinds DEF BackupInv, Honest, Safe, RevisionsGrow, Latest
  <2>6. PurposeFits' /\ ServesLive' /\ StepsFit' /\ StageFits'
    BY <1>1, <1>4, <2>1, <2>3
    DEF PurposeFits, ServesLive, InService, StepsFit, StageFits, Staging
  <2>7. RevisionsGrow'
    BY <1>1, <1>4, <2>3, RevisionsKept
  <2> QED BY <2>4, <2>5, <2>6, <2>7 DEF BackupInv
<1> QED BY <1>3, <1>4 DEF Load, file, history

LEMMA ForgetRollbackStep == BackupInv /\ ForgetRollback => BackupInv'
<1> SUFFICES ASSUME BackupInv, ForgetRollback PROVE BackupInv'
  OBVIOUS
<1>1. /\ engine.at = "forget" /\ wal = Absent /\ live # Absent /\ live \in Whole
      /\ names.db = live /\ durable.db = live /\ issued # {}
  BY DEF ForgetRollback, BackupInv, StepsFit, TypesOK, RevisionsGrow, Latest
<1>2. /\ names' \in {names, [names EXCEPT !.rollback = Absent]}
      /\ durable' \in {durable, names'}
      /\ UNCHANGED <<wal, live, issued>>
      /\ engine' \in {Down, Serving}
  BY DEF ForgetRollback, Namespace, history
<1>3. /\ Directory(names') /\ Directory(durable')
      /\ names'.db = live /\ durable'.db = live
  <2>1. CASE names' = names
    BY <1>1, <1>2, <2>1 DEF BackupInv, TypesOK
  <2>2. CASE names' = [names EXCEPT !.rollback = Absent]
    <3>1. Directory(names') /\ names'.db = live
      BY <1>1, <2>2 DEF BackupInv, TypesOK, Directory, FileNames
    <3> QED BY <1>1, <1>2, <3>1 DEF BackupInv, TypesOK
  <2> QED BY <1>2, <2>1, <2>2
<1>4. TypesOK'
  BY <1>2, <1>3, Resting DEF BackupInv, TypesOK
<1>5. Honest(names)' /\ Honest(durable)'
  BY <1>1, <1>2, <1>3, Kinds DEF Honest, Safe, Whole
<1>6. Current' = live' /\ live' # Absent
  BY <1>1, <1>2, <1>3 DEF Current, Effective
<1>7. PurposeFits' /\ ServesLive' /\ StepsFit' /\ StageFits'
  BY <1>2, <1>4, <1>6, AtRest, InUse
<1>8. RevisionsGrow'
  BY <1>2, RevisionsKept, Resting
<1> QED BY <1>4, <1>5, <1>7, <1>8 DEF BackupInv

-----------------------------------------------------------------------------
(* Faults *)

LEMMA CrashStep == BackupInv /\ EngineCrash => BackupInv'
<1> SUFFICES ASSUME BackupInv, EngineCrash PROVE BackupInv'
  OBVIOUS
<1>1. engine' = Down /\ UNCHANGED <<wal, live, issued>>
  BY DEF EngineCrash, history
<1>2. \A ns \in {names, durable} :
        Directory(ns) /\ Directory(PowerLoss(ns)) /\ Honest(ns) /\ Honest(PowerLoss(ns))
  BY PowerLossKeeps DEF BackupInv, TypesOK, Honest, Safe
<1>3. /\ Directory(names') /\ Directory(durable')
      /\ Honest(names)' /\ Honest(durable)'
  <2>1. CASE UNCHANGED <<names, durable>>
    BY <1>1, <1>2, <2>1 DEF Honest, Safe
  <2>2. CASE \E ns \in {PowerLoss(names), PowerLoss(durable)} : names' = ns /\ durable' = ns
    BY <1>1, <1>2, <2>2 DEF Honest, Safe
  <2> QED BY <2>1, <2>2 DEF EngineCrash
<1>4. TypesOK'
  BY <1>1, <1>3, Resting DEF BackupInv, TypesOK
<1>5. Honest(names)' /\ Honest(durable)'
  BY <1>3
<1>6. RevisionsGrow'
  BY <1>1, RevisionsKept, Resting
<1> QED BY <1>1, <1>4, <1>5, <1>6, AtRest DEF BackupInv

LEMMA DamageStep == BackupInv /\ Damage => BackupInv'
<1> SUFFICES ASSUME BackupInv, Damage PROVE BackupInv'
  OBVIOUS
<1>1. /\ engine.at = "down" /\ live # Absent /\ issued # {}
      /\ WriteMain(Corrupt) /\ live' = Absent /\ UNCHANGED <<wal, engine, issued>>
  BY OpenedIsLive DEF Damage, BackupInv, RevisionsGrow, Latest
<1>2. /\ Directory(names)' /\ Directory(durable)'
      /\ names'.db = Corrupt /\ durable'.db = Corrupt
  BY <1>1, MainWritten
<1>3. TypesOK'
  BY <1>1, <1>2 DEF BackupInv, TypesOK
<1>4. Honest(names)' /\ Honest(durable)'
  BY <1>1, <1>2, Kinds DEF Honest, Whole
<1>5. PurposeFits' /\ ServesLive' /\ StepsFit' /\ StageFits'
  BY <1>1 DEF PurposeFits, ServesLive, InService, StepsFit, StageFits, Staging
<1>6. RevisionsGrow'
  BY <1>1 DEF BackupInv, RevisionsGrow, RevisionsNotReused, Latest, Restoring
<1> QED BY <1>3, <1>4, <1>5, <1>6 DEF BackupInv

-----------------------------------------------------------------------------
(* The database over its whole life *)

LEMMA InitialBackup == BackupInit => BackupInv
<1> SUFFICES ASSUME BackupInit PROVE BackupInv
  OBVIOUS
<1>1. /\ durable = names /\ wal = Absent /\ engine = Down /\ live = names.db
      /\ issued = {live} \ {Absent}
  BY DEF BackupInit
<1>2. \A schema \in {"legacy", "older"} : Database(0, {}, TRUE, schema) \in Whole
  BY NewDatabase
<1>3. /\ Directory(names) /\ names.rollback = Absent
      /\ names.db \in Whole \cup {Absent}
  <2>1. CASE names = NoFiles
    BY <2>1 DEF NoFiles, Directory, FileNames
  <2>2. CASE \E old \in Whole : names = [NoFiles EXCEPT !.db = old]
    BY <2>2 DEF NoFiles, Directory, FileNames, Whole
  <2> QED BY <1>2, <2>1, <2>2 DEF BackupInit
<1>4. TypesOK
  BY <1>1, <1>2, <1>3, Resting DEF TypesOK
<1>5. Honest(names) /\ Honest(durable)
  BY <1>1, <1>2, <1>3, Kinds DEF Honest, Safe, Whole
<1>6. PurposeFits /\ ServesLive /\ StepsFit /\ StageFits
  BY <1>1, Resting
  DEF PurposeFits, ServesLive, InService, StepsFit, StageFits, Staging, Restoring
<1>7. RevisionsGrow
  <2>1. live \in issued => live.rev \in Nat
    BY <1>1, <1>4, Successors DEF TypesOK
  <2> QED BY <1>1, <2>1, Resting DEF RevisionsGrow, RevisionsNotReused, Latest, Restoring
<1> QED BY <1>4, <1>5, <1>6, <1>7 DEF BackupInv

LEMMA BackupNext == BackupInv /\ [EngineNext \/ EngineCrash]_backupVars => BackupInv'
<1> SUFFICES ASSUME BackupInv, [EngineNext \/ EngineCrash]_backupVars PROVE BackupInv'
  OBVIOUS
<1>1. CASE StartFresh \/ Initialize \/ Start \/ Stop \/ Backup \/ Restore \/ Recover
  BY <1>1, StartFreshStep, InitializeStep, StartStep, StopStep, BackupStep, RestoreStep,
     RecoverStep
<1>2. CASE Migrate \/ Configure \/ Register \/ \E r \in Records : Commit(r)
  BY <1>2, ServiceStep
<1>3. CASE CreateStaging \/ CopyToStage \/ Unstage \/ SyncStaging \/ PublishBackup
  BY <1>3, CreateStagingStep, CopyToStageStep, UnstageStep, SyncStagingStep, PublishBackupStep
<1>4. CASE Checkpoint \/ SetAside \/ Install \/ Undo \/ Load \/ Revert \/ ForgetRollback
  BY <1>4, CheckpointStep, SetAsideStep, InstallStep, UndoStep, LoadStep, RevertStep,
     ForgetRollbackStep
<1>5. CASE EngineCrash \/ Damage
  BY <1>5, CrashStep, DamageStep
<1>6. CASE UNCHANGED backupVars
  BY <1>6
  DEF backupVars, BackupInv, TypesOK, Honest, Safe, PurposeFits, ServesLive, InService,
      StepsFit, StageFits, RevisionsGrow, RevisionsNotReused, Latest, Restoring, Current,
      Effective
<1> QED BY <1>1, <1>2, <1>3, <1>4, <1>5, <1>6 DEF EngineNext

LEMMA BackupAlways == Spec => []BackupInv
<1>1. Init => BackupInv
  BY InitialBackup DEF Init
<1>2. BackupInv /\ [Next]_vars => BackupInv'
  <2>1. [Next]_vars => [EngineNext \/ EngineCrash]_backupVars
    BY DEF Next, Crash, vars
  <2> QED BY <2>1, BackupNext
<1> QED BY <1>1, <1>2, PTL DEF Spec

\* RevisionsNotReused: `storage/engine.rs` never gives a revision to two contents,
\* across restores, recoveries, crashes and power failures.
THEOREM OneContentPerRevision == Spec => []RevisionsNotReused
<1>1. BackupInv => RevisionsNotReused
  BY DEF BackupInv, RevisionsGrow
<1> QED BY <1>1, BackupAlways, PTL

\* DatabaseKept: whatever step of a backup, a restore or a start fails, the
\* content in force is on disk, and the engine serves nothing else.
THEOREM ContentIsKept == Spec => []DatabaseKept
<1>1. BackupInv => DatabaseKept
  <2> SUFFICES ASSUME BackupInv PROVE DatabaseKept
    OBVIOUS
  <2>1. ASSUME live # Absent, NEW ns \in {names, PowerLoss(names), PowerLoss(durable)}
        PROVE  live \in {Effective(ns), ns.rollback}
    <3>1. Safe(ns)
      BY <2>1, PowerLossKeeps DEF BackupInv, TypesOK, Honest, Safe
    <3> QED BY <2>1, <3>1 DEF Safe, Effective
  <2>2. engine.at = "up" => Current = live
    BY CurrentIsLive DEF InService
  <2> QED BY <2>1, <2>2 DEF DatabaseKept
<1> QED BY <1>1, BackupAlways, PTL

\* BackupWhole: the backup `storage/backup.rs` publishes is never a partial file.
THEOREM BackupIsWhole == Spec => []BackupWhole
<1>1. BackupInv => BackupWhole
  BY PowerLossKeeps, Kinds DEF BackupInv, TypesOK, Directory, BackupWhole, Whole
<1> QED BY <1>1, BackupAlways, PTL

-----------------------------------------------------------------------------
(* Staged records *)

SpoolFiles ==
  [form : {"partial", "ready"}, number : Nat, record : Records,
   data : {"torn", "written", "synced"}]

\* A file is under the identity of its record.
Fits(fs) ==
  /\ DOMAIN fs = Ids
  /\ \A i \in Ids :
       \/ fs[i] = NoFile
       \/ /\ fs[i] \in SpoolFiles
          /\ fs[i].record.id = i
          /\ fs[i].form = "ready" => fs[i].data = "synced"

Kept(fs, r) ==
  fs[r.id] # NoFile /\ fs[r.id].record = r /\ fs[r.id].data = "synced"

\* A ready file has its record on disk under one of its names.
Published(i) ==
  files[i].form = "ready" =>
    /\ settled[i] # NoFile
    /\ settled[i].record = files[i].record /\ settled[i].data = "synced"

\* A record whose receipt followed the last fsync has its ready name for good.
Lasting(r) ==
  r \in firm => files[r.id].form = "ready" /\ settled[r.id].form = "ready"

SpoolInv ==
  /\ made \in Nat
  /\ Fits(files) /\ Fits(settled)
  /\ owed \in SUBSET Records /\ firm \subseteq owed
  /\ \A r \in owed \ Proven : Kept(files, r) /\ Kept(settled, r) /\ Lasting(r)
  /\ \A i \in Ids : Published(i)

LEMMA FileForms ==
  ASSUME NEW form \in {"partial", "ready"}, NEW number \in Nat, NEW r \in Records,
         NEW data \in {"torn", "written", "synced"}
  PROVE  LET file == File(form, number, r, data) IN
         /\ file \in SpoolFiles /\ file # NoFile
         /\ file.form = form /\ file.record = r /\ file.data = data
BY DEF File, NoFile, SpoolFiles

LEMMA NoForm == NoFile.form \notin {"partial", "ready"} /\ NoFile \notin SpoolFiles
BY DEF NoFile, SpoolFiles

\* What a complete or interrupted attempt leaves of the file and its synchronization.
LEMMA StageNewEffect ==
  ASSUME SpoolInv, NEW r \in Records, StageNew(r)
  PROVE  \E file \in SpoolFiles, sealed \in SpoolFiles :
           /\ file.record = r /\ sealed.record = r /\ sealed.data = "synced"
           /\ file.form = "ready" => file.data = "synced"
           /\ files' = [files EXCEPT ![r.id] = file]
           /\ \/ /\ settled' = settled /\ file.form # "ready"
                 /\ UNCHANGED <<owed, firm>>
              \/ /\ settled' = [files EXCEPT ![r.id] = sealed]
                 /\ \/ UNCHANGED <<owed, firm>>
                    \/ /\ owed' = owed \cup {r} /\ firm' = firm \cup {r}
                       /\ file = sealed /\ sealed.form = "ready"
<1> DEFINE Begun == File("partial", made + 1, r, "torn")
           Dirty == File("partial", made + 1, r, "written")
           Staged == File("partial", made + 1, r, "synced")
           Sealed == File("ready", made + 1, r, "synced")
           Put(file) == [files EXCEPT ![r.id] = file]
<1>1. /\ {Begun, Dirty, Staged, Sealed} \subseteq SpoolFiles
      /\ \A file \in {Begun, Dirty, Staged, Sealed} : file.record = r
      /\ Begun.form = "partial" /\ Dirty.form = "partial" /\ Staged.form = "partial"
      /\ Staged.data = "synced" /\ Sealed.data = "synced" /\ Sealed.form = "ready"
  BY FileForms DEF SpoolInv
<1>2. \/ /\ files' = Put(Sealed) /\ settled' = Put(Sealed)
         /\ \/ UNCHANGED <<owed, firm>>
            \/ owed' = owed \cup {r} /\ firm' = firm \cup {r}
      \/ /\ files' \in {Put(Begun), Put(Dirty), Put(Staged)}
         /\ settled' = settled /\ UNCHANGED <<owed, firm>>
      \/ /\ files' \in {Put(Staged), Put(Sealed)} /\ settled' = Put(Staged)
         /\ UNCHANGED <<owed, firm>>
  BY DEF StageNew, Acknowledge
<1> HIDE DEF Begun, Dirty, Staged, Sealed
<1> QED BY <1>1, <1>2

LEMMA StageNewStep ==
  ASSUME SpoolInv, NEW r \in Records, StageNew(r), UNCHANGED backupVars
  PROVE  SpoolInv'
<1>1. /\ r.id \in Ids /\ Proven' = Proven /\ made' \in Nat
      /\ files[r.id] = NoFile
  BY DEF StageNew, SpoolInv, Records, Proven, backupVars, Fits, Present, SpoolFiles
<1>2. PICK file \in SpoolFiles, sealed \in SpoolFiles :
        /\ file.record = r /\ sealed.record = r /\ sealed.data = "synced"
        /\ file.form = "ready" => file.data = "synced"
        /\ files' = [files EXCEPT ![r.id] = file]
        /\ \/ /\ settled' = settled /\ file.form # "ready"
              /\ UNCHANGED <<owed, firm>>
           \/ /\ settled' = [files EXCEPT ![r.id] = sealed]
              /\ \/ UNCHANGED <<owed, firm>>
                 \/ /\ owed' = owed \cup {r} /\ firm' = firm \cup {r}
                    /\ file = sealed /\ sealed.form = "ready"
  BY StageNewEffect
<1>3. /\ Fits(files') /\ files'[r.id] = file
      /\ \A i \in Ids : i # r.id => files'[i] = files[i]
  BY <1>1, <1>2 DEF SpoolInv, Fits
<1>4. ASSUME settled' = [files EXCEPT ![r.id] = sealed]
      PROVE  /\ Fits(settled') /\ settled'[r.id] = sealed
             /\ \A i \in Ids : i # r.id => settled'[i] = files[i]
  BY <1>1, <1>2, <1>4 DEF SpoolInv, Fits
<1>5. Fits(settled')
  BY <1>2, <1>4 DEF SpoolInv
<1>6. owed' \in SUBSET Records /\ firm' \subseteq owed'
  BY <1>2 DEF SpoolInv
<1>7. ASSUME NEW i \in Ids PROVE Published(i)'
  <2>1. CASE settled' = settled /\ file.form # "ready"
    BY <1>3, <2>1 DEF SpoolInv, Published
  <2>2. CASE settled' = [files EXCEPT ![r.id] = sealed]
    <3>1. CASE i = r.id
      BY <1>2, <1>3, <1>4, <2>2, <3>1, NoForm DEF Published
    <3>2. CASE i # r.id
      BY <1>3, <1>4, <2>2, <3>2, NoForm DEF Published, SpoolInv, Fits
    <3> QED BY <3>1, <3>2
  <2> QED BY <1>2, <2>1, <2>2
<1>8. ASSUME NEW q \in owed' \ Proven' PROVE Kept(files', q) /\ Kept(settled', q) /\ Lasting(q)'
  <2>1. q.id \in Ids /\ q \in Records
    BY <1>6, <1>8 DEF Records
  <2>2. CASE q \in owed
    <3>1. q.id # r.id /\ Kept(files, q) /\ Kept(settled, q) /\ Lasting(q)
      BY <1>1, <1>8, <2>2 DEF SpoolInv, Kept
    <3>2. files'[q.id] = files[q.id] /\ settled'[q.id] \in {files[q.id], settled[q.id]}
      BY <1>2, <1>3, <1>4, <2>1, <3>1
    <3>3. q \in firm' => q \in firm
      BY <1>2, <3>1
    <3> QED BY <3>1, <3>2, <3>3 DEF Kept, Lasting
  <2>3. CASE /\ q = r /\ settled' = [files EXCEPT ![r.id] = sealed]
             /\ file = sealed /\ sealed.form = "ready"
    BY <1>2, <1>3, <1>4, <2>3, NoForm DEF Kept, Lasting
  <2> QED BY <1>2, <1>8, <2>2, <2>3
<1> QED BY <1>1, <1>3, <1>5, <1>6, <1>7, <1>8 DEF SpoolInv

\* Files are removed whose records are proven or were promised to nobody any more.
LEMMA RemovalStep ==
  ASSUME SpoolInv, NEW gone, UNCHANGED made, UNCHANGED backupVars,
         owed' \subseteq owed, firm' = firm \cap owed',
         \A token \in gone : files[token.record.id] = token,
         \A token \in gone : token.record \in Proven \/ token.record \notin owed',
         files' = Removed(gone),
         \/ settled' \in {settled, files'}
         \/ \E kept \in SUBSET gone : settled' = Removed(kept)
  PROVE  SpoolInv'
<1>1. Proven' = Proven
  BY DEF Proven, backupVars
<1>2. ASSUME NEW tokens \in SUBSET gone
      PROVE  /\ Fits(Removed(tokens))
             /\ \A i \in Ids : /\ Removed(tokens)[i] \in {files[i], NoFile}
                               /\ (\A token \in tokens : token.record.id # i) =>
                                    Removed(tokens)[i] = files[i]
                               /\ Removed(tokens)[i] = files[i] \/ Removed(gone)[i] = NoFile
  BY <1>2 DEF SpoolInv, Fits, Removed
<1>3. /\ Fits(files')
      /\ \A i \in Ids : files'[i] \in {files[i], NoFile}
  BY <1>2
<1>4. /\ Fits(settled')
      /\ \/ settled' = settled
         \/ \A i \in Ids : settled'[i] = files[i] \/ files'[i] = NoFile
  BY <1>2 DEF SpoolInv
<1>5. ASSUME NEW i \in Ids PROVE Published(i)'
  BY <1>3, <1>4, NoForm DEF Published, SpoolInv, Fits
<1>6. ASSUME NEW q \in owed' \ Proven' PROVE Kept(files', q) /\ Kept(settled', q) /\ Lasting(q)'
  <2>1. q.id \in Ids /\ Kept(files, q) /\ Kept(settled, q) /\ Lasting(q)
    BY <1>1, <1>6 DEF SpoolInv, Records
  <2>2. \A token \in gone : token.record.id # q.id
    BY <1>1, <1>6, <2>1 DEF Kept
  <2>3. files'[q.id] = files[q.id] /\ files[q.id] # NoFile
    BY <1>2, <2>1, <2>2 DEF Kept
  <2>4. settled'[q.id] \in {files[q.id], settled[q.id]}
    BY <1>4, <2>1, <2>3
  <2> QED BY <2>1, <2>3, <2>4 DEF Kept, Lasting
<1> QED BY <1>1, <1>3, <1>4, <1>5, <1>6 DEF SpoolInv

LEMMA SpoolStep == SpoolInv /\ SpoolNext /\ UNCHANGED backupVars => SpoolInv'
<1> SUFFICES ASSUME SpoolInv, SpoolNext, UNCHANGED backupVars PROVE SpoolInv'
  OBVIOUS
<1>1. Proven' = Proven
  BY DEF Proven, backupVars
<1>2. CASE \E r \in Records : StageNew(r)
  BY <1>2, StageNewStep
<1>3. CASE \E r \in Records : StageAgain(r)
  <2> PICK r \in Records : StageAgain(r)
    BY <1>3
  <2>1. /\ owed' = owed \cup {r} /\ UNCHANGED <<files, settled, made>>
        /\ firm' \in {firm, firm \cup {r}}
        /\ firm' = firm \/ settled[r.id] = files[r.id]
        /\ files[r.id].form = "ready" /\ files[r.id].record = r /\ r.id \in Ids
    BY DEF StageAgain, Acknowledge, Ready, Records
  <2>2. Kept(files, r) /\ Kept(settled, r)
    BY <2>1, NoForm DEF SpoolInv, Kept, Fits, Published
  <2>3. owed' \in SUBSET Records /\ firm' \subseteq owed'
    BY <2>1 DEF SpoolInv
  <2>4. ASSUME NEW q \in owed' \ Proven'
        PROVE  Kept(files', q) /\ Kept(settled', q) /\ Lasting(q)'
    <3>1. CASE q \in owed
      <4>1. Kept(files, q) /\ Kept(settled, q) /\ Lasting(q)
        BY <1>1, <2>4, <3>1 DEF SpoolInv
      <4>2. q \in firm' /\ q \notin firm => q = r /\ settled[r.id] = files[r.id]
        BY <2>1
      <4> QED BY <2>1, <4>1, <4>2 DEF Lasting
    <3>2. CASE q = r /\ q \notin owed
      <4>1. q \notin firm
        BY <3>2 DEF SpoolInv
      <4>2. q \in firm' => settled[r.id] = files[r.id]
        BY <2>1, <4>1
      <4> QED BY <2>1, <2>2, <3>2, <4>2 DEF Lasting
    <3> QED BY <2>1, <2>4, <3>1, <3>2
  <2> QED BY <1>1, <2>1, <2>3, <2>4 DEF SpoolInv, Published
<1>4. CASE UNCHANGED <<files, settled, made, owed, firm>>
  BY <1>1, <1>4 DEF SpoolInv, Published, Lasting
<1>5. CASE \E entry \in entries : \E r \in Proven : Confirm(entry, r)
  <2> PICK entry \in entries, r \in Proven : Confirm(entry, r)
    BY <1>5
  <2>1. UNCHANGED <<made, owed, firm>> /\ firm \subseteq owed
    BY DEF Confirm, SpoolInv
  <2>2. CASE UNCHANGED <<files, settled>>
    BY <1>4, <2>1, <2>2
  <2>3. CASE /\ SameEvent(entry, r) /\ Unchanged(entry)
             /\ files' = Without(entry) /\ settled' \in {settled, Without(entry)}
    <3>1. Without(entry) = Removed({entry})
      BY <2>3 DEF Without, Removed, SpoolInv, Fits
    <3> QED BY <2>1, <2>3, <3>1, RemovalStep DEF SameEvent, Unchanged
  <2> QED BY <2>2, <2>3 DEF Confirm
<1>6. CASE ApplyCleanup
  <2>1. UNCHANGED made
    BY <1>6 DEF ApplyCleanup
  <2>2. CASE UNCHANGED <<files, settled, owed, firm>>
    BY <1>4, <2>1, <2>2
  <2>3. CASE /\ plan.current /\ \A token \in plan.files : Unchanged(token)
             /\ \E gone \in SUBSET plan.files :
                  /\ files' = Removed(gone)
                  /\ settled' \in IF gone = {} THEN {settled}
                                 ELSE {files'} \cup SettledBefore(gone)
                  /\ owed' = owed \ {token.record : token \in gone}
                  /\ firm' = firm \ {token.record : token \in gone}
    <3> PICK gone \in SUBSET plan.files :
          /\ files' = Removed(gone)
          /\ settled' \in IF gone = {} THEN {settled}
                         ELSE {files'} \cup SettledBefore(gone)
          /\ owed' = owed \ {token.record : token \in gone}
          /\ firm' = firm \ {token.record : token \in gone}
      BY <2>3
    <3>1. \/ settled' \in {settled, files'}
          \/ \E kept \in SUBSET gone : settled' = Removed(kept)
      BY DEF SettledBefore
    <3>2. firm' = firm \cap owed'
      BY DEF SpoolInv
    <3>3. owed' \subseteq owed /\ \A token \in gone : token.record \notin owed'
      OBVIOUS
    <3>4. \A token \in gone : files[token.record.id] = token
      BY <2>3 DEF Unchanged
    <3> QED BY <2>1, <3>1, <3>2, <3>3, <3>4, RemovalStep
  <2> QED BY <1>6, <2>2, <2>3 DEF ApplyCleanup
<1>7. CASE ReadBatch \/ (\E entry \in entries : DropEntry(entry)) \/ Preview \/ DropPlan
  BY <1>4, <1>7 DEF ReadBatch, DropEntry, Preview, DropPlan
<1> QED BY <1>2, <1>3, <1>5, <1>6, <1>7 DEF SpoolNext

\* What the database has once held stays proven.
LEMMA ProvenGrows ==
  ASSUME BackupInv, EngineNext \/ EngineCrash
  PROVE  Proven \subseteq Proven'
<1>1. issued \subseteq issued'
  BY DEF EngineNext, EngineCrash, StartFresh, Initialize, Start, Migrate, Configure, Register,
    Commit, Transaction, Stop, Backup, Restore, Recover, CreateStaging, CopyToStage, Unstage,
    SyncStaging, PublishBackup, Checkpoint, SetAside, Install, Undo, Load, Revert,
    ForgetRollback, Damage, InForce, history
<1> QED BY <1>1 DEF Proven

LEMMA TornFits ==
  ASSUME NEW i \in Ids, NEW file,
         \/ file = NoFile
         \/ /\ file \in SpoolFiles /\ file.record.id = i
            /\ file.form = "ready" => file.data = "synced"
  PROVE  /\ \/ Torn(file) = NoFile
            \/ /\ Torn(file) \in SpoolFiles /\ Torn(file).record.id = i
               /\ Torn(file).form = "ready" => Torn(file).data = "synced"
         /\ file # NoFile /\ file.data = "synced" => Torn(file) = file
<1>1. CASE Torn(file) = file
  BY <1>1
<1>2. CASE Torn(file) # file
  <2>1. /\ file \in SpoolFiles /\ file.data = "written"
        /\ Torn(file) = [file EXCEPT !.data = "torn"]
    BY <1>2 DEF Torn, NoFile
  <2>2. /\ Torn(file) \in SpoolFiles
        /\ Torn(file).record = file.record /\ Torn(file).form = file.form
    BY <2>1 DEF SpoolFiles
  <2> QED BY <2>1, <2>2, NoForm
<1> QED BY <1>1, <1>2

\* A power failure leaves what is kept, under a ready name if it was settled there.
LEMMA PowerLossFits ==
  ASSUME SpoolInv, NEW i \in Ids, NEW file \in AfterPowerLoss(i)
  PROVE  /\ \/ file = NoFile
            \/ /\ file \in SpoolFiles /\ file.record.id = i
               /\ file.form = "ready" => file.data = "synced"
         /\ \A r \in owed \ Proven : r.id = i =>
              /\ file # NoFile /\ file.record = r /\ file.data = "synced"
              /\ r \in firm => file.form = "ready"
<1>1. \A one \in {files[i], settled[i]} :
        /\ one = NoFile \/ (/\ one \in SpoolFiles /\ one.record.id = i
                            /\ one.form = "ready" => one.data = "synced")
        /\ \A r \in owed \ Proven : r.id = i =>
             /\ one # NoFile /\ one.record = r /\ one.data = "synced"
             /\ r \in firm => one.form = "ready"
  BY DEF SpoolInv, Fits, Kept, Lasting
<1>2. PICK one \in {files[i], settled[i]} : file \in {one, Torn(one)}
  BY DEF AfterPowerLoss
<1>3. CASE file = one
  BY <1>1, <1>3
<1>4. CASE file = Torn(one)
  BY <1>1, <1>4, TornFits
<1> QED BY <1>2, <1>3, <1>4

LEMMA SpoolCrashStep ==
  ASSUME SpoolInv, SpoolCrash, Proven \subseteq Proven'
  PROVE  SpoolInv'
<1>1. UNCHANGED <<made, owed, firm>>
  BY DEF SpoolCrash
<1>2. CASE UNCHANGED <<files, settled>>
  BY <1>1, <1>2 DEF SpoolInv, Published, Lasting
<1>3. CASE PowerLossOfSpool
  <2>1. /\ DOMAIN files' = Ids /\ settled' = files'
        /\ \A i \in Ids : files'[i] \in AfterPowerLoss(i)
    BY <1>3 DEF PowerLossOfSpool
  <2>2. Fits(files')
    BY <2>1, PowerLossFits DEF Fits
  <2>3. \A r \in owed \ Proven : Kept(files', r) /\ (r \in firm => files'[r.id].form = "ready")
    <3> TAKE r \in owed \ Proven
    <3>1. r.id \in Ids
      BY DEF SpoolInv, Records
    <3> QED BY <2>1, <3>1, PowerLossFits DEF Kept
  <2>4. \A i \in Ids : Published(i)'
    BY <2>1, <2>2, NoForm DEF Published, Fits
  <2> QED BY <1>1, <2>1, <2>2, <2>3, <2>4 DEF SpoolInv, Lasting
<1> QED BY <1>2, <1>3 DEF SpoolCrash

\* StagedSurvives: what the spool has acknowledged is on disk until the database
\* has held it or a cleanup was told to remove it, whatever crashes or fails, and
\* under its ready name if the last fsync of `write_stage` came before the receipt.
THEOREM AcknowledgedSurvives == Spec => []StagedSurvives
<1>1. Init => SpoolInv
  BY DEF Init, SpoolInit, SpoolInv, Fits, Published, NoFile
<1>2. BackupInv /\ SpoolInv /\ [Next]_vars => SpoolInv'
  <2> SUFFICES ASSUME BackupInv, SpoolInv, [Next]_vars PROVE SpoolInv'
    OBVIOUS
  <2>1. CASE UNCHANGED spoolVars /\ Proven \subseteq Proven'
    BY <2>1 DEF spoolVars, SpoolInv, Published, Lasting
  <2>2. CASE EngineNext /\ UNCHANGED spoolVars
    BY <2>1, <2>2, ProvenGrows
  <2>3. CASE SpoolNext /\ UNCHANGED backupVars
    BY <2>3, SpoolStep
  <2>4. CASE Crash
    BY <2>4, ProvenGrows, SpoolCrashStep DEF Crash
  <2>5. CASE UNCHANGED vars
    BY <2>1, <2>5 DEF vars, backupVars, Proven
  <2> QED BY <2>2, <2>3, <2>4, <2>5 DEF Next
<1>3. SpoolInv => StagedSurvives
  <2> SUFFICES ASSUME SpoolInv, NEW r \in owed \ Proven, NEW file \in AfterPowerLoss(r.id)
               PROVE  Holds(file, r) /\ (r \in firm => file.form = "ready")
    BY DEF StagedSurvives
  <2>1. r.id \in Ids
    BY DEF SpoolInv, Records
  <2>2. /\ file \in SpoolFiles /\ file.record = r /\ file.data = "synced"
        /\ r \in firm => file.form = "ready"
    BY <2>1, PowerLossFits
  <2>3. file.form # "none"
    BY <2>2 DEF SpoolFiles
  <2> QED BY <2>2, <2>3 DEF Holds
<1> QED BY <1>1, <1>2, <1>3, BackupAlways, PTL DEF Spec
=============================================================================
