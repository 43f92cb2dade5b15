-------------------------------- MODULE Backup --------------------------------
(***************************************************************************)
(* The files of the database and the engine that owns them: opening and    *)
(* migrating, live backup, restore, and explicit recovery of a corrupt     *)
(* database (`storage/engine.rs`, `backup.rs`, `paths.rs`, `schema.rs`,    *)
(* `migration.rs`, `worker.rs`).                                           *)
(*                                                                         *)
(* One thread runs the engine; its program counter is `engine.at`.  A      *)
(* namespace operation (create, rename, remove) has an effect on `names`   *)
(* and, once the directory is synchronized, on `durable`; either half can  *)
(* fail, and a crash between them can forget the first.  A commit of       *)
(* SQLite is atomic and durable, in the write-ahead log (`wal`) until a    *)
(* checkpoint copies it to the main file.                                  *)
(*                                                                         *)
(* Abstractions.  The content of a database is its revision, the events it *)
(* has accepted, whether a producer is active and how old its schema is:   *)
(* "legacy" below version 3, "older" below the current one.  Other writers *)
(* of the directory, foreign and future files and sizes are left out.      *)
(***************************************************************************)
EXTENDS Naturals, FiniteSets

CONSTANTS
  Ids,             \* identities of events
  Contents,        \* what an event with a given identity can say
  MaxRevision,     \* bound on revisions
  MaxFaults        \* bound on failed operations and crashes

ASSUME BackupAssumption == MaxRevision \in Nat /\ MaxFaults \in Nat

VARIABLES
  names,     \* file name |-> file
  durable,   \* the same, as of the last synchronization of the directory
  wal,       \* the committed content the main file lacks, or Absent
  engine,    \* [at, for, next]: step, operation and revision of a restore
  faults,
  \* history
  live,      \* the content committed last, Absent before there is one
  issued     \* every content ever committed and in force

backupVars == <<names, durable, wal, engine, faults, live, issued>>

Records == [id : Ids, content : Contents]

Absent == [is |-> "absent"]
Partial == [is |-> "partial"]    \* being written, or too short for a header
Corrupt == [is |-> "corrupt"]    \* a damaged page behind a readable header

Database(rev, events, active, schema) ==
  [is |-> "database", rev |-> rev, events |-> events, active |-> active,
   schema |-> schema, synced |-> TRUE]

IsDatabase(file) == file.is = "database"
Old(file) == file.schema # "current"

NoFiles == [name \in {"db", "backup", "staging", "rollback"} |-> Absent]

Effective(ns) == IF wal = Absent THEN ns.db ELSE wal
Current == Effective(names)

Later(a, b) == IF a > b THEN a ELSE b

\* A power failure loses what no fsync has written.
PowerLoss(ns) ==
  [name \in DOMAIN ns |->
     IF IsDatabase(ns[name]) /\ ~ns[name].synced THEN Partial ELSE ns[name]]

-----------------------------------------------------------------------------
(* Steps, failures and namespace operations *)

Down == [at |-> "down", for |-> "none", next |-> 0]
Serving == [at |-> "up", for |-> "none", next |-> 0]
Stuck == [at |-> "stuck", for |-> "none", next |-> 0]   \* no connection left

Goto(step) == engine' = [engine EXCEPT !.at = step]

Fault == faults < MaxFaults /\ faults' = faults + 1

\* An error before the connection is closed.
GiveUp == engine' = IF engine.for \in {"open", "recover"} THEN Down ELSE Serving
\* An error after it is closed.
Lose == engine' = IF engine.for = "recover" THEN Down ELSE Stuck

\* Paths::create, rename and remove: the effect, then fsync of the directory.
Namespace(ns, done, failed) ==
  \/ names' = ns /\ durable' = ns /\ UNCHANGED faults /\ done
  \/ names' = ns /\ UNCHANGED durable /\ Fault /\ failed
  \/ UNCHANGED <<names, durable>> /\ Fault /\ failed

\* SQLite writes the main file; the durable name of its inode is taken to be `db`.
WriteMain(file) ==
  /\ names' = [names EXCEPT !.db = file]
  /\ durable' = [durable EXCEPT !.db = file]

\* The content in force is now `file`.
InForce(file) ==
  /\ live' = file
  /\ issued' = issued \cup {file}

history == <<live, issued>>

-----------------------------------------------------------------------------
(* Opening: Engine::open *)

Leftovers == names.staging # Absent \/ names.rollback # Absent

\* Paths::open takes the lock and refuses leftovers; a new file is created.
StartFresh ==
  /\ engine.at = "down" /\ ~Leftovers /\ names.db = Absent
  /\ Namespace([names EXCEPT !.db = Partial],
               engine' = [at |-> "initialize", for |-> "open", next |-> 0],
               UNCHANGED engine)
  /\ UNCHANGED <<wal, history>>

Initialize ==
  /\ engine.at = "initialize"
  /\ \/ /\ WriteMain(Database(0, {}, FALSE, "current"))
        /\ InForce(Database(0, {}, FALSE, "current"))
        /\ Goto("configure") /\ UNCHANGED faults
     \/ Fault /\ GiveUp /\ UNCHANGED <<names, durable, live, issued>>
  /\ UNCHANGED wal

\* An existing file is inspected; an old schema is backed up before it is migrated.
Start ==
  /\ engine.at = "down" /\ ~Leftovers /\ IsDatabase(names.db)
  /\ engine' = [at |-> IF Old(Current) THEN "stage" ELSE "configure",
                for |-> "open", next |-> 0]
  /\ UNCHANGED <<names, durable, wal, faults, history>>

\* Generations of a legacy schema cannot be proved and are retired with it.
Migrated(file) ==
  [file EXCEPT !.rev = @ + 1, !.active = @ /\ file.schema # "legacy",
               !.schema = "current"]

Migrate ==
  /\ engine.at = "migrate"
  /\ \/ /\ wal' = Migrated(Current) /\ InForce(Migrated(Current))
        /\ Goto("configure") /\ UNCHANGED faults
     \/ Fault /\ GiveUp /\ UNCHANGED <<wal, live, issued>>
  /\ UNCHANGED <<names, durable>>

\* invalidate_generations without a forced revision
Invalidated(file) ==
  IF file.active THEN [file EXCEPT !.rev = @ + 1, !.active = FALSE] ELSE file

\* Configuration, retirement of every generation, checkpoint.
Configure ==
  /\ engine.at = "configure"
  /\ \/ /\ WriteMain(Invalidated(Current)) /\ wal' = Absent
        /\ InForce(Invalidated(Current)) /\ engine' = Serving /\ UNCHANGED faults
     \/ /\ wal' = Invalidated(Current) /\ InForce(Invalidated(Current))
        /\ Fault /\ GiveUp /\ UNCHANGED <<names, durable>>
     \/ Fault /\ GiveUp /\ UNCHANGED <<names, durable, wal, live, issued>>

-----------------------------------------------------------------------------
(* Writes: Engine::execute *)

\* A transaction; a long log is checkpointed after it.
Transaction(file) ==
  /\ Current.rev < MaxRevision
  /\ InForce(file)
  /\ \/ wal' = file /\ UNCHANGED <<names, durable>>
     \/ wal' = Absent /\ WriteMain(file)
  /\ UNCHANGED <<engine, faults>>

Register ==
  /\ engine.at = "up" /\ ~Current.active
  /\ Transaction([Current EXCEPT !.rev = @ + 1, !.active = TRUE])

\* An event of the active generation whose identity is new.
Commit(r) ==
  /\ engine.at = "up" /\ Current.active
  /\ \A s \in Current.events : s.id # r.id
  /\ Transaction([Current EXCEPT !.rev = @ + 1, !.events = @ \cup {r}])

\* The worker is asked to stop, or nobody waited for it to start; closing
\* the connection checkpoints or leaves the log.
Stop ==
  /\ engine.at \in {"up", "stuck"}
  /\ engine' = Down
  /\ \/ UNCHANGED <<names, durable, wal>>
     \/ /\ engine.at = "up" /\ wal # Absent
        /\ WriteMain(wal) /\ wal' = Absent
  /\ UNCHANGED <<faults, history>>

-----------------------------------------------------------------------------
(* Staging a copy: backup::create and stage_restore *)

Backup ==
  /\ engine.at = "up" /\ names.staging = Absent
  /\ engine' = [at |-> "stage", for |-> "serve", next |-> 0]
  /\ UNCHANGED <<names, durable, wal, faults, history>>

Restorable == IsDatabase(names.backup) /\ ~Leftovers

\* Mutant: the revisions handed out since the backup are forgotten.
NextOfBackup(floor) == names.backup.rev + 1

NextRevision(floor) == Later(floor, names.backup.rev) + 1

Restore ==
  /\ engine.at = "up" /\ Restorable
  /\ NextRevision(Current.rev) <= MaxRevision
  /\ engine' = [at |-> "stage", for |-> "restore", next |-> NextRevision(Current.rev)]
  /\ UNCHANGED <<names, durable, wal, faults, history>>

\* The caller's floor bounds every revision that may have been committed.
Floor == CHOOSE n \in {c.rev : c \in issued} : \A c \in issued : c.rev <= n

Recover ==
  /\ engine.at = "down" /\ names.db = Corrupt /\ wal = Absent /\ Restorable
  /\ NextRevision(Floor) <= MaxRevision
  /\ engine' = [at |-> "stage", for |-> "recover", next |-> NextRevision(Floor)]
  /\ UNCHANGED <<names, durable, wal, faults, history>>

Restoring == engine.for \in {"restore", "recover"}

CreateStaging ==
  /\ engine.at = "stage"
  /\ Namespace([names EXCEPT !.staging = Partial], Goto("copy"), GiveUp)
  /\ UNCHANGED <<wal, history>>

\* copy_to_stage: a restored copy is migrated in its stage.
Copied ==
  IF ~Restoring THEN Current
  ELSE IF Old(names.backup) THEN Migrated(names.backup) ELSE names.backup

CopyToStage ==
  /\ engine.at = "copy"
  /\ \/ /\ names' = [names EXCEPT !.staging = [Copied EXCEPT !.synced = FALSE]]
        /\ Goto("sync") /\ UNCHANGED faults
     \/ Fault /\ Goto("unstage") /\ UNCHANGED names
  /\ UNCHANGED <<durable, wal, history>>

Unstage ==
  /\ engine.at = "unstage"
  /\ Namespace([names EXCEPT !.staging = Absent], GiveUp, GiveUp)
  /\ UNCHANGED <<wal, history>>

\* Mutant: nothing is synchronized before the rename.
NotSynced(file) == file

Synced(file) == [file EXCEPT !.synced = TRUE]

SyncStaging ==
  /\ engine.at = "sync"
  /\ \/ LET ns == [names EXCEPT !.staging = Synced(@)]
        IN  names' = ns /\ durable' = ns /\ UNCHANGED faults /\
            Goto(CASE engine.for \in {"open", "serve"} -> "publish"
                   [] engine.for = "restore" -> "checkpoint"
                   [] engine.for = "recover" -> "replace")
     \/ Fault /\ GiveUp /\ UNCHANGED <<names, durable>>
  /\ UNCHANGED <<wal, history>>

PublishBackup ==
  /\ engine.at = "publish"
  /\ Namespace([names EXCEPT !.backup = names.staging, !.staging = Absent],
               IF engine.for = "open" THEN Goto("migrate") ELSE engine' = Serving,
               GiveUp)
  /\ UNCHANGED <<wal, history>>

-----------------------------------------------------------------------------
(* Replacing the database: Engine::restore and recover_backup *)

\* The log is emptied before the connection is closed.
Checkpoint ==
  /\ engine.at = "checkpoint"
  /\ \/ WriteMain(Current) /\ wal' = Absent /\ Goto("replace") /\ UNCHANGED faults
     \/ Fault /\ GiveUp /\ UNCHANGED <<names, durable, wal>>
  /\ UNCHANGED history

\* The connection is closed and the database set aside.
SetAside ==
  /\ engine.at = "replace"
  /\ Namespace([names EXCEPT !.rollback = names.db, !.db = Absent],
               Goto("install"), Lose)
  /\ UNCHANGED <<wal, history>>

Install ==
  /\ engine.at = "install"
  /\ Namespace([names EXCEPT !.db = names.staging, !.staging = Absent],
               Goto("load"), Goto("undo"))
  /\ UNCHANGED <<wal, history>>

RolledBack == [names EXCEPT !.db = names.rollback, !.rollback = Absent]

Undo ==
  /\ engine.at = "undo"
  /\ Namespace(RolledBack, Lose, Lose)
  /\ UNCHANGED <<wal, history>>

\* load_restored: the restored copy gets the next revision and no generation.
Restored(file) == [file EXCEPT !.rev = engine.next, !.active = FALSE]

Load ==
  /\ engine.at = "load"
  /\ LET file == Restored(names.db) IN
     \/ /\ WriteMain(file) /\ wal' = Absent /\ InForce(file)
        /\ Goto("forget") /\ UNCHANGED faults
     \* The failed connection leaves its log, or closes without one.
     \/ /\ \/ wal' = file /\ UNCHANGED <<names, durable>>
           \/ WriteMain(file) /\ UNCHANGED wal
           \/ UNCHANGED <<names, durable, wal>>
        /\ Fault /\ Goto("revert") /\ UNCHANGED history

\* Mutant: the rollback is put back under a log that is not its own.
AlwaysRevert(shm) == TRUE

Unambiguous(shm) == wal = Absent /\ ~shm

Revert ==
  /\ engine.at = "revert"
  /\ \E shm \in BOOLEAN :
       \/ Unambiguous(shm) /\ Namespace(RolledBack, Lose, Lose)
       \/ ~Unambiguous(shm) /\ Lose /\ UNCHANGED <<names, durable, faults>>
  /\ UNCHANGED <<wal, history>>

\* The restored database is in service whether or not this succeeds.
ForgetRollback ==
  /\ engine.at = "forget"
  /\ Namespace([names EXCEPT !.rollback = Absent],
               engine' = Serving,
               engine' = IF engine.for = "recover" THEN Down ELSE Serving)
  /\ UNCHANGED <<wal, history>>

-----------------------------------------------------------------------------
(* Faults *)

\* The process is killed, which leaves the files as they are, or the power fails.
EngineCrash ==
  /\ engine' = Down /\ Fault
  /\ \/ UNCHANGED <<names, durable>>
     \/ \E ns \in {PowerLoss(names), PowerLoss(durable)} : names' = ns /\ durable' = ns
  /\ UNCHANGED <<wal, history>>

\* A page of the closed database is damaged.
Damage ==
  /\ engine.at = "down" /\ IsDatabase(names.db) /\ ~Leftovers /\ Fault
  /\ WriteMain(Corrupt)
  /\ live' = Absent
  /\ UNCHANGED <<wal, engine, issued>>

-----------------------------------------------------------------------------

\* A first start, or a database an older version left.
BackupInit ==
  /\ names \in {NoFiles} \cup
       {[NoFiles EXCEPT !.db = Database(0, {}, TRUE, schema)] : schema \in {"legacy", "older"}}
  /\ durable = names
  /\ wal = Absent /\ engine = Down /\ faults = 0
  /\ live = names.db
  /\ issued = {names.db} \ {Absent}

EngineNext ==
  \/ StartFresh \/ Initialize \/ Start \/ Migrate \/ Configure
  \/ Register \/ (\E r \in Records : Commit(r)) \/ Stop
  \/ Backup \/ Restore \/ Recover
  \/ CreateStaging \/ CopyToStage \/ Unstage \/ SyncStaging \/ PublishBackup
  \/ Checkpoint \/ SetAside \/ Install \/ Undo \/ Load \/ Revert \/ ForgetRollback
  \/ Damage

-----------------------------------------------------------------------------
(* Properties *)

\* A revision names one content for ever: a client that holds a revision of a
\* replaced database can never have it accepted for the restored one.
RevisionsNotReused ==
  \A a, b \in issued : a.rev = b.rev => a = b

\* Whatever fails and whenever the power does, the content committed last is
\* complete under the name of the database or of the rollback, and the engine
\* serves nothing else.
DatabaseKept ==
  /\ live # Absent =>
       \A ns \in {names, PowerLoss(names), PowerLoss(durable)} :
         live \in {Effective(ns), ns.rollback}
  /\ engine.at = "up" => Current = live

\* The backup is never a partial file, whenever the power fails.
BackupWhole ==
  \A ns \in {names, PowerLoss(names), PowerLoss(durable)} :
    ns.backup = Absent \/ IsDatabase(ns.backup)

BackupSpec == BackupInit /\ [][EngineNext \/ EngineCrash]_backupVars
=============================================================================
