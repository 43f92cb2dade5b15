------------------------------ MODULE Durability ------------------------------
(***************************************************************************)
(* An accepted observation between the two stores of the manager: staged   *)
(* in the spool, committed to the database, disposed of once the database  *)
(* has answered (`coordinator/mod.rs`), while the database is backed up,   *)
(* restored, stopped and recovered.  The engine and the thread that owns   *)
(* the spool run concurrently; a crash takes both.                         *)
(***************************************************************************)
EXTENDS Spool

vars == <<backupVars, spoolVars>>

Init == BackupInit /\ SpoolInit

Crash == EngineCrash /\ SpoolCrash

Next ==
  \/ EngineNext /\ UNCHANGED spoolVars
  \/ SpoolNext /\ UNCHANGED backupVars
  \/ Crash

Spec == Init /\ [][Next]_vars

-----------------------------------------------------------------------------
(* Properties *)

Holds(file, r) == file.form # "none" /\ file.record = r /\ file.data = "synced"

\* A staged record is never lost by a crash, a power failure, a failed step or
\* a receipt for another event: until the database has committed it or a
\* cleanup was told to remove it, its file is there, whenever the power fails.
\* It is there to be replayed, under its ready name, if the last fsync of
\* `write_stage` preceded the receipt; `stage_metadata` issues another receipt
\* for a file whose last fsync failed, and then it may be the partial name.
StagedSurvives ==
  \A r \in owed \ Proven : \A file \in AfterPowerLoss(r.id) :
    Holds(file, r) /\ (r \in firm => file.form = "ready")
=============================================================================
