--------------------------------- MODULE Spool ---------------------------------
(***************************************************************************)
(* The private recovery files of the manager: staging an event, reading a  *)
(* batch for replay, disposing of what the database has accepted, and      *)
(* previewed cleanup (`recovery/spool.rs`, `cleanup.rs`, `files.rs`,       *)
(* `names.rs`, `mod.rs`).                                                  *)
(*                                                                         *)
(* One thread owns the store, so an operation that stops part way, by an   *)
(* error or because the process is killed, leaves a prefix of its effects: *)
(* every prefix is an alternative of its action.  `files` is what the      *)
(* directory holds, `settled` what its last synchronization wrote.         *)
(*                                                                         *)
(* Abstractions.  A spool name is the identity of its event; the number of *)
(* a file stands for its device, inode, size and times.  Age, privacy and  *)
(* retired generations decide which files a cleanup may take: any set.     *)
(* Byte and file limits, counters and log files are left out.              *)
(***************************************************************************)
EXTENDS Backup

CONSTANTS
  MaxHandles,      \* MAX_HELD_HANDLES
  MaxFiles         \* bound on the files created

ASSUME SpoolAssumption == MaxHandles \in Nat /\ MaxFiles \in Nat

VARIABLES
  files,         \* identity |-> file, or NoFile
  settled,       \* the same, as of the last synchronization of the directory
  made,          \* files created so far
  entries,       \* replay entries held
  plan,          \* the cleanup plan held, if any
  \* history
  owed,          \* records a spool receipt was issued for and no cleanup removed
  firm           \* those of them whose ready name was synchronized when it was

spoolVars == <<files, settled, made, entries, plan, owed, firm>>

NoFile == [form |-> "none"]

\* What a file holds: nothing yet or a torn record, a written, a synchronized one.
File(form, number, record, data) ==
  [form |-> form, number |-> number, record |-> record, data |-> data]

Present(i) == files[i].form # "none"
Ready(i) == files[i].form = "ready" /\ files[i].data # "torn"

NoPlan == [made |-> FALSE, files |-> {}, current |-> FALSE]

Handles == Cardinality(entries) + Cardinality(plan.files)

\* `changing`: a plan made before is stale.
Outdated == [plan EXCEPT !.current = FALSE]

\* A receipt is issued.
Acknowledge(r, synchronized) ==
  /\ owed' = owed \cup {r}
  /\ firm' = IF synchronized THEN firm \cup {r} ELSE firm

-----------------------------------------------------------------------------
(* ArtifactStore::stage *)

\* A file of that identity exists: the receipt is for exactly this record, and
\* nothing is synchronized again.
StageAgain(r) ==
  /\ Ready(r.id) /\ files[r.id].record = r
  /\ Handles < MaxHandles
  /\ Acknowledge(r, settled[r.id] = files[r.id])
  /\ UNCHANGED <<files, settled, made, entries, plan>>

\* The record is written, synchronized and published under its ready name;
\* the attempt stops after any step.
StageNew(r) ==
  LET Put(form, data) == [files EXCEPT ![r.id] = File(form, made + 1, r, data)]
      Begun == Put("partial", "torn")
      Written == Put("partial", "written")
      Staged == Put("partial", "synced")
      Published == Put("ready", "synced")
  IN /\ ~Present(r.id) /\ made < MaxFiles
     /\ made' = made + 1
     /\ plan' = Outdated
     /\ \/ /\ Handles < MaxHandles
           /\ files' = Published /\ settled' = Published
           /\ Acknowledge(r, TRUE)
        \/ /\ files' \in {Begun, Written, Staged} /\ UNCHANGED settled
           /\ UNCHANGED <<owed, firm>>
        \/ /\ files' \in {Staged, Published} /\ settled' = Staged
           /\ files' = Published => Handles < MaxHandles
           /\ UNCHANGED <<owed, firm>>
        \/ /\ Handles < MaxHandles
           /\ files' = Published /\ settled' = Published
           /\ UNCHANGED <<owed, firm>>
     /\ UNCHANGED entries

-----------------------------------------------------------------------------
(* ArtifactStore::read_batch and confirm_committed *)

\* Records old enough are left out; a file that cannot be read fails the batch.
ReadBatch ==
  \E expired \in SUBSET {i \in Ids : files[i].form = "ready"} :
    LET batch == {i \in Ids : files[i].form = "ready"} \ expired IN
    /\ batch # {} /\ \A i \in batch : Ready(i)
    /\ Handles + Cardinality(batch) <= MaxHandles
    /\ entries' = entries \cup {files[i] : i \in batch}
    /\ UNCHANGED <<files, settled, made, plan, owed, firm>>

DropEntry(entry) ==
  /\ entry \in entries
  /\ entries' = entries \ {entry}
  /\ UNCHANGED <<files, settled, made, plan, owed, firm>>

\* Records the database has ever held: the coordinator can have a durable
\* receipt for any of them, whatever became of the database since.
Proven == UNION {c.events : c \in issued}

\* Mutant: the identity of the event is enough.
SameIdentity(entry, receipt) == entry.record.id = receipt.id

SameEvent(entry, receipt) == entry.record = receipt

\* The file is still the one the token was made for.
Unchanged(token) == files[token.record.id] = token

Without(token) == [files EXCEPT ![token.record.id] = NoFile]

\* Unlinked, then synchronized; either can fail, and the entry is consumed.
Confirm(entry, receipt) ==
  /\ entry \in entries /\ receipt \in Proven
  /\ entry.record.id = receipt.id
  /\ entries' = entries \ {entry}
  /\ IF SameEvent(entry, receipt) /\ Unchanged(entry)
     THEN /\ plan' = Outdated
          /\ \/ files' = Without(entry) /\ settled' = Without(entry)
             \/ files' = Without(entry) /\ UNCHANGED settled
             \/ UNCHANGED <<files, settled>>
     ELSE UNCHANGED <<files, settled, plan>>
  /\ UNCHANGED <<made, owed, firm>>

-----------------------------------------------------------------------------
(* ArtifactStore::preview_cleanup and apply_cleanup *)

Preview ==
  /\ ~plan.made
  /\ \E eligible \in SUBSET {i \in Ids : Present(i)} :
       /\ Handles + Cardinality(eligible) <= MaxHandles
       /\ plan' = [made |-> TRUE, files |-> {files[i] : i \in eligible}, current |-> TRUE]
  /\ UNCHANGED <<files, settled, made, entries, owed, firm>>

DropPlan ==
  /\ plan.made /\ plan' = NoPlan
  /\ UNCHANGED <<files, settled, made, entries, owed, firm>>

Removed(tokens) ==
  [i \in Ids |-> IF \E token \in tokens : token.record.id = i THEN NoFile ELSE files[i]]

\* The last removal is not synchronized, those before it are.
SettledBefore(gone) ==
  IF Cardinality(gone) = 1 THEN {settled} ELSE {Removed(gone \ {last}) : last \in gone}

\* One file after the other, each removal synchronized; a failure ends it with
\* what has been removed.
ApplyCleanup ==
  /\ plan.made
  /\ IF plan.current /\ \A token \in plan.files : Unchanged(token)
     THEN \E gone \in SUBSET plan.files :
            /\ files' = Removed(gone)
            /\ settled' \in IF gone = {} THEN {settled}
                           ELSE {files'} \cup SettledBefore(gone)
            /\ owed' = owed \ {token.record : token \in gone}
            /\ firm' = firm \ {token.record : token \in gone}
     ELSE UNCHANGED <<files, settled, owed, firm>>
  /\ plan' = NoPlan
  /\ UNCHANGED <<made, entries>>

-----------------------------------------------------------------------------

SpoolInit ==
  /\ files = [i \in Ids |-> NoFile] /\ settled = files
  /\ made = 0 /\ entries = {} /\ plan = NoPlan /\ owed = {} /\ firm = {}

\* A file whose data no fsync has written may be torn by a power failure.
Torn(file) ==
  IF file.form # "none" /\ file.data = "written"
  THEN [file EXCEPT !.data = "torn"] ELSE file

\* What a power failure may leave under an identity.
AfterPowerLoss(i) == {files[i], settled[i], Torn(files[i]), Torn(settled[i])}

PowerLossOfSpool ==
  /\ files' \in [Ids -> UNION {AfterPowerLoss(i) : i \in Ids}]
  /\ \A i \in Ids : files'[i] \in AfterPowerLoss(i)
  /\ settled' = files'

\* The process is killed, which leaves the files as they are, or the power fails;
\* tokens, plans and receipts end with the process.
SpoolCrash ==
  /\ UNCHANGED <<files, settled>> \/ PowerLossOfSpool
  /\ entries' = {} /\ plan' = NoPlan
  /\ UNCHANGED <<made, owed, firm>>

SpoolNext ==
  \/ \E r \in Records : StageAgain(r) \/ StageNew(r)
  \/ ReadBatch
  \/ \E entry \in entries : DropEntry(entry) \/ \E r \in Proven : Confirm(entry, r)
  \/ Preview \/ DropPlan \/ ApplyCleanup
=============================================================================
