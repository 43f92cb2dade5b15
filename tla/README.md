# Harbormaster: specifications, model checking and proofs

Harbormaster's manager (`crates/harbormaster`) launches coding agents and keeps a
durable account of what they are doing. Adapters stage observations as files,
the manager admits them into bounded volatile queues, reduces each one against
the durable state of its run and commits the result in SQLite; clients ask it to
launch, attach to and end runs. This directory models that system in TLA+. All
source paths below are relative to `src/crates/harbormaster/src/`.

## 1. Inventory

| Component | State | Operations | What is hard | What makes it correct |
|---|---|---|---|---|
| Lifecycle reducer (`domain/`) | none (pure) | validate, reduce, reconcile | late, repeated, contradicting callbacks | first outcome wins, approvals stick, nothing certain is shown once certainty is lost, its effects pass the storage boundary |
| Durable store (`storage/`) | revision, loss counter, producers, facts, projections, attention, outbox, tombstones | Context, Apply, Reconcile, RetireProducer, maintenance, review, delivery, reopening | rows of several tables that must agree over long histories; cleanup of evidence that still protects something | one observer per run, no stale freshness, one outcome per turn, sequence logs without gap |
| Database worker (`storage/worker*`) | channel, permits, stop flag | submit, execute, answer, stop | tickets dropped before the answer, stop between submission and execution | bounded requests, every ticket learns something |
| Coordinator (`coordinator/`) | the job, retained requests, receipts | commit job, reconciliation job, retain, resume, confirm | a context stale when used, lost replies, crashes between commit and confirmation | serializability, no loss, no double application |
| Admission (`ingestion/`) | registrations, receipts, round-robin queue, counters | register, connect, admit, pop, invalidate, install | stale sessions, replay, full queues | freeze before retirement, fairness, no event admitted twice |
| Spool and cleanup (`recovery/`) | files in one directory, held handles, a plan | stage, read, confirm, preview and apply cleanup | a crash between any two steps, a directory that changed since the preview | nothing acknowledged is lost before it is committed |
| Backup and restore (`storage/backup.rs`, `paths.rs`, `engine.rs`) | four file names and a log | open, migrate, back up, restore, recover | renames that are not durable yet, failures half way, a log beside the wrong file | the committed content is always recognizable, revisions never reused |
| Managed runs (`manager/`, `runtime/`) | run row, control row, handoff files, systemd units, tmux pane, terminals | launch, retry, attach, end | external effects between transactions, lost answers, late requests, crashes | one harness per run, signals only where intended, stopped is final |
| Manager server (`manager/server*`, `ipc/`) | sockets, sessions, work queue, the database's lock | accept, read, execute, reply, stop, drain | a reply that comes after its deadline, a stop before the work is done | what a client is told is final, writes over what it has seen, stops end |
| Catalog, protocol, authorizer, CLI | rows, none | single transactions, parsing | none over time | not modelled, see section 8 |

The parts interact as follows. An adapter writes an event into the spool. A
`CommitJob` borrows the admission registry exclusively, asks the database worker
for the event's context (`Request::Context`), runs the reducer on it, freezes the
registry if the effect ends the generation, and submits `Apply` or
`RetireProducer` with the revision it saw. The worker is one thread that runs
requests in submission order, each in one immediate transaction. The receipt of
a commit lets the manager delete the spool file. A `ReconciliationJob` freezes
the registry first, submits `Reconcile`, and installs the generation the
database returns. Clients reach the manager through a private socket: a reactor
thread keeps their sessions, one worker thread executes the accepted work
(`manager/operations.rs`), and every database request of an operation is given
up after five seconds but executed all the same. The worker drives systemd, tmux
and the compositor between its transactions.

## 2. Modules

| Module | Models | Composes |
|---|---|---|
| `Reducer` | `domain/` as operators: `Validate`, `Reduce`, `ReconciledProjection`; the shape check of `storage/reducer_validation.rs` | |
| `RunLifecycle` | one run driven by the reducer alone, from every consistent view | `Reducer` |
| `Store` | the tables and the transactions on them; an outcome operator per transaction returns the first check that fails, an effect operator the new rows | `Reducer` |
| `GenerationLog` | abstract: each producer has one open or closed log per generation, written in order, closed once, renewed only under a fresh generation | refined by `Store` |
| `Coordinator` | jobs, worker, spool and registry around the store, with stops and crashes | `Store` |
| `Admission` | the registry of `ingestion/` in full: registrations, sessions, receipts, queue and ready ring | |
| `Launch` | managed runs: the thread's operations step by step, the rows they save, systemd, tmux, harnesses and terminals | |
| `Server` | clients, sessions, reactor, worker and database of successive managers of one user | |
| `RevisionRegister` | abstract: what clients are promised, one register of revisions whose calls take effect at one instant each | refined by `Server` |
| `Backup` | the files of the database and the engine that opens, backs up, restores and recovers it | |
| `Spool` | the recovery files: staging, replay, disposal, cleanup | `Backup` (receipts come from its contents) |
| `Durability` | both stores of the manager running concurrently and crashing together | `Backup`, `Spool` |
| `StoreProofs`, `RunLifecycleProofs`, `AdmissionProofs`, `LaunchProofs`, `ServerProofs`, `DurabilityProofs` | theorems | the module named |
| `TurnProofs` | more theorems on `Store` | `StoreProofs` |
| `CoordinatorProofs` | theorems on `Coordinator`, and its refinement of `Store` | `Coordinator`, `TurnProofs` |
| `MC*` | instances for TLC | |

**Store and Coordinator.** `producers`, `facts`, `projections`, `attention`,
`outbox`, `tombstones`, `revision` and `discarded` are the tables and the
`metadata` row. A fact keeps the whole request that wrote it, since the code
compares the stored `write_set` bytes. `issued` counts the generations drawn: a
generation is the number of UUIDs drawn before it. `queue` is the worker's
channel, each element with whether a ticket still awaits it. `registry` keeps of
a registration its generation, run, blocked flag and backlog. `job`, `pending`
and `receipt` are the values a caller can hold: `CommitJob` or
`ReconciliationJob`, `PendingCommit`, `DurableReceipt`. Actions are one per
transaction in `Store` and one per step in `Coordinator`:
`Submit`/`SubmitRefused` are `Operation::poll` before the ticket,
`PollUnknown`/`Receive` after it, `Execute` one turn of `worker::serve`,
`Retain`, `Drop`, `TakeCommitted` and `Confirm` what a caller may do with a job.
A job holds `&mut Registry`, so `Admit`, `Pop` and `Block`, what peers and
consumers do to the registry between jobs, require that there is none.
`Disposition` and `DecideContext` are `CommitJob::context`; the freeze is inside
the step, as in the code.

**Admission.** Each call on the registry is one action, since all of them borrow
it. `sessions` are the `EventSession`s connections hold; their scope pointer is
the flag `bound`, cleared when the scope is replaced. `passed` is a history
variable. Refusals that leave no trace are no action; a refused `admit` always
counts in `rejected`.

**Launch.** `op` is the program counter of the one worker thread: the next
external effect, the task, and the server and `ControlState` read before.
`runs`, `recorded` and `controls` are the reservation, the identified server and
the control row; `late` are database requests given up and not yet executed.
`Submit` either executes and answers a request or gives it up, which ends the
operation; `Abandon` is any other error. systemd and tmux are an environment:
`jobs`, `asked` and `opening` are requests they have accepted and not served.
A server, its invocation and its only pane are named by the number of the
unit's start, so the ownership checks (`runtime/ownership.rs`) compare numbers.
systemd answers a query after every start it accepted before (`Answers`); tmux
may serve a request late. `Backup`/`Restore` bring back rows that know the
reservation only, the worst case for a runtime that is already running.

**Server.** A request is a number in the order of sending; `requests[r]` keeps
its manager, the revision its client had seen, what the client was told and
(`after`) which requests were settled for clients when it was sent. `reactor`,
`worker` and `database` are the three threads of each manager; `lock` and
`sockets` are shared by all managers of the user. `Dropped` ends sessions, which
never stops their work. `Answered` is what the worker does with an answer:
compare, write, read the revision, reply. `Register` maps this to
`RevisionRegister`: a request is a call, and its effect is `Open` while it waits
to be read, is queued, is with the worker or is a write with the database
(`Effective`). A change takes effect when it is written, also if the worker has
given it up; anything else when its last query is executed and its client still
waits. The effect is known from then on from the worker (`Written`), the reply
or the answer. The abstract register also orders: a call takes effect only when
every call some client had been answered about, when it was sent, no longer can.

**Backup, Spool, Durability.** `names` is what the directory shows, `durable`
what its last synchronization wrote; `Namespace` is a create, rename or remove
with its fsync, which may fail before or after its effect. A file is absent,
partial, corrupt or a database: its revision, the events it accepted, whether a
producer is active, whether its schema is current, older or of a version whose
generations the migration retires ("legacy", below 3), and whether its pages are
synchronized. `wal` is the committed content the main file lacks.
`engine` holds the step, the purpose and the revision drawn for a restore. A
crash is the process being killed, which leaves the files as they are, or a power
failure, which may fall back to `durable` and tears what was not synchronized. The durable name of the main file's inode is taken to be
`db` when SQLite writes it. `files`/`settled` are the same pair for the spool;
`entries` and `plan` are the tokens that hold open handles. Each spool operation
is one action with every prefix of its effects as an alternative: one thread
owns the store. A spool receipt may be confirmed for any event some committed
content held (`Proven`): a `DurableReceipt` outlives a restore. `owed` are the
records a spool receipt was issued for, `firm` those of them whose ready name had
been synchronized by then: `stage_metadata` also answers for a file that it finds
ready and does not synchronize again. `AfterPowerLoss` is what a power failure may
leave under an identity, file by file.

Abstractions: identities and payloads are model values; the harness kind is
compared wherever the run is and is folded into it; ages are left out, so
maintenance, expiry and cleanup may choose any subset of rows or files old
enough; a UUID is never drawn twice. SQLite transactions are atomic and durable.
Deadlines may pass at any time.

## 3. Runs

| Run | Instance | States | Shows |
|---|---|---|---|
| RunLifecycle | 2 turns, every policy of a small family, every evidence | 1.9 k | the reducer's decision table |
| StoreTurns | 1 producer, 2 turns, 3 event ids, sequences from 1 or 3 to 3, 2 generations | 255 k | ended turns stay ended; refinement of `GenerationLog` |
| StoreObservers | 2 producers, 1 run, sequences from 1 or 2 to 2, 3 generations, revision to 5, outbox 2/1, tombstones 1 | 117 k | one observer, retirement, freshness, reviews, limits |
| Admission | 2 producers, 3 generations, 3 event ids, sequences to 3, queue 3/2, receipts 3/2, 4 bytes, 2 sessions | 422 k | fair ring, exact counters, no event queued twice or across generations |
| CoordinatorReplay | 1 producer, 3 envelopes, sequences from 1 or 2 to 2, 2 generations, 1 permit, 1 crash, cleanup | 907 k | serializability, order, durability before confirmation |
| CoordinatorFreeze | 1 ending event, backlog 1, 2 permits, 1 stop, 1 crash | 851 k | freezing, loss counting, old replay |
| CoordinatorLive | 1 event, 1 stop, 2 permits, fairness | 80 k | every polled job ends |
| Launch | 2 tasks, 2 servers, 2 terminals, 2 unserved starts, 1 late request, 1 crash | 1.09 M | one harness, intended signals, nothing alive once stopped, terminals tracked, writers acknowledged |
| Durability | 2 event ids with 2 contents, revision to 6, 3 faults, schemas of every age, 2 handles, 2 files | 864 k | committed content, backup and staged records survive; revisions are not reused |
| Server | 3 requests, 2 managers, 2 connections, queue 1, 2 outstanding, 1 crash, fairness | 391 k | listing settles, writes over the revision seen, refinement of `RevisionRegister`, stops drain |
| CoordinatorRecount | as Freeze, with cleanup of facts | violated | finding 1 |
| CoordinatorStuck | reconciliations dropped | violated | finding 2 |

Bounds. Two turns are what a late callback needs: the turn it is about and the
turn that superseded it. Three event ids let two outcomes and a contradicting
third event meet. Two generations are an old one and its replacement; three let
the second producer take over and lose the run again. A registration names the
first number of its generation (`FirstSequences`): 1 or the last one, so that a
generation may be exhausted by its first event. `MaxRevision` only cuts
histories off: it is also the code's `u64::MAX`, so refusals at the limit are
reached. `MaxOutstanding` 1 makes the pool full whenever a dropped job's
request still runs; 2 lets a resumed copy queue behind it. `MaxRetries` 1
stands for 3: one refresh and one refusal are both reached. One producer
suffices in the coordinator since jobs are serialized by the registry borrow
and the store run has two. In `Admission` each limit of queue and receipts
binds before the others, so every refusal that leaves a trace is reached;
frames of two lengths make the byte counter differ from the receipt counter;
two sessions let a stale one be used beside its successor, and sessions change
nothing but `sessions`. `ReuseEventIds` is FALSE in the two store runs: a
producer that reuses an event id after its fact was pruned makes
`outcomes.rs:67` report corruption, which the protocol forbids the producer and
no durable row prevents.

In `Launch` two servers are the one a run had and the one a second start brings
up, two terminals the one on record and one too many, two unserved starts a
retry that overtakes the first. `OneRunInDepth` explores one run with every
fault, and two runs (for `WritersAcknowledged`) without terminals and crashes:
what runs share is the database and the thread. In `Durability` three faults let
a failed step be followed by a failed undo and then by a power failure, and
revision 6 leaves room for commits after a restore after a migration; two events
are what a cleanup that fails between two deletions needs, and two contents under
one identity what a receipt for another event needs. `OneInDepth` explores the
database alone (`DatabaseInDepth`: contents committed and faults together up to
7, with 3 faults up to 4 contents), and both stores (`StoresTogether`: up to 3
together, revisions to 2, because the stores share only the crash and the
receipts; two events at once only while the database does nothing).

In `Server` three requests fill a queue of one behind the one that executes, two
managers are enough for work and late database requests of an old one under a
new one. `ThirdRequestOfFirst` sends the third request to the first manager only,
which keeps the liveness check small; `ListSettles` and `WrittenOverSeen` were also
checked without it (1.3 M states).

Deadlock is not checked in the bounded runs: they stop when their counters are
exhausted or when nothing is left to do, as the program does.

Every property has a mutant, an operator next to the one it replaces that
changes it the way a plausible bug would.

## 4. Fairness

`CoordinatorLive` assumes weak fairness of `PollJob`, the caller's polling of the
job it holds (docs: "callers schedule subsequent polls"), and of the worker
thread (`Execute \/ EndWorker`): a live thread takes the next request and sees
the stop flag within one poll interval. Nothing obliges anyone to start, resume,
drop or retain a job, to restart a worker, or to stop writing: other requests
may make every context stale, and the bounded refresh is what ends the job then.
There is no fairness on staging, admission, crashes, stops or maintenance.

`Server` assumes weak fairness, per manager, of `Take`, `GiveUp`, `EndWorker`,
`CloseDatabase` and `EndReactor`: threads go on and deadlines pass (five seconds
for an answer of the database, five seconds for a stop). Nothing is asked of
clients, signals, sessions or the speed of the database: `StopDrains` holds even
if no database request is ever executed, because each is given up in time.

## 5. Findings

1. `CoordinatorRecount`: a loss can be counted twice. The count rides in a retained
   `Apply`; if the first copy commits unseen and cleanup removes its fact before
   the second runs, the second ends as a `RetireProducer` with the same count.
   `docs/M1-10-STORAGE.md:20-29` says exact retries do not count twice. It takes
   a fact that is past its retention, or a table at `MAX_FACTS`, between the two
   copies; `CoordinatorFreeze` shows the count is exact while no fact is pruned.
2. `CoordinatorStuck`: a reconciliation job dropped after submission can commit
   unseen. The registry then refuses the durable generation, and the database
   the registry's. `docs/M1-10-COORDINATION.md:37-39` tells the manager to
   reconcile current durable state; only a new registry can.

Observations met while modelling, which no document contradicts:

- A harness that exits before its pane is first recorded leaves a run that can
  never be ended: `End` needs an owned pane or a recorded one. It keeps counting
  as another writer of its project.
- A crash or a failed first write while a new database is created leaves a file
  too short for a header, which every later start and `recover_backup` refuse.
- A restore refused at its checkpoint leaves the staged file behind: later
  backups and restores and the next start are refused until it is removed.
- A failure to remove the rollback is reported although the restored database
  serves. After an undone installation whose directory was not synchronized,
  the main file's durable name is still the rollback's; a power failure then
  separates it from its log.
- A file staged by an attempt whose last directory fsync failed gets a receipt
  on the next attempt without another fsync (`spool.rs:85-98`). A power failure
  can then leave the record under its partial name, which is neither replayed
  nor staged again. `StagedSurvives` therefore asks for the ready name only after a
  receipt that followed the last fsync (`firm`), and for one of the two names
  after any other.
- One unreadable spool file fails the whole batch of a replay.
- After an executed operation the query for the new revision can fail, which
  turns the reply of a change that was made into an error.
- A killed manager leaves its sockets, and the next start fails until they are
  removed. A stop whose reply cannot be written does not stop the manager.

## 6. Proofs

All theorems hold for every value of the constants under the named assumptions
of the modules (`StoreAssumption`, `InputAssumption`, `NoValueAssumption`,
`LifecycleAssumption`, `CoordinatorAssumption`, `AdmissionAssumption`,
`LaunchAssumption`, `ServerAssumption`, `BackupAssumption`, `SpoolAssumption`:
limits are naturals, inputs have their types, NoValue is none of the values it
stands in for; the producers an admission registry may meet are finitely many,
since their ids are of bounded length). Every safety property of a passing run is
proved; what a theorem needs beyond these assumptions is said below.

`RunLifecycleProofs` proves all that the run checks of one run and its reducer:
`EffectsAdmissible`, `NeverSelfRejects`, `OutcomeKept`, `FirstOutcomeWins` and
`ApprovalSticky`. `LifecycleInv` says that the row names the turn it shows and, as
long as the producer is trusted, that what is shown and what protects that turn
agree: a turn without a tombstone shows no end, a turn with one shows that end,
and one whose tombstone lost its outcome shows an end or nothing certain.
Without this agreement `Validate` could refuse the reducer's own rows
(`NeverSelfRejects`), and a late callback could raise an outcome again. The three
action properties follow from one lemma about an observed event
(`NothingTakenBack`), split along the branches of `Reduce`.

`StoreProofs` proves that `Spec` of `Store` keeps `TypeOK`, `OneObserverPerRun`,
`CurrentTurnInScope`, `FreshMeansObserved` and `RetirementNeverRefused`.

- `TypeCorrect` is inductive by itself once the reducer is known to return typed
  effects; the lemmas about `Reduce` split along its branches.
- The other four rest on one inductive invariant: `TypeOK` with
  `OneObserverPerRun`, `CurrentTurnInScope`, `FreshMeansObserved`,
  `ActiveIsReconciled` (an active producer is reconciled) and
  `RowsNameTheirRun` (the row of a run, and its current turn, name that run).
  They need each other: a retirement makes the run stale only if its row is in
  the scope of the retired producer, and only a single observer's retirement
  may make it stale.
- `RetirementAvailable` follows from the scope of the current turn without a
  step of its own: a retirement conflicts when `CurrentTurnInScope` fails, so
  that the run checks the former for both.

`StoreImplementsLog` proves that `Store` implements `GenerationLog`: `Init` maps to its
initial state; an accepted event is `Append`, a retirement, cleanup or reopening
is `Close` of the retired producers (a stutter if there are none), a
reconciliation is `Renew`, and everything else leaves the log alone.

`TurnProofs` proves the turn properties of `Store`: `EndedTurnsProtected`,
`OneOutcomePerTurn`, `EndedTurnsAskNothing` and `EvidenceConsistent`, from
`TurnInv`; and `HumanStateKept` and `OutcomeRevisionUnique`.

- `TurnEffects` is what the induction needs of the reducer: an outcome is raised
  only together with the tombstone of its turn, a prompt only for a turn without
  one, and a producer that stays trusted leaves its run as it was or showing the
  turn of its event. `ReduceEffects` proves it of `Reduce` for every view and
  policy.
- `TurnInv` is `ScopeInv` with the three properties and two more facts: no row is
  of a generation still to be drawn (`Drawn`; else a reconciliation could open a
  generation in which turns have already ended), and the row of an observed run
  shows an end iff the tombstone of its turn is there (`RowsTell`). Cleanup keeps
  both because it retires the generation of every tombstone it removes.
- `OutcomeRevisionUnique` holds under `~ReuseEventIds`: the invariant adds that a
  delivery always has its attention row.

`CoordinatorProofs` proves all that the runs check of `Coordinator` but liveness, in
layers:

- `CallInv`: at most one request is awaited, the one the job holds a ticket for,
  and a reply or a result that says "committed" is right: the event has been
  accepted. `ConfirmedDurable` follows, since a receipt is only taken from such
  a job and survives only as long as the process.
- `OrderInv`: the numbers accepted under a producer's generation run from one that
  a registration may name to the one before the number its row waits for, and
  generations are drawn afresh. `AcceptedInOrder` follows,
  whichever requests are executed again.
- `SerialInv`: every request still held, retained or queued, including those of
  dropped jobs, was computed from the state of the revision it expects. This
  is an invariant because a change of the state moves the revision
  (`RevisionMoves`), so what was computed before no longer claims the present.
  What the worker then accepts is a step of `Store` (`CommitsAreSerializable`),
  and `Coordinator` implements `Store` (`CoordinatorRefinesStore`), so that what
  `StoreProofs` and `TurnProofs` show holds of the store as jobs, retries, replays
  and crashes drive it: `CoordinatorKeepsStore`, `CoordinatorKeepsTurns`,
  `CoordinatorKeepsReviews`, and, through `Store`, `CoordinatorImplementsLog`. These are
  proved for `LostCounts = Nat` and `ReuseEventIds`, that is for the serial client
  that may report any loss and reuse the id of a pruned event; `CoordSpec`
  itself depends on neither constant.
- `ClosedInv`: the generation a request may end is closed in the registry, if it is
  installed there, and older than any generation an unread reply would install.
  The second part is why a request left behind by a dropped job can never meet
  its generation open again. `RetiringMeansFrozen` follows; `OldReplayHarmless`
  needs only that commit jobs invalidate by the generation of their event.
- `Balanced` is the book-keeping behind `DiscardNeverOvercounted`: what registries
  have discarded is at least what the store has counted, plus what the job owes,
  plus what the retained commit owes, plus the count in any one request that
  nobody holds any more. Of those left behind only one need be added, however
  many are queued: executing one moves the revision, so that no other request
  made before it is executed as it stands (`NothingCountable`). A commit owes
  nothing once its write is stored or its generation is closed (`Settled`), and
  this lasts (`ClosedStays`, `WrittenStays`): that is why a copy of a retained
  request that commits unseen is not counted again. `Fits` adds what a job may
  conclude from a reply: a request refused as stale is one that will never be
  executed (`Overtaken`), so that asking anew does not leave the old count
  behind. The theorem, `LossesAreNotOvercounted`, assumes `~CleanupFacts`, which
  only `WrittenStays` uses: with a cleanup that removes the stored write the
  property fails, which is finding 1.

`AdmissionProofs` proves `BacklogIsLatestReceipts` from `AdmissionInv`: types; a
bound session speaks for the generation that is installed; and, per producer,
the numbers of the receipts are the last ones before the checkpoint and those of
the backlog the last of these. An exhausted producer has its checkpoint past the
largest number (`Past`), so that the last number fits in as well.
It also proves `RingIsBacklog`, `ServedInTurn` and `CountersExact`, from `RegistryInv`,
which adds two parts to `AdmissionInv`:

- `RingInv`: the ring names every producer with a backlog, once, and the turns a
  producer has been passed over and its position in the ring are together at
  most the number of producers. A pop raises the one and lowers the other by one
  for all who wait; whoever is served or joins goes to the end, with no turns
  waited for, and the ring is never longer than there are producers.
- `ReceiptInv`: the counters are the sums of what the producers hold, and within
  their limits. What the sums need (adding to or replacing one term, monotony,
  the sum of zeroes) is proved by induction over finite sets, as an instance of
  well-founded induction on the subset relation (`WFMin`); sums are the folds of
  the community modules, which unfold into a recursive function.

`LaunchProofs` proves `HandoffOnce`, `SignalsIntended` and `WritersAcknowledged`.

- `HandoffInv`: what was executed is claimed. Only `create` and `worker` touch
  the handoff, so this needs nothing of the rest.
- `SignalInv` ties the thread's copy of the control row to the row: while it is
  about to signal, what it holds is what is saved, because late requests are
  executed before any answer (`InOrder`) and the row only moves forward
  (`SaveAccepted`).
- `WritersInv` ties a reservation that is still on its way, answered or late, to
  the check that allowed it: without it a reservation given up could commit
  after another one.

`LaunchProofs` also proves `StoppedMeansGone` and `TerminalTracked`, from `EndInv`:

- `PanesConsistent`: a worker lives with its server, and there is one harness at
  most, which has claimed the handoff.
- `Fits` says what may be on record of a run given what there is: nothing is
  left of a stopped one, whatever lives is in the pane on record, and the
  terminal on record is the only one. It must hold of a save given up and not
  yet executed as well (it may commit at any time), and of the state the thread
  is about to save.
- `Current` bounds the thread's copy: it differs from the row by an unsaved
  invocation at most, and after a signal or an end nothing more will start.
- `Stable` is what makes the steps of systemd, tmux and the processes harmless:
  they can take away what `Fits` allows, never add to it.

`ServerProofs` proves `WrittenOverSeen`, `ListSettles`, `ImplementsRevisionRegister`
and `ExclusiveChanges`.

- `OwnInv` relates lock, sockets, reactors and sessions: the lock is held by the
  only manager that is neither off nor over, and sessions belong to it.
- `QueryInv` relates the worker, its queue and the database: a request is in at
  most one of them, the query the worker waits for is the last the database
  holds, and once compared the revision cannot change before the write, since
  everything given up earlier is ahead of the comparison.
- `SettleInv` says of each request and everything settled before it was sent
  that the older one is ahead of it in every queue, or gone. It is what makes
  the induction work for `ListSettles`, which alone says nothing of requests in
  flight.
- `CallInv` adds what the refinement needs: a worker that has compared has the
  database for itself, and the revision it reads in the end is the one it
  compared, or the next one after its own write (`Confirmed`); only changes are
  written; what has succeeded is nowhere any more (`Finished`). The steps then
  fall into four kinds. Most only take something away from a call (`Fading`:
  it fails, or can no longer take effect, or its effect is forgotten), which is
  `Lose`; `Send` is `Invoke`; the flush of a good reply is `Succeed`; and
  `RegisterExecute` splits the database's step into the requests that take
  effect (`TakeEffect`, heard or not) and those that do not. That a call takes
  effect in order is `HeadSettled`, from `SettleInv`.
- `ExclusiveChanges`, of which no run is needed, follows from the register alone:
  `Exclusive`, an invariant of `RevisionRegister`, is carried over the refinement.

`DurabilityProofs` proves `RevisionsNotReused`, `DatabaseKept`, `BackupWhole` and
`StagedSurvives`.

- `BackupInv` has one part per kind of fact. `Honest` is about a directory, and
  holds of what it shows and of what a power failure would leave: the content in
  force is in the log, in the main file without a log, or set aside; with
  nothing set aside, an opened database is the one in force. `ServesLive`,
  `StepsFit` and `StageFits` say at each step of the engine what a failure of
  the next one may rely on, for instance that what is set aside is the content
  in force from the first rename until the restored copy is loaded.
  `RevisionsGrow` says that the content in force is the latest and that a
  restore's revision is above all others until it is used.
- `SpoolInv` says that what is owed and unproven is synchronized in the
  directory and in what a power failure would leave of it (`Kept`), under its ready
  name in both if it is in `firm` (`Lasting`), and that a ready file is synchronized
  under one of its names (`Published`); without the last part staging the same
  record again would acknowledge what was never on disk. A removal keeps all
  three for whatever it does not remove, wherever it stops (`RemovalStep`).

Only model-checked: liveness (`JobsEnd`, `StopDrains`), which is beyond the prover
because it needs ENABLED. What no proof shows is that the properties could fail:
the mutants do, and the two runs that expect a violation.

## 7. Plan

Done: the core (`Reducer`, `Store`, `Coordinator`, `Admission`), managed runs
(`Launch`), the database files and the spool (`Backup`, `Spool`, `Durability`),
the server (`Server`), and the proofs above, up to the refinement of `Store` by
`Coordinator` and of `RevisionRegister` by `Server`, the loss count, the ring and the
life of a run. Left: abstract specifications of `Launch` and `Durability` that they
are proved to implement, as `GenerationLog` is one of `Store`.

## 8. Not modelled

Parsing and framing (`protocol/`, `ipc/framing.rs`), path, permission and peer
checks, the recognition of schemas and the consistency check of rows, the log
ring and counters of `recovery/logs.rs`, the matching of compositor windows, the
catalog's single-transaction writes (they are `OtherWrite` in `Store`), the
control authorizer (a pure predicate), the command line, the QML panel and the
Python tooling: they keep no state over time, or only check the shape of data.

Within modelled parts: the legacy `Register`, `Commit` and `MarkReviewed`
requests, which only tests submit; `MAX_PRODUCERS` and the run ceiling of the
store; the age of rows and files; byte and file budgets of the spool, which only
refuse; legacy runs without a nonce; listing pages and their cutting to a frame;
focusing a window that is open, and the read-only actions; commands of systemd
and tmux beyond their effect; startup that gives up after five seconds while its
worker thread still opens the database (that thread then stops by itself, which
is `Stop` in `Backup`). Clients wait for their answer: one that goes away is a
session that ends. `Restore` is not among the coordinator's other requests: it
deliberately goes back to an older state, so an event confirmed after the backup
is gone from it. A job is taken to be over before a new worker opens the
database: a job borrows its worker.
