---------------------------- MODULE Coordinator ----------------------------
(***************************************************************************)
(* The manager's coordination of spool, admission registry and database    *)
(* worker (`coordinator/`, `storage/worker.rs`): one commit or             *)
(* reconciliation job at a time borrows the registry, asks the worker for  *)
(* a context, reduces the event against it and submits the write under the *)
(* revision it saw.  Between those steps other requests may commit, the    *)
(* worker may stop without answering, the job may be dropped while its     *)
(* request still runs, retained and resumed later, and the manager may     *)
(* crash; the spool and the database survive.                              *)
(***************************************************************************)
EXTENDS Store, Sequences

CONSTANTS
  Envelopes,        \* what adapters may stage: [seq, id, payload]
  MaxOutstanding,   \* storage::worker::MAX_OUTSTANDING permits
  MaxRetries,       \* context refreshes after a stale revision: 3
  MaxQueued,        \* bound on one producer's admitted backlog
  MaxSpool,         \* bound on staged entries
  CleanupFacts,     \* whether a cleanup finds facts old enough to remove
  MaxStops,         \* bound on worker stops
  MaxCrashes        \* bound on manager crashes

ASSUME CoordinatorAssumption ==
  /\ Envelopes \subseteq [seq : Seqs, id : EventIds, payload : Payloads]
  /\ NoValue # "Committed"
  /\ MaxOutstanding \in Nat \ {0} /\ MaxRetries \in Nat
  /\ CleanupFacts \in BOOLEAN
  /\ MaxQueued \in Nat /\ MaxSpool \in Nat /\ MaxStops \in Nat /\ MaxCrashes \in Nat

VARIABLES
  spool,      \* staged events, durable files
  worker,     \* "Up", "Stopping" once told to stop, "Down" once the thread ended
  queue,      \* requests sent to the worker: [request, awaited]
  registry,   \* producer |-> [generation, run, blocked, queued], or NoValue
  job,        \* the job borrowing the registry, or NoJob
  pending,    \* the retained PendingCommit, or NoValue
  receipt,    \* the DurableReceipt in hand, or NoValue
  accepted,   \* history: events the database ever accepted
  lostEver,   \* history: queue entries ever discarded by a registry
  stops, crashes

managerVars == <<registry, job, pending, receipt>>
historyVars == <<accepted, lostEver>>
vars == <<storeVars, spool, worker, queue, managerVars, historyVars, stops, crashes>>

\* The registry is free: no CommitJob or ReconciliationJob borrows it.
NoJob == [kind |-> "None"]

CoordInit ==
  /\ Init
  /\ spool = {} /\ worker = "Up" /\ queue = <<>>
  /\ registry = [p \in Producers |-> NoValue]
  /\ job = NoJob /\ pending = NoValue /\ receipt = NoValue
  /\ accepted = {} /\ lostEver = 0
  /\ stops = 0 /\ crashes = 0

-----------------------------------------------------------------------------
(* The registry, as far as jobs touch it (`ingestion/registry.rs`;         *)
(* Admission.tla models it in full)                                        *)

Entry(g, r) == [generation |-> g, run |-> r, blocked |-> FALSE, queued |-> 0]

\* invalidate_generation touches only the generation it names.
Names(p, g) == registry[p] # NoValue /\ registry[p].generation = g

Backlog(p, g) == IF Names(p, g) THEN registry[p].queued ELSE 0

\* Mutants: the queue is dropped without blocking the producer; the queue is
\* counted as dropped but kept.
InvalidateQueue(p, g) ==
  /\ registry' = IF Names(p, g) THEN [registry EXCEPT ![p] = [@ EXCEPT !.queued = 0]]
                 ELSE registry
  /\ lostEver' = lostEver + Backlog(p, g)
InvalidateScope(p, g) ==
  /\ registry' = IF Names(p, g) THEN [registry EXCEPT ![p] = [@ EXCEPT !.blocked = TRUE]]
                 ELSE registry
  /\ UNCHANGED lostEver

Invalidate(p, g) ==
  /\ registry' = IF Names(p, g)
                 THEN [registry EXCEPT ![p] = [@ EXCEPT !.blocked = TRUE, !.queued = 0]]
                 ELSE registry
  /\ lostEver' = lostEver + Backlog(p, g)

\* CommitJob::freeze: the job also remembers how much it discarded.
Frozen(j) == [j EXCEPT !.discarded = @ + Backlog(j.event.producer, j.event.generation)]

\* Mutant: whatever the producer has installed now is frozen.
FreezeProducer(j) ==
  IF registry[j.event.producer] = NoValue THEN UNCHANGED <<registry, lostEver>>
  ELSE Invalidate(j.event.producer, registry[j.event.producer].generation)

Freeze(j) == Invalidate(j.event.producer, j.event.generation)

\* A peer's event is admitted; jobs exclude admission by borrowing the registry.
Admit(p) ==
  /\ job = NoJob
  /\ registry[p] # NoValue /\ ~registry[p].blocked /\ registry[p].queued < MaxQueued
  /\ registry' = [registry EXCEPT ![p].queued = @ + 1]
  /\ UNCHANGED <<storeVars, spool, worker, queue, job, pending, receipt, historyVars,
                 stops, crashes>>

\* What else happens to a registration between jobs: an admitted event is popped,
\* or a conflicting frame, a gap or full receipts block it with its backlog kept.
Pop(p) ==
  /\ job = NoJob
  /\ registry[p] # NoValue /\ registry[p].queued > 0
  /\ registry' = [registry EXCEPT ![p].queued = @ - 1]
  /\ UNCHANGED <<storeVars, spool, worker, queue, job, pending, receipt, historyVars,
                 stops, crashes>>

Block(p) ==
  /\ job = NoJob
  /\ registry[p] # NoValue
  /\ registry' = [registry EXCEPT ![p] = [@ EXCEPT !.blocked = TRUE]]
  /\ UNCHANGED <<storeVars, spool, worker, queue, job, pending, receipt, historyVars,
                 stops, crashes>>

\* An adapter stages an event of a generation it was once given.
Stage(p, r, g, envelope) ==
  LET e == EventOf(p, g, r, envelope.seq, envelope.id, envelope.payload)
  IN  /\ g \in 1..issued
      /\ Cardinality(spool) < MaxSpool
      /\ \A s \in spool : s.producer # p \/ s.generation # g \/ s.id # e.id
      /\ spool' = spool \cup {e}
      /\ UNCHANGED <<storeVars, worker, queue, managerVars, historyVars, stops, crashes>>

-----------------------------------------------------------------------------
(* Jobs *)

ContextRequest(e)   == [op |-> "Context", body |-> e]
ApplyRequest(w)     == [op |-> "Apply", body |-> w]
RetireRequest(q)    == [op |-> "RetireProducer", body |-> q]
ReconcileRequest(q) == [op |-> "Reconcile", body |-> q]

\* CommitJob::new, and CommitJob::resume with its retained request.
CommitJob(e, policy, notify, purpose, request, lost) ==
  [kind |-> "Commit", event |-> e, policy |-> policy, notify |-> notify,
   purpose |-> purpose, request |-> request, ticket |-> "None", reply |-> NoValue,
   discarded |-> lost, retries |-> 0, result |-> NoValue]

StartCommit(e, policy, notify) ==
  /\ job = NoJob /\ receipt = NoValue
  /\ e \in spool
  /\ job' = CommitJob(e, policy, notify, "Context", ContextRequest(e), 0)
  /\ UNCHANGED <<storeVars, spool, worker, queue, registry, pending, receipt, historyVars,
                 stops, crashes>>

ResumeCommit ==
  /\ job = NoJob /\ receipt = NoValue /\ pending # NoValue
  /\ job' = CommitJob(pending.event, pending.policy, pending.notify, pending.purpose,
                      pending.request, pending.discarded)
  /\ pending' = NoValue
  /\ UNCHANGED <<storeVars, spool, worker, queue, registry, receipt, historyVars,
                 stops, crashes>>

\* The manager names the durable generation, or one it knew before an answer
\* was lost.
Believed(p) ==
  {GenerationOf(p)} \cup (IF registry[p] = NoValue THEN {} ELSE {registry[p].generation})

\* ReconciliationJob::new: the manager names the generation it believes durable.
\* The registry is invalidated before any request exists; a registry that
\* holds another generation refuses the job.
InvalidateOutcome(p, previous) ==
  IF registry[p] # NoValue /\ registry[p].generation # previous
  THEN "StaleGeneration" ELSE "Ok"

\* Reconciliations of dropped jobs that the worker may still execute.
QueuedReconciles == Cardinality({i \in 1..Len(queue) : queue[i].request.op = "Reconcile"})

StartReconcile(p, r, first, previous, baseline, resolved, continued) ==
  LET q == [ReconciliationOf(p, r, first, baseline, Backlog(p, previous), resolved, continued)
              EXCEPT !.previous = previous]
  IN  /\ job = NoJob
      /\ issued + QueuedReconciles < MaxGeneration         \* the bound of Reconcile
      /\ resolved = NoValue \/ continued = NoValue
      /\ baseline = NoValue => resolved = NoValue /\ continued = NoValue
      /\ InvalidateOutcome(p, previous) = "Ok"
      /\ Invalidate(p, previous)
      /\ job' = [kind |-> "Reconcile", request |-> ReconcileRequest(q), ticket |-> "None",
                 reply |-> NoValue, result |-> NoValue]
      /\ UNCHANGED <<storeVars, spool, worker, queue, pending, receipt, accepted,
                     stops, crashes>>

Running == job # NoJob /\ job.result = NoValue

\* A permit is held by a queued request or by an unreceived reply.
Outstanding == Len(queue) + (IF Running /\ job.reply # NoValue THEN 1 ELSE 0)

\* Request::validate, before anything is queued.
Admissible(request) ==
  CASE request.op = "Reconcile" -> AdmissibleReconciliation(request.body)
    [] request.op = "Apply" -> AdmissibleEffects(request.body.fact, request.body.effects)
    [] OTHER -> TRUE

Submit ==
  /\ Running /\ job.ticket = "None"
  /\ Admissible(job.request)
  /\ worker = "Up" /\ Outstanding < MaxOutstanding
  /\ queue' = Append(queue, [request |-> job.request, awaited |-> TRUE])
  /\ job' = [job EXCEPT !.ticket = "Held"]
  /\ UNCHANGED <<storeVars, spool, worker, registry, pending, receipt, historyVars,
                 stops, crashes>>

End(result) == job' = [job EXCEPT !.result = result, !.reply = NoValue]

\* Poll::Unknown, a stopped worker, and every error but a stale revision.
EndUncertain(result) ==
  IF job.kind = "Commit"
  THEN /\ Freeze(job)
       /\ job' = [Frozen(job) EXCEPT !.result = result, !.reply = NoValue]
  ELSE End(result) /\ UNCHANGED <<registry, lostEver>>

\* try_submit refuses for good: an invalid request, or a stopping worker.
SubmitRefused ==
  /\ Running /\ job.ticket = "None"
  /\ ~Admissible(job.request) \/ worker # "Up"
  /\ EndUncertain(IF ~Admissible(job.request) THEN "InvalidRequest"
                  ELSE "PersistenceUnavailable")
  /\ UNCHANGED <<storeVars, spool, worker, queue, pending, receipt, accepted,
                 stops, crashes>>

PollUnknown ==
  /\ Running /\ job.ticket = "Lost"
  /\ EndUncertain("UnknownOutcome")
  /\ UNCHANGED <<storeVars, spool, worker, queue, pending, receipt, accepted,
                 stops, crashes>>

-----------------------------------------------------------------------------
(* decision.rs: what a commit job makes of a reply *)

NextRequest(j, purpose, request) ==
  [j EXCEPT !.purpose = purpose, !.request = request, !.ticket = "None", !.reply = NoValue]

\* Scope and receipt decide before the reducer is asked.
Disposition(ctx, e, policy) ==
  LET record == ctx.producer
  IN  IF record = NoValue THEN "Unreconciled"
      ELSE IF record.run # e.run THEN "Unreconciled"
      ELSE IF ctx.receipt = "Exact" THEN "Committed"
      ELSE IF record.generation # e.generation \/ ~record.active \/ ~record.reconciled
      THEN "Unreconciled"
      ELSE IF \/ ctx.receipt \in {"Conflict", "PriorSequenceUnverifiable"}
              \/ record.next # e.seq
              \/ Validate(ctx.view, e, policy) # "Ok"
      THEN "Retire" ELSE "Apply"

DecideContext(ctx) ==
  LET e == job.event
      decision == Disposition(ctx, e, job.policy)
      effects  == Reduce(ctx.view, e, job.policy)
      write(j) == [expected |-> ctx.revision, fact |-> e, effects |-> effects,
                   notify |-> job.notify, discarded |-> j.discarded]
      retirement(j) == [expected |-> ctx.revision, producer |-> e.producer,
                        generation |-> e.generation, discarded |-> j.discarded]
  IN  \/ /\ decision \in {"Unreconciled", "Committed"}
         /\ End(decision)
         /\ UNCHANGED <<registry, lostEver>>
      \/ /\ decision = "Retire"
         /\ Freeze(job)
         /\ job' = NextRequest(Frozen(job), "Retire", RetireRequest(retirement(Frozen(job))))
      \/ /\ decision = "Apply" /\ effects.reconcile
         /\ Freeze(job)
         /\ job' = NextRequest(Frozen(job), "Apply", ApplyRequest(write(Frozen(job))))
      \/ /\ decision = "Apply" /\ ~effects.reconcile
         /\ job' = NextRequest(job, "Apply", ApplyRequest(write(job)))
         /\ UNCHANGED <<registry, lostEver>>

ReceiveCommit(reply) ==
  \/ reply.kind = "Context" /\ DecideContext(reply.body)
  \/ reply.kind = "Committed" /\ End("Committed") /\ UNCHANGED <<registry, lostEver>>
  \/ reply.kind = "Retired" /\ End("Rejected") /\ UNCHANGED <<registry, lostEver>>
  \/ /\ reply.kind = "Error" /\ reply.body = "StaleRevision" /\ job.retries < MaxRetries
     /\ job' = [NextRequest(job, "Context", ContextRequest(job.event)) EXCEPT !.retries = @ + 1]
     /\ UNCHANGED <<registry, lostEver>>
  \/ /\ reply.kind = "Error"
     /\ reply.body # "StaleRevision" \/ job.retries = MaxRetries
     /\ EndUncertain(reply.body)

\* registration.rs: only a verified, committed generation is installed.
ReceiveReconcile(reply) ==
  LET q == job.request.body
      old == registry[q.producer]
  IN  \/ /\ reply.kind = "Registered" /\ q.baseline # NoValue
         /\ IF old = NoValue \/ old.run = q.run
            THEN /\ registry' = [registry EXCEPT ![q.producer] = Entry(reply.body, q.run)]
                 /\ lostEver' = lostEver + (IF old = NoValue THEN 0 ELSE old.queued)
                 /\ End("Installed")
            ELSE End("AdmissionRejected") /\ UNCHANGED <<registry, lostEver>>
      \/ /\ reply.kind = "Registered" /\ q.baseline = NoValue
         /\ End("Unavailable") /\ UNCHANGED <<registry, lostEver>>
      \/ /\ reply.kind = "Error"
         /\ End(reply.body) /\ UNCHANGED <<registry, lostEver>>

Receive ==
  /\ Running /\ job.reply # NoValue
  /\ IF job.kind = "Commit" THEN ReceiveCommit(job.reply) ELSE ReceiveReconcile(job.reply)
  /\ UNCHANGED <<storeVars, spool, worker, queue, pending, receipt, accepted,
                 stops, crashes>>

-----------------------------------------------------------------------------
(* What the manager does with a job *)

\* A dropped ticket releases its receiver; its request stays queued.
Unawaited == [i \in 1..Len(queue) |-> [queue[i] EXCEPT !.awaited = FALSE]]

TakeCommitted ==
  /\ job # NoJob /\ job.result = "Committed"
  /\ receipt' = job.event /\ job' = NoJob
  /\ UNCHANGED <<storeVars, spool, worker, queue, registry, pending, historyVars,
                 stops, crashes>>

\* into_pending, possible at any moment that no receipt was taken.
Retain ==
  /\ job # NoJob /\ job.kind = "Commit" /\ pending = NoValue
  /\ Freeze(job)
  /\ pending' = [event |-> job.event, policy |-> job.policy, notify |-> job.notify,
                 purpose |-> job.purpose, request |-> job.request,
                 discarded |-> Frozen(job).discarded]
  /\ job' = NoJob /\ queue' = Unawaited
  /\ UNCHANGED <<storeVars, spool, worker, receipt, accepted, stops, crashes>>

Drop ==
  /\ job # NoJob
  /\ job' = NoJob /\ queue' = Unawaited
  /\ UNCHANGED <<storeVars, spool, worker, registry, pending, receipt, historyVars,
                 stops, crashes>>

\* confirm_spool: the entry goes, if it is still there.
Confirm ==
  /\ receipt # NoValue
  /\ spool' = spool \ {receipt}
  /\ receipt' = NoValue
  /\ UNCHANGED <<storeVars, worker, queue, registry, job, pending, accepted, lostEver,
                 stops, crashes>>

-----------------------------------------------------------------------------
(* The database worker *)

\* Mutant: nobody tells the waiting ticket.
OrphanedSilently(j) == j

\* A ticket whose request will never be answered.
Orphaned(j) ==
  IF Running /\ j.ticket = "Held" /\ j.reply = NoValue THEN [j EXCEPT !.ticket = "Lost"] ELSE j

\* The reply goes to the ticket if somebody still holds it.  Once told to stop,
\* the thread ends after the request it is at, and drops the others.
Answer(reply) ==
  /\ queue' = IF worker = "Up" THEN Tail(queue) ELSE <<>>
  /\ worker' = IF worker = "Up" THEN "Up" ELSE "Down"
  /\ job' = IF Head(queue).awaited THEN [job EXCEPT !.reply = reply]
            ELSE IF worker = "Up" THEN job ELSE Orphaned(job)

ExecuteContext(e) ==
  /\ Answer([kind |-> "Context",
             body |-> [revision |-> revision, producer |-> producers[e.producer],
                       receipt |-> Receipt(e), view |-> ViewOf(e)]])
  /\ UNCHANGED <<storeVars, accepted>>

ExecuteApply(w) ==
  \/ /\ ApplyOutcome(w) = "Ok"
     /\ ApplyEffect(w)
     /\ accepted' = accepted \cup {w.fact}
     /\ Answer([kind |-> "Committed", body |-> revision + 1])
  \/ /\ ApplyOutcome(w) = "Duplicate"
     /\ Answer([kind |-> "Committed",
                body |-> (CHOOSE f \in facts : f.write = w).revision])
     /\ UNCHANGED <<storeVars, accepted>>
  \/ /\ ApplyOutcome(w) \notin {"Ok", "Duplicate"}
     /\ Answer([kind |-> "Error", body |-> ApplyOutcome(w)])
     /\ UNCHANGED <<storeVars, accepted>>

ExecuteRetire(q) ==
  /\ \/ /\ RetireProducer(q)
        /\ Answer([kind |-> "Retired", body |-> revision + 1])
     \/ /\ RetireOutcome(q) # "Ok"
        /\ Answer([kind |-> "Error", body |-> RetireOutcome(q)])
        /\ UNCHANGED storeVars
  /\ UNCHANGED accepted

ExecuteReconcile(q) ==
  /\ \/ /\ Reconcile(q)
        /\ Answer([kind |-> "Registered", body |-> issued + 1])
     \/ /\ ReconcileOutcome(q) # "Ok"
        /\ Answer([kind |-> "Error", body |-> ReconcileOutcome(q)])
        /\ UNCHANGED storeVars
  /\ UNCHANGED accepted

Execute ==
  /\ worker # "Down" /\ queue # <<>>
  /\ LET request == Head(queue).request
     IN  \/ request.op = "Context" /\ ExecuteContext(request.body)
         \/ request.op = "Apply" /\ ExecuteApply(request.body)
         \/ request.op = "RetireProducer" /\ ExecuteRetire(request.body)
         \/ request.op = "Reconcile" /\ ExecuteReconcile(request.body)
  /\ UNCHANGED <<spool, registry, pending, receipt, lostEver, stops, crashes>>

\* Another manager request, submitted and executed between the job's steps:
\* one that only moves the revision, or a cleanup of every expired row.
OtherRequest ==
  /\ worker = "Up"
  /\ \/ OtherWrite
     \/ Maintain(IF CleanupFacts THEN facts ELSE {}, tombstones, {})
  /\ UNCHANGED <<spool, worker, queue, managerVars, historyVars, stops, crashes>>

\* request_shutdown: nothing more is taken; what is queued may still be run, as
\* far as the request the thread is at.
RequestShutdown ==
  /\ worker = "Up" /\ stops < MaxStops
  /\ worker' = "Stopping"
  /\ stops' = stops + 1
  /\ UNCHANGED <<storeVars, spool, queue, managerVars, historyVars, crashes>>

\* The thread sees the flag: queued requests never run and their tickets learn
\* nothing.
EndWorker ==
  /\ worker = "Stopping"
  /\ worker' = "Down" /\ queue' = <<>>
  /\ job' = Orphaned(job)
  /\ UNCHANGED <<storeVars, spool, registry, pending, receipt, historyVars, stops, crashes>>

\* A new worker opens the database; the job that borrowed the old one is gone.
StartWorker ==
  /\ worker = "Down" /\ job = NoJob
  /\ \/ Reopen
     \/ ActiveProducers = {} /\ UNCHANGED storeVars
  /\ worker' = "Up"
  /\ UNCHANGED <<spool, queue, managerVars, historyVars, stops, crashes>>

\* The process dies: only files and committed transactions remain.
Crash ==
  /\ crashes < MaxCrashes
  /\ worker' = "Down" /\ queue' = <<>>
  /\ registry' = [p \in Producers |-> NoValue]
  /\ job' = NoJob /\ pending' = NoValue /\ receipt' = NoValue
  /\ crashes' = crashes + 1
  /\ UNCHANGED <<storeVars, spool, historyVars, stops>>

-----------------------------------------------------------------------------

CoordNext ==
  \/ \E p \in Producers : Admit(p) \/ Pop(p) \/ Block(p)
  \/ \E p \in Producers, r \in Runs, g \in 1..issued, envelope \in Envelopes :
       Stage(p, r, g, envelope)
  \/ \E e \in spool, policy \in Policies, notify \in NotifyChoices :
       StartCommit(e, policy, notify)
  \/ \E p \in Producers, r \in Runs, first \in FirstSequences,
        baseline \in Baselines \cup {NoValue} :
       \E resolved, continued \in {NoValue, projections[r].current} :
         \E previous \in Believed(p) :
           StartReconcile(p, r, first, previous, baseline, resolved, continued)
  \/ ResumeCommit \/ Submit \/ SubmitRefused \/ PollUnknown \/ Receive
  \/ TakeCommitted \/ Retain \/ Drop \/ Confirm
  \/ Execute \/ OtherRequest \/ RequestShutdown \/ EndWorker \/ StartWorker \/ Crash

CoordSpec == CoordInit /\ [][CoordNext]_vars

\* Callers keep polling the job they hold, and the worker thread runs until it
\* has ended; nothing obliges anybody to start a job or to restart a worker.
PollJob == Submit \/ SubmitRefused \/ PollUnknown \/ Receive

FairCoordSpec == CoordSpec /\ WF_vars(PollJob) /\ WF_vars(Execute \/ EndWorker)

-----------------------------------------------------------------------------
(* Properties *)

\* The optimistic protocol is no more than a serial client: every transaction
\* that commits, however stale the context it was computed from and however
\* often it was retried, resumed or left behind by a dropped job, is one the
\* store allows to a client that read the state it writes to.
SerializableWrites == [][UNCHANGED storeVars \/ Next]_vars

\* A staged event leaves the spool only once the database has accepted exactly
\* that event, across lost replies, resumed requests, cleanup and crashes.
ConfirmedDurable == [][\A e \in spool \ spool' : e \in accepted]_vars

Numbers(p, g, events) ==
  {e.seq : e \in {e \in events : e.producer = p /\ e.generation = g}}

\* Whatever a retry, a resumption or a replay after a crash submits again, the
\* events accepted under one generation are numbered from a first number that
\* a registration may name, without a gap and with one event per number.
AcceptedInOrder ==
  \A e \in accepted :
    /\ \A d \in accepted :
         (/\ d.producer = e.producer
          /\ d.generation = e.generation
          /\ d.seq = e.seq) => d = e
    /\ \E first \in FirstSequences, last \in Seqs :
         Numbers(e.producer, e.generation, accepted) = first..last

RetiringGeneration(request) ==
  CASE request.op = "RetireProducer" -> request.body.generation
    [] request.op = "Apply" /\ request.body.effects.reconcile -> request.body.fact.generation
    [] request.op = "Reconcile" -> request.body.previous
    [] OTHER -> NoValue

\* Volatile admission closes before the request that ends a generation can
\* reach the database (M1-10-COORDINATION.md:54): while such a request is held
\* or queued, the registry admits nothing to the generation it ends.
RetiringMeansFrozen ==
  \A request \in {queue[i].request : i \in 1..Len(queue)}
                 \cup (IF Running THEN {job.request} ELSE {}) :
    \A p \in Producers :
      (/\ Names(p, RetiringGeneration(request))
       /\ request.op = "Apply" => request.body.fact.producer = p
       /\ request.op # "Apply" => request.body.producer = p)
        => registry[p].blocked

\* What the store counts as lost never exceeds what the registry discarded,
\* although a count travels in requests that are retried and resumed.
DiscardNeverOvercounted == discarded <= lostEver

\* An old event of the spool disturbs nothing newer: a commit job touches the
\* registry only at its own event's generation (M1-10-COORDINATION.md:14).
OldReplayHarmless ==
  [][\A p \in Producers :
       (/\ job # NoJob /\ job.kind = "Commit" /\ crashes' = crashes
        /\ ~Names(p, job.event.generation))
         => registry'[p] = registry[p]]_vars

\* Every job that keeps being polled ends: with an answer, with a refusal after
\* its bounded refreshes, or with an unknown outcome.
JobsEnd == Running ~> ~Running

\* The manager can always reconcile what is durable now: naming the generation
\* the database holds is never refused as stale (M1-10-COORDINATION.md:38).
ReconcileCurrentDurable ==
  \A p \in Producers : job = NoJob =>
    InvalidateOutcome(p, GenerationOf(p)) = "Ok"

=============================================================================
