------------------------------- MODULE Store -------------------------------
(***************************************************************************)
(* The durable rows of the manager's database and the transactions that    *)
(* change them (`storage/`).  A single worker thread runs each request in  *)
(* one IMMEDIATE transaction, so a transaction is one atomic action: its   *)
(* outcome is computed in the order of the checks in the code, and unless  *)
(* it is "Ok" nothing changes.                                             *)
(*                                                                         *)
(* Abstractions.  A generation is the number of UUIDs drawn so far (the    *)
(* code draws 122 random bits and assumes they never repeat).  The harness *)
(* kind travels with the run in every comparison and is left out.  Row     *)
(* ages are left out: maintenance may find any set of rows old enough.     *)
(* A fact stores the whole request that wrote it, as `write_set` does.     *)
(***************************************************************************)
EXTENDS Reducer

CONSTANTS
  Producers, Runs, Turns,
  EventIds,             \* event identities
  Payloads,             \* what an event may carry: [kind, turn, exit, signals]
  Policies,             \* observation policies the manager may apply
  Baselines,            \* verified reconciliation baselines: [turn state, turn]
  FirstSequences,       \* first number a registration may name for its generation
  NotifyChoices,        \* whether the manager asks for a desktop intent
  LostCounts,           \* queue entries a request reports as discarded
  ReuseEventIds,        \* whether a producer may reuse the id of a pruned fact
  MaxSeq,               \* u64::MAX for sequences
  MaxRevision,          \* u64::MAX for revisions
  MaxGeneration,        \* bound on the generations drawn
  MaxDiscarded,         \* u64::MAX for the durable loss counter
  MaxFacts, MaxAttention, MaxTombstones,      \* row limits of storage/mod.rs
  MaxOutboxAudit, MaxOutboxPending

ASSUME StoreAssumption ==
  /\ MaxSeq \in Nat \ {0} /\ MaxRevision \in Nat /\ MaxGeneration \in Nat
  /\ MaxDiscarded \in Nat
  /\ MaxFacts \in Nat /\ MaxAttention \in Nat /\ MaxTombstones \in Nat
  /\ MaxOutboxAudit \in Nat /\ MaxOutboxPending \in Nat

VARIABLES
  revision,     \* metadata.revision
  discarded,    \* metadata.discarded
  issued,       \* generations drawn so far
  producers,    \* producer |-> its row, or NoValue
  facts,        \* accepted events with the request that wrote them
  projections,  \* run |-> its projection and current turn
  attention,    \* attention rows
  outbox,       \* delivery rows
  tombstones    \* terminal protections

storeVars == <<revision, discarded, issued, producers, facts, projections,
               attention, outbox, tombstones>>

Seqs == 1..MaxSeq
Generations == 1..MaxGeneration
DeliveryStates == {"Pending", "AttemptedUncertain", "Acknowledged", "Expired", "Overflowed"}
FinalDeliveries == {"Acknowledged", "Expired", "Overflowed"}

TurnKeys == [producer : Producers, generation : Generations, run : Runs, turn : Turns]

ProjectionType ==
  [run : Runs, process : ProcessStates, observation : ObservationStates,
   turn : TurnStates, turnId : Turns \cup {NoValue}]

ProducerType ==
  [generation : Generations, run : Runs, next : Seqs \cup {NoValue},
   active : BOOLEAN, reconciled : BOOLEAN]

AttentionType ==
  [producer : Producers, generation : Generations, event : EventIds, run : Runs,
   reason : AttentionReasons, reviewed : BOOLEAN, turn : Turns \cup {NoValue},
   resolved : BOOLEAN, revision : 1..MaxRevision, resolution : Generations]

OutboxType ==
  [producer : Producers, generation : Generations, event : EventIds,
   state : DeliveryStates, revision : 1..MaxRevision]

TombstoneType == [key : TurnKeys, outcome : EventIds, terminal : TerminalTurns]

\* What a client may observe, apply and find: kinds that name a turn carry
\* one, and a verified baseline shows a live turn or none.
ASSUME InputAssumption ==
  /\ Payloads \subseteq [kind : EventKinds, turn : Turns \cup {NoValue},
                       exit : ExitReports \cup {NoValue}, signals : SUBSET EventKinds]
  /\ \A payload \in Payloads : payload.kind \in TurnKinds => payload.turn \in Turns
  /\ Policies \subseteq [supported : SUBSET EventKinds, freshness : ObservationStates]
  /\ Baselines \subseteq [turn : TurnStates \ TerminalTurns, turnId : Turns \cup {NoValue}]
  /\ \A baseline \in Baselines : baseline.turnId = NoValue <=> baseline.turn = "Unknown"
  /\ FirstSequences \subseteq Seqs
  /\ NotifyChoices \subseteq BOOLEAN /\ LostCounts \subseteq Nat

\* NoValue is none of the values it may stand in for.
ASSUME NoValueAssumption ==
  /\ NoValue \notin Nat /\ NoValue \notin Turns
  /\ NoValue \notin TurnKeys /\ NoValue \notin ProducerType /\ NoValue \notin TombstoneType
  /\ NoValue \notin [generation : Generations, next : Seqs \cup {NoValue}, open : BOOLEAN]

\* Mutants: the checkpoint overruns, wraps or stays.
UncheckedNext(n, max) == n + 1
WrappingNext(n, max) == IF n = max THEN 1 ELSE n + 1
SameNext(n, max) == n

CheckedNext(n, max) == IF n = max THEN NoValue ELSE n + 1

Init ==
  /\ revision = 0 /\ discarded = 0 /\ issued = 0
  /\ producers = [p \in Producers |-> NoValue]
  /\ projections = [r \in Runs |-> [projection |-> UnknownProjection(r), current |-> NoValue]]
  /\ facts = {} /\ attention = {} /\ outbox = {} /\ tombstones = {}

\* Mutant: only a revision from the future is refused.
LaxRevisionOutcome(expected) ==
  IF revision < expected THEN "StaleRevision"
  ELSE IF revision = MaxRevision THEN "ResourceExhausted" ELSE "Ok"

\* queries::require_revision; a transaction that passes it ends with `advance`.
RevisionOutcome(expected) ==
  IF revision # expected THEN "StaleRevision"
  ELSE IF revision = MaxRevision THEN "ResourceExhausted" ELSE "Ok"

Advance == revision' = revision + 1

DiscardedOutcome(adding) ==
  IF discarded + adding > MaxDiscarded THEN "ResourceExhausted" ELSE "Ok"

\* The first failing check decides; checks are evaluated in the code's order.
FirstFailure(a, b) == IF a # "Ok" THEN a ELSE b

-----------------------------------------------------------------------------
(* Reads (`storage/context.rs`) *)

StoredFor(e) ==
  {f \in facts : /\ f.write.fact.producer = e.producer
                 /\ f.write.fact.generation = e.generation
                 /\ f.write.fact.id = e.id \/ f.write.fact.seq = e.seq}

TombstonesOf(key) == {t \in tombstones : t.key = key}

TombstoneOf(key) ==
  IF key = NoValue \/ TombstonesOf(key) = {} THEN NoValue
  ELSE CHOOSE t \in TombstonesOf(key) : TRUE

ViewOf(e) ==
  [projection |-> projections[e.run].projection,
   current    |-> projections[e.run].current,
   tombstone  |-> TombstoneOf(EventTurnKey(e))]

\* Mutant: the sequence number alone identifies an event.
SameNumber(e) == \E f \in StoredFor(e) : f.write.fact.seq = e.seq

StoredExactly(e) == \E f \in StoredFor(e) : f.write.fact = e

\* What the database can prove about an event; a checkpoint past it is no
\* proof of the identity of a pruned fact.
Receipt(e) ==
  LET record == producers[e.producer]
  IN  CASE StoredExactly(e) -> "Exact"
        [] StoredFor(e) # {} /\ ~StoredExactly(e) -> "Conflict"
        [] /\ StoredFor(e) = {}
           /\ record # NoValue
           /\ record.generation = e.generation /\ record.run = e.run
           /\ record.next = NoValue \/ record.next > e.seq -> "PriorSequenceUnverifiable"
        [] OTHER -> "Missing"

-----------------------------------------------------------------------------
(* Attention (`storage/attention_state.rs`) *)

\* Mutant: a prompt that a reconciliation continued is looked up by the
\* generation that raised it.
ResolvesRaised(key, a) ==
  /\ a.producer = key.producer /\ a.generation = key.generation
  /\ a.run = key.run /\ a.turn = key.turn
  /\ ~a.resolved /\ a.reason \in TransientReasons

Resolves(key, a) ==
  /\ a.producer = key.producer /\ a.resolution = key.generation
  /\ a.run = key.run /\ a.turn = key.turn
  /\ ~a.resolved /\ a.reason \in TransientReasons

\* Mutant: resolving a prompt deletes it.
ResolveByDeletion(rows, key) == {a \in rows : key = NoValue \/ ~Resolves(key, a)}

ResolveTurn(rows, key) ==
  IF key = NoValue THEN rows
  ELSE {IF Resolves(key, a) THEN [a EXCEPT !.resolved = TRUE] ELSE a : a \in rows}

EventTurn(e) == IF e.kind \in TurnKinds THEN e.turn ELSE NoValue

\* A transient reason already open for the same turn is not raised again.
Coalesced(rows, e, reason) ==
  /\ reason \in TransientReasons
  /\ \E a \in rows : /\ a.producer = e.producer /\ a.resolution = e.generation
                     /\ a.run = e.run /\ a.turn = EventTurn(e)
                     /\ a.reason = reason /\ ~a.resolved

RaisedReasons(w) ==
  {r \in w.effects.attention :
     ~Coalesced(ResolveTurn(attention, w.effects.resolve), w.fact, r)}

\* Mutant: the rows carry the revision read, not the one written.
RaisedEarly(w) ==
  {[producer |-> w.fact.producer, generation |-> w.fact.generation, event |-> w.fact.id,
    run |-> w.fact.run, reason |-> r, reviewed |-> FALSE, turn |-> EventTurn(w.fact),
    resolved |-> FALSE, revision |-> revision, resolution |-> w.fact.generation]
     : r \in RaisedReasons(w)}

RaisedRows(w) ==
  {[producer |-> w.fact.producer, generation |-> w.fact.generation, event |-> w.fact.id,
    run |-> w.fact.run, reason |-> r, reviewed |-> FALSE, turn |-> EventTurn(w.fact),
    resolved |-> FALSE, revision |-> revision + 1, resolution |-> w.fact.generation]
     : r \in RaisedReasons(w)}

SameOutcome(row, e) ==
  row.producer = e.producer /\ row.generation = e.generation /\ row.event = e.id

Notifies(w) == w.notify /\ RaisedReasons(w) # {}

AttentionOutcome(w) ==
  IF Cardinality(attention) + Cardinality(RaisedReasons(w)) > MaxAttention
  THEN "ResourceExhausted"
  ELSE IF \E a \in attention : SameOutcome(a, w.fact) /\ a.reason \in RaisedReasons(w)
  THEN "PersistenceUnavailable"                            \* the primary key
  ELSE IF /\ Notifies(w)
          /\ \/ Cardinality(outbox) >= MaxOutboxAudit
             \/ Cardinality({o \in outbox : o.state \notin FinalDeliveries})
                  >= MaxOutboxPending
  THEN "ResourceExhausted"
  ELSE IF Notifies(w) /\ \E o \in outbox : SameOutcome(o, w.fact)
  THEN "PersistenceUnavailable" ELSE "Ok"

-----------------------------------------------------------------------------
(* Apply: one reduced event (`storage/reducer_transaction.rs`).  A write is *)
(* [expected, fact, effects, notify, discarded].                           *)

ScopeOutcome(e) ==
  LET record == producers[e.producer]
  IN  CASE record = NoValue -> "UnknownProducer"
        [] /\ record # NoValue
           /\ \/ ~record.active \/ ~record.reconciled
              \/ record.generation # e.generation \/ record.run # e.run -> "StaleGeneration"
        [] record # NoValue /\ record.next = NoValue -> "Conflict"
        [] record # NoValue /\ record.next # NoValue /\ record.next < e.seq -> "SequenceGap"
        [] record # NoValue /\ record.next # NoValue /\ record.next > e.seq -> "Conflict"
        [] OTHER -> "Ok"

TombstoneOutcome(w) ==
  CASE w.effects.tombstone = NoValue -> "Ok"
    [] w.effects.tombstone # NoValue /\ TombstonesOf(w.effects.tombstone.key) # {}
         -> "Conflict"
    [] w.effects.tombstone # NoValue /\ Cardinality(tombstones) >= MaxTombstones
         -> "ResourceExhausted"
    [] OTHER -> "Ok"

ApplyOutcome(w) ==
  CASE \E f \in StoredFor(w.fact) : f.write = w -> "Duplicate"
    [] /\ StoredFor(w.fact) # {}
       /\ \A f \in StoredFor(w.fact) : f.write # w -> "Conflict"
    [] OTHER ->
         FirstFailure(RevisionOutcome(w.expected),
         FirstFailure(ScopeOutcome(w.fact),
         FirstFailure(DiscardedOutcome(w.discarded),
         FirstFailure(IF Cardinality(facts) >= MaxFacts THEN "ResourceExhausted" ELSE "Ok",
         FirstFailure(AttentionOutcome(w), TombstoneOutcome(w))))))

ApplyEffect(w) ==
  LET e == w.fact
  IN  /\ projections' = [projections EXCEPT ![e.run] =
                           [projection |-> w.effects.projection, current |-> w.effects.current]]
      /\ attention' = ResolveTurn(attention, w.effects.resolve) \cup RaisedRows(w)
      /\ outbox' = IF Notifies(w)
                   THEN outbox \cup {[producer |-> e.producer, generation |-> e.generation,
                                      event |-> e.id, state |-> "Pending",
                                      revision |-> revision + 1]}
                   ELSE outbox
      /\ tombstones' = IF w.effects.tombstone = NoValue THEN tombstones
                       ELSE tombstones \cup {w.effects.tombstone}
      /\ facts' = facts \cup {[write |-> w, revision |-> revision + 1]}
      /\ producers' = [producers EXCEPT ![e.producer] =
                         [@ EXCEPT !.next       = CheckedNext(e.seq, MaxSeq),
                                   !.active     = ~w.effects.reconcile,
                                   !.reconciled = ~w.effects.reconcile]]
      /\ discarded' = discarded + w.discarded
      /\ Advance
      /\ UNCHANGED issued

Apply(w) == ApplyOutcome(w) = "Ok" /\ ApplyEffect(w)

-----------------------------------------------------------------------------
(* Retirement (`storage/retirement.rs`, `storage/reconciliation.rs`) *)

\* Mutant: a row that shows no turn is taken to be nobody's business.
DegradedTurns(retired, r) ==
  \E p \in retired :
    /\ producers[p].run = r
    /\ projections[r].current # NoValue /\ projections[r].current.producer = p

\* The rows a retirement of the producers in `retired` degrades: the run's
\* projection if it is theirs, or nobody's.
Degraded(retired, r) ==
  \E p \in retired :
    /\ producers[p].run = r
    /\ LET key == projections[r].current
       IN  key # NoValue => key.producer = p /\ key.generation = producers[p].generation

Degrade(retired) ==
  projections' = [r \in Runs |->
    IF Degraded(retired, r)
    THEN [projections[r] EXCEPT
            !.projection = Doubted(projections[r].projection, "Stale", TRUE)]
    ELSE projections[r]]

Deactivate(retired) ==
  producers' = [p \in Producers |->
    IF p \in retired THEN [producers[p] EXCEPT !.active = FALSE, !.reconciled = FALSE]
    ELSE producers[p]]

ActiveProducers == {p \in Producers : producers[p] # NoValue /\ producers[p].active}

Retire(retired) == Degrade(retired) /\ Deactivate(retired)

\* A retirement is [expected, producer, generation, discarded].
RetireOutcome(q) ==
  LET record == producers[q.producer]
      key    == projections[record.run].current
  IN  FirstFailure(RevisionOutcome(q.expected),
      CASE record = NoValue -> "UnknownProducer"
        [] record # NoValue /\ (record.generation # q.generation \/ ~record.active)
             -> "StaleGeneration"
        [] OTHER ->
             FirstFailure(DiscardedOutcome(q.discarded),
               IF /\ key # NoValue
                  /\ key.producer # q.producer \/ key.generation # record.generation
               THEN "Conflict" ELSE "Ok"))

RetireEffect(q) ==
  /\ Retire({q.producer})
  /\ discarded' = discarded + q.discarded
  /\ Advance
  /\ UNCHANGED <<issued, facts, attention, outbox, tombstones>>

RetireProducer(q) == RetireOutcome(q) = "Ok" /\ RetireEffect(q)

-----------------------------------------------------------------------------
(* Reconciliation: a fresh generation (`storage/reconciliation.rs`).  A     *)
(* request is [expected, producer, previous, run, next, baseline, discarded,*)
(* resolved, continued]; the baseline is NoValue when the evidence was      *)
(* unavailable, otherwise the verified [turn, turnId].                      *)

\* reducer_validation::reconciliation, checked before the request is queued.
AdmissibleReconciliation(q) ==
  /\ q.baseline = NoValue => q.resolved = NoValue /\ q.continued = NoValue
  /\ q.continued # NoValue =>
       /\ q.resolved = NoValue
       /\ q.continued.producer = q.producer /\ q.continued.run = q.run
       /\ q.previous = q.continued.generation
       /\ q.baseline.turn \in AwaitingTurns
       /\ q.baseline.turnId = q.continued.turn

PreviousTurnOutcome(q) ==
  LET key == IF q.resolved # NoValue THEN q.resolved ELSE q.continued
  IN  IF /\ key # NoValue
         /\ \/ projections[q.run].current # key
            \/ key.producer # q.producer
            \/ key.generation # q.previous
            \/ q.continued # NoValue /\ IsTerminal(projections[q.run].projection.turn)
      THEN "Conflict" ELSE "Ok"

\* Mutant: only an observer of the same generation counts as another one.
OtherGeneration(q) ==
  \E p \in ActiveProducers \ {q.producer} :
    producers[p].run = q.run /\ producers[p].generation = q.previous

OtherObserver(q) == \E p \in ActiveProducers \ {q.producer} : producers[p].run = q.run

RegistrationOutcome(q) ==
  LET record == producers[q.producer]
  IN  IF \/ (IF record = NoValue THEN NoValue ELSE record.generation) # q.previous
         \/ record # NoValue /\ record.run # q.run
      THEN "StaleGeneration"
      ELSE IF OtherObserver(q) THEN "Conflict" ELSE "Ok"

ReconcileOutcome(q) ==
  FirstFailure(RevisionOutcome(q.expected),
  FirstFailure(DiscardedOutcome(q.discarded),
  FirstFailure(PreviousTurnOutcome(q), RegistrationOutcome(q))))

Relinked(q, a) == q.continued # NoValue /\ Resolves(q.continued, a)

\* Mutant: the turn keeps the generation it was last seen under.
BaselineOfPrevious(q, fresh) ==
  IF q.baseline.turnId = NoValue THEN NoValue
  ELSE TurnKey(q.producer, q.previous, q.run, q.baseline.turnId)

BaselineTurn(q, fresh) ==
  IF q.baseline.turnId = NoValue THEN NoValue
  ELSE TurnKey(q.producer, fresh, q.run, q.baseline.turnId)

ReconcileEffect(q) ==
  LET fresh    == issued + 1
      verified == q.baseline # NoValue
  IN  /\ issued' = fresh
      /\ producers' = [producers EXCEPT ![q.producer] =
                         [generation |-> fresh, run |-> q.run, next |-> q.next,
                          active |-> verified, reconciled |-> verified]]
      /\ attention' = {IF Relinked(q, a) THEN [a EXCEPT !.resolution = fresh] ELSE a
                         : a \in ResolveTurn(attention, q.resolved)}
      /\ projections' = [projections EXCEPT ![q.run] =
           IF ~verified
           THEN [projection |-> UnknownProjection(q.run), current |-> NoValue]
           ELSE [projection |-> [run |-> q.run, process |-> "Alive", observation |-> "Fresh",
                                 turn |-> q.baseline.turn, turnId |-> q.baseline.turnId],
                 current |-> BaselineTurn(q, fresh)]]
      /\ discarded' = discarded + q.discarded
      /\ Advance
      /\ UNCHANGED <<facts, outbox, tombstones>>

Reconcile(q) ==
  /\ issued < MaxGeneration
  /\ AdmissibleReconciliation(q)
  /\ ReconcileOutcome(q) = "Ok"
  /\ ReconcileEffect(q)

-----------------------------------------------------------------------------
(* Maintenance, review and delivery *)

\* Mutant: only the turn the run shows is taken to need protection.
UnprotectedOnScreen(oldTombstones) ==
  {p \in ActiveProducers :
     \E t \in oldTombstones : projections[producers[p].run].current = t.key}

Unprotected(oldTombstones) ==
  {p \in ActiveProducers :
     \E t \in oldTombstones : t.key.producer = p
                               /\ t.key.generation = producers[p].generation}

\* One bounded cleanup (`storage/policy.rs`): expired facts go; an expired
\* tombstone first retires the generation it protects; undelivered intents
\* that grew too old expire.
Maintain(oldFacts, oldTombstones, oldDeliveries) ==
  /\ revision < MaxRevision
  /\ facts' = facts \ oldFacts
  /\ Retire(Unprotected(oldTombstones))
  /\ tombstones' = tombstones \ oldTombstones
  /\ outbox' = {IF o \in oldDeliveries THEN [o EXCEPT !.state = "Expired"] ELSE o : o \in outbox}
  /\ Advance
  /\ UNCHANGED <<discarded, issued, attention>>

\* Human review of one outcome (`attention_state::review`).
Review(row) ==
  /\ revision < MaxRevision
  /\ row \in attention
  /\ attention' = {IF SameOutcome(a, [producer |-> row.producer, generation |-> row.generation,
                                      id |-> row.event])
                   THEN [a EXCEPT !.reviewed = TRUE] ELSE a : a \in attention}
  /\ Advance
  /\ UNCHANGED <<discarded, issued, producers, facts, projections, outbox, tombstones>>

\* A delivery attempt's result (`storage/maintenance.rs`); a final state stays.
SetDelivery(row, state) ==
  /\ revision < MaxRevision
  /\ row \in outbox /\ row.state \notin FinalDeliveries /\ state # "Pending"
  /\ outbox' = (outbox \ {row}) \cup {[row EXCEPT !.state = state]}
  /\ Advance
  /\ UNCHANGED <<discarded, issued, producers, facts, projections, attention, tombstones>>

\* Any other committed manager request: history policy, runner reservation and
\* identification, runtime control, catalog.  Only the revision is shared.
OtherWrite ==
  /\ revision < MaxRevision
  /\ Advance
  /\ UNCHANGED <<discarded, issued, producers, facts, projections, attention, outbox, tombstones>>

\* Opening the database after a stop or a crash retires every active producer
\* (`engine::invalidate_generations`).
Reopen ==
  /\ ActiveProducers # {}
  /\ revision < MaxRevision
  /\ Retire(ActiveProducers)
  /\ Advance
  /\ UNCHANGED <<discarded, issued, facts, attention, outbox, tombstones>>

-----------------------------------------------------------------------------
(* The store under a serial client: each request is built from the state   *)
(* it is executed in.  Coordinator.tla shows that the manager's optimistic *)
(* retries are no more than this.                                          *)

EventOf(p, g, r, s, id, payload) ==
  [producer |-> p, generation |-> g, run |-> r, seq |-> s, id |-> id,
   kind |-> payload.kind, turn |-> payload.turn, exit |-> payload.exit,
   signals |-> payload.signals]

WriteOf(e, policy, notify, lost) ==
  [expected |-> revision, fact |-> e, effects |-> Reduce(ViewOf(e), e, policy),
   notify |-> notify, discarded |-> lost]

Observe(e, policy, notify, lost) ==
  /\ Validate(ViewOf(e), e, policy) = "Ok"
  /\ AdmissibleEffects(e, Reduce(ViewOf(e), e, policy))
  /\ Apply(WriteOf(e, policy, notify, lost))

\* The id names an outcome of this generation whose fact cleanup has removed.
PrunedId(p, id) ==
  LET e == [producer |-> p, generation |-> producers[p].generation, id |-> id]
  IN  /\ \E a \in attention : SameOutcome(a, e)
      /\ \A f \in facts : f.write.fact.id # id \/ f.write.fact.producer # p
                           \/ f.write.fact.generation # e.generation

GenerationOf(p) == IF producers[p] = NoValue THEN NoValue ELSE producers[p].generation

ReconciliationOf(p, r, first, baseline, lost, resolved, continued) ==
  [expected |-> revision, producer |-> p, previous |-> GenerationOf(p), run |-> r,
   next |-> first, baseline |-> baseline, discarded |-> lost,
   resolved |-> resolved, continued |-> continued]

RetirementOf(p, lost) ==
  [expected |-> revision, producer |-> p, generation |-> GenerationOf(p), discarded |-> lost]

Next ==
  \/ \E p \in Producers, r \in Runs, s \in Seqs, id \in EventIds, payload \in Payloads,
        policy \in Policies, notify \in NotifyChoices, lost \in LostCounts :
       /\ p \in ActiveProducers
       /\ ReuseEventIds \/ ~PrunedId(p, id)
       /\ Observe(EventOf(p, producers[p].generation, r, s, id, payload), policy, notify, lost)
  \/ \E p \in Producers, r \in Runs, first \in FirstSequences,
        baseline \in Baselines \cup {NoValue}, lost \in LostCounts :
       \E resolved, continued \in {NoValue, projections[r].current} :
         Reconcile(ReconciliationOf(p, r, first, baseline, lost, resolved, continued))
  \/ \E p \in ActiveProducers, lost \in LostCounts : RetireProducer(RetirementOf(p, lost))
  \/ \E oldFacts \in SUBSET facts, oldTombstones \in SUBSET tombstones,
        oldDeliveries \in SUBSET {o \in outbox : o.state \notin FinalDeliveries} :
       Maintain(oldFacts, oldTombstones, oldDeliveries)
  \/ \E row \in attention : Review(row)
  \/ \E row \in outbox, state \in DeliveryStates : SetDelivery(row, state)
  \/ OtherWrite
  \/ Reopen

Spec == Init /\ [][Next]_storeVars

-----------------------------------------------------------------------------
(* Properties *)

TypeOK ==
  /\ revision \in 0..MaxRevision
  /\ discarded \in 0..MaxDiscarded
  /\ issued \in 0..MaxGeneration
  /\ producers \in [Producers -> ProducerType \cup {NoValue}]
  /\ projections \in [Runs -> [projection : ProjectionType, current : TurnKeys \cup {NoValue}]]
  /\ attention \subseteq AttentionType
  /\ outbox \subseteq OutboxType
  /\ tombstones \subseteq TombstoneType
  /\ \A f \in facts : f.revision \in 1..MaxRevision

\* At most one producer observes a run: two live observers could each project
\* their own turn and neither could be retired for the other's row.
OneObserverPerRun ==
  \A p, q \in ActiveProducers : producers[p].run = producers[q].run => p = q

\* What a run shows as its current turn belongs to the producer observing it,
\* under that producer's present generation.
CurrentTurnInScope ==
  \A p \in ActiveProducers :
    LET key == projections[producers[p].run].current
    IN  key # NoValue =>
          key.producer = p /\ key.generation = producers[p].generation

\* The coordinator's last resort is always available: while the counters have
\* room, retiring an active producer at the current revision never fails on a
\* projection left by somebody else (the Conflict in reconciliation::retire).
RetirementNeverRefused ==
  \A p \in ActiveProducers :
    RetireOutcome(RetirementOf(p, 0)) \in {"Ok", "ResourceExhausted"}

\* A projection claims to be fresh only while an active, reconciled producer
\* is observing the run: retirement, reopening, cleanup and uncertain events
\* all leave it stale.
FreshMeansObserved ==
  \A r \in Runs : projections[r].projection.observation = "Fresh" =>
    \E p \in ActiveProducers : producers[p].reconciled /\ producers[p].run = r

\* The rows the transactions leave behind never make evidence.rs refuse a next
\* event of the live producer as inconsistent; the coordinator would answer
\* that by retiring a healthy producer.
EvidenceConsistent ==
  \A p \in ActiveProducers, payload \in Payloads, policy \in Policies :
    producers[p].reconciled =>
      \A id \in EventIds :
        LET e == EventOf(p, producers[p].generation, producers[p].run, 1, id, payload)
        IN  Validate(ViewOf(e), e, policy) \in {"Ok", "UnsupportedSignal"}

OutcomeRows == {a \in attention : a.reason \in {"Completion", "Failure"}}

\* A turn that ended under a generation still being observed is protected by
\* its tombstone, however long ago it ended and whatever cleanup removed: the
\* cleanup of a tombstone retires the generation it protects.
EndedTurnsProtected ==
  \A a \in OutcomeRows :
    (/\ a.producer \in ActiveProducers
     /\ producers[a.producer].generation = a.generation)
      => \E t \in tombstones :
           /\ t.key = TurnKey(a.producer, a.generation, a.run, a.turn)
           /\ t.outcome = a.event

\* A turn ends at most once: late, repeated and contradicting terminal events
\* never raise a second outcome for the same turn of the same generation.
OneOutcomePerTurn ==
  \A a, b \in OutcomeRows :
    (/\ a.producer = b.producer /\ a.generation = b.generation
     /\ a.run = b.run /\ a.turn = b.turn) => a = b

\* No native prompt outlives its turn: an ended turn has no open request for
\* input or approval that a person would be asked to answer.
EndedTurnsAskNothing ==
  \A a \in attention, t \in tombstones :
    (a.reason \in {"Input", "NativeApproval"} /\ ~a.resolved)
      => t.key # TurnKey(a.producer, a.resolution, a.run, a.turn)

\* The rows of one outcome carry one revision: otherwise outcomes.rs reports
\* the database corrupt when the outcome is read or reviewed.
OutcomeRevisionUnique ==
  \A a \in attention :
    /\ \A b \in attention : SameOutcome(b, [producer |-> a.producer,
                                generation |-> a.generation, id |-> a.event])
                               => a.revision = b.revision
    /\ \A o \in outbox : SameOutcome(o, [producer |-> a.producer,
                              generation |-> a.generation, id |-> a.event])
                             => a.revision = o.revision

\* Review and delivery are never undone: a person's review survives every later
\* event, cleanup and reconciliation, and a settled delivery stays settled.
HumanStateKept ==
  [][/\ \A a \in attention : a.reviewed =>
          \E b \in attention' : b.reviewed /\ b.event = a.event /\ b.reason = a.reason
                                 /\ b.producer = a.producer /\ b.generation = a.generation
     /\ \A o \in outbox : o.state \in FinalDeliveries => o \in outbox']_storeVars

\* The abstract promise the transactions implement: a generation is an
\* append-only log that closes once (GenerationLog.tla).
LogOf(p) ==
  IF producers[p] = NoValue THEN NoValue
  ELSE [generation |-> producers[p].generation, next |-> producers[p].next,
        open |-> producers[p].active /\ producers[p].reconciled]

Log == INSTANCE GenerationLog
         WITH logs <- [p \in Producers |-> LogOf(p)], drawn <- issued

ImplementsGenerationLog == Log!Spec

=============================================================================
