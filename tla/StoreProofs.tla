---------------------------- MODULE StoreProofs ----------------------------
(***************************************************************************)
(* Theorems about the store, for every number of producers, runs, turns    *)
(* and events, and every value of the limits.                              *)
(***************************************************************************)
EXTENDS Store, TLAPS

-----------------------------------------------------------------------------
(* The reducer's effects *)

CurrentType == TurnKeys \cup {NoValue}

ViewType ==
  [projection : ProjectionType, current : CurrentType, tombstone : TombstoneType \cup {NoValue}]

EventType ==
  [producer : Producers, generation : Generations, run : Runs, seq : Seqs, id : EventIds,
   kind : EventKinds, turn : Turns \cup {NoValue}, exit : ExitReports \cup {NoValue},
   signals : SUBSET EventKinds]

EffectsType ==
  [projection : ProjectionType, current : CurrentType, attention : SUBSET AttentionReasons,
   resolve : CurrentType, tombstone : TombstoneType \cup {NoValue}, reconcile : BOOLEAN]

PolicyType == [supported : SUBSET EventKinds, freshness : ObservationStates]

LEMMA DoubtedShape ==
  ASSUME NEW projection \in ProjectionType, NEW f \in ObservationStates, NEW lose \in BOOLEAN
  PROVE  /\ Doubted(projection, f, lose) \in ProjectionType
         /\ Doubted(projection, f, lose).run = projection.run
         /\ Doubted(projection, f, lose).observation = f
BY DEF Doubted, ProjectionType, TurnStates

LEMMA UncertainShape ==
  ASSUME NEW eff \in EffectsType, NEW f \in ObservationStates, NEW lose \in BOOLEAN
  PROVE  /\ Uncertain(eff, f, lose) \in EffectsType
         /\ Uncertain(eff, f, lose).reconcile
         /\ Uncertain(eff, f, lose).projection.observation = f
         /\ Uncertain(eff, f, lose).projection.run = eff.projection.run
         /\ Uncertain(eff, f, lose).current = eff.current
<1> DEFINE shown == Doubted(eff.projection, f, lose)
           reasons == eff.attention \cup {"ConnectionUncertainty"}
<1>1. /\ shown \in ProjectionType /\ shown.run = eff.projection.run
      /\ shown.observation = f
  BY DoubtedShape DEF EffectsType
<1>2. reasons \in SUBSET AttentionReasons
  BY DEF EffectsType, AttentionReasons, TransientReasons
<1>3. Uncertain(eff, f, lose) =
        [eff EXCEPT !.attention = reasons, !.projection = shown, !.reconcile = TRUE]
  BY DEF Uncertain
<1> HIDE DEF shown, reasons
<1>4. QED
  BY <1>1, <1>2, <1>3 DEF EffectsType

LEMMA TurnKeyType ==
  ASSUME NEW e \in EventType, e.kind \in TurnKinds => e.turn \in Turns
  PROVE  /\ EventTurnKey(e) \in CurrentType
         /\ e.kind \in TurnKinds => EventTurnKey(e) \in TurnKeys
         /\ EventTurnKey(e) # NoValue => SameScope(EventTurnKey(e), e)
BY NoValueAssumption DEF EventType, EventTurnKey, TurnKey, TurnKeys, CurrentType, SameScope

LEMMA MovedShape ==
  ASSUME NEW eff \in EffectsType, NEW key \in TurnKeys, NEW observed \in TurnStates
  PROVE  /\ Moved(key, observed, eff) \in EffectsType
         /\ Moved(key, observed, eff).projection.run = eff.projection.run
         /\ Moved(key, observed, eff).current = key
         /\ Moved(key, observed, eff).reconcile = eff.reconcile
<1> DEFINE same == eff.current = key
           turn == LiveTurn(same, eff.projection.turn, observed)
           resolved == IF same THEN eff.resolve ELSE eff.current
           reasons == IF same /\ eff.projection.turn = observed THEN eff.attention
                      ELSE eff.attention \cup PromptReasons(observed)
           shown == [Shown(eff.projection, key, turn) EXCEPT !.observation = "Fresh"]
<1>1. reasons \in SUBSET AttentionReasons
  BY DEF EffectsType, PromptReasons, AttentionReasons, TransientReasons
<1>2. turn \in TurnStates
  BY DEF LiveTurn, EffectsType, ProjectionType
<1>3. resolved \in CurrentType /\ key \in CurrentType
  BY DEF EffectsType, CurrentType
<1>4. Moved(key, observed, eff) =
        [eff EXCEPT !.resolve = resolved, !.attention = reasons, !.projection = shown,
                    !.current = key]
  BY DEF Moved
<1> HIDE DEF turn, reasons, resolved
<1>5. shown \in ProjectionType /\ shown.run = eff.projection.run
  BY <1>2 DEF Shown, EffectsType, ProjectionType, TurnKeys, ObservationStates
<1> HIDE DEF shown
<1>6. QED
  BY <1>1, <1>3, <1>4, <1>5 DEF EffectsType

LEMMA ProgressShape ==
  ASSUME NEW eff \in EffectsType, NEW key \in TurnKeys, NEW observed \in TurnStates
  PROVE  /\ Progress(key, observed, eff) \in EffectsType
         /\ Progress(key, observed, eff).projection.run = eff.projection.run
         /\ Progress(key, observed, eff).current \in {eff.current, key}
         /\ ~eff.reconcile /\ Progress(key, observed, eff).reconcile
              => Progress(key, observed, eff).projection.observation # "Fresh"
<1>1. /\ Uncertain(eff, "Stale", FALSE) \in EffectsType
      /\ Uncertain(eff, "Stale", FALSE).projection.observation = "Stale"
      /\ Uncertain(eff, "Stale", FALSE).projection.run = eff.projection.run
      /\ Uncertain(eff, "Stale", FALSE).current = eff.current
  BY UncertainShape DEF ObservationStates
<1>2. \/ Progress(key, observed, eff) = Uncertain(eff, "Stale", FALSE)
      \/ Progress(key, observed, eff) = eff
      \/ Progress(key, observed, eff) = Moved(key, observed, eff)
  BY Zenon DEF Progress
<1>3. CASE Progress(key, observed, eff) = Uncertain(eff, "Stale", FALSE)
  BY <1>1, <1>3
<1>4. CASE Progress(key, observed, eff) = eff
  BY <1>4
<1>5. CASE Progress(key, observed, eff) = Moved(key, observed, eff)
  BY <1>5, MovedShape
<1>6. QED
  BY <1>2, <1>3, <1>4, <1>5

LEMMA TerminalShape ==
  ASSUME NEW eff \in EffectsType, NEW e \in EventType, NEW key \in TurnKeys,
         NEW observed \in TerminalTurns
  PROVE  /\ Terminal(e, key, observed, eff) \in EffectsType
         /\ Terminal(e, key, observed, eff).projection.run = eff.projection.run
         /\ Terminal(e, key, observed, eff).current \in {eff.current, key}
         /\ Terminal(e, key, observed, eff).reconcile = eff.reconcile
         /\ Terminal(e, key, observed, eff).projection.observation
              = eff.projection.observation
<1> DEFINE projected == Projects(key, eff)
           protection == [key |-> key, outcome |-> e.id, terminal |-> observed]
           outcome == IF observed = "Completed" THEN "Completion" ELSE "Failure"
           reasons == eff.attention \cup {outcome}
           shown == IF projected THEN Shown(eff.projection, key, observed)
                    ELSE eff.projection
           current == IF projected THEN key ELSE eff.current
<1>1. protection \in TombstoneType
  BY DEF TombstoneType, EventType
<1>2. reasons \in SUBSET AttentionReasons
  BY DEF EffectsType, AttentionReasons
<1>3. /\ shown \in ProjectionType /\ shown.run = eff.projection.run
      /\ shown.observation = eff.projection.observation
  BY DEF Shown, EffectsType, ProjectionType, TurnKeys, TurnStates
<1>4. current \in CurrentType /\ current \in {eff.current, key} /\ key \in CurrentType
  BY DEF EffectsType, CurrentType
<1>5. Terminal(e, key, observed, eff) =
        [eff EXCEPT !.tombstone = protection, !.resolve = key, !.attention = reasons,
                    !.projection = shown, !.current = current]
  BY DEF Terminal
<1> HIDE DEF protection, reasons, shown, current
<1>6. QED
  BY <1>1, <1>2, <1>3, <1>4, <1>5 DEF EffectsType

\* What every step may rely on about the reducer: its effects are well typed,
\* it never moves a projection to another run, the current turn stays or becomes
\* the event's, and an uncertain event is never shown as fresh.
EffectsOf(view, e, eff) ==
  /\ eff \in EffectsType
  /\ eff.projection.run = view.projection.run
  /\ eff.current \in {view.current, EventTurnKey(e)}
  /\ eff.reconcile => eff.projection.observation # "Fresh"

LEMMA UncertainEffects ==
  ASSUME NEW view, NEW e, NEW eff, EffectsOf(view, e, eff),
         NEW f \in ObservationStates \ {"Fresh"}, NEW lose \in BOOLEAN
  PROVE  EffectsOf(view, e, Uncertain(eff, f, lose))
BY UncertainShape DEF EffectsOf

LEMMA ReduceTurnShape ==
  ASSUME NEW view \in ViewType, NEW e \in EventType, e.kind \in TurnKinds, e.turn \in Turns,
         NEW policy \in PolicyType, NEW eff, EffectsOf(view, e, eff),
         policy.freshness = "Fresh" => ~eff.reconcile
  PROVE  EffectsOf(view, e, ReduceTurn(view, e, policy, eff))
<1> DEFINE key == EventTurnKey(e)
           observed == ObservedTurn(e)
<1>1. key \in TurnKeys
  BY TurnKeyType
<1>2. observed \in TurnStates
  BY DEF ObservedTurn, TurnStates, AwaitingTurns, TerminalTurns
<1>3. policy.freshness \in ObservationStates
  BY DEF PolicyType
<1> HIDE DEF key, observed
<1>4. EffectsOf(view, e, Uncertain(eff, StaleUnlessExplicit(policy), FALSE))
  <2>1. StaleUnlessExplicit(policy) \in ObservationStates \ {"Fresh"}
    BY <1>3 DEF StaleUnlessExplicit, ObservationStates
  <2>2. QED
    BY <2>1, UncertainEffects
<1>5. IsTerminal(observed) => EffectsOf(view, e, Terminal(e, key, observed, eff))
  <2>1. SUFFICES ASSUME observed \in TerminalTurns
                 PROVE  EffectsOf(view, e, Terminal(e, key, observed, eff))
    BY DEF IsTerminal
  <2>2. eff \in EffectsType
    BY DEF EffectsOf
  <2>3. QED
    BY <1>1, <2>1, <2>2, TerminalShape DEF EffectsOf, key
<1>6. policy.freshness # "Fresh" => EffectsOf(view, e, Uncertain(eff, policy.freshness, TRUE))
  BY <1>3, UncertainEffects
<1>7. EffectsOf(view, e, Uncertain(eff, "Stale", TRUE))
  BY UncertainEffects DEF ObservationStates
<1>8. policy.freshness = "Fresh" => EffectsOf(view, e, Progress(key, observed, eff))
  <2>1. eff \in EffectsType
    BY DEF EffectsOf
  <2>2. QED
    BY <1>1, <1>2, <2>1, ProgressShape DEF EffectsOf, key
<1>9. \/ ReduceTurn(view, e, policy, eff) = eff
      \/ ReduceTurn(view, e, policy, eff) = Uncertain(eff, StaleUnlessExplicit(policy), FALSE)
      \/ IsTerminal(observed) /\ ReduceTurn(view, e, policy, eff) = Terminal(e, key, observed, eff)
      \/ policy.freshness # "Fresh"
           /\ ReduceTurn(view, e, policy, eff) = Uncertain(eff, policy.freshness, TRUE)
      \/ ReduceTurn(view, e, policy, eff) = Uncertain(eff, "Stale", TRUE)
      \/ policy.freshness = "Fresh"
           /\ ReduceTurn(view, e, policy, eff) = Progress(key, observed, eff)
  BY DEF ReduceTurn, Ended, key, observed
<1>10. QED
  BY <1>4, <1>5, <1>6, <1>7, <1>8, <1>9

LEMMA ReduceShape ==
  ASSUME NEW view \in ViewType, NEW e \in EventType, e.kind \in TurnKinds => e.turn \in Turns,
         NEW policy \in PolicyType
  PROVE  EffectsOf(view, e, Reduce(view, e, policy))
<1> DEFINE start == IF policy.freshness # "Fresh"
                    THEN Uncertain(NoEffects(view), policy.freshness, TRUE)
                    ELSE NoEffects(view)
<1>1. policy.freshness \in ObservationStates
  BY DEF PolicyType
<1>2. EffectsOf(view, e, NoEffects(view)) /\ ~NoEffects(view).reconcile
  BY DEF EffectsOf, NoEffects, EffectsType, ViewType, CurrentType
<1>3. EffectsOf(view, e, start) /\ (policy.freshness = "Fresh" => ~start.reconcile)
  BY <1>1, <1>2, UncertainEffects
<1> HIDE DEF start
<1>4. CASE e.kind \in TurnKinds
  <2>1. Reduce(view, e, policy) = ReduceTurn(view, e, policy, start)
    BY <1>4 DEF Reduce, start
  <2>2. QED
    BY <1>3, <1>4, <2>1, ReduceTurnShape
<1>5. CASE e.kind \notin TurnKinds
  <2>1. Reduce(view, e, policy) = ReduceRun(e, policy, start)
    BY <1>5 DEF Reduce, start
  <2> DEFINE process == IF e.exit \in {"ExitCode", "Signaled"} THEN "Exited" ELSE "Unknown"
             ended == [start EXCEPT !.projection.process = process]
  <2>2. EffectsOf(view, e, ended)
    BY <1>3 DEF EffectsOf, EffectsType, ProjectionType, ProcessStates
  <2>3. StaleUnlessExplicit(policy) \in ObservationStates \ {"Fresh"}
    BY <1>1 DEF StaleUnlessExplicit, ObservationStates
  <2>4. EffectsOf(view, e, Uncertain(ended, StaleUnlessExplicit(policy), TRUE))
    BY <2>2, <2>3, UncertainEffects
  <2>5. EffectsOf(view, e, Uncertain(start, "Unsupported", TRUE))
    BY <1>3, UncertainEffects DEF ObservationStates
  <2>6. policy.freshness # "Fresh"
          => EffectsOf(view, e, Uncertain(start, policy.freshness, TRUE))
    BY <1>1, <1>3, UncertainEffects
  <2>7. \/ ReduceRun(e, policy, start) = start
        \/ ReduceRun(e, policy, start) = Uncertain(ended, StaleUnlessExplicit(policy), TRUE)
        \/ ReduceRun(e, policy, start) = Uncertain(start, "Unsupported", TRUE)
        \/ policy.freshness # "Fresh"
             /\ ReduceRun(e, policy, start) = Uncertain(start, policy.freshness, TRUE)
    BY DEF ReduceRun
  <2>8. QED
    BY <1>3, <2>1, <2>4, <2>5, <2>6, <2>7
<1>6. QED
  BY <1>4, <1>5

-----------------------------------------------------------------------------
(* Type correctness *)

RowType == [projection : ProjectionType, current : CurrentType]

LEMMA ActiveProducersTyped ==
  ASSUME TypeOK, NEW p \in ActiveProducers
  PROVE  p \in Producers /\ producers[p] \in ProducerType /\ producers[p].active
BY NoValueAssumption DEF TypeOK, ActiveProducers

LEMMA RetireTyped ==
  ASSUME TypeOK, NEW retired \in SUBSET ActiveProducers, Retire(retired)
  PROVE  /\ producers' \in [Producers -> ProducerType \cup {NoValue}]
         /\ projections' \in [Runs -> RowType]
<1>1. \A p \in retired : p \in Producers /\ producers[p] \in ProducerType
  BY ActiveProducersTyped
<1>2. producers' \in [Producers -> ProducerType \cup {NoValue}]
  BY <1>1 DEF Retire, Deactivate, TypeOK, ProducerType
<1>3. \A r \in Runs : projections[r] \in RowType
  BY DEF TypeOK, RowType, CurrentType
<1>4. \A r \in Runs : Doubted(projections[r].projection, "Stale", TRUE) \in ProjectionType
  BY <1>3, DoubtedShape DEF RowType, ObservationStates
<1>5. \A r \in Runs : [projections[r] EXCEPT
                       !.projection = Doubted(projections[r].projection, "Stale", TRUE)]
                         \in RowType
  BY <1>3, <1>4 DEF RowType
<1>6. projections' \in [Runs -> RowType]
  BY <1>3, <1>5 DEF Retire, Degrade
<1>7. QED
  BY <1>2, <1>6

LEMMA RevisionAdvances ==
  ASSUME TypeOK, revision # MaxRevision, Advance
  PROVE  revision' \in 0..MaxRevision /\ revision + 1 \in 1..MaxRevision
BY StoreAssumption DEF TypeOK, Advance

LEMMA ResolveTurnTyped ==
  ASSUME NEW rows \in SUBSET AttentionType, NEW key
  PROVE  ResolveTurn(rows, key) \subseteq AttentionType
<1>1. \A a \in AttentionType : [a EXCEPT !.resolved = TRUE] \in AttentionType
  BY DEF AttentionType
<1>2. QED
  BY <1>1 DEF ResolveTurn

\* What an accepted write and its event satisfy.
LEMMA ApplyOk ==
  ASSUME NEW w, ApplyOutcome(w) = "Ok"
  PROVE  /\ RevisionOutcome(w.expected) = "Ok"
         /\ ScopeOutcome(w.fact) = "Ok"
         /\ DiscardedOutcome(w.discarded) = "Ok"
BY DEF ApplyOutcome, FirstFailure

LEMMA RevisionOk ==
  ASSUME NEW expected, RevisionOutcome(expected) = "Ok"
  PROVE  revision # MaxRevision
BY DEF RevisionOutcome

LEMMA ScopeOk ==
  ASSUME TypeOK, NEW e \in EventType, ScopeOutcome(e) = "Ok"
  PROVE  /\ producers[e.producer] # NoValue
         /\ producers[e.producer] \in ProducerType
         /\ producers[e.producer].active /\ producers[e.producer].reconciled
         /\ producers[e.producer].generation = e.generation
         /\ producers[e.producer].run = e.run
         /\ producers[e.producer].next = e.seq
<1> DEFINE record == producers[e.producer]
<1>1. record \in ProducerType \cup {NoValue} /\ e.seq \in Nat /\ Seqs \subseteq Nat
  BY DEF TypeOK, EventType, Seqs
<1>2. record # NoValue
  BY DEF ScopeOutcome
<1>3. record.next \in Seqs \cup {NoValue}
  BY <1>1, <1>2 DEF ProducerType
<1>4. record.next # NoValue
  BY <1>2 DEF ScopeOutcome
<1>5. /\ record.active /\ record.reconciled
      /\ record.generation = e.generation /\ record.run = e.run
  BY <1>2 DEF ScopeOutcome
<1>6. ~(record.next < e.seq) /\ ~(record.next > e.seq)
  BY <1>2, <1>4 DEF ScopeOutcome
<1>7. record.next \in Nat
  BY <1>1, <1>3, <1>4
<1> HIDE DEF record
<1>8. record.next = e.seq
  BY <1>1, <1>6, <1>7
<1>9. QED
  BY <1>1, <1>2, <1>5, <1>8 DEF record

LEMMA EventOfTyped ==
  ASSUME TypeOK, NEW p \in ActiveProducers, NEW r \in Runs, NEW s \in Seqs, NEW id \in EventIds,
         NEW payload \in Payloads
  PROVE  LET e == EventOf(p, producers[p].generation, r, s, id, payload)
         IN  e \in EventType /\ (e.kind \in TurnKinds => e.turn \in Turns)
<1>1. p \in Producers /\ producers[p].generation \in Generations
  BY ActiveProducersTyped DEF ProducerType
<1>2. QED
  BY <1>1, InputAssumption DEF EventOf, EventType

LEMMA ViewOfTyped ==
  ASSUME TypeOK, NEW e \in EventType
  PROVE  ViewOf(e) \in ViewType
<1>1. TombstoneOf(EventTurnKey(e)) \in TombstoneType \cup {NoValue}
  BY DEF TombstoneOf, TombstonesOf, TypeOK
<1>2. projections[e.run] \in [projection : ProjectionType, current : CurrentType]
  BY DEF TypeOK, EventType, CurrentType
<1>3. QED
  BY <1>1, <1>2 DEF ViewOf, ViewType

\* The effects of a serial client's write.
LEMMA WriteShape ==
  ASSUME TypeOK, NEW e \in EventType, e.kind \in TurnKinds => e.turn \in Turns,
         NEW policy \in Policies, NEW notify \in NotifyChoices, NEW lost \in LostCounts
  PROVE  /\ WriteOf(e, policy, notify, lost).fact = e
         /\ WriteOf(e, policy, notify, lost).discarded = lost
         /\ WriteOf(e, policy, notify, lost).notify = notify
         /\ EffectsOf(ViewOf(e), e, WriteOf(e, policy, notify, lost).effects)
<1>1. policy \in PolicyType
  BY InputAssumption DEF PolicyType
<1>2. EffectsOf(ViewOf(e), e, Reduce(ViewOf(e), e, policy))
  BY <1>1, ViewOfTyped, ReduceShape
<1>3. QED
  BY <1>2 DEF WriteOf

LEMMA RaisedRowsTyped ==
  ASSUME TypeOK, revision # MaxRevision, NEW w, w.fact \in EventType,
         w.effects \in EffectsType
  PROVE  RaisedRows(w) \subseteq AttentionType
<1>1. revision + 1 \in 1..MaxRevision
  BY StoreAssumption DEF TypeOK
<1>2. EventTurn(w.fact) \in Turns \cup {NoValue}
  BY DEF EventTurn, EventType
<1>3. \A reason \in RaisedReasons(w) : reason \in AttentionReasons
  BY DEF RaisedReasons, EffectsType
<1> DEFINE row(reason) ==
      [producer |-> w.fact.producer, generation |-> w.fact.generation, event |-> w.fact.id,
       run |-> w.fact.run, reason |-> reason, reviewed |-> FALSE, turn |-> EventTurn(w.fact),
       resolved |-> FALSE, revision |-> revision + 1, resolution |-> w.fact.generation]
<1>4. \A reason \in AttentionReasons : row(reason) \in AttentionType
  BY <1>1, <1>2 DEF AttentionType, EventType
<1>5. RaisedRows(w) = {row(reason) : reason \in RaisedReasons(w)}
  BY DEF RaisedRows
<1> HIDE DEF row
<1>6. QED
  BY <1>3, <1>4, <1>5

LEMMA ObserveTyped ==
  ASSUME TypeOK, NEW e \in EventType, e.kind \in TurnKinds => e.turn \in Turns,
         NEW policy \in Policies, NEW notify \in NotifyChoices, NEW lost \in LostCounts,
         Observe(e, policy, notify, lost)
  PROVE  TypeOK'
<1> DEFINE w == WriteOf(e, policy, notify, lost)
<1>1. /\ w.fact = e /\ w.discarded = lost
      /\ EffectsOf(ViewOf(e), e, w.effects)
  BY WriteShape
<1>2. ApplyOutcome(w) = "Ok" /\ ApplyEffect(w)
  BY DEF Observe, Apply
<1> HIDE DEF w
<1>3. revision # MaxRevision /\ ScopeOutcome(e) = "Ok" /\ DiscardedOutcome(lost) = "Ok"
  BY <1>1, <1>2, ApplyOk, RevisionOk
<1>4. /\ w.effects \in EffectsType /\ w.effects.projection \in ProjectionType
      /\ w.effects.current \in CurrentType
      /\ w.effects.tombstone \in TombstoneType \cup {NoValue}
  BY <1>1 DEF EffectsOf, EffectsType
<1>5. e.producer \in Producers /\ e.run \in Runs /\ e.seq \in Seqs /\ e.generation \in Generations
      /\ e.id \in EventIds
  BY DEF EventType
<1>6. revision' \in 0..MaxRevision /\ revision + 1 \in 1..MaxRevision
  BY <1>2, <1>3, RevisionAdvances DEF ApplyEffect
<1>7. discarded' \in 0..MaxDiscarded
  BY <1>1, <1>2, <1>3, StoreAssumption, InputAssumption
     DEF DiscardedOutcome, ApplyEffect, TypeOK
<1>8. issued' \in 0..MaxGeneration
  BY <1>2 DEF ApplyEffect, TypeOK
<1>9. producers' \in [Producers -> ProducerType \cup {NoValue}]
  <2>1. CheckedNext(e.seq, MaxSeq) \in Seqs \cup {NoValue}
    BY <1>5, StoreAssumption DEF CheckedNext, Seqs
  <2>2. producers[e.producer] \in ProducerType
    BY <1>3, ScopeOk
  <2> DEFINE record == [producers[e.producer] EXCEPT
                          !.next = CheckedNext(e.seq, MaxSeq),
                          !.active = ~w.effects.reconcile,
                          !.reconciled = ~w.effects.reconcile]
  <2>3. record \in ProducerType
    BY <2>1, <2>2 DEF ProducerType
  <2>4. producers' = [producers EXCEPT ![e.producer] = record]
    BY <1>1, <1>2 DEF ApplyEffect
  <2> HIDE DEF record
  <2>5. QED
    BY <2>3, <2>4 DEF TypeOK
<1>10. projections' \in [Runs -> [projection : ProjectionType, current : TurnKeys \cup {NoValue}]]
  BY <1>1, <1>2, <1>4, <1>5 DEF ApplyEffect, TypeOK, CurrentType
<1>11. attention' \subseteq AttentionType
  BY <1>1, <1>2, <1>3, <1>4, RaisedRowsTyped, ResolveTurnTyped DEF ApplyEffect, TypeOK
<1>12. outbox' \subseteq OutboxType
  BY <1>1, <1>2, <1>5, <1>6 DEF ApplyEffect, TypeOK, OutboxType, DeliveryStates
<1>13. tombstones' \subseteq TombstoneType
  BY <1>2, <1>4 DEF ApplyEffect, TypeOK
<1>14. \A f \in facts' : f.revision \in 1..MaxRevision
  BY <1>2, <1>6 DEF ApplyEffect, TypeOK
<1>15. QED
  BY <1>6, <1>7, <1>8, <1>9, <1>10, <1>11, <1>12, <1>13, <1>14 DEF TypeOK

LEMMA ReconcileTyped ==
  ASSUME TypeOK, NEW p \in Producers, NEW r \in Runs, NEW first \in FirstSequences,
         NEW baseline \in Baselines \cup {NoValue},
         NEW lost \in LostCounts, NEW resolved, NEW continued,
         Reconcile(ReconciliationOf(p, r, first, baseline, lost, resolved, continued))
  PROVE  TypeOK'
<1> DEFINE q == ReconciliationOf(p, r, first, baseline, lost, resolved, continued)
<1>1. /\ q.producer = p /\ q.run = r /\ q.next = first /\ q.baseline = baseline
      /\ q.discarded = lost /\ q.resolved = resolved /\ q.continued = continued
  BY DEF ReconciliationOf
<1>2. issued < MaxGeneration /\ ReconcileOutcome(q) = "Ok" /\ ReconcileEffect(q)
  BY DEF Reconcile
<1> HIDE DEF q
<1>3. revision # MaxRevision /\ DiscardedOutcome(lost) = "Ok"
  BY <1>1, <1>2, RevisionOk DEF ReconcileOutcome, FirstFailure
<1>4. issued + 1 \in Generations /\ issued' \in 0..MaxGeneration
  BY <1>2, StoreAssumption DEF TypeOK, Generations, ReconcileEffect
<1>5. revision' \in 0..MaxRevision
  BY <1>2, <1>3, RevisionAdvances DEF ReconcileEffect
<1>6. discarded' \in 0..MaxDiscarded
  BY <1>1, <1>2, <1>3, StoreAssumption, InputAssumption
     DEF DiscardedOutcome, ReconcileEffect, TypeOK
<1>7. producers' \in [Producers -> ProducerType \cup {NoValue}]
  <2>1. first \in Seqs
    BY InputAssumption
  <2>2. [generation |-> issued + 1, run |-> r, next |-> first, active |-> baseline # NoValue,
         reconciled |-> baseline # NoValue] \in ProducerType
    BY <1>4, <2>1 DEF ProducerType
  <2>3. producers' = [producers EXCEPT ![p] =
          [generation |-> issued + 1, run |-> r, next |-> first, active |-> baseline # NoValue,
           reconciled |-> baseline # NoValue]]
    BY <1>1, <1>2 DEF ReconcileEffect
  <2>4. QED
    BY <2>2, <2>3 DEF TypeOK
<1>8. projections' \in [Runs -> RowType]
  <2>1. CASE baseline = NoValue
    <3>1. [projection |-> UnknownProjection(r), current |-> NoValue] \in RowType
      BY DEF RowType, UnknownProjection, ProjectionType, CurrentType, ProcessStates,
             ObservationStates, TurnStates
    <3>2. projections' = [projections EXCEPT ![r] =
                            [projection |-> UnknownProjection(r), current |-> NoValue]]
      BY <1>1, <1>2, <2>1 DEF ReconcileEffect
    <3>3. QED
      BY <3>1, <3>2 DEF TypeOK, RowType, CurrentType
  <2>2. CASE baseline # NoValue
    <3> DEFINE shown == [run |-> r, process |-> "Alive", observation |-> "Fresh",
                         turn |-> baseline.turn, turnId |-> baseline.turnId]
               current == BaselineTurn(q, issued + 1)
    <3>1. baseline.turn \in TurnStates /\ baseline.turnId \in Turns \cup {NoValue}
      BY <2>2, InputAssumption
    <3>2. shown \in ProjectionType
      BY <3>1 DEF ProjectionType, ProcessStates, ObservationStates
    <3>3. current \in CurrentType
      BY <1>1, <1>4, <3>1 DEF BaselineTurn, CurrentType, TurnKey, TurnKeys
    <3>4. projections' = [projections EXCEPT ![r] = [projection |-> shown, current |-> current]]
      BY <1>1, <1>2, <2>2 DEF ReconcileEffect
    <3> HIDE DEF shown, current
    <3>5. QED
      BY <3>2, <3>3, <3>4 DEF TypeOK, RowType, CurrentType
  <2>3. QED
    BY <2>1, <2>2
<1>9. attention' \subseteq AttentionType
  <2>1. ResolveTurn(attention, resolved) \subseteq AttentionType
    BY ResolveTurnTyped DEF TypeOK
  <2>2. \A a \in AttentionType : [a EXCEPT !.resolution = issued + 1] \in AttentionType
    BY <1>4 DEF AttentionType
  <2>3. QED
    BY <1>1, <1>2, <2>1, <2>2 DEF ReconcileEffect
<1>10. UNCHANGED <<facts, outbox, tombstones>>
  BY <1>2 DEF ReconcileEffect
<1>11. QED
  BY <1>4, <1>5, <1>6, <1>7, <1>8, <1>9, <1>10 DEF TypeOK, RowType, CurrentType

LEMMA RetireProducerTyped ==
  ASSUME TypeOK, NEW p \in ActiveProducers, NEW lost \in LostCounts,
         RetireProducer(RetirementOf(p, lost))
  PROVE  TypeOK'
<1> DEFINE q == RetirementOf(p, lost)
<1>1. q.producer = p /\ q.discarded = lost
  BY DEF RetirementOf
<1>2. RetireOutcome(q) = "Ok" /\ RetireEffect(q)
  BY DEF RetireProducer
<1> HIDE DEF q
<1>3. revision # MaxRevision /\ DiscardedOutcome(lost) = "Ok"
  BY <1>1, <1>2, RevisionOk DEF RetireOutcome, FirstFailure
<1>4. /\ producers' \in [Producers -> ProducerType \cup {NoValue}]
      /\ projections' \in [Runs -> RowType]
  BY <1>1, <1>2, RetireTyped DEF RetireEffect
<1>5. revision' \in 0..MaxRevision
  BY <1>2, <1>3, RevisionAdvances DEF RetireEffect
<1>6. discarded' \in 0..MaxDiscarded
  BY <1>1, <1>2, <1>3, StoreAssumption, InputAssumption
     DEF DiscardedOutcome, RetireEffect, TypeOK
<1>7. QED
  BY <1>2, <1>4, <1>5, <1>6 DEF RetireEffect, TypeOK, RowType, CurrentType

LEMMA MaintainTyped ==
  ASSUME TypeOK, NEW oldFacts, NEW oldTombstones, NEW oldDeliveries \in SUBSET outbox,
         Maintain(oldFacts, oldTombstones, oldDeliveries)
  PROVE  TypeOK'
<1>1. /\ producers' \in [Producers -> ProducerType \cup {NoValue}]
      /\ projections' \in [Runs -> RowType]
  BY RetireTyped DEF Maintain, Unprotected
<1>2. revision' \in 0..MaxRevision
  BY StoreAssumption, RevisionAdvances DEF Maintain, TypeOK
<1>3. outbox' \subseteq OutboxType
  BY DEF Maintain, TypeOK, OutboxType, DeliveryStates
<1>4. QED
  BY <1>1, <1>2, <1>3 DEF Maintain, TypeOK, RowType, CurrentType

LEMMA ReviewTyped ==
  ASSUME TypeOK, NEW row \in attention, Review(row)
  PROVE  TypeOK'
<1>1. \A a \in AttentionType : [a EXCEPT !.reviewed = TRUE] \in AttentionType
  BY DEF AttentionType
<1>2. revision' \in 0..MaxRevision
  BY StoreAssumption, RevisionAdvances DEF Review, TypeOK
<1>3. attention' \subseteq AttentionType
  BY <1>1 DEF Review, TypeOK
<1>4. QED
  BY <1>2, <1>3 DEF Review, TypeOK

LEMMA DeliveryTyped ==
  ASSUME TypeOK, NEW row \in outbox, NEW state \in DeliveryStates, SetDelivery(row, state)
  PROVE  TypeOK'
<1>1. [row EXCEPT !.state = state] \in OutboxType
  BY DEF TypeOK, OutboxType
<1>2. revision' \in 0..MaxRevision
  BY StoreAssumption, RevisionAdvances DEF SetDelivery, TypeOK
<1>3. QED
  BY <1>1, <1>2 DEF SetDelivery, TypeOK

LEMMA ReopenTyped ==
  ASSUME TypeOK, Reopen
  PROVE  TypeOK'
<1>1. /\ producers' \in [Producers -> ProducerType \cup {NoValue}]
      /\ projections' \in [Runs -> RowType]
  BY RetireTyped DEF Reopen
<1>2. revision' \in 0..MaxRevision
  BY StoreAssumption, RevisionAdvances DEF Reopen, TypeOK
<1>3. QED
  BY <1>1, <1>2 DEF Reopen, TypeOK, RowType, CurrentType

LEMMA TypeInit == Init => TypeOK
BY StoreAssumption DEF Init, TypeOK, UnknownProjection, ProjectionType, ProcessStates,
     ObservationStates, TurnStates

LEMMA TypeStep == TypeOK /\ [Next]_storeVars => TypeOK'
<1> SUFFICES ASSUME TypeOK, [Next]_storeVars PROVE TypeOK'
  OBVIOUS
<1>1. ASSUME NEW p \in Producers, NEW r \in Runs, NEW s \in Seqs, NEW id \in EventIds,
             NEW payload \in Payloads, NEW policy \in Policies, NEW notify \in NotifyChoices,
             NEW lost \in LostCounts, p \in ActiveProducers,
             Observe(EventOf(p, producers[p].generation, r, s, id, payload), policy, notify, lost)
      PROVE  TypeOK'
  BY <1>1, EventOfTyped, ObserveTyped
<1>2. ASSUME NEW p \in Producers, NEW r \in Runs, NEW first \in FirstSequences,
             NEW baseline \in Baselines \cup {NoValue},
             NEW lost \in LostCounts, NEW resolved, NEW continued,
             Reconcile(ReconciliationOf(p, r, first, baseline, lost, resolved, continued))
      PROVE  TypeOK'
  BY <1>2, ReconcileTyped
<1>3. ASSUME NEW p \in ActiveProducers, NEW lost \in LostCounts,
             RetireProducer(RetirementOf(p, lost))
      PROVE  TypeOK'
  BY <1>3, RetireProducerTyped
<1>4. ASSUME NEW oldFacts, NEW oldTombstones, NEW oldDeliveries \in SUBSET outbox,
             Maintain(oldFacts, oldTombstones, oldDeliveries)
      PROVE  TypeOK'
  BY <1>4, MaintainTyped
<1>5. CASE \E row \in attention : Review(row)
  BY <1>5, ReviewTyped
<1>6. CASE \E row \in outbox, state \in DeliveryStates : SetDelivery(row, state)
  BY <1>6, DeliveryTyped
<1>7. CASE OtherWrite
  BY <1>7, StoreAssumption, RevisionAdvances DEF OtherWrite, TypeOK
<1>8. CASE Reopen
  BY <1>8, ReopenTyped
<1>9. CASE UNCHANGED storeVars
  BY <1>9 DEF storeVars, TypeOK
<1>10. QED
  BY <1>1, <1>2, <1>3, <1>4, <1>5, <1>6, <1>7, <1>8, <1>9 DEF Next

\* Every row keeps its type and every counter its bound, whatever a client
\* writes: no checked addition of the transactions can be overrun.
THEOREM TypeCorrect == Spec => []TypeOK
<1>1. QED
  BY TypeInit, TypeStep, PTL DEF Spec

-----------------------------------------------------------------------------
(* Scope: who observes a run, and whose turn it shows                      *)

\* The legacy registration, which activates without reconciling and which only
\* tests submit, is not modelled.
ActiveIsReconciled == \A p \in ActiveProducers : producers[p].reconciled

RowsNameTheirRun ==
  \A r \in Runs : /\ projections[r].projection.run = r
                  /\ projections[r].current # NoValue => projections[r].current.run = r

\* The inductive invariant: FreshMeansObserved survives a retirement only
\* because the retired producer's run shows that producer's own turn, and that
\* holds only while nobody else observes the run.
ScopeInv ==
  /\ TypeOK
  /\ ActiveIsReconciled
  /\ RowsNameTheirRun
  /\ OneObserverPerRun
  /\ CurrentTurnInScope
  /\ FreshMeansObserved

\* What a retirement leaves of the rows, for any set of active producers.
LEMMA RetireScope ==
  ASSUME ScopeInv, NEW retired \in SUBSET ActiveProducers, Retire(retired)
  PROVE  /\ ActiveIsReconciled' /\ RowsNameTheirRun'
         /\ OneObserverPerRun' /\ CurrentTurnInScope' /\ FreshMeansObserved'
<1>1. \A p \in ActiveProducers : p \in Producers /\ producers[p] \in ProducerType
  BY ActiveProducersTyped DEF ScopeInv
<1>2. ActiveProducers' = ActiveProducers \ retired
  BY <1>1, NoValueAssumption DEF Retire, Deactivate, ActiveProducers, ProducerType
<1>3. \A p \in ActiveProducers' : producers'[p] = producers[p]
  BY <1>1, <1>2 DEF Retire, Deactivate
<1>4. \A r \in Runs : projections[r] \in RowType
  BY DEF ScopeInv, TypeOK, RowType, CurrentType
<1>5. \A r \in Runs :
        /\ projections'[r].current = projections[r].current
        /\ projections'[r].projection.run = projections[r].projection.run
        /\ Degraded(retired, r) => projections'[r].projection.observation = "Stale"
        /\ ~Degraded(retired, r) => projections'[r] = projections[r]
  <2> TAKE r \in Runs
  <2> DEFINE doubted == Doubted(projections[r].projection, "Stale", TRUE)
  <2>1. doubted.run = projections[r].projection.run /\ doubted.observation = "Stale"
    BY <1>4, DoubtedShape DEF RowType, ObservationStates
  <2>2. projections'[r] = IF Degraded(retired, r)
                          THEN [projections[r] EXCEPT !.projection = doubted]
                          ELSE projections[r]
    BY DEF Retire, Degrade
  <2> HIDE DEF doubted
  <2>3. QED
    BY <1>4, <2>1, <2>2 DEF RowType
<1>6. ActiveIsReconciled'
  BY <1>2, <1>3 DEF ScopeInv, ActiveIsReconciled
<1>7. RowsNameTheirRun'
  <2> SUFFICES ASSUME NEW r \in Runs
               PROVE  /\ projections'[r].projection.run = r
                      /\ projections'[r].current # NoValue => projections'[r].current.run = r
    BY DEF RowsNameTheirRun
  <2>1. /\ projections'[r].current = projections[r].current
        /\ projections'[r].projection.run = projections[r].projection.run
    BY <1>5
  <2>2. QED
    BY <2>1 DEF ScopeInv, RowsNameTheirRun
<1>8. OneObserverPerRun'
  BY <1>2, <1>3 DEF ScopeInv, OneObserverPerRun
<1>9. CurrentTurnInScope'
  <2> SUFFICES ASSUME NEW p \in ActiveProducers', projections'[producers'[p].run].current # NoValue
               PROVE  /\ projections'[producers'[p].run].current.producer = p
                      /\ projections'[producers'[p].run].current.generation
                           = producers'[p].generation
    BY DEF CurrentTurnInScope
  <2>1. p \in ActiveProducers /\ producers'[p] = producers[p] /\ producers[p].run \in Runs
    BY <1>1, <1>2, <1>3 DEF ProducerType
  <2>2. projections'[producers[p].run].current = projections[producers[p].run].current
    BY <1>5, <2>1
  <2>3. QED
    BY <2>1, <2>2 DEF ScopeInv, CurrentTurnInScope
<1>10. FreshMeansObserved'
  <2> SUFFICES ASSUME NEW r \in Runs, projections'[r].projection.observation = "Fresh"
               PROVE  \E p \in ActiveProducers' :
                        producers'[p].reconciled /\ producers'[p].run = r
    BY DEF FreshMeansObserved
  <2>1. ~Degraded(retired, r)
    <3>1. Degraded(retired, r) => projections'[r].projection.observation = "Stale"
      BY <1>5
    <3>2. QED
      BY <3>1
  <2>2. projections'[r] = projections[r]
    <3>1. ~Degraded(retired, r) => projections'[r] = projections[r]
      BY <1>5
    <3>2. QED
      BY <2>1, <3>1
  <2>3. PICK p \in ActiveProducers : producers[p].reconciled /\ producers[p].run = r
    BY <2>2 DEF ScopeInv, FreshMeansObserved
  <2>4. p \notin retired
    BY <2>1, <2>3 DEF Degraded, ScopeInv, CurrentTurnInScope
  <2>5. QED
    BY <1>2, <1>3, <2>3, <2>4
<1>11. QED
  BY <1>6, <1>7, <1>8, <1>9, <1>10

LEMMA ObserveScope ==
  ASSUME ScopeInv, NEW e \in EventType, e.kind \in TurnKinds => e.turn \in Turns,
         NEW policy \in Policies, NEW notify \in NotifyChoices, NEW lost \in LostCounts,
         Observe(e, policy, notify, lost)
  PROVE  /\ ActiveIsReconciled' /\ RowsNameTheirRun'
         /\ OneObserverPerRun' /\ CurrentTurnInScope' /\ FreshMeansObserved'
<1> DEFINE w == WriteOf(e, policy, notify, lost)
           p == e.producer
           r == e.run
<1>1. w.fact = e /\ EffectsOf(ViewOf(e), e, w.effects)
  BY WriteShape DEF ScopeInv
<1>2. ApplyOutcome(w) = "Ok" /\ ApplyEffect(w)
  BY DEF Observe, Apply
<1> HIDE DEF w
<1>3. /\ p \in Producers /\ r \in Runs
      /\ producers[p] \in ProducerType /\ p \in ActiveProducers
      /\ producers[p].generation = e.generation /\ producers[p].run = r
  BY <1>1, <1>2, ApplyOk, ScopeOk DEF ScopeInv, EventType, ActiveProducers
<1>4. \A q \in ActiveProducers : q \in Producers /\ producers[q] \in ProducerType
  BY ActiveProducersTyped DEF ScopeInv
<1> DEFINE record == [producers[p] EXCEPT !.next = CheckedNext(e.seq, MaxSeq),
                                          !.active = ~w.effects.reconcile,
                                          !.reconciled = ~w.effects.reconcile]
<1>5. producers' = [producers EXCEPT ![p] = record]
  BY <1>1, <1>2 DEF ApplyEffect
<1>6. /\ record.generation = e.generation /\ record.run = r
      /\ record.active = ~w.effects.reconcile /\ record.reconciled = ~w.effects.reconcile
      /\ record # NoValue
  <2>1. CheckedNext(e.seq, MaxSeq) \in Seqs \cup {NoValue}
    BY StoreAssumption DEF CheckedNext, Seqs, EventType
  <2>2. record \in ProducerType
    BY <1>3, <2>1 DEF ProducerType
  <2>3. QED
    BY <1>3, <2>2, NoValueAssumption DEF ProducerType
<1> HIDE DEF record
<1>7. producers \in [Producers -> ProducerType \cup {NoValue}]
  BY DEF ScopeInv, TypeOK
<1>8. producers'[p] = record /\ \A q \in Producers \ {p} : producers'[q] = producers[q]
  BY <1>3, <1>5, <1>7
<1>9. ActiveProducers' = IF w.effects.reconcile THEN ActiveProducers \ {p} ELSE ActiveProducers
  BY <1>3, <1>6, <1>8 DEF ActiveProducers
<1>10. projections' = [projections EXCEPT ![r] = [projection |-> w.effects.projection,
                                                  current |-> w.effects.current]]
  BY <1>1, <1>2 DEF ApplyEffect
<1>11. /\ projections'[r].projection = w.effects.projection
       /\ projections'[r].current = w.effects.current
       /\ \A s \in Runs \ {r} : projections'[s] = projections[s]
  BY <1>3, <1>10 DEF ScopeInv, TypeOK
<1>12. w.effects.projection.run = r
  BY <1>1, <1>3 DEF EffectsOf, ViewOf, ScopeInv, RowsNameTheirRun
<1>13. w.effects.current # NoValue => SameScope(w.effects.current, e)
  <2>1. CASE w.effects.current = projections[r].current
    BY <1>3, <2>1 DEF ScopeInv, CurrentTurnInScope, RowsNameTheirRun, SameScope
  <2>2. CASE w.effects.current = EventTurnKey(e)
    BY <2>2, TurnKeyType
  <2>3. QED
    BY <1>1, <2>1, <2>2 DEF EffectsOf, ViewOf
<1>14. \A q \in ActiveProducers \ {p} : producers[q].run # r
  BY <1>3 DEF ScopeInv, OneObserverPerRun
<1>15. ActiveIsReconciled'
  BY <1>4, <1>6, <1>8, <1>9 DEF ScopeInv, ActiveIsReconciled
<1>16. RowsNameTheirRun'
  BY <1>11, <1>12, <1>13 DEF ScopeInv, RowsNameTheirRun, SameScope
<1>17. OneObserverPerRun'
  BY <1>3, <1>4, <1>6, <1>8, <1>9 DEF ScopeInv, OneObserverPerRun
<1>18. CurrentTurnInScope'
  <2> SUFFICES ASSUME NEW q \in ActiveProducers', projections'[producers'[q].run].current # NoValue
               PROVE  /\ projections'[producers'[q].run].current.producer = q
                      /\ projections'[producers'[q].run].current.generation
                           = producers'[q].generation
    BY DEF CurrentTurnInScope
  <2>1. CASE q = p
    BY <1>6, <1>8, <1>11, <1>13, <2>1 DEF SameScope
  <2>2. CASE q # p
    <3>1. q \in ActiveProducers /\ producers'[q] = producers[q] /\ producers[q].run \in Runs \ {r}
      BY <1>4, <1>8, <1>9, <1>14, <2>2 DEF ProducerType
    <3>2. QED
      BY <1>11, <3>1 DEF ScopeInv, CurrentTurnInScope
  <2>3. QED
    BY <2>1, <2>2
<1>19. FreshMeansObserved'
  <2> SUFFICES ASSUME NEW s \in Runs, projections'[s].projection.observation = "Fresh"
               PROVE  \E q \in ActiveProducers' :
                        producers'[q].reconciled /\ producers'[q].run = s
    BY DEF FreshMeansObserved
  <2>1. CASE s = r
    <3>1. ~w.effects.reconcile
      BY <1>1, <1>11, <2>1 DEF EffectsOf
    <3>2. QED
      BY <1>3, <1>6, <1>8, <1>9, <2>1, <3>1
  <2>2. CASE s # r
    <3>1. PICK q \in ActiveProducers : producers[q].reconciled /\ producers[q].run = s
      BY <1>11, <2>2 DEF ScopeInv, FreshMeansObserved
    <3>2. q # p /\ q \in ActiveProducers' /\ producers'[q] = producers[q]
      BY <1>3, <1>4, <1>8, <1>9, <2>2, <3>1
    <3>3. QED
      BY <3>1, <3>2
  <2>3. QED
    BY <2>1, <2>2
<1>20. QED
  BY <1>15, <1>16, <1>17, <1>18, <1>19

LEMMA ReconcileScope ==
  ASSUME ScopeInv, NEW p \in Producers, NEW r \in Runs, NEW first \in FirstSequences,
         NEW baseline \in Baselines \cup {NoValue},
         NEW lost \in LostCounts, NEW resolved, NEW continued,
         Reconcile(ReconciliationOf(p, r, first, baseline, lost, resolved, continued))
  PROVE  /\ ActiveIsReconciled' /\ RowsNameTheirRun'
         /\ OneObserverPerRun' /\ CurrentTurnInScope' /\ FreshMeansObserved'
<1> DEFINE q == ReconciliationOf(p, r, first, baseline, lost, resolved, continued)
           fresh == issued + 1
           verified == baseline # NoValue
           record == [generation |-> fresh, run |-> r, next |-> first,
                      active |-> verified, reconciled |-> verified]
           current == BaselineTurn(q, fresh)
<1>1. /\ q.producer = p /\ q.run = r /\ q.next = first /\ q.baseline = baseline
      /\ q.previous = GenerationOf(p)
  BY DEF ReconciliationOf
<1>2. RegistrationOutcome(q) = "Ok" /\ ReconcileEffect(q)
  BY DEF Reconcile, ReconcileOutcome, FirstFailure
<1> HIDE DEF q
<1>3. /\ producers[p] # NoValue => producers[p].run = r
      /\ \A s \in ActiveProducers \ {p} : producers[s].run # r
  BY <1>1, <1>2 DEF RegistrationOutcome, OtherObserver, GenerationOf
<1>4. \A s \in ActiveProducers : s \in Producers /\ producers[s] \in ProducerType
  BY ActiveProducersTyped DEF ScopeInv
<1>5. producers' = [producers EXCEPT ![p] = record]
  BY <1>1, <1>2 DEF ReconcileEffect
<1>6. /\ record.generation = fresh /\ record.run = r
      /\ record.active = verified /\ record.reconciled = verified /\ record # NoValue
  <2>1. record \in ProducerType
    BY <1>2, StoreAssumption, InputAssumption DEF ScopeInv, TypeOK, Generations, Seqs, ProducerType, Reconcile
  <2>2. QED
    BY <2>1, NoValueAssumption
<1> HIDE DEF record
<1>7. producers \in [Producers -> ProducerType \cup {NoValue}]
  BY DEF ScopeInv, TypeOK
<1>8. producers'[p] = record /\ \A s \in Producers \ {p} : producers'[s] = producers[s]
  BY <1>5, <1>7
<1>9. ActiveProducers' = IF verified THEN ActiveProducers \cup {p} ELSE ActiveProducers \ {p}
  BY <1>6, <1>8 DEF ActiveProducers
<1>10. /\ \A s \in Runs \ {r} : projections'[s] = projections[s]
       /\ ~verified => projections'[r] = [projection |-> UnknownProjection(r), current |-> NoValue]
       /\ verified => /\ projections'[r].projection.run = r
                      /\ projections'[r].current = current
  BY <1>1, <1>2 DEF ReconcileEffect, ScopeInv, TypeOK
<1>11. current # NoValue => current.producer = p /\ current.generation = fresh /\ current.run = r
  BY <1>1 DEF BaselineTurn, TurnKey
<1> HIDE DEF current, fresh, verified
<1>12. ActiveIsReconciled'
  BY <1>4, <1>6, <1>8, <1>9 DEF ScopeInv, ActiveIsReconciled
<1>13. RowsNameTheirRun'
  <2> SUFFICES ASSUME NEW s \in Runs
               PROVE  /\ projections'[s].projection.run = s
                      /\ projections'[s].current # NoValue => projections'[s].current.run = s
    BY DEF RowsNameTheirRun
  <2>1. CASE s # r
    BY <1>10, <2>1 DEF ScopeInv, RowsNameTheirRun
  <2>2. CASE s = r /\ verified
    BY <1>10, <1>11, <2>2
  <2>3. CASE s = r /\ ~verified
    BY <1>10, <2>3 DEF UnknownProjection
  <2>4. QED
    BY <2>1, <2>2, <2>3
<1>14. OneObserverPerRun'
  BY <1>3, <1>4, <1>6, <1>8, <1>9 DEF ScopeInv, OneObserverPerRun
<1>15. CurrentTurnInScope'
  <2> SUFFICES ASSUME NEW s \in ActiveProducers', projections'[producers'[s].run].current # NoValue
               PROVE  /\ projections'[producers'[s].run].current.producer = s
                      /\ projections'[producers'[s].run].current.generation
                           = producers'[s].generation
    BY DEF CurrentTurnInScope
  <2>1. CASE s = p
    BY <1>6, <1>8, <1>9, <1>10, <1>11, <2>1
  <2>2. CASE s # p
    <3>1. s \in ActiveProducers /\ producers'[s] = producers[s] /\ producers[s].run \in Runs \ {r}
      BY <1>3, <1>4, <1>8, <1>9, <2>2 DEF ProducerType
    <3>2. QED
      BY <1>10, <3>1 DEF ScopeInv, CurrentTurnInScope
  <2>3. QED
    BY <2>1, <2>2
<1>16. FreshMeansObserved'
  <2> SUFFICES ASSUME NEW s \in Runs, projections'[s].projection.observation = "Fresh"
               PROVE  \E t \in ActiveProducers' :
                        producers'[t].reconciled /\ producers'[t].run = s
    BY DEF FreshMeansObserved
  <2>1. CASE s = r
    <3>1. verified
      BY <1>10, <2>1 DEF UnknownProjection
    <3>2. QED
      BY <1>6, <1>8, <1>9, <2>1, <3>1
  <2>2. CASE s # r
    <3>1. PICK t \in ActiveProducers : producers[t].reconciled /\ producers[t].run = s
      BY <1>10, <2>2 DEF ScopeInv, FreshMeansObserved
    <3>2. t # p /\ t \in ActiveProducers' /\ producers'[t] = producers[t]
      BY <1>3, <1>4, <1>8, <1>9, <2>2, <3>1 DEF ActiveProducers
    <3>3. QED
      BY <3>1, <3>2
  <2>3. QED
    BY <2>1, <2>2
<1>17. QED
  BY <1>12, <1>13, <1>14, <1>15, <1>16

LEMMA ScopeInit == Init => ScopeInv
<1> SUFFICES ASSUME Init PROVE ScopeInv
  OBVIOUS
<1>1. TypeOK
  BY TypeInit
<1>2. ActiveProducers = {}
  BY DEF Init, ActiveProducers
<1>3. RowsNameTheirRun /\ \A r \in Runs : projections[r].projection.observation = "Stale"
  BY DEF Init, RowsNameTheirRun, UnknownProjection
<1>4. QED
  BY <1>1, <1>2, <1>3 DEF ScopeInv, ActiveIsReconciled, OneObserverPerRun,
     CurrentTurnInScope, FreshMeansObserved

\* Transactions that touch neither a producer nor a projection.
LEMMA RowsUnchangedScope ==
  ASSUME ScopeInv, UNCHANGED <<producers, projections>>
  PROVE  /\ ActiveIsReconciled' /\ RowsNameTheirRun'
         /\ OneObserverPerRun' /\ CurrentTurnInScope' /\ FreshMeansObserved'
BY DEF ScopeInv, ActiveIsReconciled, RowsNameTheirRun, OneObserverPerRun,
   CurrentTurnInScope, FreshMeansObserved, ActiveProducers

LEMMA ScopeStep == ScopeInv /\ [Next]_storeVars => ScopeInv'
<1> SUFFICES ASSUME ScopeInv, [Next]_storeVars PROVE ScopeInv'
  OBVIOUS
<1>1. TypeOK'
  BY TypeStep DEF ScopeInv
<1> DEFINE Kept == /\ ActiveIsReconciled' /\ RowsNameTheirRun'
                   /\ OneObserverPerRun' /\ CurrentTurnInScope' /\ FreshMeansObserved'
<1>2. ASSUME NEW p \in Producers, NEW r \in Runs, NEW s \in Seqs, NEW id \in EventIds,
             NEW payload \in Payloads, NEW policy \in Policies, NEW notify \in NotifyChoices,
             NEW lost \in LostCounts, p \in ActiveProducers,
             Observe(EventOf(p, producers[p].generation, r, s, id, payload), policy, notify, lost)
      PROVE  Kept
  BY <1>2, EventOfTyped, ObserveScope DEF ScopeInv
<1>3. ASSUME NEW p \in Producers, NEW r \in Runs, NEW first \in FirstSequences,
             NEW baseline \in Baselines \cup {NoValue},
             NEW lost \in LostCounts, NEW resolved, NEW continued,
             Reconcile(ReconciliationOf(p, r, first, baseline, lost, resolved, continued))
      PROVE  Kept
  BY <1>3, ReconcileScope
<1>4. ASSUME NEW p \in ActiveProducers, NEW lost \in LostCounts,
             RetireProducer(RetirementOf(p, lost))
      PROVE  Kept
  <2>1. Retire({p})
    BY <1>4 DEF RetireProducer, RetireEffect, RetirementOf
  <2>2. QED
    BY <2>1, RetireScope
<1>5. ASSUME NEW oldFacts, NEW oldTombstones, NEW oldDeliveries,
             Maintain(oldFacts, oldTombstones, oldDeliveries)
      PROVE  Kept
  <2>1. PICK retired \in SUBSET ActiveProducers : Retire(retired)
    BY <1>5 DEF Maintain, Unprotected
  <2>2. QED
    BY <2>1, RetireScope
<1>6. ASSUME \/ \E row \in attention : Review(row)
             \/ \E row \in outbox, state \in DeliveryStates : SetDelivery(row, state)
             \/ OtherWrite
             \/ UNCHANGED storeVars
      PROVE  Kept
  <2>1. UNCHANGED <<producers, projections>>
    BY <1>6 DEF Review, SetDelivery, OtherWrite, storeVars
  <2>2. QED
    BY <2>1, RowsUnchangedScope
<1>7. ASSUME Reopen PROVE Kept
  <2>1. Retire(ActiveProducers)
    BY <1>7 DEF Reopen
  <2>2. QED
    BY <2>1, RetireScope
<1>8. Kept
  BY <1>2, <1>3, <1>4, <1>5, <1>6, <1>7 DEF Next
<1>9. QED
  BY <1>1, <1>8 DEF ScopeInv

LEMMA ScopeInvariant == Spec => []ScopeInv
<1>1. QED
  BY ScopeInit, ScopeStep, PTL DEF Spec

\* At most one producer observes a run, across registrations, retirements,
\* cleanup and restarts.
THEOREM OneObserver == Spec => []OneObserverPerRun
<1>1. ScopeInv => OneObserverPerRun
  BY DEF ScopeInv
<1>2. QED
  BY <1>1, ScopeInvariant, PTL

\* The turn a run shows is its observer's, under its present generation.
THEOREM TurnOfTheObserver == Spec => []CurrentTurnInScope
<1>1. ScopeInv => CurrentTurnInScope
  BY DEF ScopeInv
<1>2. QED
  BY <1>1, ScopeInvariant, PTL

\* No run claims freshness after its observer was retired.
THEOREM FreshnessIsEarned == Spec => []FreshMeansObserved
<1>1. ScopeInv => FreshMeansObserved
  BY DEF ScopeInv
<1>2. QED
  BY <1>1, ScopeInvariant, PTL

\* The coordinator can always retire a producer it must stop trusting.
THEOREM RetirementAvailable == Spec => []RetirementNeverRefused
<1>1. ScopeInv => RetirementNeverRefused
  <2> SUFFICES ASSUME ScopeInv, NEW p \in ActiveProducers
               PROVE  RetireOutcome(RetirementOf(p, 0)) \in {"Ok", "ResourceExhausted"}
    BY DEF RetirementNeverRefused
  <2> DEFINE q == RetirementOf(p, 0)
  <2>1. /\ q.expected = revision /\ q.producer = p /\ q.discarded = 0
        /\ q.generation = producers[p].generation
    BY DEF RetirementOf, GenerationOf, ActiveProducers
  <2> HIDE DEF q
  <2>2. producers[p] # NoValue /\ producers[p].active
    BY DEF ActiveProducers
  <2>3. LET key == projections[producers[p].run].current
        IN  key # NoValue => key.producer = p /\ key.generation = producers[p].generation
    BY DEF ScopeInv, CurrentTurnInScope
  <2>4. RetireOutcome(q) \in {"Ok", "ResourceExhausted"}
    BY <2>1, <2>2, <2>3 DEF RetireOutcome, RevisionOutcome, DiscardedOutcome, FirstFailure
  <2>5. QED
    BY <2>4 DEF q
<1>2. QED
  BY <1>1, ScopeInvariant, PTL

-----------------------------------------------------------------------------
(* The store implements the abstract generation log (GenerationLog.tla):     *)
(* each transaction appends to one open log, closes some, replaces one by a  *)
(* fresh one, or changes none.                                               *)

logsNow == [p \in Producers |-> LogOf(p)]

LogRow(generation, next, open) == [generation |-> generation, next |-> next, open |-> open]

\* The log of a registered producer, and what it means for it to be open.
LEMMA LogOfRecord ==
  ASSUME TypeOK, NEW p \in Producers, producers[p] # NoValue
  PROVE  /\ LogOf(p) = LogRow(producers[p].generation, producers[p].next,
                              producers[p].active /\ producers[p].reconciled)
         /\ LogOf(p) # NoValue
<1>1. producers[p] \in ProducerType
  BY DEF TypeOK
<1>2. LogOf(p) = LogRow(producers[p].generation, producers[p].next,
                        producers[p].active /\ producers[p].reconciled)
  BY DEF LogOf, LogRow
<1>3. LogOf(p) \in [generation : Generations, next : Seqs \cup {NoValue}, open : BOOLEAN]
  BY <1>1, <1>2 DEF LogRow, ProducerType
<1>4. QED
  BY <1>2, <1>3, NoValueAssumption

LEMMA OpenIsActive ==
  ASSUME ScopeInv, NEW p \in Producers, producers[p] # NoValue
  PROVE  Log!IsOpen(p) <=> p \in ActiveProducers
<1>1. LogOf(p) = LogRow(producers[p].generation, producers[p].next,
                        producers[p].active /\ producers[p].reconciled)
  BY LogOfRecord DEF ScopeInv
<1>2. LogOf(p) # NoValue
  BY LogOfRecord DEF ScopeInv
<1>3. LogOf(p).open = (producers[p].active /\ producers[p].reconciled)
  BY <1>1 DEF LogRow
<1>4. Log!IsOpen(p) <=> LogOf(p) # NoValue /\ LogOf(p).open
  BY DEF Log!IsOpen
<1>5. QED
  BY <1>2, <1>3, <1>4 DEF ActiveProducers, ScopeInv, ActiveIsReconciled

LEMMA ObserveAppends ==
  ASSUME ScopeInv, NEW e \in EventType, e.kind \in TurnKinds => e.turn \in Turns,
         NEW policy \in Policies, NEW notify \in NotifyChoices, NEW lost \in LostCounts,
         Observe(e, policy, notify, lost)
  PROVE  \E p \in Producers, stayOpen \in BOOLEAN : Log!Append(p, stayOpen)
<1> DEFINE w == WriteOf(e, policy, notify, lost)
           p == e.producer
           stayOpen == ~w.effects.reconcile
           next == IF producers[p].next = MaxSeq THEN NoValue ELSE producers[p].next + 1
           row == LogRow(producers[p].generation, next, stayOpen)
<1>1. w.fact = e /\ EffectsOf(ViewOf(e), e, w.effects)
  BY WriteShape DEF ScopeInv
<1>2. ApplyOutcome(w) = "Ok" /\ ApplyEffect(w)
  BY DEF Observe, Apply
<1>3. stayOpen \in BOOLEAN
  BY <1>1 DEF EffectsOf, EffectsType
<1> HIDE DEF w, stayOpen
<1>4. /\ p \in Producers /\ producers[p] \in ProducerType /\ p \in ActiveProducers
      /\ producers[p] # NoValue /\ producers[p].next = e.seq /\ e.seq # NoValue
  BY <1>1, <1>2, ApplyOk, ScopeOk, NoValueAssumption
     DEF ScopeInv, EventType, ActiveProducers, Seqs
<1> DEFINE record == [producers[p] EXCEPT !.next = CheckedNext(e.seq, MaxSeq),
                                          !.active = stayOpen, !.reconciled = stayOpen]
<1>5. producers' = [producers EXCEPT ![p] = record]
  BY <1>1, <1>2 DEF ApplyEffect, stayOpen
<1>6. /\ record.generation = producers[p].generation /\ record.next = next
      /\ record.active = stayOpen /\ record.reconciled = stayOpen /\ record # NoValue
  <2>1. CheckedNext(e.seq, MaxSeq) = next /\ next \in Seqs \cup {NoValue}
    BY <1>4, StoreAssumption DEF CheckedNext, Seqs, EventType
  <2>2. record \in ProducerType
    BY <1>3, <1>4, <2>1 DEF ProducerType
  <2>3. QED
    BY <1>4, <2>1, <2>2, NoValueAssumption DEF ProducerType
<1> HIDE DEF record, next
<1>7. producers'[p] = record /\ \A q \in Producers \ {p} : producers'[q] = producers[q]
  BY <1>4, <1>5 DEF ScopeInv, TypeOK
<1>8. LogOf(p)' = row
  <2>1. (record.active /\ record.reconciled) = stayOpen
    BY <1>3, <1>6
  <2>2. QED
    BY <1>6, <1>7, <2>1 DEF LogOf, LogRow
<1>9. \A q \in Producers \ {p} : LogOf(q)' = LogOf(q)
  BY <1>7 DEF LogOf
<1>10. logsNow' = [logsNow EXCEPT ![p] = row]
  BY <1>4, <1>8, <1>9 DEF logsNow
<1>11. Log!IsOpen(p)
  BY <1>4, OpenIsActive
<1>12. /\ logsNow[p].generation = producers[p].generation
       /\ logsNow[p].next = producers[p].next
  BY <1>4, LogOfRecord DEF logsNow, LogRow, ScopeInv
<1>13. issued' = issued
  BY <1>2 DEF ApplyEffect
<1>14. Log!Append(p, stayOpen)
  BY <1>4, <1>10, <1>11, <1>12, <1>13 DEF Log!Append, logsNow, LogRow, next
<1>15. QED
  BY <1>3, <1>4, <1>14

LEMMA RetireCloses ==
  ASSUME ScopeInv, NEW retired \in SUBSET ActiveProducers, Retire(retired), UNCHANGED issued
  PROVE  \E closing \in SUBSET Producers : Log!Close(closing)
<1>1. \A p \in retired : /\ p \in Producers /\ producers[p] \in ProducerType
                         /\ producers[p] # NoValue /\ p \in ActiveProducers
  BY ActiveProducersTyped DEF ScopeInv, ActiveProducers
<1>2. \A p \in retired : Log!IsOpen(p)
  BY <1>1, OpenIsActive
<1>3. \A p \in retired :
        logsNow'[p] = LogRow(logsNow[p].generation, logsNow[p].next, FALSE)
  <2> TAKE p \in retired
  <2> DEFINE record == [producers[p] EXCEPT !.active = FALSE, !.reconciled = FALSE]
  <2>1. producers'[p] = record
    BY <1>1 DEF Retire, Deactivate
  <2>2. /\ record.generation = producers[p].generation /\ record.next = producers[p].next
        /\ record.active = FALSE /\ record.reconciled = FALSE /\ record # NoValue
    <3>1. record \in ProducerType
      BY <1>1 DEF ProducerType
    <3>2. QED
      BY <1>1, <3>1, NoValueAssumption DEF ProducerType
  <2> HIDE DEF record
  <2>3. LogOf(p)' = LogRow(producers[p].generation, producers[p].next, FALSE)
    BY <2>1, <2>2 DEF LogOf, LogRow
  <2>4. /\ logsNow[p].generation = producers[p].generation
        /\ logsNow[p].next = producers[p].next
    BY <1>1, LogOfRecord DEF logsNow, LogRow, ScopeInv
  <2>5. logsNow'[p] = LogOf(p)'
    BY <1>1 DEF logsNow
  <2>6. QED
    BY <2>3, <2>4, <2>5
<1>4. \A p \in Producers \ retired : logsNow'[p] = logsNow[p]
  BY DEF Retire, Deactivate, LogOf, logsNow
<1>5. logsNow' = [p \in Producers |-> IF p \in retired
                                      THEN LogRow(logsNow[p].generation, logsNow[p].next, FALSE)
                                      ELSE logsNow[p]]
  <2>1. logsNow' = [p \in Producers |-> logsNow'[p]]
    BY DEF logsNow
  <2>2. QED
    BY <1>3, <1>4, <2>1
<1>6. Log!Close(retired)
  BY <1>2, <1>5 DEF Log!Close, logsNow, LogRow
<1>7. QED
  BY <1>1, <1>6

LEMMA ReconcileRenews ==
  ASSUME ScopeInv, NEW p \in Producers, NEW r \in Runs, NEW first \in FirstSequences,
         NEW baseline \in Baselines \cup {NoValue},
         NEW lost \in LostCounts, NEW resolved, NEW continued,
         Reconcile(ReconciliationOf(p, r, first, baseline, lost, resolved, continued))
  PROVE  \E q \in Producers, n \in 1..MaxSeq, open \in BOOLEAN : Log!Renew(q, n, open)
<1> DEFINE q == ReconciliationOf(p, r, first, baseline, lost, resolved, continued)
           open == baseline # NoValue
           record == [generation |-> issued + 1, run |-> r, next |-> first,
                      active |-> open, reconciled |-> open]
<1>1. q.producer = p /\ q.run = r /\ q.next = first /\ q.baseline = baseline
  BY DEF ReconciliationOf
<1>2. issued < MaxGeneration /\ ReconcileEffect(q)
  BY DEF Reconcile
<1> HIDE DEF q
<1>3. producers' = [producers EXCEPT ![p] = record] /\ issued' = issued + 1
  BY <1>1, <1>2 DEF ReconcileEffect
<1>4. record \in ProducerType
  BY <1>2, StoreAssumption, InputAssumption DEF ScopeInv, TypeOK, Generations, ProducerType
<1>5. /\ record.generation = issued + 1 /\ record.next = first /\ record # NoValue
      /\ (record.active /\ record.reconciled) = open
  BY <1>4, NoValueAssumption
<1> HIDE DEF record
<1>6. producers'[p] = record /\ \A s \in Producers \ {p} : producers'[s] = producers[s]
  BY <1>3 DEF ScopeInv, TypeOK
<1>7. LogOf(p)' = LogRow(issued + 1, first, open)
  BY <1>5, <1>6 DEF LogOf, LogRow
<1>8. \A s \in Producers \ {p} : LogOf(s)' = LogOf(s)
  BY <1>6 DEF LogOf
<1>9. logsNow' = [logsNow EXCEPT ![p] = LogRow(issued + 1, first, open)]
  BY <1>7, <1>8 DEF logsNow
<1>10. Log!Renew(p, first, open)
  BY <1>2, <1>3, <1>9 DEF Log!Renew, logsNow, LogRow
<1>11. first \in 1..MaxSeq /\ open \in BOOLEAN
  BY InputAssumption DEF Seqs
<1> HIDE DEF open
<1>12. QED
  BY <1>10, <1>11

LEMMA LogStep == ScopeInv /\ [Next]_storeVars => [Log!Next]_(Log!logVars)
<1> SUFFICES ASSUME ScopeInv, [Next]_storeVars PROVE Log!Next \/ UNCHANGED Log!logVars
  OBVIOUS
<1> DEFINE Mapped == Log!Next \/ UNCHANGED Log!logVars
<1>1. ASSUME NEW p \in Producers, NEW r \in Runs, NEW s \in Seqs, NEW id \in EventIds,
             NEW payload \in Payloads, NEW policy \in Policies, NEW notify \in NotifyChoices,
             NEW lost \in LostCounts, p \in ActiveProducers,
             Observe(EventOf(p, producers[p].generation, r, s, id, payload), policy, notify, lost)
      PROVE  Mapped
  <2>1. \E q \in Producers, stayOpen \in BOOLEAN : Log!Append(q, stayOpen)
    BY <1>1, EventOfTyped, ObserveAppends DEF ScopeInv
  <2>2. QED
    BY <2>1 DEF Log!Next
<1>2. ASSUME NEW p \in Producers, NEW r \in Runs, NEW first \in FirstSequences,
             NEW baseline \in Baselines \cup {NoValue},
             NEW lost \in LostCounts, NEW resolved, NEW continued,
             Reconcile(ReconciliationOf(p, r, first, baseline, lost, resolved, continued))
      PROVE  Mapped
  <2>1. \E q \in Producers, n \in 1..MaxSeq, open \in BOOLEAN : Log!Renew(q, n, open)
    BY <1>2, ReconcileRenews
  <2>2. QED
    BY <2>1 DEF Log!Next
<1>3. ASSUME NEW retired \in SUBSET ActiveProducers, Retire(retired), UNCHANGED issued
      PROVE  Mapped
  <2>1. \E closing \in SUBSET Producers : Log!Close(closing)
    BY <1>3, RetireCloses
  <2>2. QED
    BY <2>1 DEF Log!Next
<1>4. ASSUME NEW p \in ActiveProducers, NEW lost \in LostCounts,
             RetireProducer(RetirementOf(p, lost))
      PROVE  Mapped
  <2>1. Retire({p}) /\ UNCHANGED issued
    BY <1>4 DEF RetireProducer, RetireEffect, RetirementOf
  <2>2. QED
    BY <1>3, <2>1
<1>5. ASSUME NEW oldFacts, NEW oldTombstones, NEW oldDeliveries,
             Maintain(oldFacts, oldTombstones, oldDeliveries)
      PROVE  Mapped
  <2>1. UNCHANGED issued /\ \E retired \in SUBSET ActiveProducers : Retire(retired)
    BY <1>5 DEF Maintain, Unprotected
  <2>2. QED
    BY <1>3, <2>1
<1>6. ASSUME \/ \E row \in attention : Review(row)
             \/ \E row \in outbox, state \in DeliveryStates : SetDelivery(row, state)
             \/ OtherWrite
             \/ UNCHANGED storeVars
      PROVE  Mapped
  <2>1. UNCHANGED <<producers, issued>>
    BY <1>6 DEF Review, SetDelivery, OtherWrite, storeVars
  <2>2. QED
    BY <2>1 DEF Log!logVars, LogOf
<1>7. ASSUME Reopen PROVE Mapped
  <2>1. Retire(ActiveProducers) /\ UNCHANGED issued
    BY <1>7 DEF Reopen
  <2>2. QED
    BY <1>3, <2>1
<1>8. QED
  BY <1>1, <1>2, <1>4, <1>5, <1>6, <1>7 DEF Next

\* The transactions implement the promise their clients rely on: observations
\* of a generation are stored once each, in sequence order and without a gap,
\* and a generation that was closed never grows again.
THEOREM StoreImplementsLog == Spec => ImplementsGenerationLog
<1>1. Init => Log!Init
  BY DEF Init, Log!Init, LogOf
<1>2. QED
  BY <1>1, LogStep, ScopeInvariant, PTL DEF Spec, ImplementsGenerationLog, Log!Spec

=============================================================================
