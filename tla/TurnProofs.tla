------------------------------ MODULE TurnProofs ------------------------------
(***************************************************************************)
(* How turns end in the store: an ended turn stays protected, ends once,   *)
(* asks nothing, and is never taken for a live one by the reducer.         *)
(***************************************************************************)
EXTENDS StoreProofs

Outcomes == {"Completion", "Failure"}
Prompts == {"Input", "NativeApproval"}

-----------------------------------------------------------------------------
(* What the reducer says about turns *)

EndOf(e) == [key |-> EventTurnKey(e), outcome |-> e.id, terminal |-> ObservedTurn(e)]

\* The run shows the turn of the event, and shows it ended iff it has just ended.
ShowsTurnOf(e, eff) ==
  /\ eff.current = EventTurnKey(e)
  /\ IF eff.tombstone = NoValue THEN ~IsTerminal(eff.projection.turn)
     ELSE eff.projection.turn = ObservedTurn(e)

\* An outcome is raised once, with the protection of its turn; a prompt only for
\* a turn that has not ended; and a producer that stays trusted leaves the run as
\* it was or showing the turn of its event.
TurnEffects(view, e, eff) ==
  /\ eff.attention \cap Outcomes # {} => eff.tombstone # NoValue
  /\ \A x, y \in eff.attention \cap Outcomes : x = y
  /\ eff.attention \cap Prompts # {} =>
       e.kind \in TurnKinds /\ view.tombstone = NoValue /\ eff.tombstone = NoValue
  /\ eff.tombstone # NoValue =>
       /\ e.kind \in TurnKinds /\ view.tombstone = NoValue
       /\ eff.tombstone = EndOf(e) /\ eff.resolve = EventTurnKey(e)
  /\ ~eff.reconcile =>
       \/ /\ eff.current = view.current /\ eff.projection.turn = view.projection.turn
          /\ eff.tombstone # NoValue => view.current # EventTurnKey(e)
       \/ e.kind \in TurnKinds /\ view.tombstone = NoValue /\ ShowsTurnOf(e, eff)

\* Effects that say nothing of turns.
Quiet(view, eff) ==
  /\ eff \in EffectsType
  /\ eff.attention \subseteq {"ConnectionUncertainty"}
  /\ eff.tombstone = NoValue
  /\ eff.current = view.current
  /\ eff.reconcile \/ eff.projection.turn = view.projection.turn

LEMMA QuietEffects ==
  ASSUME NEW view, NEW e, NEW eff, Quiet(view, eff)
  PROVE  TurnEffects(view, e, eff)
BY DEF Quiet, TurnEffects, Outcomes, Prompts

LEMMA QuietUncertain ==
  ASSUME NEW view, NEW eff, Quiet(view, eff), NEW f \in ObservationStates, NEW lose \in BOOLEAN
  PROVE  Quiet(view, Uncertain(eff, f, lose))
<1> DEFINE shown == Doubted(eff.projection, f, lose)
           reasons == eff.attention \cup {"ConnectionUncertainty"}
<1>1. Uncertain(eff, f, lose) \in EffectsType /\ Uncertain(eff, f, lose).reconcile
      /\ Uncertain(eff, f, lose).current = eff.current
  BY UncertainShape DEF Quiet
<1>2. Uncertain(eff, f, lose) =
        [eff EXCEPT !.attention = reasons, !.projection = shown, !.reconcile = TRUE]
  BY DEF Uncertain
<1> HIDE DEF shown
<1>3. /\ Uncertain(eff, f, lose).attention = reasons
      /\ Uncertain(eff, f, lose).tombstone = eff.tombstone
  BY <1>2 DEF Quiet, EffectsType
<1> QED BY <1>1, <1>3 DEF Quiet

LEMMA TerminalEffects ==
  ASSUME NEW view, NEW e \in EventType, NEW eff, Quiet(view, eff), view.tombstone = NoValue,
         e.kind \in TurnKinds, e.turn \in Turns, IsTerminal(ObservedTurn(e))
  PROVE  TurnEffects(view, e, Terminal(e, EventTurnKey(e), ObservedTurn(e), eff))
<1> DEFINE key == EventTurnKey(e)
           observed == ObservedTurn(e)
           outcome == IF observed = "Completed" THEN "Completion" ELSE "Failure"
           reasons == eff.attention \cup {outcome}
           shown == IF Projects(key, eff) THEN Shown(eff.projection, key, observed)
                    ELSE eff.projection
           current == IF Projects(key, eff) THEN key ELSE eff.current
           after == Terminal(e, key, observed, eff)
<1>1. after = [eff EXCEPT !.tombstone = EndOf(e), !.resolve = key, !.attention = reasons,
                          !.projection = shown, !.current = current]
  BY DEF Terminal, EndOf
<1>2. /\ Projects(key, eff) => shown.turn = observed /\ current = key
      /\ ~Projects(key, eff) => shown = eff.projection /\ current = eff.current /\ eff.current # key
  BY DEF Shown, Quiet, EffectsType, ProjectionType, Projects
<1>3. EndOf(e) # NoValue
  <2>1. EndOf(e) \in TombstoneType
    BY TurnKeyType DEF EndOf, TombstoneType, EventType, IsTerminal
  <2> QED BY <2>1, NoValueAssumption
<1>4. /\ reasons \cap Prompts = {}
      /\ \A x, y \in reasons \cap Outcomes : x = y
  BY DEF Quiet, Prompts, Outcomes
<1> HIDE DEF shown, current, reasons
<1>5. /\ after.tombstone = EndOf(e) /\ after.resolve = key /\ after.attention = reasons
      /\ after.projection = shown /\ after.current = current
      /\ after.reconcile = eff.reconcile
  BY <1>1 DEF Quiet, EffectsType
<1> HIDE DEF after, key, observed
<1>6. ~after.reconcile =>
        \/ /\ after.current = view.current /\ after.projection.turn = view.projection.turn
           /\ view.current # EventTurnKey(e)
        \/ ShowsTurnOf(e, after)
  BY <1>2, <1>3, <1>5 DEF Quiet, ShowsTurnOf, key, observed
<1>7. TurnEffects(view, e, after)
  BY <1>3, <1>4, <1>5, <1>6 DEF TurnEffects, key
<1> QED BY <1>7 DEF after, key, observed

LEMMA MovedEffects ==
  ASSUME NEW view, NEW e \in EventType, NEW eff, Quiet(view, eff), view.tombstone = NoValue,
         e.kind \in TurnKinds, e.turn \in Turns, ~IsTerminal(ObservedTurn(e))
  PROVE  TurnEffects(view, e, Moved(EventTurnKey(e), ObservedTurn(e), eff))
<1> DEFINE key == EventTurnKey(e)
           observed == ObservedTurn(e)
           same == eff.current = key
           turn == LiveTurn(same, eff.projection.turn, observed)
           resolve == IF same THEN eff.resolve ELSE eff.current
           reasons == IF same /\ eff.projection.turn = observed THEN eff.attention
                      ELSE eff.attention \cup PromptReasons(observed)
           shown == [Shown(eff.projection, key, turn) EXCEPT !.observation = "Fresh"]
           after == Moved(key, observed, eff)
<1>1. after = [eff EXCEPT !.resolve = resolve, !.attention = reasons,
                          !.projection = shown, !.current = key]
  BY DEF Moved
<1>2. ~IsTerminal(turn)
  BY DEF LiveTurn, IsTerminal, TerminalTurns
<1>3. reasons \cap Outcomes = {}
  BY DEF PromptReasons, Outcomes, Quiet
<1> HIDE DEF turn
<1>4. shown.turn = turn
  BY DEF Shown, Quiet, EffectsType, ProjectionType
<1> HIDE DEF shown, reasons, resolve
<1>5. /\ after.tombstone = NoValue /\ after.attention = reasons
      /\ after.projection = shown /\ after.current = key
  BY <1>1 DEF Quiet, EffectsType
<1> HIDE DEF after, key, observed
<1>6. ShowsTurnOf(e, after)
  BY <1>2, <1>4, <1>5 DEF ShowsTurnOf, key
<1>7. TurnEffects(view, e, after)
  BY <1>3, <1>5, <1>6 DEF TurnEffects
<1> QED BY <1>7 DEF after, key, observed

LEMMA ReduceTurnEffects ==
  ASSUME NEW view \in ViewType, NEW e \in EventType, e.kind \in TurnKinds, e.turn \in Turns,
         NEW policy \in PolicyType, NEW eff, Quiet(view, eff)
  PROVE  TurnEffects(view, e, ReduceTurn(view, e, policy, eff))
<1> DEFINE key == EventTurnKey(e)
           observed == ObservedTurn(e)
<1>1. policy.freshness \in ObservationStates /\ StaleUnlessExplicit(policy) \in ObservationStates
      /\ "Stale" \in ObservationStates
  BY DEF PolicyType, StaleUnlessExplicit, ObservationStates
<1>2. \A f \in ObservationStates, lose \in BOOLEAN : TurnEffects(view, e, Uncertain(eff, f, lose))
  BY QuietUncertain, QuietEffects
<1>3. Ended(view) \/ view.tombstone = NoValue
  BY DEF Ended
<1> HIDE DEF key, observed
<1>4. \/ ReduceTurn(view, e, policy, eff) = eff
      \/ ReduceTurn(view, e, policy, eff) = Uncertain(eff, StaleUnlessExplicit(policy), FALSE)
      \/ /\ ~Ended(view) /\ IsTerminal(observed)
         /\ ReduceTurn(view, e, policy, eff) = Terminal(e, key, observed, eff)
      \/ ReduceTurn(view, e, policy, eff) = Uncertain(eff, policy.freshness, TRUE)
      \/ ReduceTurn(view, e, policy, eff) = Uncertain(eff, "Stale", TRUE)
      \/ /\ ~Ended(view) /\ ~IsTerminal(observed)
         /\ ReduceTurn(view, e, policy, eff) = Progress(key, observed, eff)
  BY DEF ReduceTurn, key, observed
<1>5. \/ Progress(key, observed, eff) = Uncertain(eff, "Stale", FALSE)
      \/ Progress(key, observed, eff) = eff
      \/ Progress(key, observed, eff) = Moved(key, observed, eff)
  BY Zenon DEF Progress
<1>6. ~Ended(view) /\ IsTerminal(observed) => TurnEffects(view, e, Terminal(e, key, observed, eff))
  BY <1>3, TerminalEffects DEF key, observed
<1>7. ~Ended(view) /\ ~IsTerminal(observed) => TurnEffects(view, e, Moved(key, observed, eff))
  BY <1>3, MovedEffects DEF key, observed
<1> QED BY <1>1, <1>2, <1>4, <1>5, <1>6, <1>7, QuietEffects

LEMMA ReduceEffects ==
  ASSUME NEW view \in ViewType, NEW e \in EventType, e.kind \in TurnKinds => e.turn \in Turns,
         NEW policy \in PolicyType
  PROVE  TurnEffects(view, e, Reduce(view, e, policy))
<1> DEFINE start == IF policy.freshness # "Fresh"
                    THEN Uncertain(NoEffects(view), policy.freshness, TRUE)
                    ELSE NoEffects(view)
<1>1. policy.freshness \in ObservationStates /\ StaleUnlessExplicit(policy) \in ObservationStates
      /\ "Unsupported" \in ObservationStates
  BY DEF PolicyType, StaleUnlessExplicit, ObservationStates
<1>2. Quiet(view, NoEffects(view))
  BY DEF Quiet, NoEffects, EffectsType, ViewType, CurrentType
<1>3. Quiet(view, start)
  BY <1>1, <1>2, QuietUncertain
<1> HIDE DEF start
<1>4. CASE e.kind \in TurnKinds
  <2>1. Reduce(view, e, policy) = ReduceTurn(view, e, policy, start)
    BY <1>4 DEF Reduce, start
  <2> QED BY <1>3, <1>4, <2>1, ReduceTurnEffects
<1>5. CASE e.kind \notin TurnKinds
  <2>1. Reduce(view, e, policy) = ReduceRun(e, policy, start)
    BY <1>5 DEF Reduce, start
  <2> DEFINE process == IF e.exit \in {"ExitCode", "Signaled"} THEN "Exited" ELSE "Unknown"
             ended == [start EXCEPT !.projection.process = process]
  <2>2. Quiet(view, ended)
    BY <1>3 DEF Quiet, EffectsType, ProjectionType, ProcessStates
  <2>3. \A f \in ObservationStates :
          Quiet(view, Uncertain(ended, f, TRUE)) /\ Quiet(view, Uncertain(start, f, TRUE))
    BY <1>3, <2>2, QuietUncertain
  <2>4. \/ ReduceRun(e, policy, start) = start
        \/ ReduceRun(e, policy, start) = Uncertain(ended, StaleUnlessExplicit(policy), TRUE)
        \/ ReduceRun(e, policy, start) = Uncertain(start, "Unsupported", TRUE)
        \/ ReduceRun(e, policy, start) = Uncertain(start, policy.freshness, TRUE)
    BY DEF ReduceRun
  <2> HIDE DEF ended
  <2> QED BY <1>1, <1>3, <2>1, <2>3, <2>4, QuietEffects
<1> QED BY <1>4, <1>5

-----------------------------------------------------------------------------
(* The invariant *)

\* No row is of a generation still to be drawn.
Drawn ==
  /\ \A p \in Producers : producers[p] # NoValue => producers[p].generation <= issued
  /\ \A a \in attention : a.generation <= issued
  /\ \A t \in tombstones : t.key.generation <= issued

\* A row names its turn, and shows it ended iff the turn is protected.
Tells(row) ==
  /\ row.projection.turnId = IF row.current = NoValue THEN NoValue ELSE row.current.turn
  /\ row.current = NoValue => row.projection.turn = "Unknown"
  /\ row.current # NoValue /\ IsTerminal(row.projection.turn) =>
       \E t \in tombstones : t.key = row.current
  /\ \A t \in tombstones : t.key = row.current => t.terminal = row.projection.turn

RowsTell == \A p \in ActiveProducers : Tells(projections[producers[p].run])

TurnInv ==
  /\ ScopeInv
  /\ Drawn
  /\ RowsTell
  /\ EndedTurnsProtected
  /\ OneOutcomePerTurn
  /\ EndedTurnsAskNothing

\* The columns of an attention row that no update touches.
SameRow(a, b) ==
  /\ a.producer = b.producer /\ a.generation = b.generation /\ a.event = b.event
  /\ a.run = b.run /\ a.reason = b.reason /\ a.turn = b.turn /\ a.revision = b.revision

LEMMA ResolvedRows ==
  ASSUME NEW rows \in SUBSET AttentionType, NEW key, NEW b \in ResolveTurn(rows, key)
  PROVE  \E a \in rows :
           /\ SameRow(a, b) /\ a.resolution = b.resolution /\ a.reviewed = b.reviewed
           /\ a.reason \in Outcomes => b = a
           /\ ~b.resolved => b = a /\ (key = NoValue \/ ~Resolves(key, a))
<1>1. CASE key = NoValue
  BY <1>1 DEF ResolveTurn, SameRow
<1>2. CASE key # NoValue
  <2>1. PICK a \in rows : b = IF Resolves(key, a) THEN [a EXCEPT !.resolved = TRUE] ELSE a
    BY <1>2 DEF ResolveTurn
  <2>2. a.reason \in Outcomes => ~Resolves(key, a)
    BY DEF Resolves, TransientReasons, Outcomes
  <2>3. CASE Resolves(key, a)
    <3>1. b = [a EXCEPT !.resolved = TRUE]
      BY <2>1, <2>3
    <3> QED BY <2>2, <2>3, <3>1 DEF AttentionType, SameRow
  <2>4. CASE ~Resolves(key, a)
    BY <2>1, <2>4 DEF SameRow
  <2> QED BY <2>3, <2>4
<1> QED BY <1>1, <1>2

\* An event whose view has no protection speaks of a turn that has none.
LEMMA NoProtection ==
  ASSUME TypeOK, NEW e \in EventType, e.kind \in TurnKinds, e.turn \in Turns,
         ViewOf(e).tombstone = NoValue
  PROVE  \A t \in tombstones : t.key # EventTurnKey(e)
<1>1. EventTurnKey(e) # NoValue
  BY TurnKeyType, NoValueAssumption
<1>2. TombstoneOf(EventTurnKey(e)) = NoValue
  BY DEF ViewOf
<1>3. NoValue \notin TombstonesOf(EventTurnKey(e))
  BY NoValueAssumption DEF TombstonesOf, TypeOK
<1>4. TombstonesOf(EventTurnKey(e)) = {}
  BY <1>1, <1>2, <1>3 DEF TombstoneOf
<1> QED BY <1>4 DEF TombstonesOf

-----------------------------------------------------------------------------
(* An accepted event *)

\* What `Observe` leaves of the rows, in terms of the write `w`.
Observed(e, w) ==
  /\ w.fact = e /\ w.effects \in EffectsType
  /\ TurnEffects(ViewOf(e), e, w.effects)
  /\ AdmissibleEffects(e, w.effects)
  /\ ApplyEffect(w)
  /\ e.producer \in ActiveProducers
  /\ producers[e.producer].generation = e.generation
  /\ producers[e.producer].run = e.run

LEMMA ObservedWrite ==
  ASSUME TypeOK, NEW e \in EventType, e.kind \in TurnKinds => e.turn \in Turns,
         NEW policy \in Policies, NEW notify \in NotifyChoices, NEW lost \in LostCounts,
         Observe(e, policy, notify, lost)
  PROVE  Observed(e, WriteOf(e, policy, notify, lost))
<1> DEFINE w == WriteOf(e, policy, notify, lost)
<1>1. w.fact = e /\ w.effects \in EffectsType /\ w.effects = Reduce(ViewOf(e), e, policy)
  BY WriteShape DEF EffectsOf, WriteOf
<1>2. ApplyOutcome(w) = "Ok" /\ ApplyEffect(w) /\ AdmissibleEffects(e, w.effects)
  BY <1>1 DEF Observe, Apply
<1> HIDE DEF w
<1>3. TurnEffects(ViewOf(e), e, w.effects)
  <2>1. policy \in PolicyType
    BY InputAssumption DEF PolicyType
  <2> QED BY <1>1, <2>1, ViewOfTyped, ReduceEffects
<1>4. /\ e.producer \in ActiveProducers
      /\ producers[e.producer].generation = e.generation /\ producers[e.producer].run = e.run
  BY <1>1, <1>2, ApplyOk, ScopeOk DEF EventType, ActiveProducers
<1>5. Observed(e, w)
  BY <1>1, <1>2, <1>3, <1>4 DEF Observed
<1> QED BY <1>5 DEF w

\* Nobody's scope moves, and a producer to be reconciled is out.
LEMMA ObservedProducers ==
  ASSUME TypeOK, NEW e \in EventType, NEW w, Observed(e, w)
  PROVE  /\ ActiveProducers' = IF w.effects.reconcile THEN ActiveProducers \ {e.producer}
                               ELSE ActiveProducers
         /\ \A q \in Producers : /\ producers'[q] # NoValue => producers[q] # NoValue
                                 /\ producers'[q].generation = producers[q].generation
                                 /\ producers'[q].run = producers[q].run
<1> DEFINE p == e.producer
           record == [producers[p] EXCEPT !.next = CheckedNext(e.seq, MaxSeq),
                                          !.active = ~w.effects.reconcile,
                                          !.reconciled = ~w.effects.reconcile]
<1>1. p \in ActiveProducers /\ p \in Producers /\ producers[p] \in ProducerType /\ producers[p].active
  BY ActiveProducersTyped DEF Observed
<1>2. producers' = [producers EXCEPT ![p] = record]
  BY DEF Observed, ApplyEffect
<1>3. /\ record.generation = producers[p].generation /\ record.run = producers[p].run
      /\ record.active = ~w.effects.reconcile /\ record # NoValue
  <2>1. CheckedNext(e.seq, MaxSeq) \in Seqs \cup {NoValue}
    BY StoreAssumption DEF CheckedNext, Seqs, EventType
  <2>2. w.effects.reconcile \in BOOLEAN
    BY DEF Observed, EffectsType
  <2>3. record \in ProducerType
    BY <1>1, <2>1, <2>2 DEF ProducerType
  <2> QED BY <1>1, <2>3, NoValueAssumption DEF ProducerType
<1> HIDE DEF record
<1>4. producers'[p] = record /\ \A q \in Producers \ {p} : producers'[q] = producers[q]
  BY <1>1, <1>2 DEF TypeOK
<1>5. producers[p] # NoValue
  BY <1>1 DEF ActiveProducers
<1>6. ActiveProducers' = IF w.effects.reconcile THEN ActiveProducers \ {p} ELSE ActiveProducers
  BY <1>1, <1>3, <1>4 DEF ActiveProducers
<1> QED BY <1>3, <1>4, <1>5, <1>6

LEMMA RaisedFacts ==
  ASSUME NEW e, NEW w, w.fact = e
  PROVE  /\ \A b \in RaisedRows(w) :
              /\ b.producer = e.producer /\ b.generation = e.generation /\ b.event = e.id
              /\ b.run = e.run /\ b.turn = EventTurn(e) /\ b.resolution = e.generation
              /\ ~b.resolved /\ b.revision = revision + 1 /\ b.reason \in w.effects.attention
         /\ \A a, b \in RaisedRows(w) : a.reason = b.reason => a = b
<1> DEFINE row(r) ==
      [producer |-> e.producer, generation |-> e.generation, event |-> e.id,
       run |-> e.run, reason |-> r, reviewed |-> FALSE, turn |-> EventTurn(e),
       resolved |-> FALSE, revision |-> revision + 1, resolution |-> e.generation]
<1>1. RaisedReasons(w) \subseteq w.effects.attention
  BY DEF RaisedReasons
<1>2. RaisedRows(w) = {row(r) : r \in RaisedReasons(w)}
  BY DEF RaisedRows
<1>3. \A r \in RaisedReasons(w) :
        /\ row(r).producer = e.producer /\ row(r).generation = e.generation
        /\ row(r).event = e.id /\ row(r).run = e.run /\ row(r).turn = EventTurn(e)
        /\ row(r).resolution = e.generation /\ ~row(r).resolved
        /\ row(r).revision = revision + 1 /\ row(r).reason = r
  OBVIOUS
<1> HIDE DEF row
<1> QED BY <1>1, <1>2, <1>3

\* The key of the turn an event names, as the columns of a row.
LEMMA KeyOfEvent ==
  ASSUME NEW e, e.kind \in TurnKinds
  PROVE  EventTurnKey(e) = TurnKey(e.producer, e.generation, e.run, EventTurn(e))
BY DEF EventTurnKey, EventTurn

LEMMA ObserveTurns ==
  ASSUME TurnInv, NEW e \in EventType, e.kind \in TurnKinds => e.turn \in Turns,
         NEW w, Observed(e, w), TypeOK'
  PROVE  /\ Drawn' /\ RowsTell'
         /\ EndedTurnsProtected' /\ OneOutcomePerTurn' /\ EndedTurnsAskNothing'
<1> DEFINE p == e.producer
           eff == w.effects
           key == EventTurnKey(e)
<1>0. TypeOK /\ TypeOK'
  BY DEF TurnInv, ScopeInv
<1>1. /\ ActiveProducers' = IF eff.reconcile THEN ActiveProducers \ {p} ELSE ActiveProducers
      /\ \A q \in Producers : /\ producers'[q] # NoValue => producers[q] # NoValue
                              /\ producers'[q].generation = producers[q].generation
                              /\ producers'[q].run = producers[q].run
  BY <1>0, ObservedProducers
<1>2. /\ p \in ActiveProducers /\ producers[p].generation = e.generation
      /\ producers[p].run = e.run /\ eff \in EffectsType
      /\ p \in Producers /\ e.run \in Runs /\ producers[p] # NoValue
  BY DEF Observed, EventType, ActiveProducers
<1>3. \A q \in ActiveProducers : q \in Producers /\ producers[q] \in ProducerType
  BY <1>0, ActiveProducersTyped
<1>4. attention' = ResolveTurn(attention, eff.resolve) \cup RaisedRows(w)
  BY DEF Observed, ApplyEffect
<1>5. /\ \A b \in RaisedRows(w) :
           /\ b.producer = p /\ b.generation = e.generation /\ b.event = e.id
           /\ b.run = e.run /\ b.turn = EventTurn(e) /\ b.resolution = e.generation
           /\ ~b.resolved /\ b.reason \in eff.attention
      /\ \A a, b \in RaisedRows(w) : a.reason = b.reason => a = b
  BY RaisedFacts DEF Observed
<1>6. \A b \in ResolveTurn(attention, eff.resolve) : \E a \in attention :
           /\ SameRow(a, b) /\ a.resolution = b.resolution /\ a.reviewed = b.reviewed
           /\ a.reason \in Outcomes => b = a
           /\ ~b.resolved => b = a /\ (eff.resolve = NoValue \/ ~Resolves(eff.resolve, a))
  BY <1>0, ResolvedRows DEF TypeOK
<1>7. tombstones' = IF eff.tombstone = NoValue THEN tombstones ELSE tombstones \cup {eff.tombstone}
  BY DEF Observed, ApplyEffect
<1>8. TurnEffects(ViewOf(e), e, eff)
  BY DEF Observed
<1>9. eff.tombstone # NoValue =>
        /\ e.kind \in TurnKinds /\ eff.tombstone.key = key /\ eff.tombstone.outcome = e.id
        /\ eff.tombstone.terminal = ObservedTurn(e) /\ eff.resolve = key
        /\ key # NoValue
  BY <1>8, TurnKeyType, NoValueAssumption DEF TurnEffects, EndOf
<1>10. e.kind \in TurnKinds /\ ViewOf(e).tombstone = NoValue => \A t \in tombstones : t.key # key
  BY <1>0, NoProtection
<1>11. e.kind \in TurnKinds => key = TurnKey(p, e.generation, e.run, EventTurn(e))
  BY KeyOfEvent
<1>12. issued' = issued /\ e.generation <= issued /\ issued \in Nat
  BY <1>0, <1>2 DEF Observed, ApplyEffect, TurnInv, Drawn, TypeOK
<1>13. projections' = [projections EXCEPT ![e.run] = [projection |-> eff.projection, current |-> eff.current]]
  BY DEF Observed, ApplyEffect
<1> HIDE DEF eff, key
<1>14. Drawn'
  <2>1. \A q \in Producers : producers'[q] # NoValue => producers'[q].generation <= issued'
    BY <1>1, <1>12 DEF TurnInv, Drawn
  <2>2. \A b \in attention' : b.generation <= issued'
    BY <1>4, <1>5, <1>6, <1>12 DEF TurnInv, Drawn, SameRow
  <2>3. \A t \in tombstones' : t.key.generation <= issued'
    <3>1. eff.tombstone # NoValue => eff.tombstone.key.generation = e.generation
      BY <1>9, <1>11 DEF TurnKey
    <3> QED BY <1>7, <1>12, <3>1 DEF TurnInv, Drawn
  <2> QED BY <2>1, <2>2, <2>3 DEF Drawn
<1>15. EndedTurnsProtected'
  <2> SUFFICES ASSUME NEW b \in attention', b.reason \in Outcomes,
                      b.producer \in ActiveProducers',
                      producers'[b.producer].generation = b.generation
               PROVE  \E t \in tombstones' :
                        /\ t.key = TurnKey(b.producer, b.generation, b.run, b.turn)
                        /\ t.outcome = b.event
    BY DEF EndedTurnsProtected, OutcomeRows, Outcomes
  <2>1. CASE b \in RaisedRows(w)
    <3>1. eff.tombstone # NoValue
      BY <1>5, <1>8, <2>1 DEF TurnEffects
    <3>2. eff.tombstone.key = TurnKey(b.producer, b.generation, b.run, b.turn) /\ eff.tombstone.outcome = b.event
      BY <1>5, <1>9, <1>11, <2>1, <3>1
    <3> QED BY <1>7, <3>1, <3>2
  <2>2. CASE b \in ResolveTurn(attention, eff.resolve)
    <3>1. b \in attention
      BY <1>6, <2>2 DEF SameRow
    <3>2. b.producer \in ActiveProducers /\ producers[b.producer].generation = b.generation
      BY <1>1, <1>3
    <3>3. PICK t \in tombstones : t.key = TurnKey(b.producer, b.generation, b.run, b.turn) /\ t.outcome = b.event
      BY <3>1, <3>2 DEF TurnInv, EndedTurnsProtected, OutcomeRows, Outcomes
    <3> QED BY <1>7, <3>3
  <2> QED BY <1>4, <2>1, <2>2
<1>16. OneOutcomePerTurn'
  <2> SUFFICES ASSUME NEW a \in attention', NEW b \in attention',
                      a.reason \in Outcomes, b.reason \in Outcomes,
                      a.producer = b.producer, a.generation = b.generation,
                      a.run = b.run, a.turn = b.turn
               PROVE  a = b
    BY DEF OneOutcomePerTurn, OutcomeRows, Outcomes
  <2>1. \A x \in ResolveTurn(attention, eff.resolve) : x.reason \in Outcomes => x \in attention
    BY <1>6 DEF SameRow
  <2>2. ASSUME NEW x \in RaisedRows(w), NEW y \in attention, x.reason \in Outcomes,
               y.reason \in Outcomes, x.producer = y.producer, x.generation = y.generation,
               x.run = y.run, x.turn = y.turn
        PROVE  FALSE
    <3>1. e.kind \in TurnKinds /\ ViewOf(e).tombstone = NoValue
      BY <1>5, <1>8, <2>2 DEF TurnEffects
    <3>2. y.producer \in ActiveProducers /\ producers[y.producer].generation = y.generation
      BY <1>2, <1>5, <2>2
    <3>3. PICK t \in tombstones : t.key = TurnKey(y.producer, y.generation, y.run, y.turn)
      BY <2>2, <3>2 DEF TurnInv, EndedTurnsProtected, OutcomeRows, Outcomes
    <3>4. t.key = key
      BY <1>5, <1>11, <2>2, <3>1, <3>3
    <3> QED BY <1>10, <3>1, <3>4
  <2>3. CASE a \in RaisedRows(w) /\ b \in RaisedRows(w)
    BY <1>5, <1>8, <2>3 DEF TurnEffects
  <2>4. CASE a \in attention /\ b \in attention
    BY <2>4 DEF TurnInv, OneOutcomePerTurn, OutcomeRows, Outcomes
  <2> QED BY <1>4, <2>1, <2>2, <2>3, <2>4
<1>17. EndedTurnsAskNothing'
  <2> SUFFICES ASSUME NEW b \in attention', NEW t \in tombstones', b.reason \in Prompts, ~b.resolved,
                      t.key = TurnKey(b.producer, b.resolution, b.run, b.turn)
               PROVE  FALSE
    BY DEF EndedTurnsAskNothing, Prompts
  <2>1. CASE b \in RaisedRows(w)
    <3>1. e.kind \in TurnKinds /\ ViewOf(e).tombstone = NoValue /\ eff.tombstone = NoValue
      BY <1>5, <1>8, <2>1 DEF TurnEffects
    <3>2. t.key = key
      BY <1>5, <1>11, <2>1, <3>1
    <3> QED BY <1>7, <1>10, <3>1, <3>2
  <2>2. CASE b \in ResolveTurn(attention, eff.resolve)
    <3>1. b \in attention /\ (eff.resolve = NoValue \/ ~Resolves(eff.resolve, b))
      BY <1>6, <2>2
    <3>2. t \notin tombstones
      BY <3>1 DEF TurnInv, EndedTurnsAskNothing, Prompts
    <3>3. eff.tombstone # NoValue /\ t = eff.tombstone
      BY <1>7, <3>2
    <3>4. eff.resolve = key /\ key = TurnKey(b.producer, b.resolution, b.run, b.turn) /\ key # NoValue
      BY <1>9, <3>3
    <3>5. Resolves(key, b)
      BY <3>4 DEF Resolves, TurnKey, Prompts, TransientReasons
    <3> QED BY <3>1, <3>4, <3>5
  <2> QED BY <1>4, <2>1, <2>2
<1>18. RowsTell'
  <2> SUFFICES ASSUME NEW q \in ActiveProducers' PROVE Tells(projections[producers[q].run])'
    BY DEF RowsTell
  <2>1. q \in ActiveProducers /\ q \in Producers /\ producers'[q].run = producers[q].run
        /\ producers[q].run \in Runs
    BY <1>1, <1>3 DEF ProducerType
  <2>2. Tells(projections[producers[q].run])
    BY <2>1 DEF TurnInv, RowsTell
  <2>3. CASE q # p
    <3>1. producers[q].run # e.run
      BY <1>2, <2>1, <2>3 DEF TurnInv, ScopeInv, OneObserverPerRun
    <3>2. projections'[producers'[q].run] = projections[producers[q].run]
      BY <1>0, <1>13, <2>1, <3>1 DEF TypeOK
    <3> DEFINE row == projections[producers[q].run]
    <3>3. row.current # NoValue => row.current.producer = q
      BY <2>1 DEF TurnInv, ScopeInv, CurrentTurnInScope
    <3>4. eff.tombstone # NoValue => eff.tombstone.key # row.current
      <4>1. eff.tombstone # NoValue => eff.tombstone.key.producer = p /\ eff.tombstone.key # NoValue
        BY <1>9, <1>11 DEF TurnKey
      <4> QED BY <2>3, <3>3, <4>1
    <3> QED BY <1>7, <2>2, <3>2, <3>4 DEF Tells
  <2>4. CASE q = p
    <3> DEFINE row == projections[e.run]
    <3>1. /\ projections'[producers'[q].run].projection = eff.projection
          /\ projections'[producers'[q].run].current = eff.current
      BY <1>0, <1>2, <1>13, <2>1, <2>4 DEF TypeOK
    <3>2. /\ eff.projection.turnId = IF eff.current = NoValue THEN NoValue ELSE eff.current.turn
          /\ eff.current = NoValue => eff.projection.turn = "Unknown"
      BY DEF Observed, AdmissibleEffects, eff
    <3>3. ~eff.reconcile
      BY <1>1, <2>4
    <3>4. Tells(row)
      BY <1>2, <2>2, <2>4
    <3>5. ViewOf(e).current = row.current /\ ViewOf(e).projection = row.projection
      BY DEF ViewOf
    <3>6. CASE /\ eff.current = row.current /\ eff.projection.turn = row.projection.turn
               /\ eff.tombstone # NoValue => row.current # key
      <4>1. tombstones \subseteq tombstones' /\ \A t \in tombstones' : t.key = eff.current => t \in tombstones
        BY <1>7, <1>9, <3>6
      <4> QED BY <3>1, <3>2, <3>4, <3>6, <4>1 DEF Tells
    <3>7. CASE e.kind \in TurnKinds /\ ViewOf(e).tombstone = NoValue /\ ShowsTurnOf(e, eff)
      <4>1. eff.current = key /\ \A t \in tombstones : t.key # key
        BY <1>10, <3>7 DEF ShowsTurnOf, key
      <4>2. CASE eff.tombstone = NoValue
        BY <1>7, <3>1, <3>2, <3>7, <4>1, <4>2 DEF Tells, ShowsTurnOf
      <4>3. CASE eff.tombstone # NoValue
        BY <1>7, <1>9, <3>1, <3>2, <3>7, <4>1, <4>3 DEF Tells, ShowsTurnOf
      <4> QED BY <4>2, <4>3
    <3> QED BY <1>8, <3>3, <3>5, <3>6, <3>7 DEF TurnEffects, key
  <2> QED BY <2>3, <2>4
<1> QED BY <1>14, <1>15, <1>16, <1>17, <1>18

-----------------------------------------------------------------------------
(* Retirement, cleanup, reconciliation and review *)

\* What outlives a retirement shows what it showed.
LEMMA RetireKeeps ==
  ASSUME ScopeInv, NEW retired \in SUBSET ActiveProducers, Retire(retired)
  PROVE  /\ ActiveProducers' = ActiveProducers \ retired
         /\ \A q \in Producers : producers'[q] # NoValue =>
              producers[q] # NoValue /\ producers'[q].generation = producers[q].generation
         /\ \A q \in ActiveProducers' :
              /\ producers'[q] = producers[q]
              /\ projections'[producers[q].run] = projections[producers[q].run]
<1>1. \A p \in ActiveProducers :
        p \in Producers /\ producers[p] \in ProducerType /\ producers[p] # NoValue
  BY ActiveProducersTyped DEF ScopeInv, ActiveProducers
<1>2. ActiveProducers' = ActiveProducers \ retired
  BY <1>1, NoValueAssumption DEF Retire, Deactivate, ActiveProducers, ProducerType
<1>3. \A p \in ActiveProducers' : producers'[p] = producers[p]
  BY <1>1, <1>2 DEF Retire, Deactivate
<1>4. ASSUME NEW q \in Producers, producers'[q] # NoValue
      PROVE  producers[q] # NoValue /\ producers'[q].generation = producers[q].generation
  BY <1>1, <1>4 DEF Retire, Deactivate, ProducerType
<1>5. ASSUME NEW q \in ActiveProducers'
      PROVE  projections'[producers[q].run] = projections[producers[q].run]
  <2>1. q \in ActiveProducers \ retired /\ producers[q].run \in Runs
    BY <1>1, <1>2, <1>5 DEF ProducerType
  <2>2. ~Degraded(retired, producers[q].run)
    BY <2>1 DEF Degraded, ScopeInv, OneObserverPerRun
  <2> QED BY <2>1, <2>2 DEF Retire, Degrade
<1> QED BY <1>2, <1>3, <1>4, <1>5

\* Cleanup may take a protection away only with the trust in its generation.
LEMMA RetireTurns ==
  ASSUME TurnInv, NEW retired \in SUBSET ActiveProducers, Retire(retired),
         UNCHANGED <<issued, attention>>, tombstones' \subseteq tombstones,
         \A t \in tombstones, p \in ActiveProducers :
           t \notin tombstones' /\ t.key.producer = p
             /\ t.key.generation = producers[p].generation => p \in retired
  PROVE  /\ Drawn' /\ RowsTell'
         /\ EndedTurnsProtected' /\ OneOutcomePerTurn' /\ EndedTurnsAskNothing'
<1>1. /\ ActiveProducers' = ActiveProducers \ retired
      /\ \A q \in Producers : producers'[q] # NoValue =>
           producers[q] # NoValue /\ producers'[q].generation = producers[q].generation
      /\ \A q \in ActiveProducers' :
           /\ producers'[q] = producers[q]
           /\ projections'[producers[q].run] = projections[producers[q].run]
  BY RetireKeeps DEF TurnInv
<1>2. Drawn'
  BY <1>1 DEF TurnInv, Drawn
<1>3. OneOutcomePerTurn' /\ EndedTurnsAskNothing'
  BY DEF TurnInv, OneOutcomePerTurn, EndedTurnsAskNothing, OutcomeRows
<1>4. \A q \in ActiveProducers', t \in tombstones :
        t.key.producer = q /\ t.key.generation = producers[q].generation => t \in tombstones'
  BY <1>1
<1>5. EndedTurnsProtected'
  <2> SUFFICES ASSUME NEW a \in attention, a.reason \in Outcomes,
                      a.producer \in ActiveProducers',
                      producers'[a.producer].generation = a.generation
               PROVE  \E t \in tombstones' :
                        /\ t.key = TurnKey(a.producer, a.generation, a.run, a.turn)
                        /\ t.outcome = a.event
    BY DEF EndedTurnsProtected, OutcomeRows, Outcomes
  <2>1. PICK t \in tombstones : t.key = TurnKey(a.producer, a.generation, a.run, a.turn) /\ t.outcome = a.event
    BY <1>1 DEF TurnInv, EndedTurnsProtected, OutcomeRows, Outcomes
  <2>2. t.key.producer = a.producer /\ t.key.generation = producers[a.producer].generation
    BY <1>1, <2>1 DEF TurnKey
  <2> QED BY <1>4, <2>1, <2>2
<1>6. RowsTell'
  <2> SUFFICES ASSUME NEW q \in ActiveProducers' PROVE Tells(projections[producers[q].run])'
    BY DEF RowsTell
  <2> DEFINE row == projections[producers[q].run]
  <2>1. q \in ActiveProducers /\ row' = row
    BY <1>1
  <2>2. Tells(row)
    BY <2>1 DEF TurnInv, RowsTell
  <2>3. row.current # NoValue =>
          row.current.producer = q /\ row.current.generation = producers[q].generation
    BY <2>1 DEF TurnInv, ScopeInv, CurrentTurnInScope
  <2>4. \A t \in tombstones : t.key = row.current /\ row.current # NoValue => t \in tombstones'
    BY <1>4, <2>3
  <2> QED BY <2>1, <2>2, <2>4 DEF Tells
<1> QED BY <1>2, <1>3, <1>5, <1>6

LEMMA ReconcileTurns ==
  ASSUME TurnInv, TypeOK', NEW p \in Producers, NEW r \in Runs, NEW first \in FirstSequences,
         NEW baseline \in Baselines \cup {NoValue},
         NEW lost \in LostCounts, NEW resolved, NEW continued,
         Reconcile(ReconciliationOf(p, r, first, baseline, lost, resolved, continued))
  PROVE  /\ Drawn' /\ RowsTell'
         /\ EndedTurnsProtected' /\ OneOutcomePerTurn' /\ EndedTurnsAskNothing'
<1> DEFINE q == ReconciliationOf(p, r, first, baseline, lost, resolved, continued)
           fresh == issued + 1
           verified == baseline # NoValue
<1>0. /\ q.producer = p /\ q.run = r /\ q.next = first /\ q.baseline = baseline
      /\ q.resolved = resolved /\ q.continued = continued
  BY DEF ReconciliationOf
<1>1. ReconcileOutcome(q) = "Ok" /\ ReconcileEffect(q)
  BY DEF Reconcile
<1> HIDE DEF q
<1>2. ~OtherObserver(q)
  BY <1>1 DEF ReconcileOutcome, FirstFailure, RegistrationOutcome
<1>3. /\ issued' = fresh /\ fresh \in Nat /\ issued \in Nat /\ tombstones' = tombstones
      /\ producers' = [producers EXCEPT ![p] =
                         [generation |-> fresh, run |-> r, next |-> first,
                          active |-> verified, reconciled |-> verified]]
  BY <1>0, <1>1 DEF ReconcileEffect, TurnInv, ScopeInv, TypeOK
<1>4. \A b \in attention' : \E a \in attention :
        /\ SameRow(a, b)
        /\ a.reason \in Outcomes => b = a
        /\ ~b.resolved => ~a.resolved /\ b.resolution \in {a.resolution, fresh}
  <2> SUFFICES ASSUME NEW b \in attention'
               PROVE  \E a \in attention :
                        /\ SameRow(a, b)
                        /\ a.reason \in Outcomes => b = a
                        /\ ~b.resolved => ~a.resolved /\ b.resolution \in {a.resolution, fresh}
    OBVIOUS
  <2>1. PICK c \in ResolveTurn(attention, resolved) :
          b = IF Relinked(q, c) THEN [c EXCEPT !.resolution = fresh] ELSE c
    BY <1>0, <1>1 DEF ReconcileEffect
  <2>2. c \in AttentionType
    BY ResolveTurnTyped DEF TurnInv, ScopeInv, TypeOK
  <2>3. PICK a \in attention :
           /\ SameRow(a, c) /\ a.resolution = c.resolution
           /\ a.reason \in Outcomes => c = a
           /\ ~c.resolved => c = a
    BY ResolvedRows DEF TurnInv, ScopeInv, TypeOK
  <2>4. CASE Relinked(q, c)
    <3>1. b = [c EXCEPT !.resolution = fresh]
      BY <2>1, <2>4
    <3>2. c.reason \notin Outcomes
      BY <2>4 DEF Relinked, Resolves, TransientReasons, Outcomes
    <3> QED BY <2>2, <2>3, <3>1, <3>2 DEF SameRow, AttentionType
  <2>5. CASE ~Relinked(q, c)
    BY <2>1, <2>3, <2>5
  <2> QED BY <2>4, <2>5
<1>5. /\ \A a \in attention : a.generation <= issued /\ a.generation \in Nat
      /\ \A t \in tombstones : t.key.generation <= issued /\ t.key.generation \in Nat
  BY DEF TurnInv, ScopeInv, TypeOK, Drawn, AttentionType, TombstoneType, TurnKeys, Generations
<1>6. \A s \in Producers \ {p} : producers'[s] = producers[s]
  BY <1>3 DEF TurnInv, ScopeInv, TypeOK
<1>7. producers'[p] = [generation |-> fresh, run |-> r, next |-> first,
                       active |-> verified, reconciled |-> verified]
  BY <1>3 DEF TurnInv, ScopeInv, TypeOK
<1>8. Drawn'
  <2>1. \A s \in Producers : producers'[s] # NoValue => producers'[s].generation <= issued'
    <3>1. \A s \in Producers : producers[s] # NoValue =>
            producers[s].generation \in Nat /\ producers[s].generation <= issued
      BY DEF TurnInv, ScopeInv, TypeOK, ProducerType, Generations, Drawn
    <3> QED BY <1>3, <1>6, <1>7, <3>1
  <2>2. \A b \in attention' : b.generation <= issued'
    BY <1>3, <1>4, <1>5 DEF SameRow
  <2> QED BY <1>3, <1>5, <2>1, <2>2 DEF Drawn
<1>9. EndedTurnsProtected'
  <2> SUFFICES ASSUME NEW b \in attention', b.reason \in Outcomes,
                      b.producer \in ActiveProducers',
                      producers'[b.producer].generation = b.generation
               PROVE  \E t \in tombstones' :
                        /\ t.key = TurnKey(b.producer, b.generation, b.run, b.turn)
                        /\ t.outcome = b.event
    BY DEF EndedTurnsProtected, OutcomeRows, Outcomes
  <2>1. b \in attention
    BY <1>4 DEF SameRow
  <2>2. b.producer # p
    BY <1>3, <1>5, <1>7, <2>1
  <2>3. b.producer \in ActiveProducers /\ producers[b.producer].generation = b.generation
    BY <1>6, <2>2 DEF ActiveProducers
  <2> QED BY <1>3, <2>1, <2>3 DEF TurnInv, EndedTurnsProtected, OutcomeRows, Outcomes
<1>10. OneOutcomePerTurn'
  BY <1>4 DEF TurnInv, OneOutcomePerTurn, OutcomeRows, Outcomes, SameRow
<1>11. EndedTurnsAskNothing'
  <2> SUFFICES ASSUME NEW b \in attention', NEW t \in tombstones, b.reason \in Prompts, ~b.resolved,
                      t.key = TurnKey(b.producer, b.resolution, b.run, b.turn)
               PROVE  FALSE
    BY <1>3 DEF EndedTurnsAskNothing, Prompts
  <2>1. PICK a \in attention :
          SameRow(a, b) /\ ~a.resolved /\ b.resolution \in {a.resolution, fresh}
    BY <1>4
  <2>2. t.key.generation = b.resolution
    BY DEF TurnKey
  <2>3. b.resolution = a.resolution
    BY <1>3, <1>5, <2>1, <2>2
  <2> QED BY <2>1, <2>3 DEF TurnInv, EndedTurnsAskNothing, Prompts, SameRow
<1>12. RowsTell'
  <2> SUFFICES ASSUME NEW s \in ActiveProducers' PROVE Tells(projections[producers[s].run])'
    BY DEF RowsTell
  <2>1. CASE s # p
    <3>1. s \in ActiveProducers /\ s \in Producers /\ producers'[s] = producers[s]
      BY <1>6, <2>1 DEF ActiveProducers
    <3>2. producers[s].run # r
      BY <1>0, <1>2, <2>1, <3>1 DEF OtherObserver
    <3>3. projections'[producers'[s].run] = projections[producers[s].run]
      <4>1. producers[s].run \in Runs
        BY <3>1, ActiveProducersTyped DEF TurnInv, ScopeInv, ProducerType
      <4> QED BY <1>0, <1>1, <3>1, <3>2, <4>1 DEF ReconcileEffect, TurnInv, ScopeInv, TypeOK
    <3>4. Tells(projections[producers[s].run])
      BY <3>1 DEF TurnInv, RowsTell
    <3> QED BY <1>3, <3>3, <3>4 DEF Tells
  <2>2. CASE s = p
    <3>1. baseline # NoValue /\ baseline \in Baselines
      <4>1. producers'[p].active
        BY <2>2 DEF ActiveProducers
      <4>2. producers'[p].active = (baseline # NoValue)
        BY <1>7
      <4> QED BY <4>1, <4>2
    <3>2. projections'[r] =
            [projection |-> [run |-> r, process |-> "Alive", observation |-> "Fresh",
                             turn |-> baseline.turn, turnId |-> baseline.turnId],
             current |-> BaselineTurn(q, fresh)]
      BY <1>0, <1>1, <3>1 DEF ReconcileEffect, TurnInv, ScopeInv, TypeOK
    <3>3. /\ baseline.turnId = NoValue <=> baseline.turn = "Unknown"
          /\ ~IsTerminal(baseline.turn)
      BY <3>1, InputAssumption DEF IsTerminal
    <3>4. IF baseline.turnId = NoValue THEN BaselineTurn(q, fresh) = NoValue
          ELSE /\ BaselineTurn(q, fresh).turn = baseline.turnId
               /\ BaselineTurn(q, fresh).generation = fresh
      BY <1>0 DEF BaselineTurn, TurnKey
    <3>5. \A t \in tombstones : t.key # BaselineTurn(q, fresh)
      <4>1. \A t \in tombstones : t.key # NoValue /\ t.key.generation # fresh
        BY <1>3, <1>5, NoValueAssumption DEF TurnInv, ScopeInv, TypeOK, TombstoneType
      <4> QED BY <3>4, <4>1
    <3>6. BaselineTurn(q, fresh) = NoValue <=> baseline.turnId = NoValue
      <4>1. baseline.turnId # NoValue => BaselineTurn(q, fresh) \in TurnKeys
        <5>1. baseline.turnId # NoValue =>
                BaselineTurn(q, fresh) = TurnKey(p, fresh, r, baseline.turnId)
          BY <1>0 DEF BaselineTurn
        <5>2. fresh \in Generations
          BY <1>3, StoreAssumption DEF TypeOK, Generations
        <5>3. baseline.turnId \in Turns \cup {NoValue}
          BY <3>1, InputAssumption
        <5> QED BY <5>1, <5>2, <5>3 DEF TurnKeys, TurnKey
      <4> QED BY <3>4, <4>1, NoValueAssumption
    <3>7. producers'[s].run = r
      BY <1>7, <2>2
    <3> DEFINE row == [projection |-> [run |-> r, process |-> "Alive", observation |-> "Fresh",
                                       turn |-> baseline.turn, turnId |-> baseline.turnId],
                       current |-> BaselineTurn(q, fresh)]
    <3>8. row.current = BaselineTurn(q, fresh) /\ row.projection.turn = baseline.turn
          /\ row.projection.turnId = baseline.turnId
      OBVIOUS
    <3> HIDE DEF row, fresh
    <3>9. projections'[producers'[s].run] = row
      BY <3>2, <3>7 DEF row, fresh
    <3> QED BY <1>3, <3>3, <3>4, <3>5, <3>6, <3>8, <3>9 DEF Tells, fresh
  <2> QED BY <2>1, <2>2
<1> QED BY <1>8, <1>9, <1>10, <1>11, <1>12

LEMMA ReviewTurns ==
  ASSUME TurnInv, NEW row \in attention, Review(row)
  PROVE  /\ Drawn' /\ RowsTell'
         /\ EndedTurnsProtected' /\ OneOutcomePerTurn' /\ EndedTurnsAskNothing'
<1> DEFINE Reviews(a) == SameOutcome(a, [producer |-> row.producer, generation |-> row.generation,
                                         id |-> row.event])
<1>1. /\ attention' = {IF Reviews(a) THEN [a EXCEPT !.reviewed = TRUE] ELSE a : a \in attention}
      /\ UNCHANGED <<issued, producers, projections, tombstones>>
  BY DEF Review
<1> HIDE DEF Reviews
<1>2. \A b \in attention' : \E a \in attention :
        /\ SameRow(a, b) /\ b.resolved = a.resolved /\ b.resolution = a.resolution
        /\ b = IF Reviews(a) THEN [a EXCEPT !.reviewed = TRUE] ELSE a
  <2> SUFFICES ASSUME NEW b \in attention'
               PROVE  \E a \in attention :
                        /\ SameRow(a, b) /\ b.resolved = a.resolved /\ b.resolution = a.resolution
                        /\ b = IF Reviews(a) THEN [a EXCEPT !.reviewed = TRUE] ELSE a
    OBVIOUS
  <2>1. PICK a \in attention : b = IF Reviews(a) THEN [a EXCEPT !.reviewed = TRUE] ELSE a
    BY <1>1
  <2>2. a \in AttentionType
    BY DEF TurnInv, ScopeInv, TypeOK
  <2>3. SameRow(a, b) /\ b.resolved = a.resolved /\ b.resolution = a.resolution
    <3>1. CASE Reviews(a)
      <4>1. b = [a EXCEPT !.reviewed = TRUE]
        BY <2>1, <3>1
      <4> QED BY <2>2, <4>1 DEF AttentionType, SameRow
    <3>2. CASE ~Reviews(a)
      BY <2>1, <3>2 DEF SameRow
    <3> QED BY <3>1, <3>2
  <2> QED BY <2>1, <2>3
<1>3. Drawn'
  BY <1>1, <1>2 DEF TurnInv, Drawn, SameRow
<1>4. RowsTell'
  BY <1>1 DEF TurnInv, RowsTell, Tells, ActiveProducers
<1>5. EndedTurnsProtected'
  <2> SUFFICES ASSUME NEW b \in attention', b.reason \in Outcomes,
                      b.producer \in ActiveProducers,
                      producers[b.producer].generation = b.generation
               PROVE  \E t \in tombstones :
                        /\ t.key = TurnKey(b.producer, b.generation, b.run, b.turn)
                        /\ t.outcome = b.event
    BY <1>1 DEF EndedTurnsProtected, OutcomeRows, Outcomes, ActiveProducers
  <2>1. PICK a \in attention : SameRow(a, b)
    BY <1>2
  <2> QED BY <2>1 DEF TurnInv, EndedTurnsProtected, OutcomeRows, Outcomes, SameRow
<1>6. OneOutcomePerTurn'
  <2> SUFFICES ASSUME NEW b \in attention', NEW d \in attention',
                      b.reason \in Outcomes, d.reason \in Outcomes,
                      b.producer = d.producer, b.generation = d.generation,
                      b.run = d.run, b.turn = d.turn
               PROVE  b = d
    BY DEF OneOutcomePerTurn, OutcomeRows, Outcomes
  <2>1. PICK a \in attention :
          SameRow(a, b) /\ b = IF Reviews(a) THEN [a EXCEPT !.reviewed = TRUE] ELSE a
    BY <1>2
  <2>2. PICK c \in attention :
          SameRow(c, d) /\ d = IF Reviews(c) THEN [c EXCEPT !.reviewed = TRUE] ELSE c
    BY <1>2
  <2>3. a = c
    BY <2>1, <2>2 DEF TurnInv, OneOutcomePerTurn, OutcomeRows, Outcomes, SameRow
  <2> QED BY <2>1, <2>2, <2>3
<1>7. EndedTurnsAskNothing'
  BY <1>1, <1>2 DEF TurnInv, EndedTurnsAskNothing, SameRow
<1> QED BY <1>3, <1>4, <1>5, <1>6, <1>7

-----------------------------------------------------------------------------
(* The theorems *)

LEMMA TurnInit == Init => TurnInv
<1> SUFFICES ASSUME Init PROVE TurnInv
  OBVIOUS
<1>1. ActiveProducers = {}
  BY DEF Init, ActiveProducers
<1>2. ScopeInv
  BY ScopeInit
<1>3. Drawn
  BY DEF Init, Drawn
<1> QED BY <1>1, <1>2, <1>3 DEF TurnInv, RowsTell, EndedTurnsProtected, OneOutcomePerTurn,
           EndedTurnsAskNothing, OutcomeRows, Init

LEMMA TurnStep == TurnInv /\ [Next]_storeVars => TurnInv'
<1> SUFFICES ASSUME TurnInv, [Next]_storeVars PROVE TurnInv'
  OBVIOUS
<1>1. ScopeInv' /\ TypeOK' /\ TypeOK
  BY ScopeStep DEF TurnInv, ScopeInv
<1> DEFINE Kept == /\ Drawn' /\ RowsTell'
                   /\ EndedTurnsProtected' /\ OneOutcomePerTurn' /\ EndedTurnsAskNothing'
<1>2. ASSUME NEW p \in Producers, NEW r \in Runs, NEW s \in Seqs, NEW id \in EventIds,
             NEW payload \in Payloads, NEW policy \in Policies, NEW notify \in NotifyChoices,
             NEW lost \in LostCounts, p \in ActiveProducers,
             Observe(EventOf(p, producers[p].generation, r, s, id, payload), policy, notify, lost)
      PROVE  Kept
  <2> DEFINE e == EventOf(p, producers[p].generation, r, s, id, payload)
  <2>1. e \in EventType /\ (e.kind \in TurnKinds => e.turn \in Turns)
    BY <1>1, <1>2, EventOfTyped
  <2>2. Observe(e, policy, notify, lost)
    BY <1>2
  <2> HIDE DEF e
  <2>3. Observed(e, WriteOf(e, policy, notify, lost))
    BY <1>1, <2>1, <2>2, ObservedWrite
  <2> QED BY <1>1, <2>1, <2>3, ObserveTurns
<1>3. ASSUME NEW p \in Producers, NEW r \in Runs, NEW first \in FirstSequences,
             NEW baseline \in Baselines \cup {NoValue},
             NEW lost \in LostCounts, NEW resolved, NEW continued,
             Reconcile(ReconciliationOf(p, r, first, baseline, lost, resolved, continued))
      PROVE  Kept
  BY <1>1, <1>3, ReconcileTurns
<1>4. ASSUME NEW p \in ActiveProducers, NEW lost \in LostCounts, RetireProducer(RetirementOf(p, lost))
      PROVE  Kept
  <2>1. Retire({p}) /\ UNCHANGED <<issued, attention, tombstones>>
    BY <1>4 DEF RetireProducer, RetireEffect, RetirementOf
  <2> QED BY <2>1, RetireTurns
<1>5. ASSUME NEW oldFacts, NEW oldTombstones, NEW oldDeliveries,
             Maintain(oldFacts, oldTombstones, oldDeliveries)
      PROVE  Kept
  <2>1. /\ Retire(Unprotected(oldTombstones)) /\ tombstones' = tombstones \ oldTombstones
        /\ UNCHANGED <<issued, attention>>
    BY <1>5 DEF Maintain
  <2>2. Unprotected(oldTombstones) \subseteq ActiveProducers
    BY DEF Unprotected
  <2>3. \A t \in tombstones, p \in ActiveProducers :
          t \notin tombstones' /\ t.key.producer = p /\ t.key.generation = producers[p].generation
            => p \in Unprotected(oldTombstones)
    BY <2>1 DEF Unprotected
  <2> QED BY <2>1, <2>2, <2>3, RetireTurns
<1>6. ASSUME NEW row \in attention, Review(row) PROVE Kept
  BY <1>6, ReviewTurns
<1>7. ASSUME Reopen PROVE Kept
  <2>1. Retire(ActiveProducers) /\ UNCHANGED <<issued, attention, tombstones>>
    BY <1>7 DEF Reopen
  <2> QED BY <2>1, RetireTurns
<1>8. ASSUME UNCHANGED <<issued, producers, projections, attention, tombstones>>
      PROVE  Kept
  BY <1>8 DEF TurnInv, Drawn, RowsTell, Tells, EndedTurnsProtected, OneOutcomePerTurn,
     EndedTurnsAskNothing, OutcomeRows, ActiveProducers
<1>9. ASSUME \/ \E row \in outbox, state \in DeliveryStates : SetDelivery(row, state)
             \/ OtherWrite \/ UNCHANGED storeVars
      PROVE  Kept
  <2>1. UNCHANGED <<issued, producers, projections, attention, tombstones>>
    BY <1>9 DEF SetDelivery, OtherWrite, storeVars
  <2> QED BY <1>8, <2>1
<1>10. Kept
  BY <1>2, <1>3, <1>4, <1>5, <1>6, <1>7, <1>9 DEF Next
<1> QED BY <1>1, <1>10 DEF TurnInv

LEMMA TurnInvariant == Spec => []TurnInv
<1> QED BY TurnInit, TurnStep, PTL DEF Spec

\* While a generation is observed, each of its ended turns keeps its protection
\* (`policy::expire_tombstones` retires the generation first).
THEOREM ProtectionLasts == Spec => []EndedTurnsProtected
<1>1. TurnInv => EndedTurnsProtected
  BY DEF TurnInv
<1> QED BY <1>1, TurnInvariant, PTL

\* No late, repeated or contradicting end of a turn raises a second outcome
\* (`domain::reduce` on the view of `storage/context.rs`).
THEOREM TurnsEndOnce == Spec => []OneOutcomePerTurn
<1>1. TurnInv => OneOutcomePerTurn
  BY DEF TurnInv
<1> QED BY <1>1, TurnInvariant, PTL

\* An ended turn leaves no native prompt open, whichever generation raised it
\* (`attention_state::resolve_turn` and the relinking of a reconciliation).
THEOREM PromptsEndWithTurns == Spec => []EndedTurnsAskNothing
<1>1. TurnInv => EndedTurnsAskNothing
  BY DEF TurnInv
<1> QED BY <1>1, TurnInvariant, PTL

\* The evidence of a live producer is never refused as inconsistent
\* (`domain/evidence.rs` on the rows the transactions leave).
THEOREM EvidenceHolds == Spec => []EvidenceConsistent
<1>1. ASSUME TurnInv, NEW p \in ActiveProducers, NEW payload \in Payloads, NEW policy \in Policies,
             NEW id \in EventIds
      PROVE  LET e == EventOf(p, producers[p].generation, producers[p].run, 1, id, payload)
             IN  Validate(ViewOf(e), e, policy) \in {"Ok", "UnsupportedSignal"}
  <2> DEFINE e == EventOf(p, producers[p].generation, producers[p].run, 1, id, payload)
             view == ViewOf(e)
             key == EventTurnKey(e)
  <2>0. TypeOK /\ ScopeInv
    BY <1>1 DEF TurnInv, ScopeInv
  <2>1. /\ e \in EventType /\ (e.kind \in TurnKinds => e.turn \in Turns)
        /\ e.producer = p /\ e.generation = producers[p].generation /\ e.run = producers[p].run
        /\ e.run \in Runs
    <3>1. producers[p].run \in Runs /\ 1 \in Seqs
      BY <2>0, ActiveProducersTyped, StoreAssumption DEF ProducerType, Seqs
    <3> QED BY <2>0, <3>1, EventOfTyped DEF EventOf
  <2>2. view.projection = projections[e.run].projection /\ view.current = projections[e.run].current
        /\ view.tombstone = TombstoneOf(key)
    BY DEF ViewOf
  <2> HIDE DEF e, view
  <2>3. /\ view.projection.run = e.run
        /\ view.current # NoValue => SameScope(view.current, e)
    BY <2>0, <2>1, <2>2 DEF ScopeInv, RowsNameTheirRun, CurrentTurnInScope, SameScope
  <2>4. Tells(projections[e.run])
    BY <1>1, <2>1 DEF TurnInv, RowsTell
  <2>5. view.tombstone # NoValue =>
          view.tombstone \in tombstones /\ view.tombstone.key = key
          /\ view.tombstone.terminal \in TerminalTurns
    BY <2>0, <2>2 DEF TombstoneOf, TombstonesOf, TypeOK, TombstoneType
  <2>6. CurrentTerminalAgrees(view, e)
    <3> SUFFICES ASSUME view.current = key PROVE CurrentTerminalAgrees(view, e)
      BY DEF CurrentTerminalAgrees
    <3>1. CASE view.tombstone = NoValue
      <4>1. CASE key = NoValue
        BY <2>2, <2>4, <3>1, <4>1 DEF Tells, CurrentTerminalAgrees, IsTerminal, TerminalTurns
      <4>2. CASE key # NoValue
        <5>1. e.kind \in TurnKinds
          BY <4>2 DEF EventTurnKey
        <5>2. \A t \in tombstones : t.key # key
          BY <2>0, <2>1, <3>1, <5>1, NoProtection DEF view
        <5> QED BY <2>2, <2>4, <3>1, <4>2, <5>2 DEF Tells, CurrentTerminalAgrees
      <4> QED BY <4>1, <4>2
    <3>2. CASE view.tombstone # NoValue
      BY <2>2, <2>4, <2>5, <3>2 DEF Tells, CurrentTerminalAgrees
    <3> QED BY <3>1, <3>2
  <2>7. /\ view.projection.turnId = IF view.current = NoValue THEN NoValue ELSE view.current.turn
        /\ view.current = NoValue => view.projection.turn = "Unknown"
    BY <2>2, <2>4 DEF Tells
  <2>8. Validate(view, e, policy) \in {"Ok", "UnsupportedSignal"}
    BY <2>3, <2>5, <2>6, <2>7 DEF Validate
  <2> QED BY <2>8 DEF e, view
<1>2. TurnInv => EvidenceConsistent
  BY <1>1 DEF EvidenceConsistent
<1> QED BY <1>2, TurnInvariant, PTL

-----------------------------------------------------------------------------
(* Rows that are never lost, and their revisions *)

\* Every attention row lives on, and a review of it stays.
AttentionKept ==
  \A a \in attention : \E b \in attention' : SameRow(a, b) /\ (a.reviewed => b.reviewed)

\* Every attention row was there before; `raised` are the new ones.
AttentionFrom(raised) ==
  \A b \in attention' : b \in raised \/ \E a \in attention : SameRow(a, b)

LEMMA ResolveKeeps ==
  ASSUME NEW rows \in SUBSET AttentionType, NEW key, NEW a \in rows
  PROVE  \E b \in ResolveTurn(rows, key) : SameRow(a, b) /\ (a.reviewed => b.reviewed)
<1>1. CASE key # NoValue /\ Resolves(key, a)
  <2> DEFINE b == [a EXCEPT !.resolved = TRUE]
  <2>1. b \in ResolveTurn(rows, key)
    BY <1>1 DEF ResolveTurn
  <2>2. SameRow(a, b) /\ (a.reviewed => b.reviewed)
    BY DEF AttentionType, SameRow
  <2> QED BY <2>1, <2>2
<1>2. CASE ~(key # NoValue /\ Resolves(key, a))
  <2>1. a \in ResolveTurn(rows, key)
    BY <1>2 DEF ResolveTurn
  <2> QED BY <2>1 DEF SameRow
<1> QED BY <1>1, <1>2

LEMMA ObserveRows ==
  ASSUME TypeOK, NEW e, NEW w, Observed(e, w)
  PROVE  /\ AttentionKept /\ AttentionFrom(RaisedRows(w)) /\ RaisedRows(w) \subseteq attention'
         /\ outbox \subseteq outbox'
<1>1. /\ attention' = ResolveTurn(attention, w.effects.resolve) \cup RaisedRows(w)
      /\ outbox \subseteq outbox'
  BY DEF Observed, ApplyEffect
<1>2. AttentionKept
  BY <1>1, ResolveKeeps DEF TypeOK, AttentionKept
<1>3. AttentionFrom(RaisedRows(w))
  BY <1>1, ResolvedRows DEF TypeOK, AttentionFrom
<1> QED BY <1>1, <1>2, <1>3

LEMMA ReconcileRows ==
  ASSUME TypeOK, NEW q, ReconcileEffect(q)
  PROVE  AttentionKept /\ AttentionFrom({}) /\ outbox' = outbox
<1> DEFINE fresh == issued + 1
           Relink(c) == IF Relinked(q, c) THEN [c EXCEPT !.resolution = fresh] ELSE c
<1>1. /\ attention' = {Relink(c) : c \in ResolveTurn(attention, q.resolved)}
      /\ outbox' = outbox
  BY DEF ReconcileEffect
<1>2. \A c \in ResolveTurn(attention, q.resolved) :
        SameRow(c, Relink(c)) /\ Relink(c).reviewed = c.reviewed
  <2> SUFFICES ASSUME NEW c \in ResolveTurn(attention, q.resolved)
               PROVE  SameRow(c, Relink(c)) /\ Relink(c).reviewed = c.reviewed
    OBVIOUS
  <2>1. c \in AttentionType
    BY ResolveTurnTyped DEF TypeOK
  <2>2. CASE Relinked(q, c)
    BY <2>1, <2>2 DEF AttentionType, SameRow
  <2>3. CASE ~Relinked(q, c)
    BY <2>3 DEF SameRow
  <2> QED BY <2>2, <2>3
<1> HIDE DEF Relink
<1>3. AttentionKept
  <2> SUFFICES ASSUME NEW a \in attention
               PROVE  \E b \in attention' : SameRow(a, b) /\ (a.reviewed => b.reviewed)
    BY DEF AttentionKept
  <2>1. PICK c \in ResolveTurn(attention, q.resolved) : SameRow(a, c) /\ (a.reviewed => c.reviewed)
    BY ResolveKeeps DEF TypeOK
  <2> QED BY <1>1, <1>2, <2>1 DEF SameRow
<1>4. AttentionFrom({})
  <2> SUFFICES ASSUME NEW b \in attention' PROVE \E a \in attention : SameRow(a, b)
    BY DEF AttentionFrom
  <2>1. PICK c \in ResolveTurn(attention, q.resolved) : b = Relink(c)
    BY <1>1
  <2>2. PICK a \in attention : SameRow(a, c)
    BY ResolvedRows DEF TypeOK
  <2> QED BY <1>2, <2>1, <2>2 DEF SameRow
<1> QED BY <1>1, <1>3, <1>4

LEMMA ReviewRows ==
  ASSUME TypeOK, NEW row \in attention, Review(row)
  PROVE  AttentionKept /\ AttentionFrom({}) /\ outbox' = outbox
<1> DEFINE Reviewed(a) ==
      IF SameOutcome(a, [producer |-> row.producer, generation |-> row.generation,
                         id |-> row.event])
      THEN [a EXCEPT !.reviewed = TRUE] ELSE a
<1>1. attention' = {Reviewed(a) : a \in attention} /\ outbox' = outbox
  BY DEF Review
<1>2. \A a \in attention : SameRow(a, Reviewed(a)) /\ (a.reviewed => Reviewed(a).reviewed)
  BY DEF TypeOK, AttentionType, SameRow
<1> HIDE DEF Reviewed
<1> QED BY <1>1, <1>2 DEF AttentionKept, AttentionFrom

\* What a person reviewed stays reviewed, and a settled delivery stays settled
\* (`attention_state::review`, `maintenance::delivery`).
THEOREM HumanStateIsKept == Spec => HumanStateKept
<1> DEFINE Kept == AttentionKept /\ \A o \in outbox : o.state \in FinalDeliveries => o \in outbox'
<1>1. TypeOK /\ [Next]_storeVars => Kept
  <2> SUFFICES ASSUME TypeOK, [Next]_storeVars PROVE Kept
    OBVIOUS
  <2>1. ASSUME NEW p \in Producers, NEW r \in Runs, NEW s \in Seqs, NEW id \in EventIds,
               NEW payload \in Payloads, NEW policy \in Policies, NEW notify \in NotifyChoices,
               NEW lost \in LostCounts, p \in ActiveProducers,
               Observe(EventOf(p, producers[p].generation, r, s, id, payload), policy, notify, lost)
        PROVE  Kept
    <3> DEFINE e == EventOf(p, producers[p].generation, r, s, id, payload)
    <3>1. e \in EventType /\ (e.kind \in TurnKinds => e.turn \in Turns)
      BY <2>1, EventOfTyped
    <3>2. Observe(e, policy, notify, lost)
      BY <2>1
    <3> HIDE DEF e
    <3>3. Observed(e, WriteOf(e, policy, notify, lost))
      BY <3>1, <3>2, ObservedWrite
    <3> QED BY <3>3, ObserveRows
  <2>2. ASSUME NEW q, Reconcile(q) PROVE Kept
    BY <2>2, ReconcileRows DEF Reconcile
  <2>3. ASSUME NEW row \in attention, Review(row) PROVE Kept
    BY <2>3, ReviewRows
  <2>4. ASSUME UNCHANGED attention,
               \A o \in outbox : o.state \in FinalDeliveries => o \in outbox'
        PROVE  Kept
    BY <2>4 DEF AttentionKept, SameRow
  <2>5. ASSUME NEW oldFacts, NEW oldTombstones,
               NEW oldDeliveries \in SUBSET {o \in outbox : o.state \notin FinalDeliveries},
               Maintain(oldFacts, oldTombstones, oldDeliveries)
        PROVE  Kept
    <3>1. UNCHANGED attention /\ \A o \in outbox : o.state \in FinalDeliveries => o \in outbox'
      BY <2>5 DEF Maintain
    <3> QED BY <2>4, <3>1
  <2>6. ASSUME NEW row \in outbox, NEW state \in DeliveryStates, SetDelivery(row, state) PROVE Kept
    <3>1. UNCHANGED attention /\ \A o \in outbox : o.state \in FinalDeliveries => o \in outbox'
      BY <2>6 DEF SetDelivery
    <3> QED BY <2>4, <3>1
  <2>7. ASSUME UNCHANGED <<attention, outbox>> PROVE Kept
    BY <2>4, <2>7
  <2>8. ASSUME \/ \E p \in ActiveProducers, lost \in LostCounts : RetireProducer(RetirementOf(p, lost))
               \/ OtherWrite \/ Reopen \/ UNCHANGED storeVars
        PROVE  Kept
    <3>1. UNCHANGED <<attention, outbox>>
      BY <2>8 DEF RetireProducer, RetireEffect, OtherWrite, Reopen, storeVars
    <3> QED BY <2>7, <3>1
  <2> QED BY <2>1, <2>2, <2>3, <2>5, <2>6, <2>8 DEF Next
<1>2. Kept =>
        /\ \A a \in attention : a.reviewed =>
             \E b \in attention' : b.reviewed /\ b.event = a.event /\ b.reason = a.reason
                                    /\ b.producer = a.producer /\ b.generation = a.generation
        /\ \A o \in outbox : o.state \in FinalDeliveries => o \in outbox'
  BY DEF AttentionKept, SameRow
<1> QED BY <1>1, <1>2, TypeCorrect, PTL DEF Spec, HumanStateKept

\* A delivery is of an outcome that was raised.
DeliveriesRaised ==
  \A o \in outbox : \E a \in attention :
    a.producer = o.producer /\ a.generation = o.generation /\ a.event = o.event

RevisionInv ==
  /\ ~ReuseEventIds
  /\ TypeOK
  /\ DeliveriesRaised
  /\ OutcomeRevisionUnique

\* The rows of an outcome share its revision: all of them are written at once.
LEMMA RevisionObserve ==
  ASSUME RevisionInv, NEW e \in EventType, NEW w, Observed(e, w),
         \A a \in attention : ~SameOutcome(a, e)
  PROVE  DeliveriesRaised' /\ OutcomeRevisionUnique'
<1>1. /\ AttentionKept /\ AttentionFrom(RaisedRows(w)) /\ RaisedRows(w) \subseteq attention'
  BY ObserveRows DEF RevisionInv
<1>2. \A b \in RaisedRows(w) :
        b.producer = e.producer /\ b.generation = e.generation /\ b.event = e.id
        /\ b.revision = revision + 1
  BY RaisedFacts DEF Observed
<1> DEFINE intent == [producer |-> e.producer, generation |-> e.generation, event |-> e.id,
                      state |-> "Pending", revision |-> revision + 1]
<1>3. outbox' = IF Notifies(w) THEN outbox \cup {intent} ELSE outbox
  BY DEF Observed, ApplyEffect
<1>4. /\ intent.producer = e.producer /\ intent.generation = e.generation
      /\ intent.event = e.id /\ intent.revision = revision + 1
  OBVIOUS
<1>5. Notifies(w) => RaisedRows(w) # {}
  BY DEF Notifies, RaisedRows
<1>6. \A b \in attention' : b \in RaisedRows(w) \/ \E a \in attention : SameRow(a, b)
  BY <1>1 DEF AttentionFrom
<1> HIDE DEF intent
<1>7. DeliveriesRaised'
  <2> SUFFICES ASSUME NEW o \in outbox'
               PROVE  \E a \in attention' :
                        a.producer = o.producer /\ a.generation = o.generation /\ a.event = o.event
    BY DEF DeliveriesRaised
  <2>1. CASE o \in outbox
    <3>1. PICK a \in attention :
            a.producer = o.producer /\ a.generation = o.generation /\ a.event = o.event
      BY <2>1 DEF RevisionInv, DeliveriesRaised
    <3> QED BY <1>1, <3>1 DEF AttentionKept, SameRow
  <2>2. CASE o \notin outbox
    <3>1. o = intent /\ RaisedRows(w) # {}
      BY <1>3, <1>5, <2>2
    <3> QED BY <1>1, <1>2, <1>4, <3>1
  <2> QED BY <2>1, <2>2
<1>8. OutcomeRevisionUnique'
  <2>1. ASSUME NEW a \in attention', NEW b \in attention',
               a.producer = b.producer, a.generation = b.generation, a.event = b.event
        PROVE  a.revision = b.revision
    <3>1. a \in RaisedRows(w) <=> b \in RaisedRows(w)
      BY <1>2, <1>6, <2>1 DEF SameOutcome, SameRow
    <3>2. CASE a \in RaisedRows(w)
      BY <1>2, <3>1, <3>2
    <3>3. CASE a \notin RaisedRows(w)
      BY <1>6, <2>1, <3>1, <3>3 DEF RevisionInv, OutcomeRevisionUnique, SameOutcome, SameRow
    <3> QED BY <3>2, <3>3
  <2>2. ASSUME NEW a \in attention', NEW o \in outbox',
               a.producer = o.producer, a.generation = o.generation, a.event = o.event
        PROVE  a.revision = o.revision
    <3>1. CASE o \in outbox
      <4>1. a \notin RaisedRows(w)
        BY <1>2, <2>2, <3>1 DEF RevisionInv, DeliveriesRaised, SameOutcome
      <4>2. PICK c \in attention : SameRow(c, a)
        BY <1>6, <4>1
      <4> QED BY <2>2, <3>1, <4>2 DEF RevisionInv, OutcomeRevisionUnique, SameOutcome, SameRow
    <3>2. CASE o \notin outbox
      <4>1. o = intent
        BY <1>3, <3>2
      <4>2. a \in RaisedRows(w)
        BY <1>4, <1>6, <2>2, <4>1 DEF SameOutcome, SameRow
      <4> QED BY <1>2, <1>4, <4>1, <4>2
    <3> QED BY <3>1, <3>2
  <2> QED BY <2>1, <2>2 DEF OutcomeRevisionUnique, SameOutcome
<1> QED BY <1>7, <1>8

\* Nothing else raises a row, and an outbox row keeps what names it.
LEMMA RevisionKept ==
  ASSUME RevisionInv, AttentionKept, AttentionFrom({}),
         \A o \in outbox' : \E d \in outbox :
           /\ d.producer = o.producer /\ d.generation = o.generation
           /\ d.event = o.event /\ d.revision = o.revision
  PROVE  DeliveriesRaised' /\ OutcomeRevisionUnique'
<1>1. \A b \in attention' : \E a \in attention : SameRow(a, b)
  BY DEF AttentionFrom
<1>2. DeliveriesRaised'
  BY DEF RevisionInv, DeliveriesRaised, AttentionKept, SameRow
<1>3. OutcomeRevisionUnique'
  BY <1>1 DEF RevisionInv, OutcomeRevisionUnique, SameOutcome, SameRow
<1> QED BY <1>2, <1>3

LEMMA RevisionStep == RevisionInv /\ [Next]_storeVars => RevisionInv'
<1> SUFFICES ASSUME RevisionInv, [Next]_storeVars PROVE RevisionInv'
  OBVIOUS
<1>1. TypeOK' /\ TypeOK
  BY TypeStep DEF RevisionInv
<1> DEFINE Kept == DeliveriesRaised' /\ OutcomeRevisionUnique'
<1>2. ASSUME NEW p \in Producers, NEW r \in Runs, NEW s \in Seqs, NEW id \in EventIds,
             NEW payload \in Payloads, NEW policy \in Policies, NEW notify \in NotifyChoices,
             NEW lost \in LostCounts, p \in ActiveProducers, ~PrunedId(p, id),
             Observe(EventOf(p, producers[p].generation, r, s, id, payload), policy, notify, lost)
      PROVE  Kept
  <2> DEFINE e == EventOf(p, producers[p].generation, r, s, id, payload)
             w == WriteOf(e, policy, notify, lost)
  <2>1. e \in EventType /\ (e.kind \in TurnKinds => e.turn \in Turns)
    BY <1>1, <1>2, EventOfTyped
  <2>2. Observed(e, w)
    BY <1>1, <1>2, <2>1, ObservedWrite
  <2>3. e.producer = p /\ e.generation = producers[p].generation /\ e.id = id /\ w.fact = e
    BY DEF EventOf, WriteOf
  <2>4. ApplyOutcome(w) = "Ok"
    BY <1>2 DEF Observe, Apply
  <2> HIDE DEF e, w
  <2>5. StoredFor(e) = {}
    BY <2>3, <2>4 DEF ApplyOutcome
  <2>6. \A a \in attention : ~SameOutcome(a, e)
    <3>1. \A f \in facts : ~(/\ f.write.fact.producer = p /\ f.write.fact.id = id
                             /\ f.write.fact.generation = producers[p].generation)
      BY <2>3, <2>5 DEF StoredFor
    <3> QED BY <1>2, <2>3, <3>1 DEF PrunedId, SameOutcome
  <2> QED BY <2>1, <2>2, <2>6, RevisionObserve
<1>3. ASSUME NEW q, Reconcile(q) PROVE Kept
  BY <1>1, <1>3, ReconcileRows, RevisionKept DEF Reconcile
<1>4. ASSUME NEW row \in attention, Review(row) PROVE Kept
  BY <1>1, <1>4, ReviewRows, RevisionKept
<1>5. UNCHANGED attention => AttentionKept /\ AttentionFrom({})
  BY DEF AttentionKept, AttentionFrom, SameRow
<1>6. ASSUME NEW oldFacts, NEW oldTombstones, NEW oldDeliveries,
             Maintain(oldFacts, oldTombstones, oldDeliveries)
      PROVE  Kept
  <2>1. /\ UNCHANGED attention
        /\ outbox' = {IF o \in oldDeliveries THEN [o EXCEPT !.state = "Expired"] ELSE o : o \in outbox}
    BY <1>6 DEF Maintain
  <2>2. \A o \in outbox' : \E d \in outbox :
          /\ d.producer = o.producer /\ d.generation = o.generation
          /\ d.event = o.event /\ d.revision = o.revision
    BY <1>1, <2>1 DEF TypeOK, OutboxType
  <2> QED BY <1>5, <2>1, <2>2, RevisionKept
<1>7. ASSUME NEW row \in outbox, NEW state \in DeliveryStates, SetDelivery(row, state) PROVE Kept
  <2>1. UNCHANGED attention /\ outbox' = (outbox \ {row}) \cup {[row EXCEPT !.state = state]}
    BY <1>7 DEF SetDelivery
  <2>2. \A o \in outbox' : \E d \in outbox :
          /\ d.producer = o.producer /\ d.generation = o.generation
          /\ d.event = o.event /\ d.revision = o.revision
    BY <1>1, <2>1 DEF TypeOK, OutboxType
  <2> QED BY <1>5, <2>1, <2>2, RevisionKept
<1>8. ASSUME \/ \E p \in ActiveProducers, lost \in LostCounts : RetireProducer(RetirementOf(p, lost))
             \/ OtherWrite \/ Reopen \/ UNCHANGED storeVars
      PROVE  Kept
  <2>1. UNCHANGED <<attention, outbox>>
    BY <1>8 DEF RetireProducer, RetireEffect, OtherWrite, Reopen, storeVars
  <2> QED BY <1>5, <2>1, RevisionKept
<1>9. Kept
  BY <1>2, <1>3, <1>4, <1>6, <1>7, <1>8 DEF Next, RevisionInv
<1> QED BY <1>1, <1>9 DEF RevisionInv

\* While producers do not reuse the identity of an outcome whose fact is gone,
\* no outcome is ever reported corrupt (`storage/outcomes.rs`).
THEOREM OutcomesShareRevision == ~ReuseEventIds /\ Spec => []OutcomeRevisionUnique
<1>1. ~ReuseEventIds /\ Init => RevisionInv
  BY TypeInit DEF Init, RevisionInv, DeliveriesRaised, OutcomeRevisionUnique
<1>2. RevisionInv => OutcomeRevisionUnique
  BY DEF RevisionInv
<1> QED BY <1>1, <1>2, RevisionStep, PTL DEF Spec

=============================================================================
