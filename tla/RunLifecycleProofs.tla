-------------------------- MODULE RunLifecycleProofs --------------------------
(***************************************************************************)
(* The decision table of the reducer, for every set of turns, policies,    *)
(* health reports and evidence: what it decides it may decide, and what it *)
(* has decided about a turn it does not take back.                         *)
(***************************************************************************)
EXTENDS RunLifecycle, TLAPS

KeyOrNone == Keys \cup {NoValue}

Projections ==
  [run : {"r"}, process : ProcessStates, observation : ObservationStates,
   turn : TurnStates, turnId : Turns \cup {NoValue}]

Tombstones ==
  [key : Keys, outcome : {0, 1}, terminal : TerminalTurns \cup {NoValue}]

Views ==
  [projection : Projections, current : KeyOrNone, tombstone : Tombstones \cup {NoValue}]

Effects ==
  [projection : Projections, current : KeyOrNone, attention : SUBSET AttentionReasons,
   resolve : KeyOrNone, tombstone : Tombstones \cup {NoValue}, reconcile : BOOLEAN]

-----------------------------------------------------------------------------
(* Everything an observation can do to a run is one of three things *)

\* The turn stays as it was, or is given up with the certainty about it.
TurnKept(view, eff) ==
  \/ eff.projection.turn = view.projection.turn
  \/ /\ eff.reconcile /\ ~IsTerminal(view.projection.turn)
     /\ eff.projection.turn = "Unknown"

Stayed(view, eff) ==
  /\ eff.current = view.current /\ eff.projection.turnId = view.projection.turnId
  /\ eff.tombstone = NoValue
  /\ TurnKept(view, eff)

\* The turn of the event has ended, and is shown when no other one is.
HasEnded(view, e, eff) ==
  /\ e.kind \in TurnKinds /\ view.tombstone = NoValue /\ IsTerminal(ObservedTurn(e))
  /\ eff.tombstone = [key |-> EventTurnKey(e), outcome |-> e.id, terminal |-> ObservedTurn(e)]
  /\ IF view.current \in {NoValue, EventTurnKey(e)}
     THEN /\ eff.current = EventTurnKey(e) /\ eff.projection.turnId = e.turn
          /\ eff.projection.turn = ObservedTurn(e)
     ELSE /\ eff.current = view.current /\ eff.projection.turnId = view.projection.turnId
          /\ TurnKept(view, eff)

\* The turn of the event, which has not ended, is shown as it was observed.
HasMoved(view, e, eff) ==
  /\ e.kind \in TurnKinds /\ view.tombstone = NoValue /\ ~IsTerminal(ObservedTurn(e))
  /\ eff.tombstone = NoValue /\ ~eff.reconcile
  /\ eff.current = EventTurnKey(e) /\ eff.projection.turnId = e.turn
  /\ eff.projection.turn =
       IF view.current = EventTurnKey(e) /\ view.projection.turn = "AwaitingApproval"
       THEN "AwaitingApproval" ELSE ObservedTurn(e)

LEMMA EventFacts ==
  ASSUME NEW e \in Events
  PROVE  /\ e.run = "r" /\ e.producer = "p" /\ e.generation = "g" /\ e.id = 1
         /\ e.kind \in TurnKinds => e.turn \in Turns /\ EventTurnKey(e) = Key(e.turn)
                                    /\ EventTurnKey(e) \in Keys
         /\ e.kind \notin TurnKinds => EventTurnKey(e) = NoValue
BY DEF Events, Event, TurnKinds, EventTurnKey, Key, Keys

LEMMA KeyFacts ==
  /\ \A key \in Keys : /\ key.turn \in Turns /\ key = Key(key.turn) /\ key # NoValue
                       /\ \A e \in Events : SameScope(key, e)
  /\ \A t \in Turns : Key(t).turn = t /\ Key(t) \in Keys
BY LifecycleAssumption, EventFacts DEF Keys, Key, TurnKey, SameScope

LEMMA UncertainStays ==
  ASSUME NEW view \in Views, NEW eff \in Effects, Stayed(view, eff),
         NEW f \in ObservationStates, NEW lose \in BOOLEAN
  PROVE  /\ Uncertain(eff, f, lose) \in Effects
         /\ Stayed(view, Uncertain(eff, f, lose))
<1> DEFINE shown == Doubted(eff.projection, f, lose)
           reasons == eff.attention \cup {"ConnectionUncertainty"}
<1>1. /\ shown \in Projections /\ shown.turnId = eff.projection.turnId
      /\ shown.turn = IF lose /\ ~IsTerminal(eff.projection.turn) THEN "Unknown"
                      ELSE eff.projection.turn
  BY DEF Effects, Projections, Doubted, TurnStates
<1>2. reasons \in SUBSET AttentionReasons
  BY DEF Effects, AttentionReasons, TransientReasons
<1>3. Uncertain(eff, f, lose) =
        [eff EXCEPT !.attention = reasons, !.projection = shown, !.reconcile = TRUE]
  BY DEF Uncertain
<1> DEFINE after == Uncertain(eff, f, lose)
<1> HIDE DEF shown, reasons, after
<1>4. /\ after \in Effects /\ after.projection = shown /\ after.current = eff.current
      /\ after.tombstone = eff.tombstone /\ after.reconcile
  BY <1>1, <1>2, <1>3 DEF Effects, after
<1>5. TurnKept(view, after)
  BY <1>1, <1>4 DEF Stayed, TurnKept, IsTerminal
<1>6. Stayed(view, after)
  BY <1>1, <1>4, <1>5 DEF Stayed
<1> QED BY <1>4, <1>6 DEF after

LEMMA TerminalEnds ==
  ASSUME NEW view \in Views, NEW e \in Events, e.kind \in TurnKinds, view.tombstone = NoValue,
         NEW eff \in Effects, Stayed(view, eff), ObservedTurn(e) \in TerminalTurns
  PROVE  /\ Terminal(e, EventTurnKey(e), ObservedTurn(e), eff) \in Effects
         /\ HasEnded(view, e, Terminal(e, EventTurnKey(e), ObservedTurn(e), eff))
<1> DEFINE key == EventTurnKey(e)
           observed == ObservedTurn(e)
           projected == Projects(key, eff)
           protection == [key |-> key, outcome |-> e.id, terminal |-> observed]
           outcome == IF observed = "Completed" THEN "Completion" ELSE "Failure"
           reasons == eff.attention \cup {outcome}
           shown == IF projected THEN Shown(eff.projection, key, observed)
                    ELSE eff.projection
           pointer == IF projected THEN key ELSE eff.current
           after == Terminal(e, key, observed, eff)
<1>1. /\ key \in Keys /\ key.turn = e.turn /\ e.turn \in Turns
      /\ observed \in TerminalTurns /\ e.id = 1
  BY EventFacts, KeyFacts
<1>2. after = [eff EXCEPT !.tombstone = protection, !.resolve = key, !.attention = reasons,
                          !.projection = shown, !.current = pointer]
  BY DEF Terminal
<1>3. projected <=> view.current \in {NoValue, key}
  BY DEF Projects, Stayed
<1> HIDE DEF key, observed, projected
<1>4. protection \in Tombstones
  BY <1>1 DEF Tombstones
<1>5. reasons \in SUBSET AttentionReasons
  BY DEF Effects, AttentionReasons
<1>6. /\ shown \in Projections
      /\ projected => shown.turn = observed /\ shown.turnId = e.turn
      /\ ~projected => shown = eff.projection
  BY <1>1 DEF Shown, Effects, Projections, TurnStates
<1>7. pointer \in KeyOrNone /\ key \in KeyOrNone
  BY <1>1 DEF Effects, KeyOrNone
<1> HIDE DEF protection, reasons, shown, pointer, after
<1>8. /\ after \in Effects /\ after.tombstone = protection /\ after.projection = shown
      /\ after.current = pointer /\ after.reconcile = eff.reconcile
  BY <1>2, <1>4, <1>5, <1>6, <1>7 DEF Effects
<1>9. HasEnded(view, e, after)
  <2>1. IsTerminal(observed)
    BY <1>1 DEF IsTerminal
  <2>2. CASE projected
    BY <1>3, <1>6, <1>8, <2>1, <2>2 DEF HasEnded, key, observed, protection, pointer
  <2>3. CASE ~projected
    <3>1. TurnKept(view, after)
      BY <1>6, <1>8, <2>3 DEF Stayed, TurnKept
    <3> QED BY <1>3, <1>6, <1>8, <2>1, <2>3, <3>1
            DEF HasEnded, key, observed, protection, pointer, Stayed
  <2> QED BY <2>2, <2>3
<1> QED BY <1>8, <1>9 DEF after, key, observed

LEMMA NoEffectsStay ==
  ASSUME NEW view \in Views
  PROVE  NoEffects(view) \in Effects /\ Stayed(view, NoEffects(view))
BY DEF Views, NoEffects, Effects, KeyOrNone, Stayed, TurnKept

LEMMA MovedMoves ==
  ASSUME NEW view \in Views, NEW e \in Events, e.kind \in TurnKinds, view.tombstone = NoValue,
         ObservedTurn(e) \notin TerminalTurns
  PROVE  /\ Moved(EventTurnKey(e), ObservedTurn(e), NoEffects(view)) \in Effects
         /\ HasMoved(view, e, Moved(EventTurnKey(e), ObservedTurn(e), NoEffects(view)))
<1> DEFINE key == EventTurnKey(e)
           observed == ObservedTurn(e)
           eff == NoEffects(view)
           same == eff.current = key
           turn == LiveTurn(same, eff.projection.turn, observed)
           resolved == IF same THEN eff.resolve ELSE eff.current
           reasons == IF same /\ eff.projection.turn = observed THEN eff.attention
                      ELSE eff.attention \cup PromptReasons(observed)
           shown == [Shown(eff.projection, key, turn) EXCEPT !.observation = "Fresh"]
           after == Moved(key, observed, eff)
<1>1. /\ eff \in Effects /\ eff.current = view.current /\ eff.projection = view.projection
      /\ eff.tombstone = NoValue /\ eff.reconcile = FALSE
  BY NoEffectsStay DEF NoEffects
<1>2. /\ key \in Keys /\ key.turn = e.turn /\ e.turn \in Turns /\ observed \in TurnStates
      /\ observed \notin TerminalTurns
  BY EventFacts, KeyFacts DEF ObservedTurn, TurnStates, AwaitingTurns, TerminalTurns
<1>3. after = [eff EXCEPT !.resolve = resolved, !.attention = reasons, !.projection = shown,
                          !.current = key]
  BY DEF Moved
<1> HIDE DEF key, observed, eff
<1>4. reasons \in SUBSET AttentionReasons
  BY <1>1 DEF Effects, PromptReasons, AttentionReasons, TransientReasons
<1>5. turn \in TurnStates
      /\ turn = IF view.current = key /\ view.projection.turn = "AwaitingApproval"
                THEN "AwaitingApproval" ELSE observed
  BY <1>1, <1>2 DEF LiveTurn, Effects, Projections
<1>6. resolved \in KeyOrNone /\ key \in KeyOrNone
  BY <1>1, <1>2 DEF Effects, KeyOrNone
<1> HIDE DEF turn, reasons, resolved
<1>7. shown \in Projections /\ shown.turn = turn /\ shown.turnId = e.turn
  BY <1>1, <1>2, <1>5 DEF Shown, Effects, Projections, ObservationStates
<1> HIDE DEF shown, after
<1>8. /\ after \in Effects /\ after.projection = shown /\ after.current = key
      /\ after.tombstone = NoValue /\ ~after.reconcile
  BY <1>1, <1>3, <1>4, <1>6, <1>7 DEF Effects
<1>9. ~IsTerminal(ObservedTurn(e))
  BY DEF IsTerminal
<1>10. HasMoved(view, e, after)
  BY <1>5, <1>7, <1>8, <1>9 DEF HasMoved, key, observed
<1> QED BY <1>8, <1>10 DEF after, key, observed, eff

LEMMA ReduceCases ==
  ASSUME NEW view \in Views, NEW e \in Events, NEW policy \in Policies
  PROVE  LET eff == Reduce(view, e, policy)
         IN  /\ eff \in Effects
             /\ Stayed(view, eff) \/ HasEnded(view, e, eff) \/ HasMoved(view, e, eff)
<1> DEFINE Fits(eff) == /\ eff \in Effects
                        /\ Stayed(view, eff) \/ HasEnded(view, e, eff) \/ HasMoved(view, e, eff)
           start == IF policy.freshness # "Fresh"
                    THEN Uncertain(NoEffects(view), policy.freshness, TRUE)
                    ELSE NoEffects(view)
           stale == StaleUnlessExplicit(policy)
           key == EventTurnKey(e)
           observed == ObservedTurn(e)
<1>1. policy.freshness \in ObservationStates /\ stale \in ObservationStates
      /\ "Stale" \in ObservationStates /\ "Unsupported" \in ObservationStates
  BY LifecycleAssumption DEF StaleUnlessExplicit, ObservationStates
<1>2. start \in Effects /\ Stayed(view, start)
  BY <1>1, NoEffectsStay, UncertainStays
<1>3. policy.freshness = "Fresh" => start = NoEffects(view)
  OBVIOUS
<1>4. Reduce(view, e, policy) = IF e.kind \in TurnKinds THEN ReduceTurn(view, e, policy, start)
                                ELSE ReduceRun(e, policy, start)
  BY DEF Reduce
<1> HIDE DEF start, stale
<1>5. ASSUME NEW f \in ObservationStates, NEW lose \in BOOLEAN
      PROVE  Fits(Uncertain(start, f, lose))
  BY <1>2, UncertainStays
<1>6. CASE e.kind \notin TurnKinds
  <2> DEFINE process == IF e.exit \in {"ExitCode", "Signaled"} THEN "Exited" ELSE "Unknown"
             over == [start EXCEPT !.projection.process = process]
  <2>1. over \in Effects /\ Stayed(view, over)
    <3>1. process \in ProcessStates
      BY DEF ProcessStates
    <3> HIDE DEF process
    <3> DEFINE shown == [start.projection EXCEPT !.process = process]
    <3>2. /\ shown \in Projections /\ shown.turn = start.projection.turn
          /\ shown.turnId = start.projection.turnId
      BY <1>2, <3>1 DEF Effects, Projections
    <3>3. over = [start EXCEPT !.projection = shown]
      BY <1>2 DEF Effects
    <3> HIDE DEF shown, over
    <3>4. /\ over \in Effects /\ over.projection = shown /\ over.current = start.current
          /\ over.tombstone = start.tombstone /\ over.reconcile = start.reconcile
      BY <1>2, <3>2, <3>3 DEF Effects
    <3> QED BY <1>2, <3>2, <3>4 DEF Stayed, TurnKept
  <2>2. \/ ReduceRun(e, policy, start) = start
        \/ ReduceRun(e, policy, start) = Uncertain(over, stale, TRUE)
        \/ ReduceRun(e, policy, start) = Uncertain(start, "Unsupported", TRUE)
        \/ ReduceRun(e, policy, start) = Uncertain(start, policy.freshness, TRUE)
    BY DEF ReduceRun, stale
  <2> HIDE DEF over
  <2>3. Fits(Uncertain(over, stale, TRUE))
    BY <1>1, <2>1, UncertainStays
  <2> QED BY <1>1, <1>2, <1>4, <1>5, <1>6, <2>2, <2>3
<1>7. CASE e.kind \in TurnKinds
  <2> HIDE DEF key, observed
  <2>1. view.tombstone = NoValue /\ IsTerminal(observed)
          => Fits(Terminal(e, key, observed, start))
    BY <1>2, <1>7, TerminalEnds DEF key, observed, IsTerminal
  <2>2. view.tombstone = NoValue /\ ~IsTerminal(observed) /\ policy.freshness = "Fresh"
          => Fits(Moved(key, observed, start))
    BY <1>3, <1>7, MovedMoves DEF key, observed, IsTerminal
  <2>3. \/ Progress(key, observed, start) = Uncertain(start, "Stale", FALSE)
        \/ Progress(key, observed, start) = start
        \/ Progress(key, observed, start) = Moved(key, observed, start)
    BY Zenon DEF Progress
  <2> DEFINE eff == ReduceTurn(view, e, policy, start)
  <2>4. \/ eff = start
        \/ eff = Uncertain(start, stale, FALSE)
        \/ /\ view.tombstone = NoValue /\ IsTerminal(observed)
           /\ eff = Terminal(e, key, observed, start)
        \/ eff = Uncertain(start, policy.freshness, TRUE)
        \/ eff = Uncertain(start, "Stale", TRUE)
        \/ /\ view.tombstone = NoValue /\ ~IsTerminal(observed) /\ policy.freshness = "Fresh"
           /\ eff = Progress(key, observed, start)
    BY DEF ReduceTurn, Ended, key, observed, stale
  <2> HIDE DEF eff
  <2>5. Fits(start) /\ Fits(Uncertain(start, stale, FALSE))
        /\ Fits(Uncertain(start, policy.freshness, TRUE))
        /\ Fits(Uncertain(start, "Stale", TRUE)) /\ Fits(Uncertain(start, "Stale", FALSE))
    BY <1>1, <1>2, <1>5
  <2> HIDE DEF Fits
  <2>6. Fits(eff)
    BY <2>1, <2>2, <2>3, <2>4, <2>5
  <2> QED BY <1>4, <1>7, <2>6 DEF eff, Fits
<1> QED BY <1>6, <1>7

-----------------------------------------------------------------------------
(* The views the reducer leaves behind are consistent *)

Typed ==
  /\ projection \in Projections
  /\ current \in KeyOrNone
  /\ terminals \in [Turns -> {NoValue, "Pruned"} \cup TerminalTurns]
  /\ frozen \in BOOLEAN

\* What the run shows agrees with the protection of the turn it shows.
ShownAgrees ==
  IF current = NoValue THEN projection.turn = "Unknown"
  ELSE /\ terminals[current.turn] = NoValue => ~IsTerminal(projection.turn)
       /\ terminals[current.turn] = "Pruned" => projection.turn \in {"Unknown"} \cup TerminalTurns
       /\ terminals[current.turn] \in TerminalTurns => projection.turn = terminals[current.turn]

LifecycleInv ==
  /\ Typed
  /\ projection.turnId = (IF current = NoValue THEN NoValue ELSE current.turn)
  /\ ~frozen => ShownAgrees

LEMMA TombstoneFacts ==
  ASSUME Typed, NEW e \in Events
  PROVE  /\ TombstoneFor(e) \in Tombstones \cup {NoValue}
         /\ TombstoneFor(e) = NoValue <=> e.kind \notin TurnKinds \/ terminals[e.turn] = NoValue
         /\ TombstoneFor(e) # NoValue =>
              /\ TombstoneFor(e).key = EventTurnKey(e)
              /\ TombstoneFor(e).terminal \in TerminalTurns \cup {NoValue}
              /\ TombstoneFor(e).terminal =
                   IF terminals[e.turn] = "Pruned" THEN NoValue ELSE terminals[e.turn]
         /\ View(e) \in Views /\ View(e).projection = projection /\ View(e).current = current
         /\ View(e).tombstone = TombstoneFor(e)
<1> DEFINE terminal == IF terminals[e.turn] = "Pruned" THEN NoValue ELSE terminals[e.turn]
           tombstone == [key |-> Key(e.turn), outcome |-> 0, terminal |-> terminal]
<1>1. ASSUME e.kind \in TurnKinds, terminals[e.turn] # NoValue
      PROVE  /\ TombstoneFor(e) = tombstone /\ tombstone \in Tombstones
             /\ tombstone.key = EventTurnKey(e) /\ tombstone.terminal = terminal
             /\ terminal \in TerminalTurns \cup {NoValue}
  <2>1. e.turn \in Turns /\ EventTurnKey(e) = Key(e.turn) /\ Key(e.turn) \in Keys
    BY <1>1, EventFacts
  <2>2. terminal \in TerminalTurns \cup {NoValue}
    BY <1>1, <2>1 DEF Typed
  <2> HIDE DEF terminal
  <2>3. tombstone \in Tombstones
    BY <2>1, <2>2 DEF Tombstones
  <2> QED BY <1>1, <2>1, <2>2, <2>3 DEF TombstoneFor, terminal
<1>2. \A tomb \in Tombstones : tomb # NoValue
  BY LifecycleAssumption DEF Tombstones
<1>3. e.kind \notin TurnKinds \/ terminals[e.turn] = NoValue => TombstoneFor(e) = NoValue
  BY DEF TombstoneFor
<1> HIDE DEF tombstone, terminal
<1>4. /\ TombstoneFor(e) \in Tombstones \cup {NoValue}
      /\ TombstoneFor(e) = NoValue <=> e.kind \notin TurnKinds \/ terminals[e.turn] = NoValue
  BY <1>1, <1>2, <1>3
<1>5. TombstoneFor(e) # NoValue =>
        /\ TombstoneFor(e).key = EventTurnKey(e)
        /\ TombstoneFor(e).terminal = terminal
        /\ terminal \in TerminalTurns \cup {NoValue}
  BY <1>1, <1>3
<1>6. /\ View(e) \in Views /\ View(e).projection = projection /\ View(e).current = current
      /\ View(e).tombstone = TombstoneFor(e)
  BY <1>4 DEF View, Views, Typed
<1> QED BY <1>4, <1>5, <1>6 DEF terminal

\* The shape the database demands holds of every decision.
LEMMA ReducedIsAdmissible ==
  ASSUME LifecycleInv, ~frozen, NEW e \in Events, NEW policy \in Policies
  PROVE  AdmissibleEffects(e, Reduce(View(e), e, policy))
<1> DEFINE view == View(e)
           eff == Reduce(view, e, policy)
<1>1. /\ view \in Views /\ view.projection = projection /\ view.current = current
  BY TombstoneFacts DEF LifecycleInv
<1> HIDE DEF view
<1>2. eff \in Effects /\ (Stayed(view, eff) \/ HasEnded(view, e, eff) \/ HasMoved(view, e, eff))
  BY <1>1, ReduceCases
<1> HIDE DEF eff
<1>3. /\ e.run = "r" /\ e.id = 1
      /\ e.kind \in TurnKinds => /\ EventTurnKey(e) \in Keys /\ EventTurnKey(e) # NoValue
                                 /\ EventTurnKey(e).turn = e.turn
  BY EventFacts, KeyFacts
<1>4. eff.projection.run = e.run
  BY <1>2, <1>3 DEF Effects, Projections
<1>5. eff.current \in KeyOrNone /\ eff.resolve \in KeyOrNone
  BY <1>2 DEF Effects
<1>6. /\ eff.current # NoValue => SameScope(eff.current, e)
      /\ eff.resolve # NoValue => SameScope(eff.resolve, e)
  BY <1>5, KeyFacts DEF KeyOrNone
<1>7. TurnKept(view, eff) /\ current = NoValue => eff.projection.turn = "Unknown"
  BY <1>1 DEF TurnKept, LifecycleInv, ShownAgrees
<1>8. /\ eff.projection.turnId = (IF eff.current = NoValue THEN NoValue ELSE eff.current.turn)
      /\ eff.current = NoValue => eff.projection.turn = "Unknown"
  <2>1. CASE Stayed(view, eff)
    BY <1>1, <1>7, <2>1 DEF Stayed, LifecycleInv
  <2>2. CASE HasEnded(view, e, eff)
    BY <1>1, <1>3, <1>7, <2>2 DEF HasEnded, LifecycleInv
  <2>3. CASE HasMoved(view, e, eff)
    BY <1>1, <1>3, <2>3 DEF HasMoved
  <2> QED BY <1>2, <2>1, <2>2, <2>3
<1>9. eff.tombstone # NoValue =>
        /\ eff.tombstone.key = EventTurnKey(e) /\ eff.tombstone.outcome = e.id
        /\ eff.tombstone.terminal \in TerminalTurns
        /\ eff.tombstone.terminal = KindTerminal(e)
  BY <1>2 DEF Stayed, HasMoved, HasEnded, KindTerminal, IsTerminal
<1>10. AdmissibleEffects(e, eff)
  BY <1>4, <1>6, <1>8, <1>9 DEF AdmissibleEffects
<1> QED BY <1>10 DEF eff, view

\* One observation.
LEMMA ObserveStep ==
  ASSUME LifecycleInv, NEW e \in Events, NEW policy \in Policies, Observe(e, policy)
  PROVE  /\ LifecycleInv'
         /\ IsTerminal(projection.turn) => projection'.turn = projection.turn \/ current' # current
         /\ \A t \in Turns : terminals[t] \in TerminalTurns => terminals'[t] = terminals[t]
         /\ projection.turn = "AwaitingApproval" /\ current' = current =>
              projection'.turn \in {"AwaitingApproval", "Unknown"} \cup TerminalTurns
<1> DEFINE view == View(e)
           eff == Reduce(view, e, policy)
           key == EventTurnKey(e)
           observed == ObservedTurn(e)
<1>1. /\ view \in Views /\ view.projection = projection /\ view.current = current
      /\ view.tombstone = TombstoneFor(e)
  BY TombstoneFacts DEF LifecycleInv
<1>2. /\ ~frozen /\ projection' = eff.projection /\ current' = eff.current
      /\ terminals' = IF eff.tombstone = NoValue THEN terminals
                      ELSE [terminals EXCEPT ![e.turn] = eff.tombstone.terminal]
      /\ frozen' = eff.reconcile
  BY DEF Observe
<1>3. AdmissibleEffects(e, eff)
  BY <1>2, ReducedIsAdmissible
<1> HIDE DEF view
<1>4. eff \in Effects /\ (Stayed(view, eff) \/ HasEnded(view, e, eff) \/ HasMoved(view, e, eff))
  BY <1>1, ReduceCases
<1> HIDE DEF eff
<1>5. e.kind \in TurnKinds => /\ e.turn \in Turns /\ key = Key(e.turn) /\ key \in Keys
                              /\ key # NoValue /\ key.turn = e.turn
  BY EventFacts, KeyFacts
<1>6. observed \in TurnStates
  BY DEF ObservedTurn, TurnStates, AwaitingTurns, TerminalTurns
<1> HIDE DEF key, observed
<1>7. Typed /\ ShownAgrees
  BY <1>2 DEF LifecycleInv
\* The turn that is shown is protected exactly when it is shown ended.
<1>8. e.kind \in TurnKinds /\ view.tombstone = NoValue => terminals[e.turn] = NoValue
  BY <1>1, <1>7, TombstoneFacts
<1>9. current = key /\ e.kind \in TurnKinds /\ view.tombstone = NoValue => ~IsTerminal(projection.turn)
  BY <1>5, <1>7, <1>8 DEF ShownAgrees
<1>10. current = NoValue => ~IsTerminal(projection.turn)
  BY <1>7 DEF ShownAgrees, IsTerminal, TerminalTurns
<1>11. \A t \in Turns : current # NoValue /\ current.turn = t => current = Key(t)
  BY <1>7, KeyFacts DEF Typed, KeyOrNone
<1>12. current = NoValue \/ current.turn \in Turns
  BY <1>7, KeyFacts DEF Typed, KeyOrNone
<1>13. /\ projection' \in Projections /\ current' \in KeyOrNone /\ frozen' \in BOOLEAN
       /\ projection'.turnId = (IF current' = NoValue THEN NoValue ELSE current'.turn)
  BY <1>2, <1>3, <1>4 DEF Effects, AdmissibleEffects
<1>14. TurnKept(view, eff) /\ ~eff.reconcile => projection'.turn = projection.turn
  BY <1>1, <1>2 DEF TurnKept
<1>15. TurnKept(view, eff) =>
         \/ projection'.turn = projection.turn
         \/ ~IsTerminal(projection.turn) /\ projection'.turn = "Unknown"
  BY <1>1, <1>2 DEF TurnKept
<1>16. CASE Stayed(view, eff)
  <2>1. current' = current /\ terminals' = terminals /\ TurnKept(view, eff)
    BY <1>1, <1>2, <1>16 DEF Stayed
  <2>2. frozen' = FALSE => ShownAgrees'
    BY <1>2, <1>7, <1>14, <2>1 DEF ShownAgrees
  <2>3. LifecycleInv'
    BY <1>7, <1>13, <2>1, <2>2 DEF LifecycleInv, Typed
  <2>4. /\ IsTerminal(projection.turn) => projection'.turn = projection.turn
        /\ projection.turn = "AwaitingApproval" =>
             projection'.turn \in {"AwaitingApproval", "Unknown"}
    BY <1>15, <2>1
  <2> QED BY <2>1, <2>3, <2>4
<1>17. CASE HasEnded(view, e, eff)
  <2>1. /\ e.kind \in TurnKinds /\ view.tombstone = NoValue /\ observed \in TerminalTurns
        /\ eff.tombstone # NoValue /\ eff.tombstone.terminal = observed
    <3>1. /\ e.kind \in TurnKinds /\ view.tombstone = NoValue /\ observed \in TerminalTurns
          /\ eff.tombstone = [key |-> key, outcome |-> e.id, terminal |-> observed]
      BY <1>17 DEF HasEnded, IsTerminal, key, observed
    <3>2. eff.tombstone \in Tombstones
      BY <1>5, <3>1, EventFacts DEF Tombstones
    <3>3. eff.tombstone # NoValue
      BY <3>2, LifecycleAssumption DEF Tombstones
    <3> QED BY <3>1, <3>3
  <2>2. terminals' = [terminals EXCEPT ![e.turn] = observed]
    BY <1>2, <2>1
  <2>3. terminals' \in [Turns -> {NoValue, "Pruned"} \cup TerminalTurns]
    BY <1>7, <2>1, <2>2 DEF Typed
  <2>4. \A t \in Turns : terminals[t] \in TerminalTurns => t # e.turn /\ terminals'[t] = terminals[t]
    BY <1>7, <1>8, <2>1, <2>2, LifecycleAssumption DEF Typed
  <2>5. terminals'[e.turn] = observed /\ \A t \in Turns \ {e.turn} : terminals'[t] = terminals[t]
    BY <1>5, <1>7, <2>1, <2>2 DEF Typed
  <2>6. CASE current \in {NoValue, key}
    <3>1. current' = key /\ projection'.turn = observed
      BY <1>1, <1>2, <1>17, <2>6 DEF HasEnded, key, observed
    <3>2. ShownAgrees'
      BY <1>5, <2>1, <2>5, <3>1, LifecycleAssumption DEF ShownAgrees, TerminalTurns
    <3>3. LifecycleInv'
      BY <1>13, <2>3, <3>2 DEF LifecycleInv, Typed
    <3>4. ~IsTerminal(projection.turn)
      BY <1>9, <1>10, <2>1, <2>6
    <3> QED BY <2>1, <2>4, <3>1, <3>3, <3>4
  <2>7. CASE current \notin {NoValue, key}
    <3>1. current' = current /\ TurnKept(view, eff)
      BY <1>1, <1>2, <1>17, <2>7 DEF HasEnded, key
    <3>2. current.turn \in Turns \ {e.turn}
      BY <1>5, <1>11, <1>12, <2>1, <2>7
    <3>3. ~frozen' => ShownAgrees'
      BY <1>2, <1>7, <1>14, <2>5, <2>7, <3>1, <3>2 DEF ShownAgrees
    <3>4. LifecycleInv'
      BY <1>13, <2>3, <3>3 DEF LifecycleInv, Typed
    <3>5. /\ IsTerminal(projection.turn) => projection'.turn = projection.turn
          /\ projection.turn = "AwaitingApproval" =>
               projection'.turn \in {"AwaitingApproval", "Unknown"}
      BY <1>15, <3>1
    <3> QED BY <2>4, <3>4, <3>5
  <2> QED BY <2>6, <2>7
<1>18. CASE HasMoved(view, e, eff)
  <2>1. /\ e.kind \in TurnKinds /\ view.tombstone = NoValue /\ observed \notin TerminalTurns
        /\ current' = key /\ terminals' = terminals
        /\ projection'.turn = IF current = key /\ projection.turn = "AwaitingApproval"
                              THEN "AwaitingApproval" ELSE observed
    BY <1>1, <1>2, <1>18 DEF HasMoved, IsTerminal, key, observed
  <2>2. projection'.turn \notin TerminalTurns
    BY <2>1 DEF TerminalTurns
  <2>3. terminals'[current'.turn] = NoValue /\ current' # NoValue
    BY <1>5, <1>8, <2>1
  <2>4. ShownAgrees'
    BY <2>2, <2>3, LifecycleAssumption DEF ShownAgrees, IsTerminal
  <2>5. LifecycleInv'
    BY <1>7, <1>13, <2>1, <2>4 DEF LifecycleInv, Typed
  <2>6. current' = current => ~IsTerminal(projection.turn)
    BY <1>9, <2>1
  <2> QED BY <2>1, <2>5, <2>6
<1> QED BY <1>4, <1>16, <1>17, <1>18

LEMMA ReconcileStep ==
  ASSUME LifecycleInv, NEW ev \in Evidences, Reconcile(ev)
  PROVE  LifecycleInv'
<1> DEFINE after == ReconciledProjection("r", ev)
<1>1. /\ projection' = after /\ terminals' = [t \in Turns |-> NoValue] /\ frozen' = FALSE
      /\ current' = IF after.turnId = NoValue THEN NoValue ELSE Key(after.turnId)
  BY DEF Reconcile
<1>2. \/ ev.currentTurn.known = "None"
      \/ /\ ev.currentTurn.known = "Known" /\ ev.currentTurn.turn \in Turns
         /\ ev.currentTurn.state \in {"Working"} \cup AwaitingTurns
  BY LifecycleAssumption DEF Reconcile, EvidenceVerified
<1>3. CASE ev.currentTurn.known = "None"
  <2>1. after \in Projections /\ after.turn = "Unknown" /\ after.turnId = NoValue
    BY <1>3 DEF ReconciledProjection, Projections, ProcessStates, ObservationStates, TurnStates
  <2> HIDE DEF after
  <2> QED BY <1>1, <2>1 DEF LifecycleInv, Typed, ShownAgrees, KeyOrNone
<1>4. CASE ev.currentTurn.known # "None"
  <2>1. /\ after \in Projections /\ after.turnId \in Turns /\ after.turnId # NoValue
        /\ ~IsTerminal(after.turn)
    BY <1>2, <1>4, LifecycleAssumption
    DEF ReconciledProjection, Projections, ProcessStates, ObservationStates, TurnStates,
        IsTerminal, TerminalTurns, AwaitingTurns
  <2> HIDE DEF after
  <2>2. /\ current' = Key(after.turnId) /\ current' \in Keys /\ current' # NoValue
        /\ current'.turn = after.turnId
    BY <1>1, <2>1, KeyFacts
  <2>3. terminals'[current'.turn] = NoValue
    BY <1>1, <2>1, <2>2
  <2>4. ShownAgrees'
    BY <1>1, <2>1, <2>2, <2>3, LifecycleAssumption DEF ShownAgrees
  <2> QED BY <1>1, <2>1, <2>2, <2>4 DEF LifecycleInv, Typed, KeyOrNone
<1> QED BY <1>3, <1>4

LEMMA LifecycleInit == Init => LifecycleInv
<1> SUFFICES ASSUME Init PROVE LifecycleInv
  OBVIOUS
<1>1. current \in KeyOrNone
  BY DEF Init, KeyOrNone, Keys
<1>2. current = NoValue \/ (current # NoValue /\ current.turn \in Turns)
  BY <1>1, KeyFacts DEF KeyOrNone
<1>3. /\ projection \in Projections
      /\ projection.turnId = (IF current = NoValue THEN NoValue ELSE current.turn)
  BY <1>2 DEF Init, Projections
<1>4. Typed
  BY <1>1, <1>3 DEF Init, Typed
<1>5. ShownAgrees
  <2>1. CASE current = NoValue
    BY <2>1 DEF Init, ShownAgrees
  <2>2. CASE current # NoValue
    <3> DEFINE terminal == terminals[current.turn]
    <3>1. CASE terminal = NoValue
      BY <2>2, <3>1, LifecycleAssumption DEF Init, ShownAgrees
    <3>2. CASE terminal = "Pruned"
      BY <2>2, <3>2, LifecycleAssumption DEF Init, ShownAgrees, TerminalTurns
    <3>3. CASE terminal \in TerminalTurns
      <4>1. terminal # NoValue /\ terminal # "Pruned"
        BY <3>3, LifecycleAssumption DEF TerminalTurns
      <4>2. projection.turn = terminal
        BY <2>2, <4>1 DEF Init
      <4> QED BY <2>2, <4>1, <4>2 DEF ShownAgrees
    <3> QED BY <1>2, <1>4, <2>2, <3>1, <3>2, <3>3 DEF Typed
  <2> QED BY <2>1, <2>2
<1> QED BY <1>3, <1>4, <1>5 DEF LifecycleInv

LEMMA LifecycleStep == LifecycleInv /\ [Next]_vars => LifecycleInv'
<1> SUFFICES ASSUME LifecycleInv, [Next]_vars PROVE LifecycleInv'
  OBVIOUS
<1>1. CASE UNCHANGED vars
  BY <1>1 DEF vars, LifecycleInv, Typed, ShownAgrees
<1> QED BY <1>1, ObserveStep, ReconcileStep DEF Next

LEMMA LifecycleInvariant == Spec => []LifecycleInv
  BY LifecycleInit, LifecycleStep, PTL DEF Spec

-----------------------------------------------------------------------------
(* Theorems *)

\* Whatever `domain/reducer.rs` decides for a supported event of a live
\* producer, `storage/reducer_validation.rs` accepts.
THEOREM DecisionsAreAdmissible == Spec => []EffectsAdmissible
<1>1. LifecycleInv => EffectsAdmissible
  BY ReducedIsAdmissible DEF EffectsAdmissible
<1> QED BY <1>1, LifecycleInvariant, PTL

\* The views the reducer leaves behind pass its own causal validation.
THEOREM ReducerAcceptsItself == Spec => []NeverSelfRejects
<1>1. LifecycleInv => NeverSelfRejects
  <2> SUFFICES ASSUME LifecycleInv, ~frozen, NEW e \in Events, NEW policy \in Policies
               PROVE  Validate(View(e), e, policy) \in {"Ok", "UnsupportedSignal"}
    BY DEF NeverSelfRejects
  <2> DEFINE view == View(e)
  <2>1. /\ view.projection = projection /\ view.current = current
        /\ view.tombstone = TombstoneFor(e)
    BY TombstoneFacts DEF LifecycleInv
  <2> HIDE DEF view
  <2>2. projection.run = e.run /\ (current # NoValue => SameScope(current, e))
    BY EventFacts, KeyFacts DEF LifecycleInv, Typed, Projections, KeyOrNone
  <2>3. /\ projection.turnId = (IF current = NoValue THEN NoValue ELSE current.turn)
        /\ current = NoValue => projection.turn = "Unknown"
    BY DEF LifecycleInv, ShownAgrees
  <2>4. TombstoneFor(e) # NoValue =>
          /\ TombstoneFor(e).key = EventTurnKey(e)
          /\ TombstoneFor(e).terminal \in TerminalTurns \cup {NoValue}
    BY TombstoneFacts DEF LifecycleInv
  <2>5. CurrentTerminalAgrees(view, e)
    <3> SUFFICES ASSUME current = EventTurnKey(e)
                 PROVE  IF TombstoneFor(e) = NoValue THEN ~IsTerminal(projection.turn)
                        ELSE \/ TombstoneFor(e).terminal = projection.turn
                             \/ /\ TombstoneFor(e).terminal = NoValue
                                /\ \/ IsTerminal(projection.turn)
                                   \/ projection.turn = "Unknown"
      BY <2>1 DEF CurrentTerminalAgrees
    <3>1. CASE e.kind \notin TurnKinds
      <4>1. current = NoValue /\ TombstoneFor(e) = NoValue
        BY <3>1, EventFacts, TombstoneFacts DEF LifecycleInv
      <4> QED BY <2>3, <4>1 DEF IsTerminal, TerminalTurns
    <3>2. CASE e.kind \in TurnKinds
      <4>1. e.turn \in Turns /\ current # NoValue /\ current.turn = e.turn
        BY <3>2, EventFacts, KeyFacts
      <4>2. terminals[e.turn] \in {NoValue, "Pruned"} \cup TerminalTurns
        BY <4>1 DEF LifecycleInv, Typed
      <4>3. TombstoneFor(e) = NoValue <=> terminals[e.turn] = NoValue
        BY <3>2, TombstoneFacts DEF LifecycleInv
      <4>4. TombstoneFor(e) # NoValue => TombstoneFor(e).terminal =
              IF terminals[e.turn] = "Pruned" THEN NoValue ELSE terminals[e.turn]
        BY TombstoneFacts DEF LifecycleInv
      <4> QED BY <4>1, <4>2, <4>3, <4>4
              DEF LifecycleInv, ShownAgrees, IsTerminal, TerminalTurns
    <3> QED BY <3>1, <3>2
  <2>6. Validate(view, e, policy) \in {"Ok", "UnsupportedSignal"}
    BY <2>1, <2>2, <2>3, <2>4, <2>5 DEF Validate
  <2> QED BY <2>6 DEF view
<1> QED BY <1>1, LifecycleInvariant, PTL

\* What no step from a consistent view does.
LEMMA NothingTakenBack ==
  ASSUME LifecycleInv, [Next]_vars, ~frozen
  PROVE  /\ IsTerminal(projection.turn) => projection'.turn = projection.turn \/ current' # current
         /\ \A t \in Turns : terminals[t] \in TerminalTurns => terminals'[t] = terminals[t]
         /\ projection.turn = "AwaitingApproval" /\ current' = current =>
              projection'.turn \in {"AwaitingApproval", "Unknown"} \cup TerminalTurns
<1>1. CASE UNCHANGED vars
  BY <1>1 DEF vars
<1>2. ASSUME NEW e \in Events, NEW policy \in Policies, Observe(e, policy)
      PROVE  /\ IsTerminal(projection.turn) =>
                  projection'.turn = projection.turn \/ current' # current
             /\ \A t \in Turns : terminals[t] \in TerminalTurns => terminals'[t] = terminals[t]
             /\ projection.turn = "AwaitingApproval" /\ current' = current =>
                  projection'.turn \in {"AwaitingApproval", "Unknown"} \cup TerminalTurns
  BY <1>2, ObserveStep
<1>3. \A ev \in Evidences : ~Reconcile(ev)
  BY DEF Reconcile
<1> QED BY <1>1, <1>2, <1>3 DEF Next

\* An outcome that is shown stays until another turn is shown.
THEOREM OutcomesAreKept == Spec => OutcomeKept
<1>1. LifecycleInv /\ [Next]_vars =>
        [~frozen /\ IsTerminal(projection.turn) =>
           projection'.turn = projection.turn \/ current' # current]_vars
  BY NothingTakenBack
<1> QED BY <1>1, LifecycleInvariant, PTL DEF Spec, OutcomeKept

\* The first terminal observation of a turn is its outcome for good.
THEOREM FirstOutcomesWin == Spec => FirstOutcomeWins
<1>1. LifecycleInv /\ [Next]_vars =>
        [\A t \in Turns :
           terminals[t] \in TerminalTurns /\ ~frozen => terminals'[t] = terminals[t]]_vars
  BY NothingTakenBack
<1> QED BY <1>1, LifecycleInvariant, PTL DEF Spec, FirstOutcomeWins

\* An approval a run waits for is not talked down to work or to plain input.
THEOREM ApprovalsStick == Spec => ApprovalSticky
<1>1. LifecycleInv /\ [Next]_vars =>
        [projection.turn = "AwaitingApproval" /\ current' = current /\ ~frozen =>
           projection'.turn \in {"AwaitingApproval", "Unknown"} \cup TerminalTurns]_vars
  BY NothingTakenBack
<1> QED BY <1>1, LifecycleInvariant, PTL DEF Spec, ApprovalSticky
=============================================================================
