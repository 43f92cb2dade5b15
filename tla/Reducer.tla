------------------------------ MODULE Reducer ------------------------------
(***************************************************************************)
(* The pure lifecycle reducer of `domain/`: causal validation of an        *)
(* observation against one durable view of its run, and the effects it     *)
(* has on the run's projection, its attention reasons and its tombstone.   *)
(*                                                                         *)
(* A turn key is the record [producer, generation, run, turn]; the Rust    *)
(* Option is a value or NoValue.  Wire text, session identifiers and exit  *)
(* codes are left out: no decision of the reducer reads them.              *)
(***************************************************************************)
EXTENDS Naturals, FiniteSets

CONSTANT NoValue      \* Rust's None: no turn, no key, no tombstone

ProcessStates     == {"Unknown", "Alive", "Exited", "Zombie"}
ObservationStates == {"Fresh", "Stale", "Disconnected", "Unsupported"}
TerminalTurns     == {"Completed", "Failed", "Interrupted"}
AwaitingTurns     == {"AwaitingInput", "AwaitingApproval"}
TurnStates        == {"Unknown", "Working"} \cup AwaitingTurns \cup TerminalTurns
TransientReasons  == {"Input", "NativeApproval", "ConnectionUncertainty"}
AttentionReasons  == TransientReasons \cup {"Failure", "Completion"}

TurnKinds == {"TurnStarted", "TurnAwaitingInput", "TurnAwaitingApproval",
              "TurnCompleted", "TurnFailed", "TurnInterrupted"}
EventKinds == TurnKinds \cup {"RunStarted", "RunExited", "ProducerHealth"}

\* How a run.exited payload reports the end: an exit code, or a termination
\* with reason signaled, or one with another reason.
ExitReports == {"ExitCode", "Signaled", "Other"}

IsTerminal(turn) == turn \in TerminalTurns

-----------------------------------------------------------------------------
(* Identity of the turn an event speaks of *)

TurnKey(p, g, r, t) == [producer |-> p, generation |-> g, run |-> r, turn |-> t]

\* The turn an event is about; run and health observations name none.
EventTurnKey(e) ==
  IF e.kind \in TurnKinds THEN TurnKey(e.producer, e.generation, e.run, e.turn)
                          ELSE NoValue

ObservedTurn(e) ==
  CASE e.kind = "TurnStarted"          -> "Working"
    [] e.kind = "TurnAwaitingInput"    -> "AwaitingInput"
    [] e.kind = "TurnAwaitingApproval" -> "AwaitingApproval"
    [] e.kind = "TurnCompleted"        -> "Completed"
    [] e.kind = "TurnFailed"           -> "Failed"
    [] e.kind = "TurnInterrupted"      -> "Interrupted"
    [] OTHER                           -> "Unknown"

SameScope(key, e) ==
  /\ key.producer = e.producer
  /\ key.generation = e.generation
  /\ key.run = e.run

-----------------------------------------------------------------------------
(* Validation.  A view is [projection, current, tombstone], the projection *)
(* [run, process, observation, turn, turnId], a tombstone [key, outcome,   *)
(* terminal] with terminal NoValue when the pruned fact left it unknown.   *)

\* The stored terminal protection and the projected state of the turn the
\* event names must tell the same story.
CurrentTerminalAgrees(view, e) ==
  view.current = EventTurnKey(e) =>
    IF view.tombstone = NoValue
    THEN ~IsTerminal(view.projection.turn)
    ELSE \/ view.tombstone.terminal = view.projection.turn
         \/ /\ view.tombstone.terminal = NoValue
            /\ \/ IsTerminal(view.projection.turn)
               \/ view.projection.turn = "Unknown"

Validate(view, e, policy) ==
  IF \/ view.projection.run # e.run
     \/ view.current # NoValue /\ ~SameScope(view.current, e)
  THEN "InvalidScope"
  ELSE IF \/ view.projection.turnId
               # (IF view.current = NoValue THEN NoValue ELSE view.current.turn)
          \/ view.current = NoValue /\ view.projection.turn # "Unknown"
          \/ /\ view.tombstone # NoValue
             /\ \/ view.tombstone.key # EventTurnKey(e)
                \/ view.tombstone.terminal \notin TerminalTurns \cup {NoValue}
          \/ ~CurrentTerminalAgrees(view, e)
  THEN "InvalidEvidence"
  ELSE IF e.kind \notin policy.supported THEN "UnsupportedSignal" ELSE "Ok"

-----------------------------------------------------------------------------
(* Effects.  An effects record is the projection and current turn after    *)
(* the event, the attention reasons to ensure, the turn whose transient    *)
(* reasons are resolved, the new tombstone, and whether the producer must  *)
(* be reconciled before anything else of it is admitted.                   *)

NoEffects(view) ==
  [projection |-> view.projection, current |-> view.current, attention |-> {},
   resolve |-> NoValue, tombstone |-> NoValue, reconcile |-> FALSE]

\* Mutant: an outcome is forgotten with the rest of the turn.
DoubtedOutcome(projection, freshness, loseCurrent) ==
  [projection EXCEPT !.observation = freshness,
                     !.turn = IF loseCurrent THEN "Unknown" ELSE projection.turn]

Doubted(projection, freshness, loseCurrent) ==
  [projection EXCEPT
     !.observation = freshness,
     !.turn = IF loseCurrent /\ ~IsTerminal(projection.turn) THEN "Unknown"
              ELSE projection.turn]

Uncertain(eff, freshness, loseCurrent) ==
  [eff EXCEPT !.attention  = eff.attention \cup {"ConnectionUncertainty"},
              !.projection = Doubted(eff.projection, freshness, loseCurrent),
              !.reconcile  = TRUE]

StaleUnlessExplicit(policy) ==
  IF policy.freshness = "Fresh" THEN "Stale" ELSE policy.freshness

PromptReasons(observed) ==
  CASE observed = "AwaitingInput"    -> {"Input"}
    [] observed = "AwaitingApproval" -> {"NativeApproval"}
    [] OTHER                         -> {}

\* Mutant: the turn moves but not its identity.
ShownAnonymous(projection, key, observed) == [projection EXCEPT !.turn = observed]

Shown(projection, key, observed) ==
  [projection EXCEPT !.turn = observed, !.turnId = key.turn]

\* Mutant: the latest callback decides.
LatestTurn(same, shown, observed) == observed

\* A native approval is not talked down by later callbacks of its turn.
LiveTurn(same, shown, observed) ==
  IF same /\ shown = "AwaitingApproval" THEN shown ELSE observed

\* A live turn becomes, or moves on as, the current one.
Moved(key, observed, eff) ==
  LET same  == eff.current = key
      turn  == LiveTurn(same, eff.projection.turn, observed)
  IN  [eff EXCEPT
        !.resolve   = IF same THEN eff.resolve ELSE eff.current,
        !.attention = IF same /\ eff.projection.turn = observed THEN eff.attention
                      ELSE eff.attention \cup PromptReasons(observed),
        !.projection = [Shown(eff.projection, key, turn) EXCEPT !.observation = "Fresh"],
        !.current = key]

\* A non-terminal observation of a live run under a fresh policy.
Progress(key, observed, eff) ==
  LET same == eff.current = key
      turn == eff.projection.turn
  IN  CASE ~same /\ eff.current # NoValue /\ ~IsTerminal(turn)
             -> Uncertain(eff, "Stale", FALSE)
        \* a repeated start may have been delayed past a native wait
        [] same /\ observed = "Working" /\ turn # "Working" -> eff
        [] OTHER -> Moved(key, observed, eff)

\* Mutant: an end is shown only when nothing else is.
ProjectsOntoNone(key, eff) == eff.current = NoValue

Projects(key, eff) == eff.current \in {NoValue, key}

\* The first terminal observation of a turn: it always leaves a tombstone and
\* an outcome, but projects only onto its own turn or onto none.
Terminal(e, key, observed, eff) ==
  LET projected == Projects(key, eff)
      outcome   == IF observed = "Completed" THEN "Completion" ELSE "Failure"
  IN  [eff EXCEPT
        !.tombstone  = [key |-> key, outcome |-> e.id, terminal |-> observed],
        !.resolve    = key,
        !.attention  = eff.attention \cup {outcome},
        !.projection = IF projected THEN Shown(eff.projection, key, observed)
                       ELSE eff.projection,
        !.current    = IF projected THEN key ELSE eff.current]

\* Mutant: a tombstone protects the turn only while the run shows its end.
EndedOnScreen(view) == view.tombstone # NoValue /\ IsTerminal(view.projection.turn)

Ended(view) == view.tombstone # NoValue

ReduceTurn(view, e, policy, eff) ==
  LET key      == EventTurnKey(e)
      observed == ObservedTurn(e)
  IN  CASE Ended(view) ->
             IF IsTerminal(observed) /\ view.tombstone.terminal # observed
             THEN Uncertain(eff, StaleUnlessExplicit(policy), FALSE)
             ELSE eff
        [] ~Ended(view) /\ IsTerminal(observed) ->
             Terminal(e, key, observed, eff)
        [] ~Ended(view) /\ ~IsTerminal(observed) ->
             CASE policy.freshness # "Fresh" -> Uncertain(eff, policy.freshness, TRUE)
               [] /\ policy.freshness = "Fresh"
                  /\ eff.projection.process \in {"Exited", "Zombie"}
                    -> Uncertain(eff, "Stale", TRUE)
               [] OTHER -> Progress(key, observed, eff)

\* Signals the policy relies on that the producer's health report lacks.
MissingSignals(e, policy) == policy.supported \ e.signals

ReduceRun(e, policy, eff) ==
  CASE e.kind = "RunExited" ->
         Uncertain([eff EXCEPT !.projection.process =
                      IF e.exit \in {"ExitCode", "Signaled"} THEN "Exited" ELSE "Unknown"],
                   StaleUnlessExplicit(policy), TRUE)
    [] /\ e.kind = "ProducerHealth"
       /\ MissingSignals(e, policy) # {} \/ policy.freshness # "Fresh"
         -> Uncertain(eff, IF MissingSignals(e, policy) # {} THEN "Unsupported"
                           ELSE policy.freshness, TRUE)
    [] OTHER -> eff

\* domain::reduce, for a view and event that Validate accepts.
Reduce(view, e, policy) ==
  LET start == IF policy.freshness # "Fresh"
               THEN Uncertain(NoEffects(view), policy.freshness, TRUE)
               ELSE NoEffects(view)
  IN  IF e.kind \in TurnKinds THEN ReduceTurn(view, e, policy, start)
                              ELSE ReduceRun(e, policy, start)

-----------------------------------------------------------------------------
(* The shape `storage/reducer_validation.rs` demands of effects before the *)
(* request may reach the database.                                         *)

KindTerminal(e) == IF IsTerminal(ObservedTurn(e)) THEN ObservedTurn(e) ELSE NoValue

AdmissibleEffects(e, eff) ==
  /\ eff.projection.run = e.run
  /\ eff.projection.turnId = IF eff.current = NoValue THEN NoValue ELSE eff.current.turn
  /\ eff.current = NoValue => eff.projection.turn = "Unknown"
  /\ eff.current # NoValue => SameScope(eff.current, e)
  /\ eff.resolve # NoValue => SameScope(eff.resolve, e)
  /\ eff.tombstone # NoValue =>
       /\ eff.tombstone.key = EventTurnKey(e)
       /\ eff.tombstone.outcome = e.id
       /\ eff.tombstone.terminal \in TerminalTurns
       /\ eff.tombstone.terminal = KindTerminal(e)

-----------------------------------------------------------------------------
(* Reconciliation of independently acquired evidence (`domain/             *)
(* reconciliation.rs`).  Evidence compares what the manager expected with  *)
(* what it observed: the comparisons are its Boolean fields.  currentTurn  *)
(* is [known, turn, state]: known is "None", "Known", "Unavailable" or     *)
(* "Conflicting".                                                          *)

EvidenceVerified(ev) ==
  /\ ev.sameScope /\ ev.sameRuntime /\ ev.sameBoot
  /\ ev.process = "Alive" /\ ev.freshness = "Fresh"
  /\ ev.realIdentity                     \* pid, start ticks and boot id nonzero
  /\ \/ ev.currentTurn.known = "None"
     \/ /\ ev.currentTurn.known = "Known"
        /\ ev.currentTurn.state \in {"Working"} \cup AwaitingTurns

\* The projection a verified reconciliation starts its run from.
ReconciledProjection(r, ev) ==
  [run |-> r, process |-> "Alive", observation |-> "Fresh",
   turn   |-> IF ev.currentTurn.known = "None" THEN "Unknown" ELSE ev.currentTurn.state,
   turnId |-> IF ev.currentTurn.known = "None" THEN NoValue ELSE ev.currentTurn.turn]

\* What is known of a run that has no row, or whose evidence is unavailable.
UnknownProjection(r) ==
  [run |-> r, process |-> "Unknown", observation |-> "Stale",
   turn |-> "Unknown", turnId |-> NoValue]

=============================================================================
