---------------------------- MODULE RunLifecycle ----------------------------
(***************************************************************************)
(* One run as the reducer alone shapes it, under one producer: every       *)
(* consistent view of it, every observation under every policy, and the    *)
(* reconciliation that follows an observation that lost certainty.  No     *)
(* storage, no concurrency: this checks the decision table of `domain/`    *)
(* over all its inputs.                                                    *)
(***************************************************************************)
EXTENDS Reducer

CONSTANTS
  Turns,          \* turn identities
  Policies,       \* observation policies [supported, freshness]
  HealthReports,  \* sets of signals a producer.health event may carry
  Evidences       \* reconciliation evidence the manager may present

VARIABLES
  projection,     \* the run's projection
  current,        \* its current turn key, or NoValue
  terminals,      \* turn |-> terminal of its tombstone, "Pruned" or NoValue
  frozen          \* the last observation required reconciliation

vars == <<projection, current, terminals, frozen>>

\* The single scope of this module: one producer, one generation, one run.
Key(t) == TurnKey("p", "g", "r", t)

Event(kind, t, exit, signals) ==
  [producer |-> "p", generation |-> "g", run |-> "r", seq |-> 1, id |-> 1,
   kind |-> kind, turn |-> t, exit |-> exit, signals |-> signals]

Keys == {Key(t) : t \in Turns}

\* Known evidence names its turn, and NoValue is none of the values it may
\* stand in for.
ASSUME LifecycleAssumption ==
  /\ Policies \subseteq [supported : SUBSET EventKinds, freshness : ObservationStates]
  /\ HealthReports \subseteq SUBSET EventKinds
  /\ \A ev \in Evidences : ev.currentTurn.known = "Known" => ev.currentTurn.turn \in Turns
  /\ NoValue \notin Turns /\ NoValue \notin Keys
  /\ NoValue \notin TerminalTurns \cup {"Pruned"}
  /\ NoValue \notin [key : Keys, outcome : {0, 1}, terminal : TerminalTurns \cup {NoValue}]

Events ==
  {Event(k, t, NoValue, {}) : k \in TurnKinds, t \in Turns}
    \cup {Event("RunStarted", NoValue, NoValue, {})}
    \cup {Event("RunExited", NoValue, x, {}) : x \in ExitReports}
    \cup {Event("ProducerHealth", NoValue, NoValue, s) : s \in HealthReports}

\* The tombstone the store returns for the turn an event names; a legacy row
\* whose fact was pruned has no terminal kind.
TombstoneFor(e) ==
  IF e.kind \notin TurnKinds \/ terminals[e.turn] = NoValue THEN NoValue
  ELSE [key |-> Key(e.turn), outcome |-> 0,
        terminal |-> IF terminals[e.turn] = "Pruned" THEN NoValue ELSE terminals[e.turn]]

View(e) == [projection |-> projection, current |-> current, tombstone |-> TombstoneFor(e)]

-----------------------------------------------------------------------------
(* Every view that agrees with its own tombstones. *)

Init ==
  /\ current \in {NoValue} \cup {Key(t) : t \in Turns}
  /\ terminals \in [Turns -> {NoValue, "Pruned"} \cup TerminalTurns]
  /\ projection \in
       [run : {"r"}, process : ProcessStates, observation : ObservationStates,
        turn : TurnStates, turnId : {IF current = NoValue THEN NoValue ELSE current.turn}]
  /\ IF current = NoValue THEN projection.turn = "Unknown"
     ELSE CASE terminals[current.turn] = NoValue  -> ~IsTerminal(projection.turn)
            [] terminals[current.turn] = "Pruned" -> projection.turn
                                                       \in {"Unknown"} \cup TerminalTurns
            [] OTHER -> projection.turn = terminals[current.turn]
  /\ frozen = FALSE

\* A producer whose last event required reconciliation is not reduced again.
Observe(e, policy) ==
  LET eff == Reduce(View(e), e, policy)
  IN  /\ ~frozen
      /\ Validate(View(e), e, policy) = "Ok"
      /\ projection' = eff.projection
      /\ current' = eff.current
      /\ terminals' = IF eff.tombstone = NoValue THEN terminals
                      ELSE [terminals EXCEPT ![e.turn] = eff.tombstone.terminal]
      /\ frozen' = eff.reconcile

\* A verified reconciliation opens a fresh generation: its turn keys have no
\* tombstones yet.
Reconcile(ev) ==
  /\ frozen
  /\ EvidenceVerified(ev)
  /\ projection' = ReconciledProjection("r", ev)
  /\ current' = IF projection'.turnId = NoValue THEN NoValue ELSE Key(projection'.turnId)
  /\ terminals' = [t \in Turns |-> NoValue]
  /\ frozen' = FALSE

Next ==
  \/ \E e \in Events, policy \in Policies : Observe(e, policy)
  \/ \E ev \in Evidences : Reconcile(ev)

Spec == Init /\ [][Next]_vars

-----------------------------------------------------------------------------
(* Properties *)

\* reducer.rs against reducer_validation.rs: whatever the reducer decides for a
\* supported event of a live producer, the database accepts its shape; an
\* effect the storage layer refuses would lose the event without a receipt.
EffectsAdmissible ==
  ~frozen => \A e \in Events, policy \in Policies :
    Validate(View(e), e, policy) = "Ok" =>
      AdmissibleEffects(e, Reduce(View(e), e, policy))

\* evidence.rs against reducer.rs: the views the reducer itself leaves behind
\* never fail its own causal validation, so a supported event is never
\* answered by retiring its producer for InvalidEvidence.
NeverSelfRejects ==
  ~frozen => \A e \in Events, policy \in Policies :
    Validate(View(e), e, policy) \in {"Ok", "UnsupportedSignal"}

\* An outcome, once projected, stays until another turn is projected; nothing
\* that happens to the process or to the observation of it erases the outcome.
OutcomeKept ==
  [][~frozen /\ IsTerminal(projection.turn) =>
       projection'.turn = projection.turn \/ current' # current]_vars

\* The first terminal observation of a turn wins: a later contradicting one
\* changes no tombstone and no outcome but costs the producer its trust.
FirstOutcomeWins ==
  [][\A t \in Turns :
       terminals[t] \in TerminalTurns /\ ~frozen => terminals'[t] = terminals[t]]_vars

\* A projected native approval is never talked down to work or to plain input
\* by later callbacks of its turn: only the end of the turn, another turn or
\* the loss of observation replaces it.
ApprovalSticky ==
  [][projection.turn = "AwaitingApproval" /\ current' = current /\ ~frozen =>
       projection'.turn \in {"AwaitingApproval", "Unknown"} \cup TerminalTurns]_vars

=============================================================================
