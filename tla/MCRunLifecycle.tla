--------------------------- MODULE MCRunLifecycle ---------------------------
(* Two turns, every freshness, a policy that supports every signal and one  *)
(* that relies on turn signals only, and health reports with and without    *)
(* the missing signals.                                                     *)
EXTENDS RunLifecycle, TLC

CONSTANTS t1, t2
MCTurns == {t1, t2}

MCPolicies ==
  {[supported |-> s, freshness |-> f] :
     s \in {EventKinds, {"TurnStarted", "ProducerHealth"}}, f \in ObservationStates}

MCHealthReports == {EventKinds, {"TurnStarted", "ProducerHealth"}, {}}

TurnEvidence ==
  {[known |-> k, turn |-> NoValue, state |-> NoValue] : k \in {"None", "Unavailable", "Conflicting"}}
    \cup {[known |-> "Known", turn |-> t, state |-> s] : t \in MCTurns, s \in TurnStates}

MCEvidences ==
  [sameScope : {TRUE}, sameRuntime : {TRUE}, sameBoot : BOOLEAN, realIdentity : {TRUE},
   process : ProcessStates, freshness : {"Fresh", "Stale"}, currentTurn : TurnEvidence]

Symm == Permutations(MCTurns)
=============================================================================
