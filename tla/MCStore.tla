------------------------------ MODULE MCStore ------------------------------
(* Small instances of the store.                                           *)
EXTENDS Store, TLC

CONSTANTS t1, t2, e1, e2, e3

ThreeEvents == {e1, e2, e3}
TwoEvents == {e1, e2}
EventSymmetry == Permutations({e1, e2, e3})

Payload(kind, t) == [kind |-> kind, turn |-> t, exit |-> NoValue, signals |-> {}]

TrustedPolicy == [supported |-> EventKinds, freshness |-> "Fresh"]

TwoTurnPayloads ==
  {Payload("TurnAwaitingApproval", t1), Payload("TurnCompleted", t1),
   Payload("TurnFailed", t1), Payload("TurnStarted", t2), Payload("TurnCompleted", t2)}

TwoTurnBaselines ==
  {[turn |-> "Unknown", turnId |-> NoValue], [turn |-> "AwaitingApproval", turnId |-> t1]}

TwoTurns == {t1, t2}

OneTurnPayloads ==
  {Payload("TurnAwaitingInput", t1), Payload("TurnCompleted", t1),
   [kind |-> "RunExited", turn |-> NoValue, exit |-> "ExitCode", signals |-> {}]}

OneTurn == {t1}
OneTurnBaselines ==
  {[turn |-> "Unknown", turnId |-> NoValue], [turn |-> "AwaitingInput", turnId |-> t1]}
TrustedPolicies == {TrustedPolicy}
Never == {FALSE}
Always == {TRUE}
None == {0}
UpToOne == {0, 1}
FirstOnly == {1}
FirstOrLast == {1, MaxSeq}
=============================================================================
