--------------------------- MODULE MCCoordinator ---------------------------
(* Small instances of the coordinator: one producer observing one run.      *)
EXTENDS Coordinator

CONSTANTS t1, e1, e2

Payload(kind, t, exit) == [kind |-> kind, turn |-> t, exit |-> exit, signals |-> {}]

Asks == Payload("TurnAwaitingInput", t1, NoValue)
Ends == Payload("TurnCompleted", t1, NoValue)
Exits == Payload("RunExited", NoValue, "ExitCode")

\* A prompt, the end of the run after it, and an event that claims the number
\* of the prompt.
ThreeEnvelopes ==
  {[seq |-> 1, id |-> e1, payload |-> Asks], [seq |-> 2, id |-> e2, payload |-> Exits],
   [seq |-> 1, id |-> e2, payload |-> Ends]}
OneExit == {[seq |-> 1, id |-> e1, payload |-> Exits]}
OneAsk == {[seq |-> 1, id |-> e1, payload |-> Asks]}

TwoEvents == {e1, e2}
AllPayloads == {Asks, Ends, Exits}
OneTurn == {t1}
FreshStart == {[turn |-> "Unknown", turnId |-> NoValue]}
TrustedPolicies == {[supported |-> {Asks.kind, Ends.kind, Exits.kind}, freshness |-> "Fresh"]}
Never == {FALSE}
None == {0}
UpToTwo == {0, 1, 2}
FirstOnly == {1}
FirstOrLast == {1, MaxSeq}
=============================================================================
