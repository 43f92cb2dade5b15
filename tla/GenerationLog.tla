---------------------------- MODULE GenerationLog ----------------------------
(***************************************************************************)
(* What the durable store promises about the observations of a producer,   *)
(* and nothing else: they form one log per generation, written in sequence *)
(* order without gap or repetition while the generation is open; a closed  *)
(* generation never grows or reopens; a new one is always fresh.           *)
(***************************************************************************)
EXTENDS Naturals

CONSTANTS Producers, MaxSeq, MaxGeneration, NoValue

VARIABLES
  logs,   \* producer |-> [generation, next, open], or NoValue
  drawn   \* generations drawn so far

logVars == <<logs, drawn>>

Init ==
  /\ logs = [p \in Producers |-> NoValue]
  /\ drawn = 0

IsOpen(p) == logs[p] # NoValue /\ logs[p].open

\* Accept the next observation; an observation that loses certainty closes.
Append(p, stayOpen) ==
  /\ IsOpen(p) /\ logs[p].next # NoValue
  /\ logs' = [logs EXCEPT ![p] =
       [generation |-> logs[p].generation,
        next |-> IF logs[p].next = MaxSeq THEN NoValue ELSE logs[p].next + 1,
        open |-> stayOpen]]
  /\ UNCHANGED drawn

\* Close some open generations at once.
Close(closing) ==
  /\ \A p \in closing : IsOpen(p)
  /\ logs' = [p \in Producers |->
       IF p \in closing
       THEN [generation |-> logs[p].generation, next |-> logs[p].next, open |-> FALSE]
       ELSE logs[p]]
  /\ UNCHANGED drawn

\* Replace a producer's generation by one never drawn before.
Renew(p, first, open) ==
  /\ drawn < MaxGeneration
  /\ drawn' = drawn + 1
  /\ logs' = [logs EXCEPT ![p] = [generation |-> drawn + 1, next |-> first, open |-> open]]

Next ==
  \/ \E p \in Producers, stayOpen \in BOOLEAN : Append(p, stayOpen)
  \/ \E closing \in SUBSET Producers : Close(closing)
  \/ \E p \in Producers, first \in 1..MaxSeq, open \in BOOLEAN : Renew(p, first, open)

Spec == Init /\ [][Next]_logVars

=============================================================================
