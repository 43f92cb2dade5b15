----------------------------- MODULE MCDurability -----------------------------
(* The database alone, in depth, and both stores together: events that two    *)
(* records each describe differently, staged and committed in any order.      *)
EXTENDS Durability, TLC

Symmetries == Permutations(Ids) \cup Permutations(Contents)

\* The events that files, receipts, tokens or the database know of.
Met ==
  {i \in Ids : Present(i) \/ settled[i] # NoFile}
    \cup {r.id : r \in owed \cup Proven}
    \cup {token.record.id : token \in entries \cup plan.files}

\* One event, and no file of it.
DatabaseInDepth ==
  made = 0 /\ Cardinality(Met) <= 1 /\ Cardinality(issued) + faults <= 7

\* Few commits and faults, and two events only beside an idle database.
StoresTogether ==
  /\ Cardinality(issued) + faults <= 3
  /\ engine.next <= 2 /\ \A c \in issued : c.rev <= 2
  /\ Cardinality(Met) > 1 => issued = {} /\ engine = Down

OneInDepth == DatabaseInDepth \/ StoresTogether
=============================================================================
