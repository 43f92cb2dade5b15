------------------------------- MODULE MCLaunch -------------------------------
(* Small instances of managed runs: one run with every fault, or two runs   *)
(* of one project without terminals and crashes.                             *)
EXTENDS Launch, TLC

LaunchSymmetry == Permutations(Tasks)

\* Terminals belong to one run, and a crash spares what the runs share.
OneRunInDepth == Cardinality(runs) > 1 => nonces = 0 /\ crashes = 0
=============================================================================
