------------------------------- MODULE MCServer -------------------------------
(* Server with small bounds. *)
EXTENDS Server

\* Three requests fill a queue; two cross the border between two managers.
ThirdRequestOfFirst ==
  Len(requests) = MaxRequests => reactor[2] = "off" /\ sockets # Stale
=============================================================================
