----------------------------- MODULE MCAdmission -----------------------------
(* Small instances of the admission registry.                               *)
EXTENDS Admission, TLC

CONSTANTS e1, e2, e3, granted, other

MCEventIds == {e1, e2, e3}
MCKinds == {granted, other}
OneGrant == {{granted}}
UnevenFrames == e1 :> 1 @@ e2 :> 2 @@ e3 :> 1
\* e1 and e3 have frames of one length.
AdmissionSymmetry == Permutations(Producers) \cup Permutations({e1, e3})
=============================================================================
