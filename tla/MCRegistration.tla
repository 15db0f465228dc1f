---------------------------- MODULE MCRegistration ----------------------------
(* Instances of Registration for TLC.                                       *)
EXTENDS Registration, TLC

CONSTANTS early, late

\* One code expires in the middle of the run, the other at its end.
MCExpiresAt == early :> 1 @@ late :> 3
Symmetry == Permutations(Handlers)
=============================================================================
