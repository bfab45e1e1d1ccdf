---- MODULE MCSetupClaim ----
(***************************************************************************)
(* Instances of SetupClaim for TLC.                                        *)
(***************************************************************************)
EXTENDS SetupClaim, TLC

MCSymmetry == Permutations(Requests) \cup Permutations(Ids) \cup Permutations(Emails)
====
