---------------------------- MODULE MCDashboard ----------------------------
(***************************************************************************)
(* Instances of Dashboard for TLC.  With two identities of Collect calls,  *)
(* an abandoned collection may still sample while the next one is in       *)
(* flight; the identities are interchangeable.                             *)
(***************************************************************************)
EXTENDS Dashboard, TLC

Symmetry == Permutations(Collections)

=============================================================================
