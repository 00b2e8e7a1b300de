---------------------------- MODULE MCRefreshLoop ----------------------------
(* Values of the constants of RefreshLoop for TLC. *)
EXTENDS RefreshLoop

\* The wall clock is right or behind.
MCOffsets == {-3, 0}

=============================================================================
