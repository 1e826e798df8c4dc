---------------------------- MODULE MCPerClient ----------------------------
(***************************************************************************)
(* Small instances of PerClient.                                           *)
(***************************************************************************)
EXTENDS PerClient, TLC

Symmetry == Permutations(Clients)
=============================================================================
