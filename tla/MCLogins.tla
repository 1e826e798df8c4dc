------------------------------ MODULE MCLogins ------------------------------
(***************************************************************************)
(* Small instances of Logins.                                              *)
(***************************************************************************)
EXTENDS Logins, TLC

Symmetry == Permutations(Instances) \cup Permutations(Tokens) \cup Permutations(Inodes)
=============================================================================
