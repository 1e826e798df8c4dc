------------------------------- MODULE MCHub -------------------------------
(***************************************************************************)
(* Small instances of Hub.                                                 *)
(***************************************************************************)
EXTENDS Hub, TLC

Spawn == <<2, 2>>
TwoShapes == {<<1, 2>>, <<2, 1>>}
OneShape == {<<1, 1>>}

Symmetry == Permutations(Clients)
=============================================================================
