------------------------- MODULE MCServerLifecycle -------------------------
(***************************************************************************)
(* ServerLifecycle on small instances.                                     *)
(***************************************************************************)
EXTENDS ServerLifecycle, TLC

ConnSymmetry == Permutations(Conn)
=============================================================================
