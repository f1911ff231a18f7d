------------------------------ MODULE MCFatLock ------------------------------
(***************************************************************************)
(* FatLock for TLC.                                                        *)
(***************************************************************************)
EXTENDS FatLock, TLC

CONSTANTS p, q, t, x, y, z

Symmetric == Permutations({p, q}) \cup Permutations({x, y, z})
=============================================================================
