----------------------------- MODULE MCFatDisk ------------------------------
(***************************************************************************)
(* FatDisk for TLC.                                                        *)
(***************************************************************************)
EXTENDS FatDisk, TLC

CONSTANTS x, y

Symmetric == Permutations({x, y})
=============================================================================
