----------------------------- MODULE MCLfsDisk ------------------------------
(***************************************************************************)
(* LfsDisk for TLC.                                                        *)
(***************************************************************************)
EXTENDS LfsDisk, TLC

CONSTANTS x, y

Symmetric == Permutations({x, y})
=============================================================================
