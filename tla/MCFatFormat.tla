----------------------------- MODULE MCFatFormat -----------------------------
(***************************************************************************)
(* FatFormat for TLC: volumes around every limit, and the blocks the       *)
(* driver may answer with.                                                 *)
(***************************************************************************)
EXTENDS FatFormat

Around(n) == n - 1 .. n + 1
Sizes ==
    {63, 190, 191, 200, 256, 300, 2048}
        \cup UNION {Around(63 + n) : n \in {MAX_FAT12 + 8, 4096, MAX_FAT12 + 13, 2 * MAX_FAT12, 16384}}
        \cup UNION {Around(63 + n) : n \in {MAX_FAT16 + 9, MAX_FAT16 + 73, MAX_FAT16 + 100, 65536, 2 * MAX_FAT16, 131072}}
        \cup {2 * MAX_FAT16 + 100, 262144, 1048576, 4194304, 16777216}

MCDrives == [total : Sizes, block : {1, 256, 32768, 131072}]
MCRequests ==
    [opt : {{"FAT", "FAT32"}}, au : {0, 1, 8, 256}]
        \cup [opt : {{"FAT"}, {"FAT32"}}, au : {0}] \cup [opt : {{}}, au : {1}]
=============================================================================
