----------------------------- MODULE FatWindow -------------------------------
(***************************************************************************)
(* The window of a FAT volume (fs->win) and the entries of its FAT, as     *)
(* ff.c keeps them on a disk of sectors.  myfat formats with one sector    *)
(* per cluster, and its flash of 2048 sectors gives a FAT12 volume of two  *)
(* FAT sectors: the entry of cluster Straddler lies across both.           *)
(*                                                                         *)
(* An operator takes a record v that holds the disk, the window and the    *)
(* log of the sectors written, and gives the record afterwards, with the   *)
(* result of the function in v.ret.                                        *)
(***************************************************************************)
EXTENDS Integers, Sequences, FiniteSets

CONSTANTS
    NumClusters,    \* clusters 2 .. NumClusters + 1
    Straddler,      \* the cluster whose FAT entry lies across two sectors
    DirSects        \* sectors of the root directory

HalfBase == 4                   \* a FAT entry is two digits wide: 0 .. 15
EOC == HalfBase * HalfBase - 1  \* 0xFFF
n_fatent == NumClusters + 2
Clusters == 2 .. n_fatent - 1
Unknown == 99                   \* 0xFFFFFFFF in free_clst and last_clst

ASSUME ChainAssumption ==
    /\ NumClusters \in 2 .. EOC - 3
    /\ Straddler \in Clusters
    /\ DirSects \in Nat \ {0}

\* The sectors: two of the FAT, those of the root directory, those of the data.
fatbase == 1
dirbase == 3
database == dirbase + DirSects
DirSectors == dirbase .. database - 1

clust2sect(c) == IF c \in Clusters THEN database + c - 2 ELSE 0

\* The two FAT sectors: the low digit of the straddling entry is the last
\* thing in the first of them, its high digit the first thing in the second.
LowSect(c) == IF c <= Straddler THEN fatbase ELSE fatbase + 1
HighSect(c) == IF c < Straddler THEN fatbase ELSE fatbase + 1
Cells(s) == {k \in Clusters \X {"lo", "hi"} :
               s = IF k[2] = "lo" THEN LowSect(k[1]) ELSE HighSect(k[1])}
BlankFat(s) == [k \in Cells(s) |-> 0]

\* find_volume: on FAT12 the number of free clusters is not known.
NoWindow == [sect |-> 0, buf |-> <<>>, dirty |-> FALSE]
Mounted == [win |-> NoWindow, free |-> Unknown, last |-> Unknown]

-----------------------------------------------------------------------------
\* The disk and the window.

disk_write(v, s, x) ==
    [v EXCEPT !.disk[s] = x, !.log = Append(@, <<s, x>>)]

sync_window(v) ==
    IF v.win.dirty THEN [disk_write(v, v.win.sect, v.win.buf) EXCEPT !.win.dirty = FALSE]
    ELSE v

Load(v, s) == [v EXCEPT !.win = [sect |-> s, buf |-> v.disk[s], dirty |-> FALSE]]

\* A mutant of move_window: the window is not written back.
move_windowDrops(v, s) == IF s = v.win.sect THEN v ELSE Load(v, s)

move_window(v, s) == IF s = v.win.sect THEN v ELSE Load(sync_window(v), s)

\* A store into the window, with the dirty flag.
Poke(v, k, x) == [v EXCEPT !.win.buf[k] = x, !.win.dirty = TRUE]

\* sync_fs: the FSInfo sector is FAT32's only.
sync_fs(v) == sync_window(v)

-----------------------------------------------------------------------------
\* FAT access.  1 is the internal error of the code.

Cell(v, c, h) == v.win.buf[<<c, h>>]
AddLow(v, c) == [v EXCEPT !.ret = Cell(v, c, "lo")]
AddHigh(v, c) == [v EXCEPT !.ret = @ + HalfBase * Cell(v, c, "hi")]

get_fat(v, c) ==
    IF c \notin Clusters THEN [v EXCEPT !.ret = 1]
    ELSE AddHigh(move_window(AddLow(move_window(v, LowSect(c)), c), HighSect(c)), c)

put_fat(v, c, x) ==
    LET lo == Poke(move_window(v, LowSect(c)), <<c, "lo">>, x % HalfBase)
    IN Poke(move_window(lo, HighSect(c)), <<c, "hi">>, x \div HalfBase)

\* Link the new cluster behind c, unless c is 0: a new chain.
Linked(v, c, ncl) == IF c = 0 THEN v ELSE put_fat(v, c, ncl)

\* A mutant of TakeFree: the free count is not kept.
TakeFreeUncounted(v, c) ==
    IF v.ret \notin Clusters THEN v
    ELSE [Linked(put_fat(v, v.ret, EOC), c, v.ret) EXCEPT !.last = v.ret]

\* Allocate the cluster found.
TakeFree(v, c) ==
    IF v.ret \notin Clusters THEN v
    ELSE [Linked(put_fat(v, v.ret, EOC), c, v.ret) EXCEPT
            !.last = v.ret, !.free = IF @ <= NumClusters THEN @ - 1 ELSE @]

\* Free the cluster c, a step of the loop of remove_chain.
Release(v, c) ==
    [put_fat(v, c, 0) EXCEPT !.free = IF @ < NumClusters THEN @ + 1 ELSE @]

-----------------------------------------------------------------------------
\* What the FAT of a disk d says of cluster c; and a disk with the window w
\* over it, which is what the calls of the volume see.
FatOn(d, c) == d[LowSect(c)][<<c, "lo">>] + HalfBase * d[HighSect(c)][<<c, "hi">>]
Overlaid(d, w) == IF w.dirty THEN [d EXCEPT ![w.sect] = w.buf] ELSE d
=============================================================================
