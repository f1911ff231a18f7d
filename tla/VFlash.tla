------------------------------- MODULE VFlash -------------------------------
(***************************************************************************)
(* The simulated NAND flash of vflash.c: blocks of pages of 4-byte units,  *)
(* as functions from units to unit records.  Geometry as main.c:892-896    *)
(* and ffconf.h give it: a page holds exactly one FatFs sector, so a page  *)
(* is named by its sector number and a unit by its sector and its slot in  *)
(* the page.  The wear counters of a unit are left out here.               *)
(***************************************************************************)
EXTENDS Integers

CONSTANTS
    NumBlocks,      \* vflash.vblock_amt
    SecPerBlock,    \* vflash.vpage_amt
    UnitsPerPage,   \* vflash.vunit_amt
    Words,          \* the values a unit can hold
    Blank           \* (VUNIT_TYPE)-1, what an erase leaves

ASSUME GeometryAssumption ==
    /\ NumBlocks \in Nat \ {0}
    /\ SecPerBlock \in Nat \ {0}
    /\ UnitsPerPage \in Nat \ {0}
    /\ Blank \in Words

Sectors == 0 .. (NumBlocks * SecPerBlock - 1)
Slots == 0 .. (UnitsPerPage - 1)
Units == Sectors \X Slots

UnitsOf(S) == S \X Slots
BlockOf(s) == s \div SecPerBlock
BlockUnits(b) == {u \in Units : BlockOf(u[1]) = b}

\* The order in which a walk over the flash meets its units.
Before(u, v) == u[1] < v[1] \/ (u[1] = v[1] /\ u[2] <= v[2])

VUnit == [used : BOOLEAN, data : Words]
Flash == [Units -> VUnit]

Erased == [used |-> FALSE, data |-> Blank]
BlankFlash == [u \in Units |-> Erased]

\* A mutant of EraseUnits: "used" is cleared only.
EraseUnitsUsedOnly(f, U) ==
    [u \in Units |-> IF u \in U THEN [used |-> FALSE, data |-> f[u].data] ELSE f[u]]

EraseUnits(f, U) == [u \in Units |-> IF u \in U THEN Erased ELSE f[u]]

(***************************************************************************)
(* Writing the words d, a function from the units of a range.  vpage_write *)
(* walks a page upwards and gives the rest of that page up at the first    *)
(* unit in use (vblock_write ignores the failure and goes on with the next *)
(* page); an all-ones word is skipped and leaves its unit as it is.        *)
(***************************************************************************)
GivenUp(f, U, u) == \E v \in U : v[1] = u[1] /\ v[2] <= u[2] /\ f[v].used

Program(f, d) ==
    [u \in Units |->
        IF u \in DOMAIN d /\ d[u] # Blank /\ ~GivenUp(f, DOMAIN d, u)
          THEN [used |-> TRUE, data |-> d[u]]
          ELSE f[u]]

\* What vpage_read and vflash_read return: the words, whatever "used" says.
Contents(f, U) == [u \in U |-> f[u].data]
=============================================================================
