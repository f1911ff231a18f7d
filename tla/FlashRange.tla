----------------------------- MODULE FlashRange -----------------------------
(***************************************************************************)
(* How vflash.c cuts a range of words at blocks and pages: vflash_write    *)
(* with vblock_write, vflash_config_update with vflash_config_block_update, *)
(* and the walk of vflash_read.  One call at a time; addresses and sizes   *)
(* are in words, for the drivers pass multiples of a sector.  What is      *)
(* moved is left out, where it comes from and where it goes is kept.       *)
(*                                                                         *)
(* VFlash takes the range of such a call as the set of its units; this     *)
(* module is why it may.                                                   *)
(***************************************************************************)
EXTENDS Integers

CONSTANTS
    NumBlocks,      \* vflash.vblock_amt
    PagesPerBlock,  \* vflash.vpage_amt
    UnitsPerPage    \* vflash.vunit_amt

ASSUME RangeAssumption ==
    /\ NumBlocks \in Nat \ {0}
    /\ PagesPerBlock \in Nat \ {0}
    /\ UnitsPerPage \in Nat \ {0}

BlockSize == PagesPerBlock * UnitsPerPage
FlashSize == NumBlocks * BlockSize

VARIABLES
    pc,     \* the loop the call is in, "idle" between calls
    op,     \* "write", "update" or "read": the last call,
    addr,   \* its address
    size,   \* and its size
    blk,    \* the block it is at
    left,   \* write, update: size of vflash.c, what is left of the call
    part,   \* write, update: rsz, the words of it in this block
    page,   \* the page of the block the loop is at
    off,    \* the offset in the page; vblock_write: the offset to skip
    todo,   \* the words the loop has still to move
    pos,    \* the place in the buffer, or in the file, the loop is at
    piece,  \* (history) the last words moved: from, to and how many
    ok      \* did the last call succeed?

vars == <<pc, op, addr, size, blk, left, part, page, off, todo, pos, piece, ok>>

Address(b, p, u) == b * BlockSize + p * UnitsPerPage + u
Here == Address(blk, page, off)

Least(m, n) == IF m <= n THEN m ELSE n

TypeOK ==
    /\ pc \in {"idle", "pages", "units", "walk", "return"}
    /\ op \in {"none", "write", "update", "read"}
    /\ addr \in Nat /\ size \in Nat /\ left \in Nat /\ part \in Nat
    /\ blk \in 0 .. (NumBlocks - 1)
    /\ page \in 0 .. PagesPerBlock
    /\ off \in Nat /\ todo \in Nat /\ pos \in Nat
    /\ piece \in [from : Nat, to : Nat, len : Nat]
    /\ ok \in BOOLEAN

Init ==
    /\ pc = "idle" /\ op = "none" /\ ok = TRUE
    /\ addr = 0 /\ size = 0 /\ left = 0 /\ part = 0
    /\ blk = 0 /\ page = 0 /\ off = 0 /\ todo = 0 /\ pos = 0
    /\ piece = [from |-> 0, to |-> 0, len |-> 0]

\* Move n words and go on behind them.
Move(n, from, to) ==
    /\ piece' = [from |-> from, to |-> to, len |-> n]
    /\ pos' = pos + n
    /\ todo' = todo - n

\* block->write of n words at offset o of block b.  The buffer moves on as
\* the size goes down.  vblock_write would refuse what does not fit the block.
WriteBlock(b, o, n) ==
    /\ pc' = "pages"
    /\ page' = 0 /\ off' = o
    /\ pos' = size' - left'
    /\ blk' = b /\ part' = n /\ todo' = n

\* flash->fblock_update of n words at offset o of block b: the file is
\* positioned at the record of the first of them.
UpdateBlock(b, o, n) ==
    /\ pc' = "units"
    /\ page' = o \div UnitsPerPage /\ off' = o % UnitsPerPage
    /\ pos' = b * BlockSize + o
    /\ blk' = b /\ part' = n /\ todo' = n

\* A mutant of FirstPart: the first part is not cut at the end of the block.
FirstPartUncut(a, n) == n

\* The words of a call that are in its first block.
FirstPart(a, n) ==
    Least(n, (a \div BlockSize + 1) * BlockSize - a)

\* A call within the flash; any other returns -1 at once.
Called(o, a, n) ==
    /\ pc = "idle"
    /\ n > 0 /\ a + n <= FlashSize
    /\ op' = o /\ addr' = a /\ size' = n /\ left' = n
    /\ ok' = TRUE

Write(a, n) ==
    /\ Called("write", a, n)
    /\ piece' = [from |-> 0, to |-> a, len |-> 0]
    /\ WriteBlock(a \div BlockSize, a % BlockSize, FirstPart(a, n))

Update(a, n) ==
    /\ Called("update", a, n)
    /\ piece' = [from |-> a, to |-> a, len |-> 0]
    /\ UpdateBlock(a \div BlockSize, a % BlockSize, FirstPart(a, n))

Read(a, n) ==
    /\ Called("read", a, n)
    /\ piece' = [from |-> a, to |-> 0, len |-> 0]
    /\ pc' = "walk"
    /\ blk' = a \div BlockSize
    /\ page' = (a % BlockSize) \div UnitsPerPage
    /\ off' = (a % BlockSize) % UnitsPerPage
    /\ todo' = n /\ pos' = 0 /\ part' = 0

\* Two mutants of PageLoop: the offset is kept for the next page; a page to
\* be skipped is not counted.
PageLoopKeepsOffset ==
    /\ pc = "pages" /\ page < PagesPerBlock /\ todo > 0
    /\ IF UnitsPerPage > off
         THEN Move(Least(UnitsPerPage - off, todo), pos, Here) /\ UNCHANGED off
         ELSE off' = off - UnitsPerPage /\ UNCHANGED <<piece, pos, todo>>
    /\ page' = page + 1
    /\ UNCHANGED <<pc, op, addr, size, blk, left, part, ok>>
PageLoopSticks ==
    /\ pc = "pages" /\ page < PagesPerBlock /\ todo > 0
    /\ IF UnitsPerPage > off
         THEN Move(Least(UnitsPerPage - off, todo), pos, Here) /\ off' = 0 /\ page' = page + 1
         ELSE UNCHANGED <<page, off, piece, pos, todo>>
    /\ UNCHANGED <<pc, op, addr, size, blk, left, part, ok>>

\* One pass of the loop of vblock_write.
PageLoop ==
    /\ pc = "pages" /\ page < PagesPerBlock /\ todo > 0
    /\ IF UnitsPerPage > off
         THEN Move(Least(UnitsPerPage - off, todo), pos, Here) /\ off' = 0
         ELSE off' = off - UnitsPerPage /\ UNCHANGED <<piece, pos, todo>>
    /\ page' = page + 1
    /\ UNCHANGED <<pc, op, addr, size, blk, left, part, ok>>

\* One pass of the loop of vflash_config_block_update.
UnitLoop ==
    /\ pc = "units" /\ todo > 0
    /\ Move(1, Here, pos)
    /\ IF off + 1 = UnitsPerPage
         THEN page' = page + 1 /\ off' = 0
         ELSE off' = off + 1 /\ UNCHANGED page
    /\ UNCHANGED <<pc, op, addr, size, blk, left, part, ok>>

\* Either loop is over, with 0.
BlockDone ==
    /\ \/ pc = "pages" /\ (page = PagesPerBlock \/ todo = 0)
       \/ pc = "units" /\ todo = 0
    /\ pc' = "return"
    /\ UNCHANGED <<op, addr, size, blk, left, part, page, off, todo, pos, piece, ok>>

\* The middle parts, and the last.
NextPart == Least(BlockSize, left')

\* Back in vflash_write or vflash_config_update: on with the next block.
NextBlock ==
    /\ pc = "return"
    /\ left' = left - part
    /\ UNCHANGED <<op, addr, size, piece, ok>>
    /\ \/ /\ left' = 0
          /\ pc' = "idle"
          /\ UNCHANGED <<blk, part, page, off, todo, pos>>
       \/ /\ left' # 0
          /\ IF op = "write" THEN WriteBlock(blk + 1, 0, NextPart)
                             ELSE UpdateBlock(blk + 1, 0, NextPart)

\* A mutant of NextPage: no way from one block to the next.
NextPageOfBlock ==
    /\ off' = 0
    /\ IF page + 1 < PagesPerBlock
         THEN page' = page + 1 /\ UNCHANGED <<blk, pc, ok>>
         ELSE pc' = "idle" /\ ok' = FALSE /\ UNCHANGED <<blk, page>>

\* Where the walk of a read goes from the last unit of a page: to the next
\* page or block, and it fails where there is none.
NextPage ==
    /\ off' = 0
    /\ IF page + 1 < PagesPerBlock
         THEN page' = page + 1 /\ UNCHANGED <<blk, pc, ok>>
       ELSE IF blk + 1 < NumBlocks
         THEN blk' = blk + 1 /\ page' = 0 /\ UNCHANGED <<pc, ok>>
         ELSE pc' = "idle" /\ ok' = FALSE /\ UNCHANGED <<blk, page>>

\* One pass of the loop of vflash_read.
WalkLoop ==
    /\ pc = "walk" /\ todo > 0
    /\ Move(1, Here, pos)
    /\ IF off + 1 < UnitsPerPage
         THEN off' = off + 1 /\ UNCHANGED <<page, blk, pc, ok>>
         ELSE NextPage
    /\ UNCHANGED <<op, addr, size, left, part>>

WalkDone ==
    /\ pc = "walk" /\ todo = 0
    /\ pc' = "idle"
    /\ UNCHANGED <<op, addr, size, blk, left, part, page, off, todo, pos, piece, ok>>

Call == \E a \in 0..FlashSize, n \in 0..FlashSize : Write(a, n) \/ Update(a, n) \/ Read(a, n)

Loop == PageLoop \/ UnitLoop \/ BlockDone \/ NextBlock \/ WalkLoop \/ WalkDone

Next == Call \/ Loop

Spec == Init /\ [][Next]_vars

\* A call is one thread that goes on; nobody has to make it.
FairSpec == Spec /\ WF_vars(Loop)
-----------------------------------------------------------------------------
\* How many words of the call have been moved.
Moved ==
    CASE op = "read" -> piece.to + piece.len
      [] op \in {"write", "update"} -> (piece.to - addr) + piece.len
      [] OTHER -> 0

\* Every word goes where it belongs: the word of the buffer to the address
\* that is as far from the call's (and back), a unit to its own record.
InPlace ==
    CASE op = "write" -> piece.to = addr + piece.from
      [] op = "update" -> piece.to = piece.from
      [] op = "read" -> piece.from = addr + piece.to
      [] OTHER -> TRUE

\* A call that is over has moved all its words and no more: also the read
\* that fails behind the last word of the flash.
AllMoved == pc = "idle" => Moved = size

\* vpage_write refuses what does not fit the page, and vblock_write does not
\* look at that (vflash.c:720): no piece of a write may cross a page.
FitsPage == op = "write" => (piece.to % UnitsPerPage) + piece.len <= UnitsPerPage

\* No word is skipped and none is moved twice: a word programmed twice would
\* be refused, for its unit is in use by then.
Gapless == [][pc # "idle" /\ piece' # piece => piece'.to = piece.to + piece.len]_vars

\* Only a read that ends with the flash fails: it has the right size, whatever
\* "wrong size ?" (vflash.c:2029) says.
OnlyEndReadsFail == ~ok => op = "read" /\ addr + size = FlashSize

\* Every loop ends.
CallsReturn == pc # "idle" ~> pc = "idle"
=============================================================================
