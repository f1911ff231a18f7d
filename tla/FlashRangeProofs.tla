-------------------------- MODULE FlashRangeProofs --------------------------
(***************************************************************************)
(* The ranges of vflash.c for every geometry: a call moves every word of   *)
(* its range once, to its place, without leaving the flash.                *)
(***************************************************************************)
EXTENDS FlashRange, TLAPS

USE RangeAssumption

(***************************************************************************)
(* Arithmetic of blocks and pages.                                         *)
(***************************************************************************)
LEMMA BlockSizeNat == BlockSize \in Nat \ {0} /\ FlashSize \in Nat
BY DEF BlockSize, FlashSize

\* Multiples keep the order, strictly.
LEMMA Multiples ==
    ASSUME NEW k \in Nat \ {0}, NEW m \in Int, NEW n \in Int
    PROVE  /\ m < n <=> m * k < n * k
           /\ m * k \in Int
           /\ (m + 1) * k = m * k + k
OBVIOUS

LEMMA Division ==
    ASSUME NEW k \in Nat \ {0}, NEW a \in Nat
    PROVE  /\ a \div k \in Nat /\ a % k \in 0 .. (k - 1)
           /\ a = (a \div k) * k + (a % k)
OBVIOUS

\* The quotient and the remainder are the only ones.
LEMMA Remainder ==
    ASSUME NEW k \in Nat \ {0}, NEW m \in Nat, NEW r \in 0 .. (k - 1)
    PROVE  (m * k + r) % k = r
<1> DEFINE a == m * k + r
           q == a \div k
           t == a % k
<1>1. m * k \in Nat /\ a \in Nat
  OBVIOUS
<1>2. q \in Nat /\ t \in 0 .. (k - 1) /\ a = q * k + t
  <2> HIDE DEF a
  <2> QED
    BY <1>1, Division
<1>3. ~(q < m)
  <2>1. q < m => (q + 1) * k <= m * k
    BY <1>2, Multiples
  <2> QED
    BY <2>1, <1>1, <1>2, Multiples
<1>4. ~(m < q)
  <2>1. m < q => (m + 1) * k <= q * k
    BY <1>2, Multiples
  <2> QED
    BY <2>1, <1>1, <1>2, Multiples
<1> QED
  <2>1. q = m
    BY <1>2, <1>3, <1>4
  <2> QED
    BY <2>1, <1>1, <1>2

\* The place of a unit in its page.
LEMMA PlaceInPage ==
    ASSUME NEW b \in Nat, NEW p \in Nat, NEW u \in 0 .. (UnitsPerPage - 1)
    PROVE  Address(b, p, u) % UnitsPerPage = u
<1>1. b * PagesPerBlock + p \in Nat
  OBVIOUS
<1>2. Address(b, p, u) = (b * PagesPerBlock + p) * UnitsPerPage + u
  BY DEF Address, BlockSize
<1> QED
  BY <1>1, <1>2, Remainder

\* From a unit, a page and a block to the next, and the end of the flash.
LEMMA Steps ==
    ASSUME NEW b \in Nat, NEW p \in Nat, NEW u \in Nat
    PROVE  /\ Address(b, p, u) \in Nat /\ b * BlockSize \in Nat
           /\ Address(b, p, u) = Address(b, p, 0) + u
           /\ Address(b, p + 1, 0) = Address(b, p, 0) + UnitsPerPage
           /\ Address(b, 0, 0) = b * BlockSize
           /\ Address(b + 1, 0, 0) = b * BlockSize + BlockSize
           /\ Address(b, PagesPerBlock, 0) = b * BlockSize + BlockSize
           /\ p < PagesPerBlock => Address(b, p + 1, 0) <= b * BlockSize + BlockSize
           /\ b < NumBlocks <=> b * BlockSize < FlashSize
           /\ b < NumBlocks => b * BlockSize + BlockSize <= FlashSize
<1>1. b * BlockSize \in Nat /\ p * UnitsPerPage \in Nat
  BY BlockSizeNat
<1>2. (p + 1) * UnitsPerPage = p * UnitsPerPage + UnitsPerPage
  BY Multiples
<1>3. (b + 1) * BlockSize = b * BlockSize + BlockSize
  BY BlockSizeNat, Multiples
<1>4. PagesPerBlock * UnitsPerPage = BlockSize /\ 0 * UnitsPerPage = 0
  BY DEF BlockSize
<1>5. p < PagesPerBlock => (p + 1) * UnitsPerPage <= PagesPerBlock * UnitsPerPage
  <2>1. p < PagesPerBlock => p + 1 = PagesPerBlock \/ p + 1 < PagesPerBlock
    OBVIOUS
  <2> QED
    BY <2>1, <1>1, <1>2, <1>4, BlockSizeNat, Multiples
<1>6. b < NumBlocks <=> b * BlockSize < NumBlocks * BlockSize
  BY BlockSizeNat, Multiples
<1>7. b < NumBlocks => (b + 1) * BlockSize <= NumBlocks * BlockSize
  <2>1. b < NumBlocks => b + 1 = NumBlocks \/ b + 1 < NumBlocks
    OBVIOUS
  <2> QED
    BY <2>1, BlockSizeNat, Multiples
<1> HIDE DEF BlockSize
<1> QED
  BY <1>1, <1>2, <1>3, <1>4, <1>5, <1>6, <1>7, BlockSizeNat DEF Address, FlashSize

(***************************************************************************)
(* The invariant.  Cut(x) is how far the call has come when x words of the *)
(* part at hand are left: the parts before this one, and of this one all   *)
(* but x.                                                                  *)
(***************************************************************************)
Start == blk * BlockSize
End   == blk * BlockSize + BlockSize

Cut(x) == (size - left) + part - x

\* A call lies in the flash.
Within == pc # "idle" => op # "none" /\ size > 0 /\ addr + size <= FlashSize

\* The part at hand is what the block and the rest of the call share.
PartInv ==
    pc \in {"pages", "units", "return"} =>
      /\ op \in {"write", "update"}
      /\ part > 0 /\ part <= left /\ left <= size
      /\ Start <= addr + Cut(part) /\ addr + Cut(0) <= End
      /\ part < left => addr + Cut(0) = End

PagesInv ==
    pc = "pages" =>
      /\ op = "write" /\ todo <= part
      /\ pos = Cut(todo)
      /\ piece.to + piece.len = addr + pos
      /\ todo > 0 => Here = addr + pos

UnitsInv ==
    pc = "units" =>
      /\ op = "update" /\ todo <= part
      /\ pos = addr + Cut(todo)
      /\ piece.to + piece.len = pos
      /\ off < UnitsPerPage
      /\ todo > 0 => Here = pos

ReturnInv == pc = "return" => piece.to + piece.len = addr + Cut(0)

WalkInv ==
    pc = "walk" =>
      /\ op = "read" /\ todo <= size
      /\ pos = size - todo
      /\ piece.to + piece.len = pos
      /\ page < PagesPerBlock /\ off < UnitsPerPage
      /\ todo > 0 => Here = addr + pos

RangeInv ==
    /\ TypeOK /\ Within
    /\ PartInv /\ PagesInv /\ UnitsInv /\ ReturnInv /\ WalkInv
    /\ InPlace /\ AllMoved /\ FitsPage /\ OnlyEndReadsFail

LEMMA InitInv == Init => RangeInv
BY DEF Init, RangeInv, TypeOK, Within, PartInv, PagesInv, UnitsInv, ReturnInv,
       WalkInv, InPlace, AllMoved, Moved, FitsPage, OnlyEndReadsFail

\* Here is an address, and the next page is one page on.
LEMMA HereInv ==
    TypeOK => /\ blk \in Nat /\ page \in Nat /\ off \in Nat /\ Here \in Nat
              /\ Address(blk, page, 0) \in Nat
              /\ Here = Address(blk, page, 0) + off
              /\ Address(blk, page + 1, 0) = Address(blk, page, 0) + UnitsPerPage
              /\ Start \in Nat /\ End = Start + BlockSize
              /\ page < PagesPerBlock => Address(blk, page + 1, 0) <= End
              /\ page = PagesPerBlock => Here = End + off
              /\ End <= FlashSize
<1> SUFFICES ASSUME TypeOK
             PROVE  /\ blk \in Nat /\ page \in Nat /\ off \in Nat /\ Here \in Nat
                    /\ Address(blk, page, 0) \in Nat
                    /\ Here = Address(blk, page, 0) + off
                    /\ Address(blk, page + 1, 0) = Address(blk, page, 0) + UnitsPerPage
                    /\ Start \in Nat /\ End = Start + BlockSize
                    /\ page < PagesPerBlock => Address(blk, page + 1, 0) <= End
                    /\ page = PagesPerBlock => Here = End + off
                    /\ End <= FlashSize
  OBVIOUS
<1>1. blk \in Nat /\ blk < NumBlocks /\ page \in Nat /\ off \in Nat
  BY DEF TypeOK
<1>2. /\ Address(blk, page, off) \in Nat
      /\ Address(blk, page, off) = Address(blk, page, 0) + off
      /\ Address(blk, page + 1, 0) = Address(blk, page, 0) + UnitsPerPage
      /\ blk * BlockSize \in Nat
      /\ page < PagesPerBlock => Address(blk, page + 1, 0) <= blk * BlockSize + BlockSize
      /\ page = PagesPerBlock => Address(blk, page, 0) = blk * BlockSize + BlockSize
      /\ blk * BlockSize + BlockSize <= FlashSize
  BY <1>1, Steps
<1>3. Address(blk, page, 0) \in Nat
  BY <1>1, Steps
<1> HIDE DEF Address, BlockSize, FlashSize
<1> QED
  BY <1>1, <1>2, <1>3, BlockSizeNat DEF Here, Start, End

LEMMA PageLoopInv == RangeInv /\ PageLoop => RangeInv'
<1> SUFFICES ASSUME RangeInv, PageLoop PROVE RangeInv'
  OBVIOUS
<1>1. /\ pc = "pages" /\ pc' = "pages" /\ op = "write" /\ op' = "write"
      /\ page' = page + 1 /\ page \in Nat /\ page < PagesPerBlock
      /\ blk' = blk /\ blk \in Nat /\ Start' = Start /\ End' = End
      /\ UNCHANGED <<addr, size, left, part, ok>>
  BY DEF RangeInv, PagesInv, PageLoop, TypeOK, Start, End
<1>2. /\ Here \in Nat /\ Address(blk, page, 0) \in Nat
      /\ Here = Address(blk, page, 0) + off
      /\ Address(blk, page + 1, 0) = Address(blk, page, 0) + UnitsPerPage
      /\ Start \in Nat /\ End = Start + BlockSize
      /\ Address(blk, page + 1, 0) <= End
  BY <1>1, HereInv DEF RangeInv
<1>3. off' \in Nat => Here' = Address(blk, page + 1, 0) + off'
  BY <1>1, Steps DEF Here
<1>4. TypeOK'
  BY <1>1, <1>2 DEF RangeInv, TypeOK, PageLoop, Move, Least
<1>5. Within' /\ PartInv'
  BY <1>1 DEF RangeInv, Within, PartInv, Cut
<1>6. PagesInv' /\ InPlace'
  <2> HIDE DEF Address
  <2> QED
    BY <1>1, <1>2, <1>3 DEF RangeInv, TypeOK, PageLoop, Move, Least, PagesInv, InPlace, Cut
<1>7. FitsPage'
  <2>1. CASE UnitsPerPage > off
    <3>1. Here % UnitsPerPage = off
      BY <1>1, <2>1, PlaceInPage DEF RangeInv, TypeOK, Here
    <3> QED
      BY <1>1, <1>2, <2>1, <3>1 DEF RangeInv, TypeOK, PageLoop, Move, Least, FitsPage
  <2>2. CASE ~(UnitsPerPage > off)
    BY <1>1, <2>2 DEF RangeInv, PageLoop, FitsPage
  <2> QED
    BY <2>1, <2>2
<1> QED
  BY <1>1, <1>4, <1>5, <1>6, <1>7
     DEF RangeInv, UnitsInv, ReturnInv, WalkInv, AllMoved, OnlyEndReadsFail

LEMMA UnitLoopInv == RangeInv /\ UnitLoop => RangeInv'
<1> SUFFICES ASSUME RangeInv, UnitLoop PROVE RangeInv'
  OBVIOUS
<1>1. /\ pc = "units" /\ pc' = "units" /\ op = "update" /\ op' = "update"
      /\ blk' = blk /\ blk \in Nat /\ Start' = Start /\ End' = End
      /\ page \in Nat /\ off \in Nat /\ off < UnitsPerPage
      /\ UNCHANGED <<addr, size, left, part, ok>>
  BY DEF RangeInv, UnitsInv, UnitLoop, TypeOK, Start, End
<1>2. /\ Here \in Nat /\ Address(blk, page, 0) \in Nat
      /\ Here = Address(blk, page, 0) + off
      /\ Address(blk, page + 1, 0) = Address(blk, page, 0) + UnitsPerPage
      /\ Start \in Nat /\ End = Start + BlockSize /\ End <= FlashSize
      /\ page = PagesPerBlock => Here = End + off
  BY <1>1, HereInv DEF RangeInv
<1>3. /\ page' \in Nat /\ off' \in Nat /\ off' < UnitsPerPage
      /\ Here' = Here + 1
  <2>1. CASE off + 1 = UnitsPerPage
    <3>1. Here' = Address(blk, page + 1, 0)
      BY <1>1, <2>1 DEF UnitLoop, Here
    <3> QED
      BY <1>1, <1>2, <2>1, <3>1 DEF UnitLoop
  <2>2. CASE off + 1 # UnitsPerPage
    <3>1. Address(blk, page, off + 1) = Address(blk, page, 0) + (off + 1)
      BY <1>1, Steps
    <3>2. Here' = Address(blk, page, off + 1)
      BY <1>1, <2>2 DEF UnitLoop, Here
    <3> QED
      BY <1>1, <1>2, <2>2, <3>1, <3>2 DEF UnitLoop
  <2> QED
    BY <2>1, <2>2
<1>4. page < PagesPerBlock
  <2>1. Here < End
    BY <1>1, <1>2 DEF RangeInv, TypeOK, UnitLoop, UnitsInv, PartInv, Cut
  <2> QED
    BY <1>1, <1>2, <2>1 DEF RangeInv, TypeOK
<1>5. TypeOK'
  BY <1>1, <1>2, <1>3, <1>4 DEF RangeInv, TypeOK, UnitLoop, Move
<1>6. Within' /\ PartInv'
  BY <1>1 DEF RangeInv, Within, PartInv, Cut
<1>7. UnitsInv' /\ InPlace'
  BY <1>1, <1>2, <1>3 DEF RangeInv, TypeOK, UnitLoop, Move, UnitsInv, InPlace, Cut
<1> QED
  BY <1>1, <1>5, <1>6, <1>7
     DEF RangeInv, PagesInv, ReturnInv, WalkInv, AllMoved, FitsPage, OnlyEndReadsFail

LEMMA BlockDoneInv == RangeInv /\ BlockDone => RangeInv'
<1> SUFFICES ASSUME RangeInv, BlockDone PROVE RangeInv'
  OBVIOUS
<1>1. /\ pc' = "return" /\ Start' = Start /\ End' = End
      /\ UNCHANGED <<op, addr, size, blk, left, part, page, off, todo, pos, piece, ok>>
  BY DEF BlockDone, Start, End
<1>2. todo = 0
  <2>1. CASE pc = "pages" /\ todo > 0
    <3>1. page = PagesPerBlock /\ Here = End + off /\ End \in Nat /\ off \in Nat
      BY <2>1, HereInv, BlockSizeNat DEF RangeInv, BlockDone, TypeOK
    <3>2. Here < End
      BY <2>1, <3>1 DEF RangeInv, TypeOK, PagesInv, PartInv, Cut
    <3> QED
      BY <3>1, <3>2
  <2> QED
    BY <2>1 DEF RangeInv, TypeOK, BlockDone
<1>3. PartInv' /\ ReturnInv'
  BY <1>1, <1>2 DEF RangeInv, TypeOK, BlockDone, PartInv, PagesInv, UnitsInv, ReturnInv, Cut
<1> QED
  BY <1>1, <1>3
     DEF RangeInv, TypeOK, BlockDone, Within, PagesInv, UnitsInv, WalkInv, InPlace,
         AllMoved, FitsPage, OnlyEndReadsFail

LEMMA WalkLoopInv == RangeInv /\ WalkLoop => RangeInv'
<1> SUFFICES ASSUME RangeInv, WalkLoop PROVE RangeInv'
  OBVIOUS
<1>1. /\ pc = "walk" /\ op = "read" /\ op' = "read" /\ todo > 0
      /\ blk \in Nat /\ page \in Nat /\ off \in Nat
      /\ page < PagesPerBlock /\ off < UnitsPerPage
      /\ UNCHANGED <<addr, size, left, part>>
  BY DEF RangeInv, WalkInv, WalkLoop, TypeOK
<1>2. /\ piece' = [from |-> Here, to |-> pos, len |-> 1]
      /\ pos' = pos + 1 /\ todo' = todo - 1
  BY DEF WalkLoop, Move
<1>3. /\ Here \in Nat /\ Here = Address(blk, page, 0) + off
      /\ Address(blk, page, 0) \in Nat
      /\ Address(blk, page + 1, 0) = Address(blk, page, 0) + UnitsPerPage
      /\ Here = addr + pos /\ pos = size - todo
      /\ Start \in Nat /\ End = Start + BlockSize /\ End <= FlashSize
  BY <1>1, HereInv DEF RangeInv, WalkInv
<1>4. CASE off + 1 < UnitsPerPage
  <2>1. /\ off' = off + 1 /\ UNCHANGED <<page, blk, pc, ok>>
    BY <1>4 DEF WalkLoop
  <2>2. Here' = Here + 1
    <3>1. Address(blk, page, off + 1) = Address(blk, page, 0) + (off + 1)
      BY <1>1, Steps
    <3> QED
      BY <1>1, <1>3, <2>1, <3>1 DEF Here
  <2> QED
    BY <1>1, <1>2, <1>3, <1>4, <2>1, <2>2
       DEF RangeInv, TypeOK, Within, PartInv, PagesInv, UnitsInv, ReturnInv, WalkInv,
           InPlace, AllMoved, FitsPage, OnlyEndReadsFail
<1>5. CASE off + 1 = UnitsPerPage /\ page + 1 < PagesPerBlock
  <2>1. /\ off' = 0 /\ page' = page + 1 /\ UNCHANGED <<blk, pc, ok>>
    BY <1>5 DEF WalkLoop, NextPage
  <2>2. Here' = Here + 1
    <3>1. Here' = Address(blk, page + 1, 0)
      BY <2>1 DEF Here
    <3> QED
      BY <1>1, <1>3, <1>5, <3>1
  <2> QED
    BY <1>1, <1>2, <1>3, <1>5, <2>1, <2>2
       DEF RangeInv, TypeOK, Within, PartInv, PagesInv, UnitsInv, ReturnInv, WalkInv,
           InPlace, AllMoved, FitsPage, OnlyEndReadsFail
<1>6. CASE off + 1 = UnitsPerPage /\ page + 1 = PagesPerBlock /\ blk + 1 < NumBlocks
  <2>1. /\ off' = 0 /\ page' = 0 /\ blk' = blk + 1 /\ UNCHANGED <<pc, ok>>
    BY <1>6 DEF WalkLoop, NextPage
  <2>2. Here' = Here + 1
    <3>1. Here' = Address(blk + 1, 0, 0)
      BY <2>1 DEF Here
    <3>2. Here + 1 = Address(blk, PagesPerBlock, 0)
      BY <1>1, <1>3, <1>6
    <3> QED
      BY <1>1, <3>1, <3>2, Steps
  <2> QED
    BY <1>1, <1>2, <1>3, <1>6, <2>1, <2>2
       DEF RangeInv, TypeOK, Within, PartInv, PagesInv, UnitsInv, ReturnInv, WalkInv,
           InPlace, AllMoved, FitsPage, OnlyEndReadsFail
<1>7. CASE off + 1 = UnitsPerPage /\ page + 1 = PagesPerBlock /\ ~(blk + 1 < NumBlocks)
  <2>1. /\ off' = 0 /\ pc' = "idle" /\ ok' = FALSE /\ UNCHANGED <<blk, page>>
    BY <1>7 DEF WalkLoop, NextPage
  <2>2. Here + 1 = FlashSize
    <3>1. blk + 1 = NumBlocks
      BY <1>1, <1>7 DEF RangeInv, TypeOK
    <3>2. FlashSize = Address(blk + 1, 0, 0)
      BY <1>1, <3>1, BlockSizeNat, Steps DEF FlashSize
    <3>3. Here + 1 = Address(blk, PagesPerBlock, 0)
      BY <1>1, <1>3, <1>7
    <3> QED
      BY <1>1, <3>2, <3>3, Steps
  <2>3. pos + 1 = size /\ addr + size = FlashSize
    BY <1>1, <1>3, <2>2, BlockSizeNat DEF RangeInv, TypeOK, Within
  <2>4. AllMoved' /\ OnlyEndReadsFail' /\ InPlace'
    BY <1>1, <1>2, <1>3, <2>1, <2>3
       DEF RangeInv, TypeOK, InPlace, AllMoved, Moved, OnlyEndReadsFail
  <2>5. TypeOK'
    <3>1. /\ pos' \in Nat /\ todo' \in Nat /\ off' \in Nat
          /\ piece' \in [from : Nat, to : Nat, len : Nat]
      BY <1>1, <1>2, <1>3, <2>1 DEF RangeInv, TypeOK
    <3> QED
      BY <1>1, <2>1, <3>1 DEF RangeInv, TypeOK
  <2>6. FitsPage'
    BY <1>1 DEF FitsPage
  <2> QED
    BY <2>1, <2>4, <2>5, <2>6
       DEF RangeInv, Within, PartInv, PagesInv, UnitsInv, ReturnInv, WalkInv
<1> QED
  BY <1>1, <1>4, <1>5, <1>6, <1>7

LEMMA WalkDoneInv == RangeInv /\ WalkDone => RangeInv'
BY DEF RangeInv, WalkDone, TypeOK, Within, PartInv, PagesInv, UnitsInv, ReturnInv, WalkInv,
       InPlace, AllMoved, Moved, FitsPage, OnlyEndReadsFail

(***************************************************************************)
(* A call, and the way to its next block.                                  *)
(***************************************************************************)
LEMMA PlaceInBlock ==
    ASSUME NEW b \in Nat, NEW o \in 0 .. (BlockSize - 1)
    PROVE  /\ o \div UnitsPerPage \in 0 .. (PagesPerBlock - 1)
           /\ o % UnitsPerPage \in 0 .. (UnitsPerPage - 1)
           /\ Address(b, o \div UnitsPerPage, o % UnitsPerPage) = b * BlockSize + o
           /\ Address(b, 0, o) = b * BlockSize + o
<1> DEFINE q == o \div UnitsPerPage
           r == o % UnitsPerPage
<1>1. o \in Nat /\ o < BlockSize
  BY BlockSizeNat
<1>2. q \in Nat /\ r \in 0 .. (UnitsPerPage - 1) /\ o = q * UnitsPerPage + r
  BY <1>1, Division
<1> HIDE DEF q, r
<1>3. q < PagesPerBlock
  <2>1. q * UnitsPerPage \in Nat /\ q * UnitsPerPage < PagesPerBlock * UnitsPerPage
    BY <1>1, <1>2 DEF BlockSize
  <2> QED
    BY <1>2, <2>1, Multiples
<1>4. Address(b, q, r) = b * BlockSize + o /\ Address(b, 0, o) = b * BlockSize + o
  <2>1. b * BlockSize \in Nat /\ q * UnitsPerPage \in Nat /\ 0 * UnitsPerPage = 0
    BY <1>2, BlockSizeNat
  <2> HIDE DEF BlockSize
  <2> QED
    BY <1>1, <1>2, <2>1 DEF Address
<1> QED
  BY <1>2, <1>3, <1>4 DEF q, r

LEMMA FirstPartOf ==
    ASSUME NEW a \in Nat, NEW n \in Nat \ {0}, a + n <= FlashSize
    PROVE  /\ a \div BlockSize \in 0 .. (NumBlocks - 1)
           /\ a % BlockSize \in 0 .. (BlockSize - 1)
           /\ (a \div BlockSize) * BlockSize + (a % BlockSize) = a
           /\ FirstPart(a, n) \in Nat \ {0} /\ FirstPart(a, n) <= n
           /\ a + FirstPart(a, n) <= (a \div BlockSize) * BlockSize + BlockSize
           /\ FirstPart(a, n) < n =>
                a + FirstPart(a, n) = (a \div BlockSize) * BlockSize + BlockSize
<1> DEFINE q == a \div BlockSize
           r == a % BlockSize
<1>1. q \in Nat /\ r \in 0 .. (BlockSize - 1) /\ a = q * BlockSize + r
  BY BlockSizeNat, Division
<1> HIDE DEF q, r
<1>2. q * BlockSize \in Nat /\ (q + 1) * BlockSize = q * BlockSize + BlockSize
  BY <1>1, BlockSizeNat, Multiples
<1>3. q < NumBlocks
  <2>1. q * BlockSize < NumBlocks * BlockSize
    BY <1>1, <1>2, BlockSizeNat DEF FlashSize
  <2> QED
    BY <1>1, <2>1, BlockSizeNat, Multiples
<1> DEFINE e == (q + 1) * BlockSize
<1>4. FirstPart(a, n) = Least(n, e - a)
  BY DEF FirstPart, q
<1>5. /\ FirstPart(a, n) \in Nat \ {0} /\ FirstPart(a, n) <= n
      /\ a + FirstPart(a, n) <= q * BlockSize + BlockSize
      /\ FirstPart(a, n) < n => a + FirstPart(a, n) = q * BlockSize + BlockSize
  <2>1. e = q * BlockSize + BlockSize /\ e \in Nat /\ a < e
    BY <1>1, <1>2, BlockSizeNat
  <2> HIDE DEF e
  <2>2. /\ FirstPart(a, n) \in Nat \ {0} /\ FirstPart(a, n) <= n
        /\ a + FirstPart(a, n) <= e
        /\ FirstPart(a, n) < n => a + FirstPart(a, n) = e
    BY <1>4, <2>1 DEF Least
  <2> QED
    BY <2>1, <2>2
<1> QED
  BY <1>1, <1>3, <1>5 DEF q, r

\* Of a call of z words at address a, l words are left and the last moved are w;
\* n is what the block b, from its offset o, and the rest of the call share.
Shares(a, z, l, w, b, o, n) ==
    /\ a \in Nat /\ z \in Nat \ {0} /\ l \in Nat /\ l <= z /\ a + z <= FlashSize
    /\ b \in 0 .. (NumBlocks - 1) /\ o \in 0 .. (BlockSize - 1)
    /\ n \in Nat \ {0} /\ n <= l
    /\ a + (z - l) = b * BlockSize + o
    /\ o + n <= BlockSize /\ (n < l => o + n = BlockSize)
    /\ w \in [from : Nat, to : Nat, len : Nat]
    /\ w.to + w.len = a + (z - l)

LEMMA WriteBlockInv ==
    ASSUME NEW a, NEW z, NEW l, NEW w, NEW b, NEW o, NEW n,
           Shares(a, z, l, w, b, o, n),
           op' = "write" /\ addr' = a /\ size' = z /\ left' = l /\ piece' = w /\ ok' = TRUE,
           InPlace' /\ FitsPage',
           WriteBlock(b, o, n)
    PROVE  RangeInv'
<1> DEFINE s == b * BlockSize
           e == s + BlockSize
<1>1. /\ a \in Nat /\ z \in Nat \ {0} /\ l \in Nat /\ l <= z /\ a + z <= FlashSize
      /\ b \in Nat /\ b < NumBlocks /\ o \in Nat /\ o \in 0 .. (BlockSize - 1)
      /\ n \in Nat \ {0} /\ n <= l
      /\ w \in [from : Nat, to : Nat, len : Nat] /\ w.to + w.len = a + (z - l)
  BY BlockSizeNat DEF Shares
<1>2. /\ s \in Nat /\ e \in Nat /\ a + (z - l) = s + o
      /\ s + (o + n) <= e /\ (n < l => s + (o + n) = e)
  BY <1>1, BlockSizeNat DEF Shares
<1>3. /\ pc' = "pages" /\ page' = 0 /\ off' = o /\ pos' = z - l
      /\ blk' = b /\ part' = n /\ todo' = n
  BY DEF WriteBlock
<1>4. Here' = s + o /\ Start' = s /\ End' = e
  BY <1>1, <1>3, PlaceInBlock DEF Here, Start, End
<1> HIDE DEF s, e
<1>5. TypeOK'
  <2>1. z - l \in Nat /\ s + o \in Nat /\ 0 \in 0 .. PagesPerBlock
    BY <1>1, <1>2
  <2>2. page' \in 0 .. PagesPerBlock /\ off' \in Nat /\ pos' \in Nat
    BY <1>1, <1>3, <1>4, <2>1
  <2>3. pc' \in {"idle", "pages", "units", "walk", "return"}
    BY <1>3
  <2> QED
    BY <1>1, <1>3, <2>2, <2>3 DEF TypeOK
<1>6. Within'
  BY <1>1 DEF Within
<1>7. PartInv' /\ PagesInv'
  BY <1>1, <1>2, <1>3, <1>4 DEF PartInv, PagesInv, Cut
<1> QED
  BY <1>3, <1>5, <1>6, <1>7 DEF RangeInv, PagesInv, UnitsInv, ReturnInv, WalkInv,
     AllMoved, OnlyEndReadsFail

LEMMA UpdateBlockInv ==
    ASSUME NEW a, NEW z, NEW l, NEW w, NEW b, NEW o, NEW n,
           Shares(a, z, l, w, b, o, n),
           op' = "update" /\ addr' = a /\ size' = z /\ left' = l /\ piece' = w /\ ok' = TRUE,
           InPlace' /\ FitsPage',
           UpdateBlock(b, o, n)
    PROVE  RangeInv'
<1> DEFINE s == b * BlockSize
           e == s + BlockSize
<1>1. /\ a \in Nat /\ z \in Nat \ {0} /\ l \in Nat /\ l <= z /\ a + z <= FlashSize
      /\ b \in Nat /\ b < NumBlocks /\ o \in Nat /\ o \in 0 .. (BlockSize - 1)
      /\ n \in Nat \ {0} /\ n <= l
      /\ w \in [from : Nat, to : Nat, len : Nat] /\ w.to + w.len = a + (z - l)
  BY BlockSizeNat DEF Shares
<1>2. /\ s \in Nat /\ e \in Nat /\ a + (z - l) = s + o
      /\ s + (o + n) <= e /\ (n < l => s + (o + n) = e)
  BY <1>1, BlockSizeNat DEF Shares
<1>3. pc' = "units" /\ pos' = s + o /\ blk' = b /\ part' = n /\ todo' = n
  BY DEF UpdateBlock
<1>4. /\ Here' = s + o /\ Start' = s /\ End' = e
      /\ page' \in 0 .. (PagesPerBlock - 1) /\ off' \in 0 .. (UnitsPerPage - 1)
  BY <1>1, <1>3, PlaceInBlock DEF UpdateBlock, Here, Start, End
<1> HIDE DEF s, e
<1>5. TypeOK'
  <2>1. z - l \in Nat /\ s + o \in Nat /\ 0 \in 0 .. PagesPerBlock
    BY <1>1, <1>2
  <2>2. page' \in 0 .. PagesPerBlock /\ off' \in Nat /\ pos' \in Nat
    BY <1>1, <1>3, <1>4, <2>1
  <2>3. pc' \in {"idle", "pages", "units", "walk", "return"}
    BY <1>3
  <2> QED
    BY <1>1, <1>3, <2>2, <2>3 DEF TypeOK
<1>6. Within'
  BY <1>1 DEF Within
<1>7. PartInv' /\ UnitsInv'
  <2>1. PartInv'
    BY <1>1, <1>2, <1>3, <1>4 DEF PartInv, Cut
  <2>2. off' < UnitsPerPage
    BY <1>4
  <2>3. UnitsInv'
    BY <1>1, <1>2, <1>3, <1>4, <2>2 DEF UnitsInv, Cut
  <2> QED
    BY <2>1, <2>3
<1> QED
  BY <1>3, <1>5, <1>6, <1>7 DEF RangeInv, PagesInv, UnitsInv, ReturnInv, WalkInv,
     AllMoved, OnlyEndReadsFail

LEMMA CallInv == RangeInv /\ Call => RangeInv'
<1> SUFFICES ASSUME RangeInv,
                    NEW a \in 0 .. FlashSize, NEW n \in 0 .. FlashSize,
                    Write(a, n) \/ Update(a, n) \/ Read(a, n)
             PROVE  RangeInv'
  BY DEF Call
<1> DEFINE b == a \div BlockSize
           o == a % BlockSize
           m == FirstPart(a, n)
<1>1. a \in Nat /\ n \in Nat \ {0} /\ a + n <= FlashSize
  BY BlockSizeNat DEF Write, Update, Read, Called
<1>2. /\ b \in 0 .. (NumBlocks - 1) /\ o \in 0 .. (BlockSize - 1)
      /\ b * BlockSize \in Nat /\ b * BlockSize + o = a
      /\ m \in Nat \ {0} /\ m <= n
      /\ o + m <= BlockSize /\ (m < n => o + m = BlockSize)
  <2>1. b \in 0 .. (NumBlocks - 1) => b * BlockSize \in Nat
    BY BlockSizeNat
  <2>2. /\ b \in 0 .. (NumBlocks - 1) /\ o \in 0 .. (BlockSize - 1)
        /\ b * BlockSize + o = a
        /\ m \in Nat \ {0} /\ m <= n
        /\ a + m <= b * BlockSize + BlockSize
        /\ m < n => a + m = b * BlockSize + BlockSize
    BY <1>1, FirstPartOf
  <2> HIDE DEF b, o, m, BlockSize
  <2> QED
    BY <1>1, <2>1, <2>2, BlockSizeNat
<1> HIDE DEF b, o, m, BlockSize, FlashSize
<1>3. CASE Write(a, n)
  <2> DEFINE w == [from |-> 0, to |-> a, len |-> 0]
  <2>1. /\ op' = "write" /\ addr' = a /\ size' = n /\ left' = n /\ piece' = w /\ ok' = TRUE
        /\ WriteBlock(b, o, m)
    BY <1>3 DEF Write, Called, b, o, m
  <2>2. Shares(a, n, n, w, b, o, m)
    BY <1>1, <1>2, BlockSizeNat DEF Shares
  <2>3. InPlace' /\ FitsPage'
    <3>1. a % UnitsPerPage \in 0 .. (UnitsPerPage - 1)
      BY <1>1, Division
    <3> QED
      BY <1>1, <2>1, <3>1 DEF InPlace, FitsPage
  <2> QED
    BY <2>1, <2>2, <2>3, WriteBlockInv
<1>4. CASE Update(a, n)
  <2> DEFINE w == [from |-> a, to |-> a, len |-> 0]
  <2>1. /\ op' = "update" /\ addr' = a /\ size' = n /\ left' = n /\ piece' = w /\ ok' = TRUE
        /\ UpdateBlock(b, o, m)
    BY <1>4 DEF Update, Called, b, o, m
  <2>2. Shares(a, n, n, w, b, o, m)
    BY <1>1, <1>2, BlockSizeNat DEF Shares
  <2>3. InPlace' /\ FitsPage'
    <3>1. a % UnitsPerPage \in 0 .. (UnitsPerPage - 1)
      BY <1>1, Division
    <3> QED
      BY <1>1, <2>1, <3>1 DEF InPlace, FitsPage
  <2> QED
    BY <2>1, <2>2, <2>3, UpdateBlockInv
<1>5. CASE Read(a, n)
  <2>1. /\ page' \in 0 .. (PagesPerBlock - 1) /\ off' \in 0 .. (UnitsPerPage - 1)
        /\ Here' = a /\ blk' = b
    BY <1>2, <1>5, PlaceInBlock DEF Read, Here, b, o
  <2> QED
    BY <1>1, <1>2, <1>5, <2>1
       DEF Read, Called, RangeInv, TypeOK, Within, PartInv, PagesInv, UnitsInv, ReturnInv,
           WalkInv, InPlace, AllMoved, FitsPage, OnlyEndReadsFail
<1> QED
  BY <1>3, <1>4, <1>5

LEMMA NextBlockInv == RangeInv /\ NextBlock => RangeInv'
<1> SUFFICES ASSUME RangeInv, NextBlock PROVE RangeInv'
  OBVIOUS
<1>1. /\ pc = "return" /\ op \in {"write", "update"}
      /\ part \in Nat \ {0} /\ left \in Nat /\ size \in Nat \ {0} /\ addr \in Nat
      /\ part <= left /\ left <= size /\ addr + size <= FlashSize
      /\ part < left => addr + ((size - left) + part) = blk * BlockSize + BlockSize
      /\ piece \in [from : Nat, to : Nat, len : Nat]
      /\ piece.to + piece.len = addr + ((size - left) + part)
      /\ ok = TRUE /\ blk \in Nat /\ InPlace /\ FitsPage
  BY DEF RangeInv, NextBlock, TypeOK, Within, PartInv, ReturnInv, Cut, End, OnlyEndReadsFail
<1>2. left' = left - part /\ UNCHANGED <<op, addr, size, piece, ok>>
  BY DEF NextBlock
<1>3. CASE left' = 0
  <2>1. pc' = "idle" /\ UNCHANGED <<blk, part, page, off, todo, pos>>
    BY <1>3 DEF NextBlock
  <2>2. AllMoved'
    BY <1>1, <1>2, <1>3 DEF AllMoved, Moved
  <2> QED
    BY <1>1, <1>2, <1>3, <2>1, <2>2
       DEF RangeInv, TypeOK, Within, PartInv, PagesInv, UnitsInv, ReturnInv, WalkInv,
           InPlace, FitsPage, OnlyEndReadsFail
<1>4. CASE left' # 0
  <2>1. (blk + 1) * BlockSize = blk * BlockSize + BlockSize /\ blk * BlockSize \in Nat
    BY <1>1, BlockSizeNat, Multiples
  <2>2. blk + 1 < NumBlocks
    <3>1. (blk + 1) * BlockSize < FlashSize
      <4> HIDE DEF BlockSize, FlashSize
      <4> QED
        BY <1>1, <1>2, <1>4, <2>1, BlockSizeNat
    <3> QED
      BY <1>1, <3>1, Steps
  <2>3. NextPart = Least(BlockSize, left')
    BY DEF NextPart
  <2> DEFINE l == left - part
             n == Least(BlockSize, l)
  <2>4. Shares(addr, size, l, piece, blk + 1, 0, n)
    <3>1. l \in Nat \ {0} /\ l <= size
      BY <1>1, <1>2, <1>4
    <3>2. blk + 1 \in 0 .. (NumBlocks - 1) /\ 0 \in 0 .. (BlockSize - 1)
      BY <1>1, <2>2, BlockSizeNat
    <3>3. /\ addr + (size - l) = (blk + 1) * BlockSize + 0
          /\ piece.to + piece.len = addr + (size - l)
      BY <1>1, <1>2, <1>4, <2>1, <3>1, BlockSizeNat
    <3> HIDE DEF l, BlockSize, FlashSize
    <3>4. /\ n \in Nat \ {0} /\ n <= l
          /\ 0 + n <= BlockSize /\ (n < l => 0 + n = BlockSize)
      BY <3>1, BlockSizeNat DEF Least
    <3> QED
      BY <1>1, <3>1, <3>2, <3>3, <3>4 DEF Shares
  <2>5. InPlace' /\ FitsPage'
    BY <1>1, <1>2 DEF InPlace, FitsPage
  <2>6. /\ op' = op /\ addr' = addr /\ size' = size /\ left' = l /\ piece' = piece /\ ok' = TRUE
        /\ \/ op = "write" /\ WriteBlock(blk + 1, 0, n)
           \/ op = "update" /\ UpdateBlock(blk + 1, 0, n)
    BY <1>1, <1>2, <1>4, <2>3 DEF NextBlock
  <2> HIDE DEF l, n
  <2> QED
    BY <2>4, <2>5, <2>6, WriteBlockInv, UpdateBlockInv
<1> QED
  BY <1>3, <1>4

(***************************************************************************)
(* The theorems.                                                           *)
(***************************************************************************)
\* No step of a call, nor the call, leaves the invariant.
LEMMA NextInv == RangeInv /\ [Next]_vars => RangeInv'
<1> SUFFICES ASSUME RangeInv, [Next]_vars PROVE RangeInv'
  OBVIOUS
<1>1. CASE Call
  BY <1>1, CallInv
<1>2. CASE PageLoop
  BY <1>2, PageLoopInv
<1>3. CASE UnitLoop
  BY <1>3, UnitLoopInv
<1>4. CASE BlockDone
  BY <1>4, BlockDoneInv
<1>5. CASE NextBlock
  BY <1>5, NextBlockInv
<1>6. CASE WalkLoop
  BY <1>6, WalkLoopInv
<1>7. CASE WalkDone
  BY <1>7, WalkDoneInv
<1>8. CASE UNCHANGED vars
  BY <1>8 DEF vars, RangeInv, TypeOK, Within, PartInv, PagesInv, UnitsInv, ReturnInv, WalkInv,
     Cut, Start, End, Here, InPlace, AllMoved, Moved, FitsPage, OnlyEndReadsFail
<1> QED
  BY <1>1, <1>2, <1>3, <1>4, <1>5, <1>6, <1>7, <1>8 DEF Next, Loop

LEMMA Invariant == Spec => []RangeInv
BY InitInv, NextInv, PTL DEF Spec

\* The state of a call has its type: every block it goes to is of the flash
\* and every page of the block, so that no pointer of the lists is NULL.
THEOREM TypeCorrect == Spec => []TypeOK
<1>1. RangeInv => TypeOK
  BY DEF RangeInv
<1> QED
  BY <1>1, Invariant, PTL

\* Every word goes to the address that is as far from the call's as it is
\* from the buffer's (vflash_write, vflash_read), every unit to its record
\* (vflash_config_update).
THEOREM WordsInPlace == Spec => []InPlace
<1>1. RangeInv => InPlace
  BY DEF RangeInv
<1> QED
  BY <1>1, Invariant, PTL

\* A call that is over has moved its last word, however many blocks and pages
\* its range is cut into.
THEOREM WholeRangeMoved == Spec => []AllMoved
<1>1. RangeInv => AllMoved
  BY DEF RangeInv
<1> QED
  BY <1>1, Invariant, PTL

\* vblock_write never gives vpage_write a piece that crosses the page, which
\* that would refuse without vblock_write's noticing.
THEOREM PiecesFitPage == Spec => []FitsPage
<1>1. RangeInv => FitsPage
  BY DEF RangeInv
<1> QED
  BY <1>1, Invariant, PTL

\* Within the flash only a read of its last word fails, and that one has read
\* all (AllMoved).
THEOREM FailsOnlyAtEnd == Spec => []OnlyEndReadsFail
<1>1. RangeInv => OnlyEndReadsFail
  BY DEF RangeInv
<1> QED
  BY <1>1, Invariant, PTL

\* A call goes on where it was: vblock_write over pages and vflash_write over
\* blocks, vflash_config_update over records and vflash_read over its buffer
\* skip no word and move none twice.
THEOREM NoGaps == Spec => Gapless
<1> DEFINE GoesOn == pc # "idle" /\ piece' # piece => piece'.to = piece.to + piece.len
<1>1. RangeInv /\ [Next]_vars => [GoesOn]_vars
  <2> SUFFICES ASSUME RangeInv, [Next]_vars PROVE [GoesOn]_vars
    OBVIOUS
  <2>1. CASE Call
    BY <2>1 DEF Call, Write, Update, Read, Called
  <2>2. CASE PageLoop
    <3>1. Here = addr + pos /\ piece.to + piece.len = addr + pos
      BY <2>2 DEF RangeInv, PagesInv, PageLoop
    <3>2. piece' # piece => piece'.to = Here
      BY <2>2 DEF PageLoop, Move
    <3> QED
      BY <3>1, <3>2
  <2>3. CASE UnitLoop
    BY <2>3 DEF RangeInv, UnitsInv, UnitLoop, Move
  <2>4. CASE WalkLoop
    BY <2>4 DEF RangeInv, WalkInv, WalkLoop, Move
  <2>5. CASE BlockDone \/ NextBlock \/ WalkDone
    BY <2>5 DEF BlockDone, NextBlock, WalkDone
  <2>6. CASE UNCHANGED vars
    BY <2>6 DEF vars
  <2> QED
    BY <2>1, <2>2, <2>3, <2>4, <2>5, <2>6 DEF Next, Loop
<1> QED
  BY <1>1, Invariant, PTL DEF Spec, Gapless
=============================================================================
