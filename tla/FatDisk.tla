------------------------------ MODULE FatDisk -------------------------------
(***************************************************************************)
(* The disk driver of myfat.c, which FatFs calls through ff_gen_drv: sector *)
(* writes and trims on the flash.  A sector in use is rewritten by reading *)
(* its block to a buffer, erasing the block, writing the other sectors     *)
(* back and copying the block to the image file, and only then writing the *)
(* new contents and copying them.                                          *)
(***************************************************************************)
EXTENDS FlashImage

CONSTANT MaxCount   \* the largest sector count a caller asks for

ASSUME MaxCountAssumption == MaxCount \in Nat \ {0}

VARIABLES
    from,   \* the sectors the running fat_erase_sector has still to erase
    upto,   \* are from..upto
    result  \* what the last call returned

cursor == <<from, upto>>
vars == <<pc, ram, img, whole, named, todo, half, call, from, upto, result>>

TypeOK ==
    /\ ImageTypeOK
    /\ pc \in {"down", "loaded", "saving", "idle",
               "erase", "ecopy", "program", "pcopy"}
    /\ call.op \in {"none", "write", "trim"}
    /\ from \in Int /\ upto \in Int
    /\ result \in {"none", "ok", "synced", "error"}

NoCursor == from' = 0 /\ upto' = -1

Init ==
    /\ ImageInit
    /\ from = 0 /\ upto = -1
    /\ result = "none"

Start == Startup /\ UNCHANGED <<cursor, result>>

\* Two mutants of OverWriteDetect: a loop that starts at the second unit, and
\* one that looks at the first unit only.
OverWriteDetectFromSecond(s) == \E u \in UnitsOf({s}) : u[2] > 0 /\ ram[u].used
OverWriteDetectFirst(s) == ram[<<s, 0>>].used

\* fat_over_write_detect: only the page of the first sector is looked at.
OverWriteDetect(s) == \E u \in UnitsOf({s}) : ram[u].used

\* fat_disk_write up to where it has decided to erase or not.  It asks for
\* the erase of one sector, whatever the count.
Write(s, n, d) ==
    /\ Enter("write", d)
    /\ result' = "none"
    /\ IF OverWriteDetect(s)
         THEN pc' = "erase" /\ from' = s /\ upto' = s
         ELSE pc' = "program" /\ UNCHANGED cursor
    /\ UNCHANGED imageVars

\* fat_disk_ioctl with CTRL_TRIM: the sectors s..e, both included.
Trim(s, e) ==
    /\ Enter("trim", [u \in UnitsOf(s..e) |-> Blank])
    /\ result' = "none"
    /\ pc' = "erase" /\ from' = s /\ upto' = e
    /\ UNCHANGED imageVars

\* A mutant of EraseBlock: only the sectors in front of the range are written
\* back.
EraseBlockKeepsFront ==
    /\ pc = "erase"
    /\ LET b == BlockOf(from)
           next == (b + 1) * SecPerBlock
           erased == BlockUnits(b)
           kept == {u \in erased : u[1] < from}
       IN /\ ram' = Program(EraseUnits(ram, erased), Contents(ram, kept))
          /\ todo' = erased
          /\ from' = IF upto < next THEN upto + 1 ELSE next
    /\ pc' = "ecopy"
    /\ UNCHANGED <<img, whole, named, half, call, upto, result>>

\* One pass of the loop of fat_erase_sector, up to the update of the image.
EraseBlock ==
    /\ pc = "erase"
    /\ LET b == BlockOf(from)
           next == (b + 1) * SecPerBlock
           erased == BlockUnits(b)
           kept == erased \ UnitsOf(from..upto)
       IN /\ ram' = Program(EraseUnits(ram, erased), Contents(ram, kept))
          /\ todo' = erased
          /\ from' = IF upto < next THEN upto + 1 ELSE next
    /\ pc' = "ecopy"
    /\ UNCHANGED <<img, whole, named, half, call, upto, result>>

\* A mutant of AfterErase: a last sector alone in its block is not erased.
AfterEraseButLast ==
    IF from < upto THEN "erase"
    ELSE IF call.op = "write" THEN "program" ELSE "idle"

\* Where the control goes when the update of an erased block is over.
AfterErase ==
    IF from <= upto THEN "erase"
    ELSE IF call.op = "write" THEN "program" ELSE "idle"

\* Back in FatFs with RES_OK, or on with the call.
ReturnIfIdle ==
    IF pc' = "idle"
      THEN call' = NoCall /\ result' = "ok" /\ NoCursor
      ELSE UNCHANGED <<call, result, cursor>>

CopyErased ==
    /\ pc = "ecopy"
    /\ Copy
    /\ pc' = IF todo' # {} THEN "ecopy" ELSE AfterErase
    /\ ReturnIfIdle

\* flash->write of the whole range.
ProgramRange ==
    /\ pc = "program"
    /\ ram' = Program(ram, call.new)
    /\ todo' = InFlight
    /\ pc' = "pcopy"
    /\ UNCHANGED <<img, whole, named, half, call, cursor, result>>

CopyProgrammed ==
    /\ pc = "pcopy"
    /\ Copy
    /\ pc' = IF todo' # {} THEN "pcopy" ELSE "idle"
    /\ ReturnIfIdle

CopyTorn == CopyHalf /\ UNCHANGED <<cursor, result>>

\* fat_disk_read of n sectors.  vflash_read moves to the next unit before it
\* looks at what is left to read, and fails when there is no next block
\* (FlashRange).
Read(s, n) ==
    /\ pc = "idle"
    /\ result' = IF s + n = NumBlocks * SecPerBlock THEN "error" ELSE "ok"
    /\ UNCHANGED <<pc, imageVars, call, cursor>>

\* fat_disk_ioctl with CTRL_SYNC: RES_OK, and nothing else.
Sync ==
    /\ pc = "idle"
    /\ result' = "synced"
    /\ UNCHANGED <<pc, imageVars, call, cursor>>

Crash ==
    /\ Lose
    /\ NoCursor
    /\ result' = "none"

Ranges == {r \in Sectors \X (1..MaxCount) : r[1] + r[2] <= NumBlocks * SecPerBlock}

Invoke ==
    \/ \E r \in Ranges : \E d \in [UnitsOf(r[1]..(r[1] + r[2] - 1)) -> Words] :
         Write(r[1], r[2], d)
    \/ \E s \in Sectors : \E e \in Sectors : s <= e /\ Trim(s, e)
    \/ \E r \in Ranges : Read(r[1], r[2])
    \/ Sync

\* The steps of the process between two calls of its user.
Work == Start \/ EraseBlock \/ CopyErased \/ ProgramRange \/ CopyProgrammed \/ CopyTorn

Next == Work \/ Invoke \/ Crash

Spec == Init /\ [][Next]_vars

\* A process that is not killed goes on working; nobody has to call it, kill
\* it or start it again (its first step is the import).
FairSpec == Spec /\ WF_vars(pc # "down" /\ Work)
-----------------------------------------------------------------------------
\* When a write has programmed the flash, memory holds the words asked for:
\* nothing in the way was still in use (myfat.c:284-292).
WriteLands == pc = "pcopy" => Contents(ram, InFlight) = call.new

\* The same, but for all-ones words, which vpage_write skips: it holds even
\* after a kill in the middle of a unit record.
NonBlankWordsLand ==
    pc = "pcopy" =>
        \A u \in InFlight : call.new[u] # Blank => ram[u].data = call.new[u]

\* Every call returns, unless the process is killed.
CallsReturn == Running ~> pc \in {"idle", "down"}
=============================================================================
