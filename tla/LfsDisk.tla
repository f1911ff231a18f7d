------------------------------ MODULE LfsDisk -------------------------------
(***************************************************************************)
(* The block device mylfs.c gives to littlefs: program a page of a block,  *)
(* erase a block.  prog_size, read_size and cache_size are the page size,  *)
(* so littlefs programs one page at a time; it programs only what reads as *)
(* erased.  lfs_read and lfs_sync change nothing but a counter.            *)
(***************************************************************************)
EXTENDS FlashImage

vars == <<pc, ram, img, whole, named, todo, half, call>>

TypeOK ==
    /\ ImageTypeOK
    /\ pc \in {"down", "loaded", "saving", "idle", "copy"}
    /\ call.op \in {"none", "prog", "erase"}

Init == ImageInit

\* A mutant of Prog: the update forgets the first unit of the page.
ProgUpdatesTail(d) ==
    /\ Enter("prog", d)
    /\ ram' = Program(ram, d)
    /\ todo' = {u \in DOMAIN d : u[2] > 0}
    /\ pc' = "copy"
    /\ UNCHANGED <<img, whole, named, half>>

\* lfs_prog up to the update: an update starts even when a unit in the way
\* made vpage_write stop, for vblock_write does not tell.
Prog(d) ==
    /\ Enter("prog", d)
    /\ ram' = Program(ram, d)
    /\ todo' = DOMAIN d
    /\ pc' = "copy"
    /\ UNCHANGED <<img, whole, named, half>>

\* lfs_erase up to the update.
Erase(b) ==
    /\ Enter("erase", [u \in BlockUnits(b) |-> Blank])
    /\ ram' = EraseUnits(ram, BlockUnits(b))
    /\ todo' = BlockUnits(b)
    /\ pc' = "copy"
    /\ UNCHANGED <<img, whole, named, half>>

\* Both return 0 when the update is over, and also when it failed.
CopyOn ==
    /\ pc = "copy"
    /\ Copy
    /\ pc' = IF todo' # {} THEN "copy" ELSE "idle"
    /\ IF pc' = "idle" THEN call' = NoCall ELSE UNCHANGED call

\* A mutant of ReadsErased: any page may be programmed.
ReadsAnything(s) == TRUE

\* What littlefs may program: a page that reads as erased.
ReadsErased(s) == \A u \in UnitsOf({s}) : ram[u].data = Blank

Invoke ==
    \/ \E s \in Sectors :
         /\ ReadsErased(s)
         /\ \E d \in [UnitsOf({s}) -> Words] : Prog(d)
    \/ \E b \in 0 .. (NumBlocks - 1) : Erase(b)

Work == Startup \/ CopyOn \/ CopyHalf

Next == Work \/ Invoke \/ Lose

Spec == Init /\ [][Next]_vars

\* As for FatDisk: a process that is not killed goes on working.
FairSpec == Spec /\ WF_vars(pc # "down" /\ Work)
-----------------------------------------------------------------------------
\* While a program or an erase is copied to the image, memory already holds
\* what was asked for: what read as erased could be programmed.
CallLands == pc = "copy" => Contents(ram, InFlight) = call.new

\* Every call returns, unless the process is killed.
CallsReturn == Running ~> pc \in {"idle", "down"}
=============================================================================
