----------------------------- MODULE FlashImage -----------------------------
(***************************************************************************)
(* The flash in RAM and the file xxx.config it is kept in between runs of  *)
(* the program.  A run imports the file if it has the full size, and       *)
(* starts with a blank flash otherwise; it then exports the flash, which   *)
(* truncates the file and writes it anew.  From then on every change of    *)
(* the RAM flash is followed by an update that copies the units of the     *)
(* changed range one after the other.  The process may be killed between   *)
(* any two file writes.                                                    *)
(*                                                                         *)
(* This module holds what FatDisk and LfsDisk share: the file, the call    *)
(* being served and the correctness conditions.  They add the operations   *)
(* and the specification.                                                  *)
(***************************************************************************)
EXTENDS VFlash

CONSTANTS
    Straddle,   \* slots whose 16-byte record crosses a 4096-byte file block
    IOErrors,   \* may opening, reading or writing the file fail?
    Spared      \* the sectors a failing export writes right (a bound)

ASSUME ImageAssumption ==
    /\ Straddle \subseteq Slots
    /\ IOErrors \in BOOLEAN
    /\ Spared \subseteq Sectors

VARIABLES
    pc,     \* where the process is; "down" when there is none
    ram,    \* the units in memory
    img,    \* the unit records in the file
    whole,  \* does the file have the size its header asks for?
    named,  \* is flash->file_name set?
    todo,   \* units the running update has still to copy
    half,   \* is the first of them written up to its "used" byte only?
    call    \* the call being served: the words it asks for, and (history)
            \* the words those units held when it began

imageVars == <<ram, img, whole, named, todo, half>>

NoWords == [u \in {} |-> Blank]
NoCall == [op |-> "none", new |-> NoWords, old |-> NoWords]

\* The units the running call is about.
InFlight == DOMAIN call.new

\* Is a call being served?
Running == pc \notin {"down", "loaded", "saving", "idle"}

\* The user calls op, which asks for the words d.
Enter(op, d) ==
    /\ pc = "idle"
    /\ call' = [op |-> op, new |-> d, old |-> Contents(ram, DOMAIN d)]

ImageTypeOK ==
    /\ ram \in Flash
    /\ img \in Flash
    /\ whole \in BOOLEAN
    /\ named \in BOOLEAN
    /\ todo \in SUBSET Units
    /\ half \in BOOLEAN
    /\ InFlight \in SUBSET Units
    /\ call.new \in [InFlight -> Words]
    /\ call.old \in [InFlight -> Words]

ImageInit ==
    /\ pc = "down"
    /\ ram = BlankFlash
    /\ img = BlankFlash
    /\ whole = FALSE
    /\ named = FALSE
    /\ todo = {}
    /\ half = FALSE
    /\ call = NoCall

\* What the next run of the program will find.
Stored == IF whole THEN img ELSE BlankFlash

\* fimport takes a file of the right size, and its name; on any other file
\* it fails and the device is initialised blank.
Import ==
    /\ pc = "down"
    /\ pc' = "loaded"
    /\ ram' = Stored
    /\ named' = whole
    /\ UNCHANGED <<img, whole, todo, half, call>>

\* fimport cannot open, seek or read the file: the device is initialised
\* blank, as for a file that is not there, and exports that over the file.
ImportFails ==
    /\ IOErrors
    /\ pc = "down"
    /\ pc' = "loaded"
    /\ ram' = BlankFlash
    /\ named' = FALSE
    /\ UNCHANGED <<img, whole, todo, half, call>>

\* fexport opens the file with "wb": the old contents are gone.
Truncate ==
    /\ pc = "loaded"
    /\ pc' = "saving"
    /\ whole' = FALSE
    /\ img' = BlankFlash
    /\ UNCHANGED <<ram, named, todo, half, call>>

\* fexport closes the file with every unit in it.  A kill before this point
\* leaves a short file, and no import reads a short file: how much of it was
\* written makes no difference.
Saved ==
    /\ pc = "saving"
    /\ pc' = "idle"
    /\ whole' = TRUE
    /\ img' = ram
    /\ named' = TRUE
    /\ UNCHANGED <<ram, todo, half, call>>

\* fexport cannot open the file; the device's init ignores that.
NotSaved ==
    /\ IOErrors
    /\ pc = "loaded"
    /\ pc' = "idle"
    /\ UNCHANGED <<imageVars, call>>

\* Writes of fexport fail, which the device's init ignores.  A failing header
\* ends fexport before it takes the name; failing pages are only reported.
\* The file is short: what was lost is missing, and what was written after it
\* lies further in front, so that its records hold anything.
SaveFails ==
    /\ IOErrors
    /\ pc = "saving"
    /\ pc' = "idle"
    /\ img' \in {f \in Flash : \A u \in Units : u[1] \in Spared => f[u] = ram[u]}
    /\ named' \in {named, TRUE}
    /\ UNCHANGED <<ram, whole, todo, half, call>>

Startup == Import \/ ImportFails \/ Truncate \/ Saved \/ NotSaved \/ SaveFails

\* The first part of a record that crosses a file block reaches the file
\* alone: "used" is its first byte, "data" its last four.
CopyHalf ==
    /\ named /\ ~half
    /\ \E u \in todo :
         /\ \A v \in todo : Before(u, v)
         /\ u[2] \in Straddle
         /\ img' = [img EXCEPT ![u].used = ram[u].used]
    /\ half' = TRUE
    /\ UNCHANGED <<pc, ram, whole, named, todo, call>>

\* A mutant of CopyUnit: the record without its "used" byte.
CopyUnitDataOnly(u) ==
    /\ named
    /\ \A v \in todo : Before(u, v)
    /\ u[2] \in Straddle => half
    /\ img' = [img EXCEPT ![u].data = ram[u].data]
    /\ todo' = todo \ {u}
    /\ half' = FALSE
    /\ UNCHANGED <<ram, whole, named>>

\* One fwrite of an update that goes on after it.  The update opens the file
\* with "r+": the record of the last unit gives a short file its full size,
\* which an import takes if the header is there.
CopyUnit(u) ==
    /\ named
    /\ \A v \in todo : Before(u, v)
    /\ u[2] \in Straddle => half
    /\ img' = [img EXCEPT ![u] = ram[u]]
    /\ whole' \in {whole, whole \/ \A v \in Units : Before(v, u)}
    /\ todo' = todo \ {u}
    /\ half' = FALSE
    /\ UNCHANGED <<ram, named>>

\* A record is lost in a fclose that fails, whose result nobody looks at.
CopyLost(u) ==
    /\ IOErrors
    /\ named
    /\ \A v \in todo : Before(u, v)
    /\ todo' = todo \ {u}
    /\ half' = FALSE
    /\ UNCHANGED <<ram, img, whole, named>>

\* A mutant of CopyFails: a failed update is tried again.
CopyFailsAndRetries ==
    /\ ~named \/ IOErrors
    /\ half' = FALSE
    /\ UNCHANGED <<ram, img, whole, named, todo>>

\* The update fails: no file name, or the file cannot be opened or written.
CopyFails ==
    /\ ~named \/ IOErrors
    /\ todo' = {}
    /\ half' = FALSE
    /\ UNCHANGED <<ram, img, whole, named>>

\* A write to the file within an update; the call goes on when the update is
\* over, whether it was a success or not.
Copy == (\E u \in todo : CopyUnit(u) \/ CopyLost(u)) \/ CopyFails

\* The process ends or is killed: the RAM flash is lost, the file stays.
Lose ==
    /\ pc # "down"
    /\ pc' = "down"
    /\ ram' = BlankFlash
    /\ named' = FALSE
    /\ todo' = {}
    /\ half' = FALSE
    /\ call' = NoCall
    /\ UNCHANGED <<img, whole>>
-----------------------------------------------------------------------------
\* Between calls the image file is complete and holds what memory holds, so
\* that a kill loses nothing: every operation updates the image before it
\* returns (myfat.c:224 and 299, mylfs.c:80 and 121).  Without I/O errors.
Synced == pc = "idle" => whole /\ img = ram

\* While a call is served, whatever the call is not about reads the same from
\* memory and from the file: fat_erase_sector erases a whole block, but no
\* state of the file shows a sector erased that had to be written back.
CrashSafe ==
    Running =>
        /\ whole
        /\ \A u \in Units \ InFlight : img[u].data = ram[u].data

\* A unit that is not marked used is blank: what fat_over_write_detect takes
\* for free, and vpage_write does not refuse, can indeed be programmed.
FreeIsBlank == \A u \in Units : ~ram[u].used => ram[u].data = Blank

(***************************************************************************)
(* What a driver promises to its file system: SectorDisk, whose store is   *)
(* what a reader, in this run of the program or the next one, can count on. *)
(***************************************************************************)
Store ==
    [u \in Units |->
        IF pc = "down" THEN Stored[u].data
        ELSE IF u \in InFlight THEN call.old[u]
        ELSE ram[u].data]

Mode ==
    CASE pc = "down" -> "off"
      [] pc \in {"loaded", "saving"} -> "starting"
      [] pc = "idle" -> "on"
      [] OTHER -> "busy"

Disk == INSTANCE SectorDisk
          WITH store <- Store, mode <- Mode, target <- call.new

\* The driver on its image file implements the sector disk.
ImplementsDisk == Disk!Spec
=============================================================================
