------------------------- MODULE FlashImageProofs ---------------------------
(***************************************************************************)
(* Facts about the flash and its image file that the proofs about FatDisk  *)
(* and LfsDisk rest on, for every geometry.                                *)
(***************************************************************************)
EXTENDS FlashImage, TLAPS

(***************************************************************************)
(* What erasing and programming do to a flash.                             *)
(***************************************************************************)

\* vblock_erase leaves a flash.
LEMMA EraseUnitsTyped ==
    ASSUME NEW f \in Flash, NEW U
    PROVE  EraseUnits(f, U) \in Flash
BY GeometryAssumption DEF EraseUnits, Flash, VUnit, Erased

\* Writing words to a flash (vpage_write on each page) leaves a flash.
LEMMA ProgramTyped ==
    ASSUME NEW f \in Flash, NEW D \in SUBSET Units, NEW d \in [D -> Words]
    PROVE  Program(f, d) \in Flash
BY DEF Program, Flash, VUnit

\* vpage_write touches no unit outside its range.
LEMMA ProgramElsewhere ==
    ASSUME NEW f, NEW d, NEW u \in Units, u \notin DOMAIN d
    PROVE  Program(f, d)[u] = f[u]
BY DEF Program

\* Where no unit of the range is in use and all of them are blank, a write
\* leaves exactly its words.
LEMMA ProgramFree ==
    ASSUME NEW f \in Flash, NEW D \in SUBSET Units, NEW d \in [D -> Words],
           \A v \in D : ~f[v].used /\ f[v].data = Blank
    PROVE  Contents(Program(f, d), D) = d
<1>1. ASSUME NEW u \in D PROVE Program(f, d)[u].data = d[u]
  <2>1. ~GivenUp(f, DOMAIN d, u)
    BY DEF GivenUp
  <2>2. Program(f, d)[u] = IF d[u] # Blank THEN [used |-> TRUE, data |-> d[u]] ELSE f[u]
    BY <2>1 DEF Program
  <2>. QED  BY <2>2
<1>. QED  BY <1>1 DEF Contents

\* Erasing units and writing some of them back from a buffer leaves the words
\* of those, and of the units that were not erased, as they were.
LEMMA WriteBack ==
    ASSUME NEW f \in Flash, NEW U \in SUBSET Units, NEW K \in SUBSET U,
           NEW u \in Units, u \in K \/ u \notin U
    PROVE  Program(EraseUnits(f, U), Contents(f, K))[u].data = f[u].data
<1>. DEFINE e == EraseUnits(f, U)
            d == Contents(f, K)
<1>1. DOMAIN d = K
  BY DEF Contents
<1>2. CASE u \in K
  <2>1. \A v \in K : e[v] = Erased
    BY DEF EraseUnits
  <2>2. ~GivenUp(e, K, u)
    BY <2>1 DEF GivenUp, Erased
  <2>3. d[u] = f[u].data
    BY <1>2 DEF Contents
  <2>4. Program(e, d)[u] = IF d[u] # Blank THEN [used |-> TRUE, data |-> d[u]] ELSE e[u]
    BY <1>1, <1>2, <2>2 DEF Program
  <2>5. e[u].data = Blank
    BY <1>2, <2>1 DEF Erased
  <2>. QED  BY <2>3, <2>4, <2>5
<1>3. CASE u \notin U
  <2>1. u \notin DOMAIN d
    BY <1>1, <1>3
  <2>2. Program(e, d)[u] = e[u]
    BY <2>1, ProgramElsewhere
  <2>. QED  BY <1>3, <2>2 DEF EraseUnits
<1>. QED  BY <1>2, <1>3
-----------------------------------------------------------------------------
(***************************************************************************)
(* The steps both drivers share.                                           *)
(***************************************************************************)
LEMMA BlankFlashTyped == BlankFlash \in Flash
BY GeometryAssumption DEF BlankFlash, Flash, VUnit, Erased

LEMMA NoCallTyped ==
    /\ DOMAIN NoCall.new = {}
    /\ NoCall.new \in [{} -> Words] /\ NoCall.old \in [{} -> Words]
    /\ NoCall.op = "none"
BY DEF NoCall, NoWords

\* What a call is given and what the units held make a call record.
LEMMA EnterTyped ==
    ASSUME ImageTypeOK, NEW D \in SUBSET Units, NEW d \in [D -> Words], NEW op, Enter(op, d)
    PROVE  /\ InFlight' = D /\ call'.new = d /\ call'.op = op
           /\ call'.old = Contents(ram, D)
           /\ call'.new \in [D -> Words] /\ call'.old \in [D -> Words]
<1>1. Contents(ram, D) \in [D -> Words]
  BY DEF Contents, ImageTypeOK, Flash, VUnit
<1>2. DOMAIN d = D
  OBVIOUS
<1>. QED  BY <1>1, <1>2 DEF Enter, InFlight

\* A call that goes on keeps its record well typed.
LEMMA CallKept ==
    ASSUME ImageTypeOK, UNCHANGED call
    PROVE  /\ InFlight' = InFlight /\ InFlight' \in SUBSET Units
           /\ call'.new \in [InFlight' -> Words] /\ call'.old \in [InFlight' -> Words]
BY DEF ImageTypeOK, InFlight

LEMMA NoInFlight == call' = NoCall => /\ InFlight' = {} /\ call'.op = "none"
                                      /\ call'.new \in [InFlight' -> Words]
                                      /\ call'.old \in [InFlight' -> Words]
BY NoCallTyped DEF InFlight

\* The start of a run of the program preserves the types.
LEMMA StartupTyped ==
    ASSUME ImageTypeOK, Startup
    PROVE  ImageTypeOK' /\ pc' \in {"loaded", "saving", "idle"}
BY BlankFlashTyped, CallKept
DEF ImageTypeOK, Startup, Import, ImportFails, Truncate, Saved, NotSaved, SaveFails, imageVars, Stored

\* So does every file write of an update.
LEMMA CopyTyped ==
    ASSUME ImageTypeOK, Copy
    PROVE  /\ ram' \in Flash /\ img' \in Flash /\ whole' \in BOOLEAN
           /\ named' \in BOOLEAN /\ todo' \in SUBSET Units /\ half' \in BOOLEAN
<1>1. ASSUME NEW u \in todo, CopyUnit(u)
      PROVE  img' \in Flash
  BY <1>1 DEF CopyUnit, ImageTypeOK, Flash
<1>2. CASE CopyFails
  BY <1>2 DEF ImageTypeOK, CopyFails
<1>3. CASE \E u \in todo : CopyUnit(u)
  BY <1>1, <1>3 DEF ImageTypeOK, CopyUnit
<1>4. CASE \E u \in todo : CopyLost(u)
  BY <1>4 DEF ImageTypeOK, CopyLost
<1>. QED  BY <1>2, <1>3, <1>4 DEF Copy

LEMMA CopyHalfTyped ==
    ASSUME ImageTypeOK, CopyHalf
    PROVE  ImageTypeOK' /\ pc' = pc
<1>1. img' \in Flash
  <2>1. PICK u \in todo : img' = [img EXCEPT ![u].used = ram[u].used]
    BY DEF CopyHalf
  <2>. QED  BY <2>1 DEF ImageTypeOK, Flash, VUnit
<1>. QED  BY <1>1, CallKept DEF CopyHalf, ImageTypeOK

LEMMA LoseTyped == ImageTypeOK /\ Lose => ImageTypeOK' /\ pc' = "down"
BY BlankFlashTyped, NoInFlight DEF ImageTypeOK, Lose

\* The file writes of an update leave memory alone.
LEMMA CopyKeepsMemory == Copy => ram' = ram
BY DEF Copy, CopyUnit, CopyLost, CopyFails

\* A file write of an update that cannot fail: what it has still to copy gets
\* less, the rest of the file is equal to memory, and in the end all of it.
LEMMA CopyCatchesUp ==
    ASSUME ~IOErrors, ImageTypeOK, named, whole, Copy,
           \A u \in Units \ todo : img[u] = ram[u]
    PROVE  /\ named' /\ whole' = whole /\ ram' = ram /\ todo' \in SUBSET todo
           /\ \A u \in Units \ todo' : img'[u] = ram'[u]
           /\ \A u \in todo' : img'[u] = img[u]
           /\ todo' = {} => img' = ram'
<1>1. PICK u \in todo : CopyUnit(u)
  BY DEF Copy, CopyLost, CopyFails
<1>2. u \in Units /\ img \in Flash /\ ram \in Flash
  BY DEF ImageTypeOK
<1>3. img' = [img EXCEPT ![u] = ram[u]] /\ todo' = todo \ {u} /\ UNCHANGED <<ram, whole, named>>
  BY <1>1 DEF CopyUnit
<1>4. img' \in Flash
  BY <1>2, <1>3 DEF Flash
<1>5. img'[u] = ram[u] /\ \A v \in Units \ {u} : img'[v] = img[v]
  BY <1>2, <1>3 DEF Flash
<1>6. \A v \in Units \ todo' : img'[v] = ram'[v]
  BY <1>3, <1>5
<1>7. \A v \in todo' : img'[v] = img[v]
  BY <1>3, <1>5 DEF ImageTypeOK
<1>8. todo' = {} => img' = ram'
  BY <1>2, <1>3, <1>4, <1>6 DEF Flash
<1>. QED  BY <1>3, <1>6, <1>7, <1>8

\* The first part of a record does not reach its word.
LEMMA CopyHalfKeepsWords ==
    ASSUME ImageTypeOK, CopyHalf
    PROVE  /\ UNCHANGED <<pc, ram, whole, named, todo, call>>
           /\ \A v \in Units : img'[v].data = img[v].data
           /\ \A v \in Units \ todo : img'[v] = img[v]
<1>1. PICK u \in todo : img' = [img EXCEPT ![u].used = ram[u].used]
  BY DEF CopyHalf
<1>2. img \in Flash /\ u \in Units
  BY DEF ImageTypeOK
<1>. QED  BY <1>1, <1>2 DEF CopyHalf, Flash, VUnit
-----------------------------------------------------------------------------
(***************************************************************************)
(* The refinement of SectorDisk.  Of whatever driver, a step is a start, a *)
(* step that begins, continues or completes a call, or the end of the      *)
(* process; each lemma maps one of these.                                  *)
(***************************************************************************)

\* Between calls, no call is recorded.
Quiet == ~Running => call = NoCall

\* A process begins with what the file gives it, and truncates the file next.
AsLoaded == (pc = "loaded" => ram = Stored) /\ (pc = "saving" => ~whole)

\* In the middle of a call, each of its words is the old one, blank, or the new
\* one, in memory as well as in the file.
WordsBetween ==
    Running =>
        \A u \in InFlight : /\ ram[u].data \in {call.old[u], Blank, call.new[u]}
                            /\ img[u].data \in {call.old[u], Blank, call.new[u]}

LEMMA NothingIsNoCall == NoCall.new = Disk!Nothing
BY DEF NoCall, NoWords, Disk!Nothing

LEMMA StoredTyped == ImageTypeOK => Stored \in Flash
BY BlankFlashTyped DEF ImageTypeOK, Stored

\* The abstract store, case by case.
LEMMA StoreDown == pc = "down" => Store = [u \in Units |-> Stored[u].data]
BY DEF Store

LEMMA StoreQuiet ==
    ASSUME Quiet, pc # "down", ~Running
    PROVE  Store = [u \in Units |-> ram[u].data]
<1>1. InFlight = {}
  BY NoCallTyped DEF Quiet, InFlight
<1>. QED  BY <1>1 DEF Store

LEMMA StoreBusy ==
    Running => Store = [u \in Units |-> IF u \in InFlight THEN call.old[u] ELSE ram[u].data]
BY DEF Store, Running

LEMMA ModeBusy == Running => Mode = "busy"
BY DEF Mode, Running

\* A call begins: the words of others stay what they were.
LEMMA BeginMaps ==
    ASSUME ImageTypeOK, Quiet, Running',
           NEW op, NEW D \in SUBSET Units, NEW d \in [D -> Words], Enter(op, d),
           \A u \in Units \ D : ram'[u].data = ram[u].data
    PROVE  Disk!Begin
<1>1. /\ InFlight' = D /\ call'.new = d /\ call'.old = Contents(ram, D)
  BY EnterTyped
<1>2. pc = "idle" /\ ~Running /\ Mode = "on" /\ Mode' = "busy"
  BY ModeBusy DEF Enter, Running, Mode
<1>3. Store = [u \in Units |-> ram[u].data]
  BY <1>2, StoreQuiet
<1>4. Store' = [u \in Units |-> IF u \in D THEN Contents(ram, D)[u] ELSE ram'[u].data]
  BY <1>1 DEF Store, Running
<1>5. Store' = Store
  BY <1>3, <1>4 DEF Contents
<1>. QED  BY <1>1, <1>2, <1>5 DEF Disk!Begin

\* When a call begins with memory equal to the file, its words are the old ones
\* in the file, and in memory what its first step made of them.
LEMMA BeginBetween ==
    ASSUME ImageTypeOK, NEW op, NEW D \in SUBSET Units, NEW d \in [D -> Words], Enter(op, d),
           \A u \in D : /\ ram'[u].data \in {ram[u].data, Blank, d[u]}
                        /\ img'[u].data = ram[u].data
    PROVE  WordsBetween'
<1>1. InFlight' = D /\ call'.new = d /\ call'.old = Contents(ram, D)
  BY EnterTyped
<1>2. \A u \in D : call'.old[u] = ram[u].data
  BY <1>1 DEF Contents
<1>. QED  BY <1>1, <1>2 DEF WordsBetween

\* A step within a call, which blanks or writes words in memory and copies
\* words from memory to the file.
LEMMA BusyBetween ==
    ASSUME Running, WordsBetween, UNCHANGED call,
           \A u \in InFlight : /\ ram'[u].data \in {ram[u].data, Blank, call.new[u]}
                               /\ img'[u].data \in {img[u].data, ram[u].data}
    PROVE  WordsBetween'
BY DEF WordsBetween, InFlight

\* A step that is none for the disk.
LEMMA IdleMaps == UNCHANGED <<pc, ram, img, whole, call>> => UNCHANGED Disk!vars
BY DEF Disk!vars, Store, Mode, Stored, InFlight

\* The process starts (the import, the truncation, the export).
LEMMA StartupMaps ==
    ASSUME ImageTypeOK, Quiet, AsLoaded, ~IOErrors, Startup
    PROVE  /\ Disk!Next \/ UNCHANGED Disk!vars
           /\ Quiet' /\ AsLoaded'
<1>1. ~Running /\ call' = call /\ call = NoCall
  BY DEF Startup, Import, ImportFails, Truncate, Saved, NotSaved, SaveFails, Quiet, Running, imageVars
<1>2. CASE Import
  <2>1. Mode = "off" /\ Mode' = "starting" /\ pc' = "loaded" /\ ~Running'
    BY <1>2 DEF Import, Mode, Running
  <2>2. Stored' = Stored
    BY <1>2 DEF Import, Stored
  <2>3. Store = [u \in Units |-> Stored[u].data]
    BY <1>2, StoreDown DEF Import
  <2>4. InFlight' = {}
    BY <1>1, NoCallTyped DEF InFlight
  <2>5. Store' = [u \in Units |-> ram'[u].data]
    BY <2>1, <2>4 DEF Store
  <2>6. Store' = Store
    BY <1>2, <2>3, <2>5 DEF Import
  <2>7. Disk!PowerOn
    BY <1>1, <2>1, <2>6 DEF Disk!PowerOn
  <2>. QED  BY <1>1, <1>2, <2>1, <2>2, <2>7 DEF Disk!Next, Quiet, AsLoaded, Import
<1>3. CASE Truncate
  <2>1. Mode = "starting" /\ Mode' = "starting" /\ pc = "loaded" /\ pc' = "saving" /\ ~Running'
    BY <1>3 DEF Truncate, Mode, Running
  <2>2. Store' = Store
    BY <1>1, <1>3, <2>1 DEF Store, Truncate, InFlight
  <2>. QED  BY <1>1, <1>3, <2>1, <2>2 DEF Disk!vars, Quiet, AsLoaded, Truncate
<1>4. CASE Saved
  <2>1. Mode = "starting" /\ Mode' = "on" /\ pc = "saving" /\ pc' = "idle" /\ ~Running'
    BY <1>4 DEF Saved, Mode, Running
  <2>2. Store' = Store
    BY <1>1, <1>4, <2>1 DEF Store, Saved, InFlight
  <2>3. Disk!Started
    BY <1>1, <2>1, <2>2 DEF Disk!Started
  <2>. QED  BY <1>1, <2>1, <2>3 DEF Disk!Next, Quiet, AsLoaded
<1>5. ~ImportFails /\ ~NotSaved /\ ~SaveFails
  BY DEF ImportFails, NotSaved, SaveFails
<1>. QED  BY <1>2, <1>3, <1>4, <1>5 DEF Startup

\* A call goes on: an abstract stutter, for what the call is not about stays.
LEMMA BusyMaps ==
    ASSUME Running, Running', UNCHANGED call,
           \A u \in Units \ InFlight : ram'[u].data = ram[u].data
    PROVE  UNCHANGED Disk!vars
<1>1. Mode = "busy" /\ Mode' = "busy"
  BY ModeBusy DEF Mode, Running
<1>2. InFlight' = InFlight
  BY DEF InFlight
<1>3. Store' = [u \in Units |-> IF u \in InFlight THEN call.old[u] ELSE ram'[u].data]
  BY <1>2 DEF Store, Running
<1>4. Store' = Store
  BY <1>3, StoreBusy
<1>. QED  BY <1>1, <1>4 DEF Disk!vars

\* A call returns, and memory holds what it asked for.
LEMMA CompleteMaps ==
    ASSUME ImageTypeOK, Running, pc' = "idle", call' = NoCall, UNCHANGED ram,
           Contents(ram, InFlight) = call.new
    PROVE  Disk!Complete
<1>1. Mode = "busy" /\ Mode' = "on" /\ ~Running'
  BY ModeBusy DEF Mode, Running
<1>2. InFlight' = {}
  BY NoInFlight
<1>3. Store' = [u \in Units |-> ram[u].data]
  BY <1>2 DEF Store
<1>4. \A u \in InFlight : call.new[u] = ram[u].data
  BY DEF Contents
<1>5. Store' = [u \in Units |-> IF u \in InFlight THEN call.new[u] ELSE Store[u]]
  BY <1>3, <1>4, StoreBusy
<1>. QED  BY <1>1, <1>5, NothingIsNoCall DEF Disk!Complete, InFlight

\* The process ends between calls, or while it starts: what is lost is nothing,
\* or everything.
LEMMA LoseQuietMaps ==
    ASSUME ImageTypeOK, Quiet, AsLoaded, Synced, ~Running,
           pc \in {"down", "loaded", "saving", "idle"}, Lose
    PROVE  Disk!PowerOff
<1>1. call = NoCall /\ call' = NoCall /\ pc # "down" /\ pc' = "down" /\ Stored' = Stored
  BY DEF Quiet, Lose, Stored
<1>2. Mode' = "off" /\ Mode = IF pc = "idle" THEN "on" ELSE "starting"
  BY <1>1 DEF Mode
<1>3. Store = [u \in Units |-> ram[u].data]
  BY <1>1, StoreQuiet
<1>4. Store' = [u \in Units |-> Stored[u].data]
  BY <1>1 DEF Store
<1>5. CASE pc = "idle"
  <2>1. Store' = Store
    BY <1>3, <1>4, <1>5 DEF Synced, Stored
  <2>. QED  BY <1>1, <1>2, <1>5, <2>1 DEF Disk!PowerOff
<1>6. CASE pc = "loaded"
  <2>1. Store' = Store
    BY <1>3, <1>4, <1>6 DEF AsLoaded
  <2>. QED  BY <1>1, <1>2, <1>6, <2>1 DEF Disk!PowerOff
<1>7. CASE pc = "saving"
  <2>1. Store' = Disk!Wiped
    BY <1>4, <1>7 DEF AsLoaded, Stored, BlankFlash, Erased, Disk!Wiped
  <2>. QED  BY <1>1, <1>2, <1>7, <2>1 DEF Disk!PowerOff
<1>. QED  BY <1>1, <1>5, <1>6, <1>7

\* The process ends in the middle of a call: the file holds, of each word the
\* call is about, the old one, blank, or the new one, and every other word.
LEMMA LoseBusyMaps ==
    ASSUME ImageTypeOK, CrashSafe, WordsBetween, Running, Lose
    PROVE  Disk!CutShort
<1>1. /\ Mode = "busy" /\ Mode' = "off" /\ whole
      /\ pc' = "down" /\ call' = NoCall /\ UNCHANGED <<img, whole>>
  BY ModeBusy DEF Lose, Mode, CrashSafe
<1>2. Store' = [u \in Units |-> img[u].data]
  BY <1>1 DEF Store, Stored
<1>3. Store' \in [Units -> Words]
  BY <1>2 DEF ImageTypeOK, Flash, VUnit
<1>4. ASSUME NEW u \in Units
      PROVE  Store'[u] \in IF u \in InFlight THEN {Store[u], Blank, call.new[u]} ELSE {Store[u]}
  <2>1. CASE u \in InFlight
    BY <1>2, <2>1, StoreBusy DEF WordsBetween
  <2>2. CASE u \notin InFlight
    BY <1>2, <2>2, StoreBusy DEF CrashSafe
  <2>. QED  BY <2>1, <2>2
<1>. QED  BY <1>1, <1>3, <1>4, NothingIsNoCall DEF Disk!CutShort, InFlight

\* The first state of a driver is the first state of the disk.
LEMMA InitMaps == ImageInit => Disk!Init /\ Quiet /\ AsLoaded /\ WordsBetween
<1>. SUFFICES ASSUME ImageInit PROVE Disk!Init /\ Quiet /\ AsLoaded /\ WordsBetween
  OBVIOUS
<1>1. Mode = "off" /\ ~Running
  BY DEF ImageInit, Mode, Running
<1>2. Store = Disk!Wiped
  BY DEF ImageInit, Store, Stored, BlankFlash, Erased, Disk!Wiped
<1>. QED  BY <1>1, <1>2, NothingIsNoCall
     DEF ImageInit, Disk!Init, Quiet, AsLoaded, WordsBetween

=============================================================================
