--------------------------- MODULE LfsDiskProofs ----------------------------
(***************************************************************************)
(* Theorems about LfsDisk, for every geometry and every set of words.      *)
(***************************************************************************)
EXTENDS LfsDisk, FlashImageProofs

(***************************************************************************)
(* The units of a call.                                                    *)
(***************************************************************************)
LEMMA PageUnits == \A s \in Sectors : UnitsOf({s}) \in SUBSET Units
BY DEF UnitsOf, Units

LEMMA BlockUnitsInUnits == \A b : BlockUnits(b) \in SUBSET Units
BY DEF BlockUnits

\* What lfs_erase asks for.
LEMMA EraseWords ==
    ASSUME NEW b
    PROVE  [u \in BlockUnits(b) |-> Blank] \in [BlockUnits(b) -> Words]
BY GeometryAssumption

(***************************************************************************)
(* Type correctness.                                                       *)
(***************************************************************************)
LEMMA InitTyped == Init => TypeOK
<1>. SUFFICES ASSUME Init PROVE TypeOK
  OBVIOUS
<1>1. InFlight = {} /\ call.op = "none"
  BY NoCallTyped DEF Init, ImageInit, InFlight
<1>. QED  BY <1>1, BlankFlashTyped, NoCallTyped DEF Init, ImageInit, ImageTypeOK, TypeOK

LEMMA ProgTyped ==
    ASSUME TypeOK, NEW s \in Sectors, NEW d \in [UnitsOf({s}) -> Words], Prog(d)
    PROVE  TypeOK'
<1>1. UnitsOf({s}) \in SUBSET Units
  BY PageUnits
<1>2. ram' \in Flash
  BY <1>1, ProgramTyped DEF Prog, TypeOK, ImageTypeOK
<1>. QED  BY <1>1, <1>2, EnterTyped DEF Prog, TypeOK, ImageTypeOK

LEMMA EraseTyped ==
    ASSUME TypeOK, NEW b, Erase(b)
    PROVE  TypeOK'
<1>1. BlockUnits(b) \in SUBSET Units
  BY BlockUnitsInUnits
<1>2. ram' \in Flash
  BY EraseUnitsTyped DEF Erase, TypeOK, ImageTypeOK
<1>. QED  BY <1>1, <1>2, EraseWords, EnterTyped DEF Erase, TypeOK, ImageTypeOK

LEMMA CopyOnTyped ==
    ASSUME TypeOK, CopyOn
    PROVE  TypeOK'
<1>1. /\ InFlight' \in SUBSET Units /\ call'.op \in {"none", "prog", "erase"}
      /\ call'.new \in [InFlight' -> Words] /\ call'.old \in [InFlight' -> Words]
  BY CallKept, NoInFlight DEF CopyOn, TypeOK
<1>. QED  BY <1>1, CopyTyped DEF CopyOn, TypeOK, ImageTypeOK

LEMMA NextTyped == TypeOK /\ [Next]_vars => TypeOK'
<1>. SUFFICES ASSUME TypeOK, [Next]_vars PROVE TypeOK'
  OBVIOUS
<1>1. CASE Startup
  BY <1>1, StartupTyped DEF TypeOK, Startup, Import, ImportFails, Truncate, Saved, NotSaved, SaveFails
<1>2. CASE CopyOn          BY <1>2, CopyOnTyped
<1>3. CASE CopyHalf        BY <1>3, CopyHalfTyped DEF TypeOK, CopyHalf
<1>4. CASE Invoke          BY <1>4, ProgTyped, EraseTyped DEF Invoke
<1>5. CASE Lose            BY <1>5, LoseTyped, NoInFlight DEF Lose, TypeOK
<1>6. CASE UNCHANGED vars  BY <1>6, CallKept DEF vars, TypeOK, ImageTypeOK
<1>. QED  BY <1>1, <1>2, <1>3, <1>4, <1>5, <1>6 DEF Next, Work

\* Every variable of the driver keeps its type.
THEOREM TypeCorrect == Spec => []TypeOK
BY InitTyped, NextTyped, PTL DEF Spec

(***************************************************************************)
(* Durability, without I/O errors.  The driver changes memory only at the  *)
(* begin of a call, and only the units of the call; the file catches up.   *)
(***************************************************************************)

\* From the first export on the file is complete, and equal to memory but for
\* what the update of the running call has still to copy.
CopiedSoFar ==
    pc \in {"idle", "copy"} =>
        /\ named /\ whole
        /\ \A u \in Units \ todo : img[u] = ram[u]

\* Only units of the call are left to copy.
OwnUnits ==
    /\ pc # "copy" => todo = {}
    /\ pc = "copy" => todo \in SUBSET InFlight

DurableInv == TypeOK /\ CopiedSoFar /\ OwnUnits

LEMMA InvDurable == DurableInv => Synced /\ CrashSafe
<1>. SUFFICES ASSUME DurableInv PROVE Synced /\ CrashSafe
  OBVIOUS
<1>1. ASSUME pc = "idle" PROVE whole /\ img = ram
  BY <1>1 DEF DurableInv, CopiedSoFar, OwnUnits, TypeOK, ImageTypeOK, Flash
<1>2. ASSUME Running PROVE whole /\ \A u \in Units \ InFlight : img[u].data = ram[u].data
  BY <1>2 DEF DurableInv, CopiedSoFar, OwnUnits, TypeOK, Running
<1>. QED  BY <1>1, <1>2 DEF Synced, CrashSafe

\* A program or an erase begins: only its own units change, in memory.
LEMMA InvokeOwn ==
    ASSUME TypeOK, Invoke
    PROVE  /\ Enter(call'.op, call'.new) /\ pc' = "copy" /\ todo' = InFlight'
           /\ InFlight' \in SUBSET Units /\ call'.new \in [InFlight' -> Words]
           /\ UNCHANGED <<img, whole, named, half>>
           /\ \A u \in Units \ InFlight' : ram'[u] = ram[u]
           /\ \A u \in InFlight' : ram'[u].data \in {ram[u].data, Blank, call'.new[u]}
<1>1. ASSUME NEW s \in Sectors, NEW d \in [UnitsOf({s}) -> Words], Prog(d)
      PROVE  /\ Enter(call'.op, call'.new) /\ pc' = "copy" /\ todo' = InFlight'
             /\ InFlight' \in SUBSET Units /\ call'.new \in [InFlight' -> Words]
             /\ UNCHANGED <<img, whole, named, half>>
             /\ \A u \in Units \ InFlight' : ram'[u] = ram[u]
             /\ \A u \in InFlight' : ram'[u].data \in {ram[u].data, Blank, call'.new[u]}
  <2>1. UnitsOf({s}) \in SUBSET Units /\ ram' = Program(ram, d)
    BY <1>1, PageUnits DEF Prog
  <2>2. InFlight' = UnitsOf({s}) /\ call'.new = d /\ call'.op = "prog"
    BY <1>1, <2>1, EnterTyped DEF Prog, TypeOK
  <2>3. \A u \in UnitsOf({s}) : ram'[u].data \in {ram[u].data, Blank, d[u]}
    BY <2>1 DEF Program
  <2>4. \A u \in Units \ UnitsOf({s}) : ram'[u] = ram[u]
    BY <2>1, ProgramElsewhere
  <2>. QED  BY <1>1, <2>1, <2>2, <2>3, <2>4 DEF Prog
<1>2. ASSUME NEW b, Erase(b)
      PROVE  /\ Enter(call'.op, call'.new) /\ pc' = "copy" /\ todo' = InFlight'
             /\ InFlight' \in SUBSET Units /\ call'.new \in [InFlight' -> Words]
             /\ UNCHANGED <<img, whole, named, half>>
             /\ \A u \in Units \ InFlight' : ram'[u] = ram[u]
             /\ \A u \in InFlight' : ram'[u].data \in {ram[u].data, Blank, call'.new[u]}
  <2>. DEFINE D == BlockUnits(b)
              d == [u \in D |-> Blank]
  <2>1. D \in SUBSET Units /\ d \in [D -> Words] /\ Enter("erase", d)
        /\ ram' = EraseUnits(ram, D) /\ todo' = D
    BY <1>2, BlockUnitsInUnits, EraseWords DEF Erase
  <2>2. InFlight' = D /\ call'.new = d /\ call'.op = "erase"
    <3>. HIDE DEF d
    <3>. QED  BY <2>1, EnterTyped DEF TypeOK
  <2>3. \A u \in D : ram'[u].data = Blank
    BY <2>1 DEF EraseUnits, Erased
  <2>4. \A u \in Units \ D : ram'[u] = ram[u]
    BY <2>1 DEF EraseUnits
  <2>. QED  BY <1>2, <2>1, <2>2, <2>3, <2>4 DEF Erase
<1>. QED  BY <1>1, <1>2 DEF Invoke

LEMMA NextDurable ==
    ASSUME ~IOErrors
    PROVE  DurableInv /\ [Next]_vars => DurableInv'
<1>. SUFFICES ASSUME DurableInv, [Next]_vars PROVE CopiedSoFar' /\ OwnUnits'
  BY NextTyped DEF DurableInv
<1>1. TypeOK /\ ImageTypeOK
  BY DEF DurableInv, TypeOK
<1>2. CASE Startup
  BY <1>2 DEF Startup, Import, ImportFails, Truncate, Saved, NotSaved, SaveFails, DurableInv, CopiedSoFar, OwnUnits
<1>3. CASE CopyOn
  <2>1. /\ named' /\ whole' = whole /\ ram' = ram /\ todo' \in SUBSET todo
        /\ \A u \in Units \ todo' : img'[u] = ram'[u]
    BY <1>1, <1>3, CopyCatchesUp DEF CopyOn, DurableInv, CopiedSoFar
  <2>2. pc' \in {"copy", "idle"} /\ (pc' = "idle" => todo' = {}) /\ (pc' = "copy" => call' = call)
    BY <1>3 DEF CopyOn
  <2>. QED  BY <1>3, <2>1, <2>2 DEF CopyOn, DurableInv, CopiedSoFar, OwnUnits, InFlight
<1>4. CASE CopyHalf
  <2>1. InFlight' = InFlight
    BY <1>1, <1>4, CopyHalfKeepsWords DEF InFlight
  <2>. QED  BY <1>1, <1>4, <2>1, CopyHalfKeepsWords DEF DurableInv, CopiedSoFar, OwnUnits
<1>5. CASE Invoke
  <2>1. /\ pc = "idle" /\ pc' = "copy" /\ todo' = InFlight'
        /\ UNCHANGED <<img, whole, named>>
        /\ \A u \in Units \ InFlight' : ram'[u] = ram[u]
    BY <1>1, <1>5, InvokeOwn DEF Enter
  <2>. QED  BY <2>1 DEF DurableInv, CopiedSoFar, OwnUnits
<1>6. CASE Lose            BY <1>6 DEF Lose, CopiedSoFar, OwnUnits
<1>7. CASE UNCHANGED vars  BY <1>7 DEF vars, DurableInv, CopiedSoFar, OwnUnits, InFlight
<1>. QED  BY <1>2, <1>3, <1>4, <1>5, <1>6, <1>7 DEF Next, Work

LEMMA InitDurable == Init => DurableInv
BY InitTyped DEF Init, ImageInit, DurableInv, CopiedSoFar, OwnUnits

\* When the file can always be written, a program or an erase that returned is
\* in the file entirely, and a kill during one costs no word but its own.
THEOREM Durable ==
    ASSUME ~IOErrors
    PROVE  Spec => [](Synced /\ CrashSafe)
BY InvDurable, InitDurable, NextDurable, PTL DEF Spec

(***************************************************************************)
(* What littlefs asks for lands.  It programs a page only if the page      *)
(* reads as erased, but vpage_write asks whether a unit is in use: the two *)
(* have to agree, in memory and, for the next run, in the file.            *)
(***************************************************************************)
UsedIffWritten(f) == \A u \in Units : f[u].used <=> f[u].data # Blank

LandInv == TypeOK /\ UsedIffWritten(ram) /\ UsedIffWritten(img) /\ CallLands

LEMMA ProgramMarks ==
    ASSUME NEW f, NEW d, UsedIffWritten(f)
    PROVE  UsedIffWritten(Program(f, d))
BY DEF UsedIffWritten, Program

LEMMA EraseMarks ==
    ASSUME NEW f, NEW U, UsedIffWritten(f)
    PROVE  UsedIffWritten(EraseUnits(f, U))
BY DEF UsedIffWritten, EraseUnits, Erased

LEMMA BlankMarks == UsedIffWritten(BlankFlash)
BY DEF UsedIffWritten, BlankFlash, Erased

LEMMA NextLanding ==
    ASSUME ~IOErrors, Straddle = {}
    PROVE  LandInv /\ [Next]_vars => LandInv'
<1>. SUFFICES ASSUME LandInv, [Next]_vars
              PROVE  UsedIffWritten(ram') /\ UsedIffWritten(img') /\ CallLands'
  BY NextTyped DEF LandInv, UsedIffWritten
<1>1. ram \in Flash /\ img \in Flash /\ todo \in SUBSET Units
  BY DEF LandInv, TypeOK, ImageTypeOK
<1>2. CASE Startup
  <2>1. ram' \in {ram, img, BlankFlash} /\ img' \in {ram, img, BlankFlash} /\ pc' # "copy"
    BY <1>2 DEF Startup, Import, ImportFails, Truncate, Saved, NotSaved, SaveFails, Stored, imageVars
  <2>. QED  BY <2>1, BlankMarks DEF LandInv, CallLands
<1>3. CASE CopyOn
  <2>1. UsedIffWritten(img')
    <3>1. CASE CopyFails
      BY <3>1 DEF CopyFails, LandInv
    <3>2. ASSUME NEW u \in todo, CopyUnit(u)
          PROVE  UsedIffWritten(img')
      BY <1>1, <3>2 DEF CopyUnit, LandInv, UsedIffWritten, Flash
    <3>. QED  BY <1>3, <3>1, <3>2 DEF CopyOn, Copy, CopyLost
  <2>2. ram' = ram /\ (pc' = "copy" => call' = call)
    BY <1>3, CopyKeepsMemory DEF CopyOn
  <2>. QED  BY <1>3, <2>1, <2>2 DEF CopyOn, LandInv, CallLands, InFlight
<1>4. CASE CopyHalf        BY <1>4 DEF CopyHalf
<1>5. ASSUME NEW s \in Sectors, ReadsErased(s), NEW d \in [UnitsOf({s}) -> Words], Prog(d)
      PROVE  UsedIffWritten(ram') /\ UsedIffWritten(img') /\ CallLands'
  <2>1. UnitsOf({s}) \in SUBSET Units /\ img' = img /\ ram' = Program(ram, d)
    BY <1>5, PageUnits DEF Prog
  <2>2. InFlight' = UnitsOf({s}) /\ call'.new = d
    BY <1>5, <2>1, EnterTyped DEF Prog, LandInv, TypeOK
  <2>3. \A v \in UnitsOf({s}) : ~ram[v].used /\ ram[v].data = Blank
    BY <1>5, <2>1 DEF ReadsErased, LandInv, UsedIffWritten
  <2>4. Contents(ram', InFlight') = call'.new
    BY <1>1, <2>1, <2>2, <2>3, ProgramFree
  <2>. QED  BY <2>1, <2>4, ProgramMarks DEF LandInv, CallLands
<1>6. ASSUME NEW b, Erase(b)
      PROVE  UsedIffWritten(ram') /\ UsedIffWritten(img') /\ CallLands'
  <2>1. img' = img /\ ram' = EraseUnits(ram, BlockUnits(b))
    BY <1>6 DEF Erase
  <2>2. InFlight' = BlockUnits(b) /\ call'.new = [u \in BlockUnits(b) |-> Blank]
    BY <1>6, BlockUnitsInUnits, EraseWords, EnterTyped DEF Erase, LandInv, TypeOK
  <2>3. \A u \in BlockUnits(b) : ram'[u].data = Blank
    BY <2>1, BlockUnitsInUnits DEF EraseUnits, Erased
  <2>. QED  BY <2>1, <2>2, <2>3, EraseMarks DEF LandInv, CallLands, Contents
<1>7. CASE Lose            BY <1>7, BlankMarks DEF Lose, LandInv, CallLands
<1>8. CASE UNCHANGED vars  BY <1>8 DEF vars, LandInv, CallLands, InFlight
<1>. QED  BY <1>2, <1>3, <1>4, <1>5, <1>6, <1>7, <1>8 DEF Next, Work, Invoke

LEMMA InitLanding == Init => LandInv
BY InitTyped, BlankMarks DEF Init, ImageInit, LandInv, CallLands

\* What littlefs asks for is in memory while it is copied to the file:
\* vpage_write never stops at a unit of a page that reads as erased, over any
\* number of kills and restarts, if the file can be read and written and its
\* records reach it whole.
THEOREM CallsLand ==
    ASSUME ~IOErrors, Straddle = {}
    PROVE  Spec => []CallLands
<1>1. LandInv => CallLands
  BY DEF LandInv
<1>. QED  BY <1>1, InitLanding, NextLanding, PTL DEF Spec

(***************************************************************************)
(* The refinement of SectorDisk.                                           *)
(***************************************************************************)
CallInv == Quiet /\ AsLoaded /\ WordsBetween

RefineInv == DurableInv /\ LandInv /\ CallInv

LEMMA InvokeMaps ==
    ASSUME RefineInv, Invoke
    PROVE  CallInv' /\ Disk!Begin
<1>1. TypeOK /\ ImageTypeOK
  BY DEF RefineInv, DurableInv, TypeOK
<1>2. /\ Enter(call'.op, call'.new) /\ pc' = "copy" /\ UNCHANGED img
      /\ InFlight' \in SUBSET Units /\ call'.new \in [InFlight' -> Words]
      /\ \A u \in Units \ InFlight' : ram'[u] = ram[u]
      /\ \A u \in InFlight' : ram'[u].data \in {ram[u].data, Blank, call'.new[u]}
  BY <1>1, InvokeOwn
<1>3. pc = "idle" /\ Running' /\ \A u \in Units : img'[u] = ram[u]
  BY <1>2 DEF Enter, Running, RefineInv, DurableInv, CopiedSoFar, OwnUnits
<1>4. WordsBetween'
  BY <1>1, <1>2, <1>3, BeginBetween
<1>5. Disk!Begin
  BY <1>1, <1>2, <1>3, BeginMaps DEF RefineInv, CallInv
<1>. QED  BY <1>2, <1>3, <1>4, <1>5 DEF CallInv, Quiet, AsLoaded

LEMMA CopyOnMaps ==
    ASSUME ~IOErrors, RefineInv, CopyOn
    PROVE  CallInv' /\ (Disk!Next \/ UNCHANGED Disk!vars)
<1>1. ImageTypeOK /\ Running /\ pc = "copy" /\ pc' \in {"copy", "idle"}
  BY DEF RefineInv, DurableInv, TypeOK, CopyOn, Running
<1>2. /\ ram' = ram
      /\ \A u \in Units \ todo' : img'[u] = ram'[u]
      /\ \A u \in todo' : img'[u] = img[u]
  BY <1>1, CopyCatchesUp DEF CopyOn, RefineInv, DurableInv, CopiedSoFar
<1>3. CASE pc' = "copy"
  <2>1. UNCHANGED call /\ Running'
    BY <1>3 DEF CopyOn, Running
  <2>2. \A u \in InFlight : img'[u].data \in {img[u].data, ram[u].data}
    BY <1>1, <1>2 DEF ImageTypeOK
  <2>3. WordsBetween'
    BY <1>1, <1>2, <2>1, <2>2, BusyBetween DEF RefineInv, CallInv
  <2>4. UNCHANGED Disk!vars
    BY <1>1, <1>2, <2>1, BusyMaps
  <2>. QED  BY <1>3, <2>1, <2>3, <2>4 DEF CallInv, Quiet, AsLoaded
<1>4. CASE pc' = "idle"
  <2>1. call' = NoCall /\ Contents(ram, InFlight) = call.new
    BY <1>1, <1>4 DEF CopyOn, RefineInv, LandInv, CallLands
  <2>2. Disk!Complete
    BY <1>1, <1>2, <1>4, <2>1, CompleteMaps
  <2>. QED  BY <1>4, <2>1, <2>2 DEF Disk!Next, CallInv, Quiet, AsLoaded, WordsBetween, Running
<1>. QED  BY <1>1, <1>3, <1>4

LEMMA LoseMaps ==
    ASSUME RefineInv, Lose
    PROVE  CallInv' /\ Disk!Next
<1>1. ImageTypeOK /\ TypeOK /\ Synced /\ CrashSafe
  BY InvDurable DEF RefineInv, DurableInv, TypeOK
<1>2. ASSUME Running PROVE Disk!Next
  BY <1>1, <1>2, LoseBusyMaps DEF RefineInv, CallInv, Disk!Next
<1>3. ASSUME ~Running PROVE Disk!Next
  BY <1>1, <1>3, LoseQuietMaps DEF RefineInv, CallInv, Disk!Next, Running, TypeOK
<1>. QED  BY <1>2, <1>3 DEF Lose, CallInv, Quiet, AsLoaded, WordsBetween, Running

\* Every step of the block device is a step of the disk, or none.
LEMMA NextMaps ==
    ASSUME ~IOErrors, Straddle = {}
    PROVE  RefineInv /\ [Next]_vars => CallInv' /\ [Disk!Next]_(Disk!vars)
<1>. SUFFICES ASSUME RefineInv, [Next]_vars
              PROVE  CallInv' /\ (Disk!Next \/ UNCHANGED Disk!vars)
  OBVIOUS
<1>1. CASE Startup
  <2>1. ~Running'
    BY <1>1 DEF Startup, Import, ImportFails, Truncate, Saved, NotSaved, SaveFails, Running
  <2>. QED  BY <1>1, <2>1, StartupMaps
            DEF RefineInv, CallInv, DurableInv, TypeOK, WordsBetween
<1>2. CASE CopyOn          BY <1>2, CopyOnMaps
<1>3. CASE CopyHalf        BY <1>3 DEF CopyHalf
<1>4. CASE Invoke          BY <1>4, InvokeMaps DEF Disk!Next
<1>5. CASE Lose            BY <1>5, LoseMaps
<1>6. CASE UNCHANGED vars
  BY <1>6, IdleMaps DEF vars, RefineInv, CallInv, Quiet, AsLoaded, WordsBetween,
                        Running, Stored, InFlight
<1>. QED  BY <1>1, <1>2, <1>3, <1>4, <1>5, <1>6 DEF Next, Work

\* The block device of mylfs.c on its image file implements the sector disk,
\* whatever the geometry and the words, over any number of calls, kills and
\* restarts, when the file can be written and records reach it whole.
THEOREM Implements ==
    ASSUME ~IOErrors, Straddle = {}
    PROVE  Spec => ImplementsDisk
<1>1. Init => RefineInv /\ Disk!Init
  BY InitDurable, InitLanding, InitMaps DEF Init, RefineInv, CallInv
<1>2. RefineInv /\ [Next]_vars => RefineInv'
  BY NextDurable, NextLanding, NextMaps DEF RefineInv
<1>3. RefineInv /\ [Next]_vars => [Disk!Next]_(Disk!vars)
  BY NextMaps
<1>. QED  BY <1>1, <1>2, <1>3, PTL DEF Spec, ImplementsDisk, Disk!Spec
=============================================================================
