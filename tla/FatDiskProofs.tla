--------------------------- MODULE FatDiskProofs ----------------------------
(***************************************************************************)
(* Theorems about FatDisk, for every geometry, every set of words and      *)
(* every position of the records that cross a file block.                  *)
(***************************************************************************)
EXTENDS FatDisk, FlashImageProofs

(***************************************************************************)
(* Sectors and units of a call.                                            *)
(***************************************************************************)
LEMMA BlockUnitsInUnits == \A b : BlockUnits(b) \in SUBSET Units
BY DEF BlockUnits

LEMMA SectorUnits ==
    ASSUME NEW s \in Sectors, NEW e \in Sectors
    PROVE  UnitsOf(s..e) \in SUBSET Units
BY GeometryAssumption DEF UnitsOf, Units, Sectors

LEMMA RangeUnits ==
    ASSUME NEW r \in Ranges
    PROVE  UnitsOf(r[1]..(r[1] + r[2] - 1)) \in SUBSET Units
<1>1. r[1] \in Nat /\ r[2] \in Nat /\ r[1] + r[2] <= NumBlocks * SecPerBlock
  BY MaxCountAssumption DEF Ranges, Sectors
<1>2. NumBlocks * SecPerBlock \in Int
  BY GeometryAssumption
<1>3. r[1]..(r[1] + r[2] - 1) \subseteq Sectors
  BY <1>1, <1>2 DEF Sectors
<1>. QED  BY <1>3 DEF UnitsOf, Units

(***************************************************************************)
(* Type correctness.                                                       *)
(***************************************************************************)
LEMMA InitTyped == Init => TypeOK
<1>. SUFFICES ASSUME Init PROVE TypeOK
  OBVIOUS
<1>1. call = NoCall /\ InFlight = {}
  BY NoCallTyped DEF Init, ImageInit, InFlight
<1>2. ImageTypeOK
  BY <1>1, BlankFlashTyped, NoCallTyped DEF Init, ImageInit, ImageTypeOK
<1>3. call.op = "none"
  BY <1>1, NoCallTyped
<1>. QED  BY <1>2, <1>3 DEF Init, ImageInit, TypeOK

LEMMA WriteTyped ==
    ASSUME TypeOK, NEW r \in Ranges,
           NEW d \in [UnitsOf(r[1]..(r[1] + r[2] - 1)) -> Words], Write(r[1], r[2], d)
    PROVE  TypeOK'
<1>1. r[1] \in Int
  BY DEF Ranges, Sectors
<1>. QED  BY <1>1, RangeUnits, EnterTyped DEF TypeOK, ImageTypeOK, Write, imageVars, cursor

LEMMA TrimTyped ==
    ASSUME TypeOK, NEW s \in Sectors, NEW e \in Sectors, Trim(s, e)
    PROVE  TypeOK'
<1>. DEFINE D == UnitsOf(s..e)
            d == [u \in D |-> Blank]
<1>1. D \in SUBSET Units /\ d \in [D -> Words]
  BY SectorUnits, GeometryAssumption
<1>2. Enter("trim", d)
  BY DEF Trim
<1>3. s \in Int /\ e \in Int
  BY DEF Sectors
<1>. QED  BY <1>1, <1>2, <1>3, EnterTyped DEF TypeOK, ImageTypeOK, Trim, imageVars

LEMMA EraseBlockTyped ==
    ASSUME TypeOK, EraseBlock
    PROVE  TypeOK'
<1>. DEFINE b == BlockOf(from)
            erased == BlockUnits(b)
            kept == erased \ UnitsOf(from..upto)
<1>1. erased \in SUBSET Units /\ kept \in SUBSET Units
  BY BlockUnitsInUnits
<1>2. Contents(ram, kept) \in [kept -> Words]
  BY <1>1 DEF Contents, TypeOK, ImageTypeOK, Flash, VUnit
<1>3. EraseUnits(ram, erased) \in Flash
  BY EraseUnitsTyped DEF TypeOK, ImageTypeOK
<1>4. ram' \in Flash
  BY <1>1, <1>2, <1>3, ProgramTyped DEF EraseBlock
<1>5. from' \in Int
  BY GeometryAssumption DEF EraseBlock, TypeOK, BlockOf
<1>. QED  BY <1>1, <1>4, <1>5, CallKept DEF EraseBlock, TypeOK, ImageTypeOK

LEMMA ReturnTyped ==
    ASSUME TypeOK, ReturnIfIdle
    PROVE  /\ InFlight' \in SUBSET Units
           /\ call'.new \in [InFlight' -> Words] /\ call'.old \in [InFlight' -> Words]
           /\ call'.op \in {"none", "write", "trim"}
           /\ from' \in Int /\ upto' \in Int /\ result' \in {"none", "ok", "synced", "error"}
BY CallKept, NoInFlight DEF TypeOK, ImageTypeOK, ReturnIfIdle, NoCursor, cursor

LEMMA CopyErasedTyped ==
    ASSUME TypeOK, CopyErased
    PROVE  TypeOK'
<1>1. pc' \in {"ecopy", "erase", "program", "idle"}
  BY DEF CopyErased, AfterErase
<1>. QED  BY <1>1, CopyTyped, ReturnTyped DEF CopyErased, TypeOK, ImageTypeOK

LEMMA ProgramRangeTyped ==
    ASSUME TypeOK, ProgramRange
    PROVE  TypeOK'
<1>1. ram' \in Flash
  BY ProgramTyped DEF ProgramRange, TypeOK, ImageTypeOK
<1>. QED  BY <1>1, CallKept DEF ProgramRange, TypeOK, ImageTypeOK, cursor

LEMMA CopyProgrammedTyped ==
    ASSUME TypeOK, CopyProgrammed
    PROVE  TypeOK'
<1>1. pc' \in {"pcopy", "idle"}
  BY DEF CopyProgrammed
<1>. QED  BY <1>1, CopyTyped, ReturnTyped DEF CopyProgrammed, TypeOK, ImageTypeOK

LEMMA NextTyped == TypeOK /\ [Next]_vars => TypeOK'
<1>. SUFFICES ASSUME TypeOK, [Next]_vars PROVE TypeOK'
  OBVIOUS
<1>1. CASE Start
  BY <1>1, StartupTyped DEF Start, TypeOK, cursor, Startup, Import, ImportFails, Truncate, Saved, NotSaved, SaveFails
<1>2. CASE EraseBlock
  BY <1>2, EraseBlockTyped
<1>3. CASE CopyErased
  BY <1>3, CopyErasedTyped
<1>4. CASE ProgramRange
  BY <1>4, ProgramRangeTyped
<1>5. CASE CopyProgrammed
  BY <1>5, CopyProgrammedTyped
<1>6. CASE CopyTorn
  BY <1>6, CopyHalfTyped DEF CopyTorn, TypeOK, CopyHalf, cursor
<1>7. CASE Invoke
  <2>1. CASE \E r \in Ranges : \E d \in [UnitsOf(r[1]..(r[1] + r[2] - 1)) -> Words] :
               Write(r[1], r[2], d)
    BY <2>1, WriteTyped
  <2>2. CASE \E s \in Sectors : \E e \in Sectors : s <= e /\ Trim(s, e)
    BY <2>2, TrimTyped
  <2>3. CASE \E r \in Ranges : Read(r[1], r[2])
    BY <2>3, CallKept DEF Read, TypeOK, ImageTypeOK, imageVars, cursor
  <2>4. CASE Sync
    BY <2>4, CallKept DEF Sync, TypeOK, ImageTypeOK, imageVars, cursor
  <2>. QED  BY <1>7, <2>1, <2>2, <2>3, <2>4 DEF Invoke
<1>8. CASE Crash
  BY <1>8, LoseTyped, NoInFlight DEF Crash, Lose, NoCursor, TypeOK
<1>9. CASE UNCHANGED vars
  BY <1>9, CallKept DEF vars, TypeOK, ImageTypeOK
<1>. QED  BY <1>1, <1>2, <1>3, <1>4, <1>5, <1>6, <1>7, <1>8, <1>9 DEF Next, Work

\* Every variable of the driver keeps its type.
THEOREM TypeCorrect == Spec => []TypeOK
BY InitTyped, NextTyped, PTL DEF Spec

(***************************************************************************)
(* Durability, without I/O errors: Synced and CrashSafe are not inductive, *)
(* for neither says what an update has copied so far, nor that what        *)
(* fat_erase_sector has still to erase belongs to the call.                *)
(***************************************************************************)
Copying == pc \in {"ecopy", "pcopy"}

\* Once a run has saved its image, the file has a name and its full size.
Opened == pc \notin {"down", "loaded", "saving"} => named /\ whole

\* The file holds all of memory but for what an update has still to copy.
CopiedSoFar == pc = "idle" \/ Running => \A u \in Units \ todo : img[u] = ram[u]

NothingToCopy == ~Copying => todo = {}

\* No word outside the call differs between memory and file.
OthersSame == Running => \A u \in Units \ InFlight : img[u].data = ram[u].data

\* A unit in a sector that is still to be erased belongs to the call.
EraseIsAsked == pc \in {"erase", "ecopy"} => \A u \in Units : u[1] \in from..upto => u \in InFlight

DurableInv ==
    TypeOK /\ Opened /\ CopiedSoFar /\ NothingToCopy /\ OthersSame /\ EraseIsAsked

\* A block begins after the sectors of the block before it.
LEMMA BlockEnd ==
    ASSUME NEW k \in Nat \ {0}, NEW s \in Int
    PROVE  s < (s \div k + 1) * k
OBVIOUS

\* A pass of fat_erase_sector goes on with a later sector.
LEMMA CursorMoves ==
    ASSUME TypeOK, EraseBlock
    PROVE  /\ from' \in Int /\ upto' = upto
           /\ from' > from \/ from' > upto
           /\ from = upto => from' > upto
BY BlockEnd, GeometryAssumption DEF TypeOK, EraseBlock, BlockOf

LEMMA InitDurable == Init => DurableInv
BY InitTyped
DEF Init, ImageInit, DurableInv, Opened, CopiedSoFar, NothingToCopy, OthersSame, EraseIsAsked, Running

LEMMA StartDurable ==
    ASSUME ~IOErrors, DurableInv, Start
    PROVE  DurableInv'
<1>1. TypeOK'
  BY NextTyped DEF DurableInv, Next, Work
<1>2. pc' \in {"loaded", "saving", "idle"} /\ ~Running' /\ todo = {} /\ todo' = {}
  BY DEF Start, Startup, Import, ImportFails, Truncate, Saved, NotSaved, SaveFails, DurableInv, NothingToCopy, Copying, Running
<1>3. pc' = "idle" => named' /\ whole' /\ img' = ram'
  BY DEF Start, Startup, Import, ImportFails, Truncate, Saved, NotSaved, SaveFails
<1>. QED  BY <1>1, <1>2, <1>3
          DEF DurableInv, Opened, CopiedSoFar, NothingToCopy, OthersSame, EraseIsAsked, Running, Copying

\* A call may begin: nothing is left to copy, and a write or a trim asks for
\* the erase of its own sectors only.
LEMMA InvokeDurable ==
    ASSUME DurableInv, Invoke
    PROVE  DurableInv'
<1>1. TypeOK'
  BY NextTyped DEF DurableInv, Next
<1>2. pc = "idle" /\ UNCHANGED imageVars /\ pc' \in {"erase", "program", "idle"}
  BY DEF Invoke, Write, Trim, Read, Sync, Enter
<1>3. todo = {} /\ named /\ whole /\ \A u \in Units : img[u] = ram[u]
  BY <1>2 DEF DurableInv, Opened, CopiedSoFar, NothingToCopy, Copying
<1>4. EraseIsAsked'
  <2>1. ASSUME NEW r \in Ranges,
               NEW d \in [UnitsOf(r[1]..(r[1] + r[2] - 1)) -> Words],
               Write(r[1], r[2], d)
        PROVE  EraseIsAsked'
    <3>1. InFlight' = UnitsOf(r[1]..(r[1] + r[2] - 1))
      BY <2>1, RangeUnits, EnterTyped DEF Write, DurableInv, TypeOK
    <3>2. r[1] \in Int /\ r[2] \in Nat \ {0}
      BY MaxCountAssumption DEF Ranges, Sectors
    <3>3. pc' \in {"erase", "ecopy"} => from' = r[1] /\ upto' = r[1]
      BY <2>1 DEF Write
    <3>4. ASSUME pc' \in {"erase", "ecopy"}, NEW u \in Units, u[1] \in (from'..upto')
          PROVE  u \in InFlight'
      <4>1. u[1] \in r[1]..(r[1] + r[2] - 1)
        BY <3>2, <3>3, <3>4
      <4>. QED  BY <3>1, <4>1 DEF UnitsOf, Units
    <3>. QED  BY <3>4 DEF EraseIsAsked
  <2>2. ASSUME NEW s \in Sectors, NEW e \in Sectors, Trim(s, e)
        PROVE  EraseIsAsked'
    <3>. DEFINE D == UnitsOf(s..e)
                d == [u \in D |-> Blank]
    <3>1. D \in SUBSET Units /\ d \in [D -> Words]
      BY SectorUnits, GeometryAssumption
    <3>2. Enter("trim", d)
      BY <2>2 DEF Trim
    <3>3. InFlight' = D
      BY <3>1, <3>2, EnterTyped DEF DurableInv, TypeOK
    <3>4. from' = s /\ upto' = e
      BY <2>2 DEF Trim
    <3>. QED  BY <3>3, <3>4 DEF EraseIsAsked, UnitsOf, Units
  <2>3. ASSUME NEW r \in Ranges, Read(r[1], r[2])
        PROVE  EraseIsAsked'
    BY <2>3 DEF Read, EraseIsAsked
  <2>4. CASE Sync
    BY <2>4 DEF Sync, EraseIsAsked
  <2>. QED  BY <2>1, <2>2, <2>3, <2>4 DEF Invoke
<1>. QED  BY <1>1, <1>2, <1>3, <1>4
          DEF DurableInv, Opened, CopiedSoFar, NothingToCopy, OthersSame, imageVars, Copying

LEMMA EraseBlockDurable ==
    ASSUME DurableInv, EraseBlock
    PROVE  DurableInv'
<1>. DEFINE b == BlockOf(from)
            erased == BlockUnits(b)
            kept == erased \ UnitsOf(from..upto)
            wiped == EraseUnits(ram, erased)
            d == Contents(ram, kept)
<1>1. TypeOK'
  BY EraseBlockTyped DEF DurableInv
<1>2. ram' = Program(wiped, d) /\ todo' = erased /\ DOMAIN d = kept
  BY DEF EraseBlock, Contents
<1>3. erased \in SUBSET Units /\ kept \in SUBSET erased
  BY BlockUnitsInUnits
<1>4. Running /\ Running' /\ todo = {} /\ InFlight' = InFlight
  BY DEF EraseBlock, DurableInv, NothingToCopy, Copying, Running, InFlight
<1>5. CopiedSoFar'
  <2>1. ASSUME NEW u \in Units \ erased PROVE img'[u] = ram'[u]
    <3>1. wiped[u] = ram[u]
      BY <2>1 DEF EraseUnits
    <3>2. ram'[u] = wiped[u]
      BY <1>2, <1>3, <2>1, ProgramElsewhere
    <3>3. img[u] = ram[u]
      BY <1>4 DEF DurableInv, CopiedSoFar
    <3>. QED  BY <3>1, <3>2, <3>3 DEF EraseBlock
  <2>. QED  BY <1>2, <2>1 DEF CopiedSoFar
<1>6. OthersSame'
  <2>1. ASSUME NEW u \in Units \ InFlight PROVE img'[u].data = ram'[u].data
    <3>1. u \in kept \/ u \notin erased
      <4>1. u[1] \notin from..upto
        BY <2>1 DEF DurableInv, EraseIsAsked, EraseBlock
      <4>. QED  BY <4>1 DEF UnitsOf
    <3>2. ram'[u].data = ram[u].data
      BY <1>2, <1>3, <3>1, WriteBack DEF DurableInv, TypeOK, ImageTypeOK
    <3>3. img[u].data = ram[u].data
      BY <1>4, <2>1 DEF DurableInv, OthersSame
    <3>. QED  BY <3>2, <3>3 DEF EraseBlock
  <2>. QED  BY <1>4, <2>1 DEF OthersSame
<1>7. EraseIsAsked'
  <2>1. ASSUME NEW u \in Units, u[1] \in (from'..upto') PROVE u[1] \in from..upto
    BY <2>1, CursorMoves DEF DurableInv, TypeOK, Units, Sectors
  <2>. QED  BY <1>4, <2>1 DEF DurableInv, EraseIsAsked, EraseBlock
<1>. QED  BY <1>1, <1>4, <1>5, <1>6, <1>7
          DEF DurableInv, Opened, NothingToCopy, EraseBlock, Copying

\* A file write within an update: the last one makes the file equal to memory.
LEMMA CopyDurable ==
    ASSUME ~IOErrors, DurableInv, Copying, Copy
    PROVE  /\ named' /\ whole' /\ ram' = ram
           /\ \A u \in Units \ todo' : img'[u] = ram'[u]
           /\ \A u \in Units \ InFlight : img'[u].data = ram'[u].data
           /\ todo' = {} => img' = ram'
<1>1. named /\ whole /\ Running
  BY DEF DurableInv, Opened, Copying, Running
<1>2. /\ named' /\ whole' = whole /\ ram' = ram
      /\ \A u \in Units \ todo' : img'[u] = ram'[u]
      /\ \A u \in todo' : img'[u] = img[u]
      /\ todo' = {} => img' = ram'
  BY <1>1, CopyCatchesUp DEF DurableInv, TypeOK, CopiedSoFar
<1>3. ASSUME NEW u \in Units \ InFlight PROVE img'[u].data = ram'[u].data
  BY <1>1, <1>2 DEF DurableInv, OthersSame
<1>. QED  BY <1>1, <1>2, <1>3

LEMMA CopyErasedDurable ==
    ASSUME ~IOErrors, DurableInv, CopyErased
    PROVE  DurableInv'
<1>1. TypeOK'
  BY CopyErasedTyped DEF DurableInv
<1>2. /\ named' /\ whole' /\ ram' = ram
      /\ \A u \in Units \ todo' : img'[u] = ram'[u]
      /\ \A u \in Units \ InFlight : img'[u].data = ram'[u].data
      /\ todo' = {} => img' = ram'
  BY CopyDurable DEF CopyErased, Copying
<1>3. pc' \in {"ecopy", "erase", "program", "idle"}
      /\ (pc' # "ecopy" => todo' = {})
  BY DEF CopyErased, AfterErase
<1>4. pc' # "idle" => UNCHANGED <<call, cursor>>
  BY DEF CopyErased, ReturnIfIdle
<1>5. pc' # "idle" => InFlight' = InFlight
  BY <1>4 DEF InFlight
<1>6. EraseIsAsked'
  BY <1>3, <1>4, <1>5 DEF EraseIsAsked, DurableInv, CopyErased, cursor
<1>. QED  BY <1>1, <1>2, <1>3, <1>5, <1>6
          DEF DurableInv, Opened, CopiedSoFar, NothingToCopy, OthersSame, Copying, Running

LEMMA CopyProgrammedDurable ==
    ASSUME ~IOErrors, DurableInv, CopyProgrammed
    PROVE  DurableInv'
<1>1. TypeOK'
  BY CopyProgrammedTyped DEF DurableInv
<1>2. /\ named' /\ whole' /\ ram' = ram
      /\ \A u \in Units \ todo' : img'[u] = ram'[u]
      /\ \A u \in Units \ InFlight : img'[u].data = ram'[u].data
      /\ todo' = {} => img' = ram'
  BY CopyDurable DEF CopyProgrammed, Copying
<1>3. pc' \in {"pcopy", "idle"} /\ (pc' # "pcopy" => todo' = {})
  BY DEF CopyProgrammed
<1>4. pc' # "idle" => InFlight' = InFlight
  BY DEF CopyProgrammed, ReturnIfIdle, InFlight
<1>. QED  BY <1>1, <1>2, <1>3, <1>4
          DEF DurableInv, Opened, CopiedSoFar, NothingToCopy, OthersSame, EraseIsAsked,
              Copying, Running

LEMMA ProgramRangeDurable ==
    ASSUME DurableInv, ProgramRange
    PROVE  DurableInv'
<1>1. TypeOK'
  BY ProgramRangeTyped DEF DurableInv
<1>2. /\ pc = "program" /\ pc' = "pcopy" /\ todo = {} /\ todo' = InFlight /\ InFlight' = InFlight
      /\ UNCHANGED <<img, whole, named>>
  BY DEF ProgramRange, DurableInv, NothingToCopy, Copying, InFlight
<1>3. ASSUME NEW u \in Units \ InFlight PROVE ram'[u] = ram[u]
  BY ProgramElsewhere DEF ProgramRange, InFlight
<1>4. CopiedSoFar'
  BY <1>2, <1>3 DEF DurableInv, CopiedSoFar, Running
<1>5. OthersSame'
  BY <1>2, <1>3 DEF DurableInv, OthersSame, Running
<1>. QED  BY <1>1, <1>2, <1>4, <1>5 DEF DurableInv, Opened, NothingToCopy, EraseIsAsked, Copying

LEMMA CopyTornDurable ==
    ASSUME DurableInv, CopyTorn
    PROVE  DurableInv'
<1>1. TypeOK'
  BY NextTyped DEF DurableInv, Next, Work
<1>2. /\ UNCHANGED <<pc, ram, whole, named, todo, call, from, upto>>
      /\ InFlight' = InFlight /\ (Running <=> Running') /\ (Copying <=> Copying')
  BY DEF CopyTorn, CopyHalf, cursor, InFlight, Running, Copying
<1>3. /\ \A v \in Units : img'[v].data = img[v].data
      /\ \A v \in Units \ todo : img'[v] = img[v]
  BY CopyHalfKeepsWords DEF CopyTorn, DurableInv, TypeOK
<1>4. CopiedSoFar'
  BY <1>2, <1>3 DEF DurableInv, CopiedSoFar
<1>5. OthersSame'
  BY <1>2, <1>3 DEF DurableInv, OthersSame
<1>. QED  BY <1>1, <1>2, <1>4, <1>5 DEF DurableInv, Opened, NothingToCopy, EraseIsAsked

LEMMA CrashDurable ==
    ASSUME DurableInv, Crash
    PROVE  DurableInv'
<1>1. TypeOK'
  BY NextTyped DEF DurableInv, Next
<1>. QED  BY <1>1 DEF Crash, Lose, DurableInv, Opened, CopiedSoFar, NothingToCopy, OthersSame,
                      EraseIsAsked, Running, Copying

LEMMA NextDurable ==
    ASSUME ~IOErrors
    PROVE  DurableInv /\ [Next]_vars => DurableInv'
<1>. SUFFICES ASSUME DurableInv, [Next]_vars PROVE DurableInv'
  OBVIOUS
<1>1. CASE Start           BY <1>1, StartDurable
<1>2. CASE EraseBlock      BY <1>2, EraseBlockDurable
<1>3. CASE CopyErased      BY <1>3, CopyErasedDurable
<1>4. CASE ProgramRange    BY <1>4, ProgramRangeDurable
<1>5. CASE CopyProgrammed  BY <1>5, CopyProgrammedDurable
<1>6. CASE CopyTorn        BY <1>6, CopyTornDurable
<1>7. CASE Invoke          BY <1>7, InvokeDurable
<1>8. CASE Crash           BY <1>8, CrashDurable
<1>9. CASE UNCHANGED vars
  <2>1. TypeOK'
    BY NextTyped DEF DurableInv
  <2>. QED  BY <1>9, <2>1 DEF vars, DurableInv, Opened, CopiedSoFar, NothingToCopy, OthersSame,
                              EraseIsAsked, Running, Copying, InFlight
<1>. QED  BY <1>1, <1>2, <1>3, <1>4, <1>5, <1>6, <1>7, <1>8, <1>9 DEF Next, Work

\* What the invariant says of a driver between two calls, and within one.
LEMMA InvDurable == DurableInv => Synced /\ CrashSafe
<1>. SUFFICES ASSUME DurableInv PROVE Synced /\ CrashSafe
  OBVIOUS
<1>1. ASSUME pc = "idle" PROVE whole /\ img = ram
  <2>1. \A u \in Units : img[u] = ram[u]
    BY <1>1 DEF DurableInv, CopiedSoFar, NothingToCopy, Copying
  <2>2. img = ram
    BY <2>1 DEF DurableInv, TypeOK, ImageTypeOK, Flash
  <2>. QED  BY <1>1, <2>2 DEF DurableInv, Opened
<1>2. ASSUME Running PROVE whole
  BY <1>2 DEF DurableInv, Opened, Running
<1>. QED  BY <1>1, <1>2 DEF DurableInv, OthersSame, Synced, CrashSafe

\* When the file can always be written, a call that returned is in it
\* entirely, and a kill in the middle of a call costs no word but the call's
\* own: what fat_erase_sector writes back is never missing from the file,
\* whichever sectors the call is about and wherever the kill falls.
THEOREM Durable ==
    ASSUME ~IOErrors
    PROVE  Spec => [](Synced /\ CrashSafe)
BY InvDurable, InitDurable, NextDurable, PTL DEF Spec

(***************************************************************************)
(* Writes land, when callers write one sector a call and whatever fails in *)
(* the file.  A unit in use in the way is the danger.                      *)
(***************************************************************************)
Unused == \A u \in InFlight : ~ram[u].used

\* The rewrite of a sector in use: its erase takes one pass.
RewriteOfOneSector ==
    /\ pc = "erase" /\ call.op = "write" =>
         from = upto /\ from \in Sectors /\ InFlight = UnitsOf({from})
    /\ pc = "ecopy" /\ call.op = "write" => upto < from /\ Unused

ReadyToProgram == pc = "program" => Unused

RoomInv == TypeOK /\ RewriteOfOneSector /\ ReadyToProgram /\ NonBlankWordsLand

\* Writing to units that are not in use leaves every word that is not blank.
LEMMA ProgramUnused ==
    ASSUME NEW f \in Flash, NEW D \in SUBSET Units, NEW d \in [D -> Words],
           \A v \in D : ~f[v].used, NEW u \in D, d[u] # Blank
    PROVE  Program(f, d)[u].data = d[u]
<1>1. ~GivenUp(f, DOMAIN d, u)
  BY DEF GivenUp
<1>2. u \in Units /\ u \in DOMAIN d
  OBVIOUS
<1>. QED  BY <1>1, <1>2 DEF Program

LEMMA WriteRoom ==
    ASSUME MaxCount = 1, RoomInv,
           NEW r \in Ranges, NEW d \in [UnitsOf(r[1]..(r[1] + r[2] - 1)) -> Words],
           Write(r[1], r[2], d)
    PROVE  RoomInv'
<1>1. TypeOK'
  BY WriteTyped DEF RoomInv
<1>2. r[1] \in Sectors /\ r[2] = 1 /\ r[1]..(r[1] + r[2] - 1) = {r[1]}
  BY DEF Ranges, Sectors
<1>3. InFlight' = UnitsOf({r[1]})
  BY <1>2, RangeUnits, EnterTyped DEF Write, RoomInv, TypeOK
<1>4. CASE OverWriteDetect(r[1])
  BY <1>1, <1>2, <1>3, <1>4
  DEF Write, RoomInv, RewriteOfOneSector, ReadyToProgram, NonBlankWordsLand
<1>5. CASE ~OverWriteDetect(r[1])
  <2>1. Unused'
    BY <1>3, <1>5 DEF Write, imageVars, OverWriteDetect, Unused
  <2>2. pc' = "program"
    BY <1>5 DEF Write
  <2>. QED  BY <1>1, <2>1, <2>2
            DEF RoomInv, RewriteOfOneSector, ReadyToProgram, NonBlankWordsLand
<1>. QED  BY <1>4, <1>5

LEMMA InvokeRoom ==
    ASSUME MaxCount = 1, RoomInv, Invoke
    PROVE  RoomInv'
<1>1. TypeOK'
  BY NextTyped DEF RoomInv, Next
<1>2. ASSUME NEW s \in Sectors, NEW e \in Sectors, Trim(s, e)
      PROVE  RoomInv'
  <2>1. pc' = "erase" /\ call'.op = "trim"
    BY <1>2 DEF Trim, Enter
  <2>. QED  BY <1>1, <2>1 DEF RoomInv, RewriteOfOneSector, ReadyToProgram, NonBlankWordsLand
<1>3. ASSUME NEW r \in Ranges, Read(r[1], r[2])
      PROVE  RoomInv'
  BY <1>1, <1>3 DEF Read, RoomInv, RewriteOfOneSector, ReadyToProgram, NonBlankWordsLand
<1>4. CASE Sync
  BY <1>1, <1>4 DEF Sync, RoomInv, RewriteOfOneSector, ReadyToProgram, NonBlankWordsLand
<1>. QED  BY <1>2, <1>3, <1>4, WriteRoom DEF Invoke

LEMMA EraseBlockRoom ==
    ASSUME RoomInv, EraseBlock
    PROVE  RoomInv'
<1>. DEFINE b == BlockOf(from)
            erased == BlockUnits(b)
            kept == erased \ UnitsOf(from..upto)
            wiped == EraseUnits(ram, erased)
            d == Contents(ram, kept)
<1>1. TypeOK'
  BY EraseBlockTyped DEF RoomInv
<1>2. ram' = Program(wiped, d) /\ DOMAIN d = kept
  BY DEF EraseBlock, Contents
<1>3. InFlight' = InFlight /\ call' = call /\ pc = "erase" /\ pc' = "ecopy"
  BY DEF EraseBlock, InFlight
<1>4. ASSUME call.op = "write" PROVE upto' < from' /\ Unused'
  <2>1. from = upto /\ from \in Sectors /\ InFlight = UnitsOf({from})
    BY <1>3, <1>4 DEF RoomInv, RewriteOfOneSector
  <2>2. upto' < from'
    BY <2>1, CursorMoves DEF RoomInv, TypeOK
  <2>3. ASSUME NEW u \in InFlight PROVE ~ram'[u].used
    <3>1. u \in Units /\ u[1] = from
      BY <2>1, <2>3 DEF UnitsOf, Units
    <3>2. u \in erased
      BY <3>1 DEF BlockUnits
    <3>3. u[1] \in from..upto
      BY <2>1, <3>1 DEF Sectors
    <3>4. u \notin kept
      BY <3>1, <3>3 DEF UnitsOf, Units
    <3>5. ram'[u] = wiped[u]
      BY <1>2, <3>1, <3>4, ProgramElsewhere
    <3>6. wiped[u] = Erased
      BY <3>1, <3>2 DEF EraseUnits
    <3>. QED  BY <3>5, <3>6 DEF Erased
  <2>. QED  BY <1>3, <2>2, <2>3 DEF Unused
<1>. QED  BY <1>1, <1>3, <1>4 DEF RoomInv, RewriteOfOneSector, ReadyToProgram, NonBlankWordsLand

LEMMA CopyErasedRoom ==
    ASSUME RoomInv, CopyErased
    PROVE  RoomInv'
<1>1. TypeOK'
  BY CopyErasedTyped DEF RoomInv
<1>2. ram' = ram
  BY CopyKeepsMemory DEF CopyErased
<1>3. pc' # "idle" => UNCHANGED <<call, cursor>>
  BY DEF CopyErased, ReturnIfIdle
<1>4. CASE pc' = "idle"
  BY <1>1, <1>4 DEF RoomInv, RewriteOfOneSector, ReadyToProgram, NonBlankWordsLand
<1>5. CASE pc' = "erase"
  <2>1. call.op # "write"
    BY <1>5 DEF CopyErased, AfterErase, RoomInv, RewriteOfOneSector, TypeOK
  <2>. QED  BY <1>1, <1>3, <1>5, <2>1
            DEF RoomInv, RewriteOfOneSector, ReadyToProgram, NonBlankWordsLand
<1>6. CASE pc' = "program"
  <2>1. call.op = "write" /\ call' = call
    BY <1>3, <1>6 DEF CopyErased, AfterErase
  <2>2. Unused'
    BY <1>2, <2>1 DEF CopyErased, RoomInv, RewriteOfOneSector, Unused, InFlight
  <2>. QED  BY <1>1, <1>6, <2>2 DEF RoomInv, RewriteOfOneSector, ReadyToProgram, NonBlankWordsLand
<1>7. CASE pc' = "ecopy"
  BY <1>1, <1>2, <1>3, <1>7
  DEF CopyErased, RoomInv, RewriteOfOneSector, ReadyToProgram, NonBlankWordsLand, Unused, InFlight,
      cursor
<1>. QED  BY <1>4, <1>5, <1>6, <1>7 DEF CopyErased, AfterErase

LEMMA ProgramRangeRoom ==
    ASSUME RoomInv, ProgramRange
    PROVE  RoomInv'
<1>1. TypeOK'
  BY ProgramRangeTyped DEF RoomInv
<1>2. ram' = Program(ram, call.new) /\ call' = call /\ pc' = "pcopy" /\ InFlight' = InFlight
  BY DEF ProgramRange, InFlight
<1>3. ram \in Flash /\ InFlight \in SUBSET Units /\ call.new \in [InFlight -> Words]
  BY DEF RoomInv, TypeOK, ImageTypeOK
<1>4. \A v \in InFlight : ~ram[v].used
  BY DEF ProgramRange, RoomInv, ReadyToProgram, Unused
<1>5. NonBlankWordsLand'
  BY <1>2, <1>3, <1>4, ProgramUnused DEF NonBlankWordsLand
<1>. QED  BY <1>1, <1>2, <1>5 DEF RoomInv, RewriteOfOneSector, ReadyToProgram

LEMMA CopyProgrammedRoom ==
    ASSUME RoomInv, CopyProgrammed
    PROVE  RoomInv'
<1>1. TypeOK'
  BY CopyProgrammedTyped DEF RoomInv
<1>2. pc' \in {"pcopy", "idle"} /\ (pc' # "idle" => call' = call) /\ ram' = ram
  BY CopyKeepsMemory DEF CopyProgrammed, ReturnIfIdle
<1>. QED  BY <1>1, <1>2
          DEF CopyProgrammed, RoomInv, RewriteOfOneSector, ReadyToProgram, NonBlankWordsLand, InFlight

LEMMA NextRoom ==
    ASSUME MaxCount = 1
    PROVE  RoomInv /\ [Next]_vars => RoomInv'
<1>. SUFFICES ASSUME RoomInv, [Next]_vars PROVE RoomInv'
  OBVIOUS
<1>0. TypeOK'
  BY NextTyped DEF RoomInv
<1>1. CASE Start
  <2>1. pc' \in {"loaded", "saving", "idle"}
    BY <1>1 DEF Start, Startup, Import, ImportFails, Truncate, Saved, NotSaved, SaveFails
  <2>. QED  BY <1>0, <2>1 DEF RoomInv, RewriteOfOneSector, ReadyToProgram, NonBlankWordsLand
<1>2. CASE EraseBlock      BY <1>2, EraseBlockRoom
<1>3. CASE CopyErased      BY <1>3, CopyErasedRoom
<1>4. CASE ProgramRange    BY <1>4, ProgramRangeRoom
<1>5. CASE CopyProgrammed  BY <1>5, CopyProgrammedRoom
<1>6. CASE CopyTorn
  BY <1>0, <1>6 DEF CopyTorn, CopyHalf, cursor, RoomInv, RewriteOfOneSector, ReadyToProgram,
                    NonBlankWordsLand, Unused, InFlight
<1>7. CASE Invoke          BY <1>7, InvokeRoom
<1>8. CASE Crash
  BY <1>0, <1>8
  DEF Crash, Lose, RoomInv, RewriteOfOneSector, ReadyToProgram, NonBlankWordsLand
<1>9. CASE UNCHANGED vars
  BY <1>0, <1>9 DEF vars, RoomInv, RewriteOfOneSector, ReadyToProgram, NonBlankWordsLand,
                    Unused, InFlight
<1>. QED  BY <1>1, <1>2, <1>3, <1>4, <1>5, <1>6, <1>7, <1>8, <1>9 DEF Next, Work

LEMMA InitRoom == Init => RoomInv
BY InitTyped DEF Init, ImageInit, RoomInv, RewriteOfOneSector, ReadyToProgram, NonBlankWordsLand

\* Every word of a write that is not all ones is in memory once the write has
\* programmed the flash: fat_over_write_detect misses nothing that would stop
\* vpage_write, neither after crashes, with whole unit records or torn ones,
\* nor after an import, an export or an update that failed, and so whatever
\* records an earlier run left in the file.
THEOREM WordsLand ==
    ASSUME MaxCount = 1
    PROVE  Spec => []NonBlankWordsLand
<1>1. RoomInv => NonBlankWordsLand
  BY DEF RoomInv
<1>. QED  BY <1>1, InitRoom, NextRoom, PTL DEF Spec

(***************************************************************************)
(* All-ones words land too if a unit that is not in use is blank, which    *)
(* has to be followed through the file, for a later run of the program     *)
(* imports it.                                                             *)
(***************************************************************************)
FreeBlankIn(f) == \A u \in Units : ~f[u].used => f[u].data = Blank

BlankInv == TypeOK /\ FreeBlankIn(ram) /\ FreeBlankIn(img)

LEMMA ProgramFreeBlank ==
    ASSUME NEW f, NEW d, FreeBlankIn(f)
    PROVE  FreeBlankIn(Program(f, d))
BY DEF FreeBlankIn, Program

LEMMA EraseFreeBlank ==
    ASSUME NEW f, NEW U, FreeBlankIn(f)
    PROVE  FreeBlankIn(EraseUnits(f, U))
BY DEF FreeBlankIn, EraseUnits, Erased

LEMMA BlankFreeBlank == FreeBlankIn(BlankFlash)
BY DEF FreeBlankIn, BlankFlash, Erased

\* A file write of a whole record.
LEMMA CopyFreeBlank ==
    ASSUME ~IOErrors, BlankInv, Copy
    PROVE  FreeBlankIn(ram') /\ FreeBlankIn(img')
<1>1. CASE CopyFails
  BY <1>1 DEF CopyFails, BlankInv
<1>2. ASSUME NEW u \in todo, CopyUnit(u)
      PROVE  FreeBlankIn(ram') /\ FreeBlankIn(img')
  BY <1>2 DEF CopyUnit, BlankInv, FreeBlankIn, TypeOK, ImageTypeOK, Flash
<1>. QED  BY <1>1, <1>2 DEF Copy, CopyLost

LEMMA NextBlank ==
    ASSUME ~IOErrors, Straddle = {}
    PROVE  BlankInv /\ [Next]_vars => BlankInv'
<1>. SUFFICES ASSUME BlankInv, [Next]_vars PROVE FreeBlankIn(ram') /\ FreeBlankIn(img')
  BY NextTyped DEF BlankInv, FreeBlankIn
<1>1. CASE Start
  <2>1. ram' \in {ram, img, BlankFlash} /\ img' \in {ram, img, BlankFlash}
    BY <1>1 DEF Start, Startup, Import, ImportFails, Truncate, Saved, NotSaved, SaveFails, Stored, imageVars
  <2>. QED  BY <2>1, BlankFreeBlank DEF BlankInv
<1>2. CASE EraseBlock
  <2>1. PICK U, d : ram' = Program(EraseUnits(ram, U), d)
    BY <1>2 DEF EraseBlock
  <2>2. img' = img
    BY <1>2 DEF EraseBlock
  <2>. QED  BY <2>1, <2>2, EraseFreeBlank, ProgramFreeBlank DEF BlankInv
<1>3. CASE CopyErased      BY <1>3, CopyFreeBlank DEF CopyErased
<1>4. CASE ProgramRange    BY <1>4, ProgramFreeBlank DEF ProgramRange, BlankInv
<1>5. CASE CopyProgrammed  BY <1>5, CopyFreeBlank DEF CopyProgrammed
<1>6. CASE CopyTorn        BY <1>6 DEF CopyTorn, CopyHalf
<1>7. CASE Invoke
  <2>1. UNCHANGED imageVars
    BY <1>7 DEF Invoke, Write, Trim, Read, Sync
  <2>. QED  BY <2>1 DEF imageVars, BlankInv
<1>8. CASE Crash           BY <1>8, BlankFreeBlank DEF Crash, Lose, BlankInv
<1>9. CASE UNCHANGED vars  BY <1>9 DEF vars, BlankInv
<1>. QED  BY <1>1, <1>2, <1>3, <1>4, <1>5, <1>6, <1>7, <1>8, <1>9 DEF Next, Work

LEMMA InitBlank == Init => BlankInv
BY InitTyped, BlankFreeBlank DEF Init, ImageInit, BlankInv

\* A unit that is not marked used is blank, over any number of runs of the
\* program, if the file can be read and written and no unit record reaches it
\* in two halves.
THEOREM FreeStaysBlank ==
    ASSUME ~IOErrors, Straddle = {}
    PROVE  Spec => []FreeIsBlank
<1>1. BlankInv => FreeIsBlank
  BY DEF BlankInv, FreeBlankIn, FreeIsBlank
<1>. QED  BY <1>1, InitBlank, NextBlank, PTL DEF Spec

LEMMA NextLanding ==
    ASSUME ~IOErrors, MaxCount = 1, Straddle = {}
    PROVE  RoomInv /\ BlankInv /\ WriteLands /\ [Next]_vars => WriteLands'
<1>. SUFFICES ASSUME RoomInv, BlankInv, WriteLands, [Next]_vars, pc' = "pcopy"
              PROVE  Contents(ram', InFlight') = call'.new
  BY DEF WriteLands
<1>1. CASE ProgramRange
  <2>1. ram' = Program(ram, call.new) /\ call' = call /\ InFlight' = InFlight
    BY <1>1 DEF ProgramRange, InFlight
  <2>2. ram \in Flash /\ InFlight \in SUBSET Units /\ call.new \in [InFlight -> Words]
    BY DEF RoomInv, TypeOK, ImageTypeOK
  <2>3. \A v \in InFlight : ~ram[v].used /\ ram[v].data = Blank
    BY <1>1, <2>2 DEF ProgramRange, RoomInv, ReadyToProgram, Unused, BlankInv, FreeBlankIn
  <2>. QED  BY <2>1, <2>2, <2>3, ProgramFree
<1>2. CASE CopyProgrammed
  <2>1. ram' = ram /\ call' = call /\ pc = "pcopy"
    BY <1>2, CopyKeepsMemory DEF CopyProgrammed, ReturnIfIdle
  <2>. QED  BY <2>1 DEF WriteLands, InFlight
<1>3. CASE CopyTorn        BY <1>3 DEF CopyTorn, CopyHalf
<1>4. CASE UNCHANGED vars  BY <1>4 DEF vars, WriteLands, InFlight
<1>5. CASE Start           BY <1>5 DEF Start, Startup, Import, ImportFails, Truncate, Saved, NotSaved, SaveFails
<1>6. CASE Invoke          BY <1>6 DEF Invoke, Write, Trim, Read, Sync, Enter
<1>7. CASE EraseBlock      BY <1>7 DEF EraseBlock
<1>8. CASE CopyErased      BY <1>8 DEF CopyErased, AfterErase
<1>9. CASE Crash           BY <1>9 DEF Crash, Lose
<1>. QED  BY <1>1, <1>2, <1>3, <1>4, <1>5, <1>6, <1>7, <1>8, <1>9 DEF Next, Work

\* A write leaves in memory exactly the words asked for, all-ones words
\* included, if the file can be read and written and no unit record reaches it
\* in two halves.
THEOREM WritesLand ==
    ASSUME ~IOErrors, MaxCount = 1, Straddle = {}
    PROVE  Spec => []WriteLands
<1>1. Init => WriteLands
  BY DEF Init, ImageInit, WriteLands
<1>. QED  BY <1>1, InitRoom, InitBlank, NextRoom, NextBlank, NextLanding, PTL DEF Spec

(***************************************************************************)
(* The refinement of SectorDisk: without I/O errors, without half-written  *)
(* records and with calls that write one sector, the driver implements a   *)
(* disk whose calls are durable once they return, and whose cut calls      *)
(* damage no word but their own.                                           *)
(***************************************************************************)

\* fat_erase_sector has blanked the call's units in front of its cursor, and
\* the call's units end where the range does.
TrimErases ==
    pc \in {"erase", "ecopy"} =>
        /\ call.op \in {"write", "trim"}
        /\ call.op = "trim" =>
             \A u \in InFlight : /\ u[1] <= upto
                                 /\ call.new[u] = Blank
                                 /\ u[1] < from => ram[u].data = Blank

CallInv == Quiet /\ AsLoaded /\ WordsBetween /\ TrimErases

RefineInv == DurableInv /\ RoomInv /\ BlankInv /\ WriteLands /\ CallInv

\* The sectors from a cursor to the end of its block are in that block.
LEMMA SameBlock ==
    ASSUME NEW k \in Nat \ {0}, NEW s \in Int, NEW x \in Int, s <= x, x < (s \div k + 1) * k
    PROVE  x \div k = s \div k
OBVIOUS

\* What one pass of fat_erase_sector does to the words: they stay, or they are
\* blank, as those of the sectors it moves its cursor over are.
LEMMA EraseBlockWords ==
    ASSUME TypeOK, EraseBlock, NEW u \in Units
    PROVE  /\ ram'[u].data \in {ram[u].data, Blank}
           /\ u[1] < from => ram'[u].data = ram[u].data
           /\ from <= u[1] /\ u[1] <= upto /\ u[1] < from' => ram'[u].data = Blank
<1>. DEFINE b == BlockOf(from)
            erased == BlockUnits(b)
            kept == erased \ UnitsOf(from..upto)
            wiped == EraseUnits(ram, erased)
            d == Contents(ram, kept)
<1>1. ram' = Program(wiped, d) /\ DOMAIN d = kept
  BY DEF EraseBlock, Contents
<1>2. erased \in SUBSET Units /\ kept \in SUBSET erased /\ ram \in Flash
  BY BlockUnitsInUnits DEF TypeOK, ImageTypeOK
<1>3. u[1] \in Int /\ from \in Int /\ upto \in Int
  BY DEF Units, Sectors, TypeOK
<1>4. CASE u \in kept \/ u \notin erased
  <2>1. ram'[u].data = ram[u].data
    BY <1>1, <1>2, <1>4, WriteBack
  <2>2. ~(from <= u[1] /\ u[1] <= upto /\ u[1] < from')
    <3>. SUFFICES ASSUME from <= u[1], u[1] <= upto, u[1] < from' PROVE FALSE
      OBVIOUS
    <3>1. u \in UnitsOf(from..upto)
      BY <1>3 DEF UnitsOf, Units
    <3>2. u[1] < (from \div SecPerBlock + 1) * SecPerBlock
      BY <1>3, GeometryAssumption DEF EraseBlock, BlockOf
    <3>3. BlockOf(u[1]) = BlockOf(from)
      BY <1>3, <3>2, SameBlock, GeometryAssumption DEF BlockOf
    <3>. QED  BY <1>4, <3>1, <3>3 DEF BlockUnits
  <2>. QED  BY <2>1, <2>2
<1>5. CASE u \in erased \ kept
  <2>1. ram'[u] = wiped[u]
    BY <1>1, <1>5, ProgramElsewhere
  <2>2. ram'[u].data = Blank
    BY <1>5, <2>1 DEF EraseUnits, Erased
  <2>3. from <= u[1]
    BY <1>3, <1>5 DEF UnitsOf
  <2>. QED  BY <1>3, <2>2, <2>3
<1>. QED  BY <1>4, <1>5

LEMMA StartMaps ==
    ASSUME ~IOErrors, RefineInv, Start
    PROVE  CallInv' /\ (Disk!Next \/ UNCHANGED Disk!vars)
<1>1. pc' \in {"loaded", "saving", "idle"} /\ ~Running'
  BY DEF Start, Startup, Import, ImportFails, Truncate, Saved, NotSaved, SaveFails, Running
<1>. QED  BY <1>1, StartupMaps
          DEF Start, RefineInv, CallInv, DurableInv, TypeOK, WordsBetween, TrimErases

\* A write or a trim begins: nothing has happened to its words yet.
LEMMA EnterMaps ==
    ASSUME RefineInv, NEW op, NEW D \in SUBSET Units, NEW d \in [D -> Words], Enter(op, d),
           UNCHANGED imageVars, pc' \in {"erase", "program"}
    PROVE  /\ Quiet' /\ AsLoaded' /\ WordsBetween' /\ Disk!Begin
           /\ call'.op = op /\ InFlight' = D /\ call'.new = d
<1>1. ImageTypeOK /\ pc = "idle" /\ Running' /\ ram' = ram /\ img' = img
  BY DEF RefineInv, DurableInv, TypeOK, Enter, Running, imageVars
<1>2. \A u \in Units : img[u] = ram[u]
  BY <1>1 DEF RefineInv, DurableInv, CopiedSoFar, NothingToCopy, Copying
<1>3. WordsBetween'
  BY <1>1, <1>2, BeginBetween
<1>4. Disk!Begin
  BY <1>1, BeginMaps DEF RefineInv, CallInv
<1>5. call'.op = op /\ InFlight' = D /\ call'.new = d
  BY <1>1, EnterTyped
<1>. QED  BY <1>1, <1>3, <1>4, <1>5 DEF Quiet, AsLoaded

LEMMA InvokeMaps ==
    ASSUME RefineInv, Invoke
    PROVE  CallInv' /\ (Disk!Next \/ UNCHANGED Disk!vars)
<1>1. ASSUME NEW r \in Ranges, NEW d \in [UnitsOf(r[1]..(r[1] + r[2] - 1)) -> Words],
             Write(r[1], r[2], d)
      PROVE  CallInv' /\ Disk!Begin
  <2>1. Enter("write", d) /\ UNCHANGED imageVars /\ pc' \in {"erase", "program"}
    BY <1>1 DEF Write
  <2>2. Quiet' /\ AsLoaded' /\ WordsBetween' /\ Disk!Begin /\ call'.op = "write"
    BY <2>1, RangeUnits, EnterMaps
  <2>. QED  BY <2>2 DEF CallInv, TrimErases
<1>2. ASSUME NEW s \in Sectors, NEW e \in Sectors, Trim(s, e)
      PROVE  CallInv' /\ Disk!Begin
  <2>. DEFINE D == UnitsOf(s..e)
              d == [u \in D |-> Blank]
  <2>1. D \in SUBSET Units /\ d \in [D -> Words]
    BY SectorUnits, GeometryAssumption
  <2>2. /\ Enter("trim", d) /\ UNCHANGED imageVars
        /\ pc' = "erase" /\ from' = s /\ upto' = e
    BY <1>2 DEF Trim
  <2>3. /\ Quiet' /\ AsLoaded' /\ WordsBetween' /\ Disk!Begin
        /\ call'.op = "trim" /\ InFlight' = D /\ call'.new = d
    BY <2>1, <2>2, EnterMaps
  <2>4. \A u \in D : s <= u[1] /\ u[1] <= e /\ d[u] = Blank
    BY DEF UnitsOf, Sectors
  <2>5. TrimErases'
    BY <2>2, <2>3, <2>4 DEF TrimErases, UnitsOf, Sectors
  <2>. QED  BY <2>3, <2>5 DEF CallInv
<1>3. ASSUME UNCHANGED <<pc, imageVars, call, cursor>>
      PROVE  CallInv' /\ UNCHANGED Disk!vars
  BY <1>3, IdleMaps DEF imageVars, cursor, RefineInv, CallInv, Quiet, AsLoaded, WordsBetween,
                        TrimErases, Running, Stored, InFlight
<1>. QED  BY <1>1, <1>2, <1>3 DEF Invoke, Read, Sync, Disk!Next

LEMMA EraseBlockMaps ==
    ASSUME RefineInv, EraseBlock
    PROVE  CallInv' /\ UNCHANGED Disk!vars
<1>1. TypeOK /\ Running /\ Running' /\ UNCHANGED <<call, img>> /\ InFlight' = InFlight
  BY DEF RefineInv, DurableInv, EraseBlock, Running, InFlight
<1>2. InFlight \in SUBSET Units
  BY <1>1 DEF TypeOK, ImageTypeOK
<1>3. WordsBetween'
  BY <1>1, <1>2, EraseBlockWords, BusyBetween DEF RefineInv, CallInv
<1>4. \A u \in Units \ InFlight : ram'[u].data = ram[u].data
  <2>1. DurableInv'
    BY EraseBlockDurable DEF RefineInv
  <2>. QED  BY <1>1, <2>1 DEF DurableInv, OthersSame, RefineInv
<1>5. TrimErases'
  <2>1. TrimErases /\ pc = "erase" /\ pc' = "ecopy" /\ upto' = upto
    BY DEF RefineInv, CallInv, EraseBlock
  <2>2. ASSUME call.op = "trim", NEW u \in InFlight
        PROVE  /\ u[1] <= upto /\ call.new[u] = Blank
               /\ u[1] < from' => ram'[u].data = Blank
    <3>1. /\ u[1] <= upto /\ call.new[u] = Blank
          /\ u[1] < from => ram[u].data = Blank
      BY <2>1, <2>2 DEF TrimErases
    <3>2. u[1] < from \/ from <= u[1]
      BY <1>1, <1>2 DEF TypeOK, Units, Sectors
    <3>. QED  BY <1>1, <1>2, <3>1, <3>2, EraseBlockWords
  <2>. QED  BY <1>1, <2>1, <2>2 DEF TrimErases
<1>6. UNCHANGED Disk!vars
  BY <1>1, <1>4, BusyMaps
<1>. QED  BY <1>1, <1>3, <1>5, <1>6 DEF CallInv, Quiet, AsLoaded, EraseBlock

\* A file write of an update within a call that goes on.
LEMMA CopyMaps ==
    ASSUME ~IOErrors, RefineInv, Copying, Copy, Running', UNCHANGED call
    PROVE  Quiet' /\ AsLoaded' /\ WordsBetween' /\ UNCHANGED Disk!vars
<1>1. Running /\ named /\ whole /\ TypeOK /\ ImageTypeOK
  BY DEF Copying, Running, RefineInv, DurableInv, Opened, TypeOK
<1>2. /\ ram' = ram
      /\ \A u \in Units \ todo' : img'[u] = ram'[u]
      /\ \A u \in todo' : img'[u] = img[u]
  BY <1>1, CopyCatchesUp DEF RefineInv, DurableInv, CopiedSoFar
<1>3. \A u \in InFlight : img'[u].data \in {img[u].data, ram[u].data}
  BY <1>1, <1>2 DEF ImageTypeOK
<1>4. WordsBetween'
  BY <1>1, <1>2, <1>3, BusyBetween DEF RefineInv, CallInv
<1>5. UNCHANGED Disk!vars
  BY <1>1, <1>2, BusyMaps
<1>. QED  BY <1>4, <1>5 DEF Quiet, AsLoaded, Running

LEMMA CopyErasedMaps ==
    ASSUME ~IOErrors, RefineInv, CopyErased
    PROVE  CallInv' /\ (Disk!Next \/ UNCHANGED Disk!vars)
<1>1. TypeOK /\ ImageTypeOK /\ Copying /\ Running /\ Copy /\ ram' = ram
  BY CopyKeepsMemory DEF CopyErased, Copying, Running, RefineInv, DurableInv, TypeOK
<1>2. pc' \in {"ecopy", "erase", "program", "idle"}
  BY DEF CopyErased, AfterErase
<1>3. CASE pc' # "idle"
  <2>1. UNCHANGED <<call, from, upto>> /\ Running' /\ InFlight' = InFlight
    BY <1>2, <1>3 DEF CopyErased, ReturnIfIdle, cursor, Running, InFlight
  <2>2. TrimErases'
    BY <1>1, <2>1 DEF TrimErases, RefineInv, CallInv, CopyErased
  <2>. QED  BY <1>1, <2>1, <2>2, CopyMaps DEF CallInv
<1>4. CASE pc' = "idle"
  <2>1. call' = NoCall /\ from > upto /\ call.op # "write"
    BY <1>1, <1>4 DEF CopyErased, ReturnIfIdle, AfterErase, TypeOK
  <2>2. call.op = "trim"
    BY <2>1 DEF RefineInv, CallInv, TrimErases, CopyErased
  <2>3. \A u \in InFlight : ram[u].data = call.new[u]
    <3>. SUFFICES ASSUME NEW u \in InFlight PROVE ram[u].data = call.new[u]
      OBVIOUS
    <3>1. /\ u[1] <= upto /\ call.new[u] = Blank
          /\ u[1] < from => ram[u].data = Blank
      BY <2>2 DEF RefineInv, CallInv, TrimErases, CopyErased
    <3>. QED  BY <1>1, <2>1, <3>1 DEF TypeOK, ImageTypeOK, Units, Sectors
  <2>4. Contents(ram, InFlight) = call.new
    BY <1>1, <2>3 DEF Contents, ImageTypeOK
  <2>5. Disk!Complete
    BY <1>1, <1>4, <2>1, <2>4, CompleteMaps
  <2>. QED  BY <1>4, <2>1, <2>5 DEF Disk!Next, CallInv, Quiet, AsLoaded, WordsBetween, TrimErases, Running
<1>. QED  BY <1>3, <1>4

LEMMA ProgramRangeMaps ==
    ASSUME RefineInv, ProgramRange
    PROVE  CallInv' /\ UNCHANGED Disk!vars
<1>1. /\ Running /\ Running' /\ UNCHANGED <<call, img>>
      /\ ram' = Program(ram, call.new) /\ InFlight \in SUBSET Units /\ DOMAIN call.new = InFlight
  BY DEF ProgramRange, Running, InFlight, RefineInv, DurableInv, TypeOK, ImageTypeOK
<1>2. \A u \in Units : ram'[u].data \in {ram[u].data, call.new[u]}
  BY <1>1 DEF Program
<1>3. \A u \in Units \ InFlight : ram'[u] = ram[u]
  BY <1>1, ProgramElsewhere
<1>4. WordsBetween'
  BY <1>1, <1>2, BusyBetween DEF RefineInv, CallInv
<1>5. UNCHANGED Disk!vars
  BY <1>1, <1>3, BusyMaps
<1>. QED  BY <1>1, <1>4, <1>5 DEF CallInv, Quiet, AsLoaded, TrimErases, ProgramRange

LEMMA CopyProgrammedMaps ==
    ASSUME ~IOErrors, RefineInv, CopyProgrammed
    PROVE  CallInv' /\ (Disk!Next \/ UNCHANGED Disk!vars)
<1>1. ImageTypeOK /\ Copying /\ Running /\ Copy /\ ram' = ram /\ pc' \in {"pcopy", "idle"}
  BY CopyKeepsMemory DEF CopyProgrammed, Copying, Running, RefineInv, DurableInv, TypeOK
<1>2. CASE pc' = "pcopy"
  <2>1. UNCHANGED call /\ Running'
    BY <1>2 DEF CopyProgrammed, ReturnIfIdle, Running
  <2>. QED  BY <1>1, <1>2, <2>1, CopyMaps DEF CallInv, TrimErases
<1>3. CASE pc' = "idle"
  <2>1. call' = NoCall
    BY <1>3 DEF CopyProgrammed, ReturnIfIdle
  <2>2. Contents(ram, InFlight) = call.new
    BY DEF RefineInv, WriteLands, CopyProgrammed
  <2>3. Disk!Complete
    BY <1>1, <1>3, <2>1, <2>2, CompleteMaps
  <2>. QED  BY <1>3, <2>1, <2>3 DEF Disk!Next, CallInv, Quiet, AsLoaded, WordsBetween, TrimErases, Running
<1>. QED  BY <1>1, <1>2, <1>3

LEMMA CrashMaps ==
    ASSUME RefineInv, Crash
    PROVE  CallInv' /\ Disk!Next
<1>1. ImageTypeOK /\ Lose /\ pc' = "down" /\ call' = NoCall
  BY DEF RefineInv, DurableInv, TypeOK, Crash, Lose
<1>2. Synced /\ CrashSafe
  BY InvDurable DEF RefineInv
<1>3. ASSUME Running PROVE Disk!Next
  BY <1>1, <1>2, <1>3, LoseBusyMaps DEF RefineInv, CallInv, Disk!Next
<1>4. ASSUME ~Running PROVE Disk!Next
  BY <1>1, <1>2, <1>4, LoseQuietMaps DEF RefineInv, CallInv, Disk!Next, Running
<1>5. Disk!Next
  BY <1>3, <1>4
<1>. QED  BY <1>1, <1>5 DEF CallInv, Quiet, AsLoaded, WordsBetween, TrimErases, Running

\* Every step of the driver is a step of the disk, or none.
LEMMA NextMaps ==
    ASSUME ~IOErrors, Straddle = {}
    PROVE  RefineInv /\ [Next]_vars => CallInv' /\ [Disk!Next]_(Disk!vars)
<1>. SUFFICES ASSUME RefineInv, [Next]_vars
              PROVE  CallInv' /\ (Disk!Next \/ UNCHANGED Disk!vars)
  OBVIOUS
<1>1. CASE Start           BY <1>1, StartMaps
<1>2. CASE EraseBlock      BY <1>2, EraseBlockMaps
<1>3. CASE CopyErased      BY <1>3, CopyErasedMaps
<1>4. CASE ProgramRange    BY <1>4, ProgramRangeMaps
<1>5. CASE CopyProgrammed  BY <1>5, CopyProgrammedMaps
<1>6. CASE CopyTorn        BY <1>6 DEF CopyTorn, CopyHalf
<1>7. CASE Invoke          BY <1>7, InvokeMaps
<1>8. CASE Crash           BY <1>8, CrashMaps
<1>9. CASE UNCHANGED vars
  BY <1>9, IdleMaps DEF vars, RefineInv, CallInv, Quiet, AsLoaded, WordsBetween, TrimErases,
                        Running, Stored, InFlight
<1>. QED  BY <1>1, <1>2, <1>3, <1>4, <1>5, <1>6, <1>7, <1>8, <1>9 DEF Next, Work

\* The driver of myfat.c on its image file implements the sector disk, whatever
\* the geometry and the words, over any number of calls, kills and restarts:
\* when callers write one sector a call, the file can be written, and records
\* reach it whole.
THEOREM Implements ==
    ASSUME ~IOErrors, MaxCount = 1, Straddle = {}
    PROVE  Spec => ImplementsDisk
<1>1. Init => RefineInv /\ Disk!Init
  BY InitDurable, InitRoom, InitBlank, InitMaps
  DEF Init, ImageInit, RefineInv, CallInv, WriteLands, TrimErases
<1>2. RefineInv /\ [Next]_vars => RefineInv'
  BY NextDurable, NextRoom, NextBlank, NextLanding, NextMaps DEF RefineInv
<1>3. RefineInv /\ [Next]_vars => [Disk!Next]_(Disk!vars)
  BY NextMaps
<1>. QED  BY <1>1, <1>2, <1>3, PTL DEF Spec, ImplementsDisk, Disk!Spec
=============================================================================
