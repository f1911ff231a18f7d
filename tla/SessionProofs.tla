---------------------------- MODULE SessionProofs ----------------------------
(***************************************************************************)
(* Theorems about Session, for every set of commands, of directories and   *)
(* of names, and every size of the volume, of the file on the PC and of    *)
(* the lock table.                                                         *)
(***************************************************************************)
EXTENDS Session, WellFoundedInduction, SequenceTheorems, TLAPS

(***************************************************************************)
(* Prefixes, and the least number of a set.                                *)
(***************************************************************************)
LEMMA PrefixSame ==
    ASSUME NEW S, NEW s \in Seq(S)
    PROVE  IsPrefix(s, s)
BY DEF IsPrefix

\* A sequence that is added to keeps its beginnings.
LEMMA PrefixAppend ==
    ASSUME NEW S, NEW s \in Seq(S), NEW t \in Seq(S), NEW p \in S, IsPrefix(s, t)
    PROVE  IsPrefix(s, Append(t, p))
BY DEF IsPrefix

\* A set of numbers has a least one.
LEMMA LeastOne ==
    ASSUME NEW T, T \subseteq Nat, T # {}
    PROVE  \E x \in T : \A y \in T : ~(y < x)
<1>1. \E x \in T : \A y \in T : ~(<<y, x>> \in OpToRel(<, Nat))
  BY NatLessThanWellFounded, WFMin
<1>. QED  BY <1>1 DEF OpToRel

(***************************************************************************)
(* The state.                                                              *)
(***************************************************************************)
Content == Seq(Data) \cup {NoFile}
StageNames == {"init", "rm", "mkdir", "write", "cycle", "read", "get", "put", "list", "end"}

\* The records have their fields.
AtShape ==
    /\ at = [stage |-> at.stage, step |-> at.step]
    /\ at.stage \in StageNames \/ at = Idle
VolumeShape ==
    /\ volume = [formatted |-> volume.formatted, files |-> volume.files, dirs |-> volume.dirs]
    /\ volume.formatted \in BOOLEAN
    /\ volume.files \in [Names -> Content] /\ saved \in [Names -> Content]
\* The options are those of a command line, and the counters are numbers.
Counts ==
    /\ cmd \in Commands \cup {NoCmd}
    /\ loop \in [count : Int, cycle : Nat, put : Nat]
    /\ At({"put"}, "data") => loop.put >= 1
Shapes == AtShape /\ VolumeShape /\ type \in Types

\* The next stage is one of those asked for, at its first step.
LEMMA NextStageWanted ==
    ASSUME NextStage, at.stage \in StageNames \ {"end"}
    PROVE  /\ at'.stage \in StageNames \ {"init"} /\ at'.stage # at.stage /\ Wanted(at'.stage)
           /\ at' = [stage |-> at'.stage, step |-> FirstStep(at'.stage)]
<1>. DEFINE i == CHOOSE j \in DOMAIN Stages : Stages[j] = at.stage
            Is(k) == k \in i + 1 .. 10 /\ Wanted(Stages[k])
                     /\ \A m \in i + 1 .. k - 1 : ~Wanted(Stages[m])
            k0 == CHOOSE j \in i + 1 .. Len(Stages) :
                      Wanted(Stages[j]) /\ \A m \in i + 1 .. j - 1 : ~Wanted(Stages[m])
<1>1. DOMAIN Stages = 1 .. 10 /\ Len(Stages) = 10
  BY DEF Stages
<1>2. \E j \in 1 .. 9 : Stages[j] = at.stage
  BY DEF Stages, StageNames
<1>3. \A j \in 1 .. 10 : Stages[j] = at.stage => j \in 1 .. 9
  BY DEF Stages
<1>4. i \in 1 .. 9 /\ Stages[i] = at.stage
  <2>1. i \in DOMAIN Stages /\ Stages[i] = at.stage
    BY <1>1, <1>2
  <2>. QED  BY <1>1, <1>3, <2>1
<1>. HIDE DEF i
<1>5. \E k \in i + 1 .. 10 : Wanted(Stages[k]) /\ \A m \in i + 1 .. k - 1 : ~Wanted(Stages[m])
  <2>. DEFINE T == {k \in i + 1 .. 10 : Wanted(Stages[k])}
  <2>1. 10 \in T /\ T \subseteq Nat
    BY <1>4 DEF Wanted, Stages
  <2>2. PICK k \in T : \A y \in T : ~(y < k)
    BY <2>1, LeastOne
  <2>. QED  BY <1>4, <2>2
<1>6. k0 \in i + 1 .. 10 /\ Wanted(Stages[k0])
  BY <1>1, <1>5
<1>7. at' = [stage |-> Stages[k0], step |-> FirstStep(Stages[k0])]
  BY DEF NextStage, i
<1>. HIDE DEF k0
<1>8. Stages[k0] \in StageNames \ {"init"}
  BY <1>4, <1>6 DEF Stages, StageNames
<1>9. Stages[k0] # Stages[i]
  BY <1>4, <1>6 DEF Stages
<1>. QED  BY <1>4, <1>6, <1>7, <1>8, <1>9

(***************************************************************************)
(* Files.                                                                  *)
(***************************************************************************)

\* A file that is on the device is a beginning of the one that is open or was
\* closed; nothing is on it before it is formatted; and an open file is there.
Kept ==
    /\ ~volume.formatted => saved = Nothing
    /\ at.stage \notin {"idle", "init"} => volume.formatted
    /\ \A n \in Names : saved[n] # NoFile =>
         volume.files[n] # NoFile /\ IsPrefix(saved[n], volume.files[n])
OpenThere ==
    file.open =>
        /\ cmd.name \in Names /\ volume.files[cmd.name] # NoFile
        /\ at.stage \in {"write", "cycle", "get", "put"} /\ at.step \in {"data", "close"}
KeepInv == Shapes /\ Kept /\ OpenThere
\* The process is gone, and what is on the device is not touched.
Gone == at' = Idle /\ cmd' = NoCmd /\ file' = Closed /\ type' = type
FilesGrow == \A n \in Names : saved[n] # NoFile => IsPrefix(saved[n], saved'[n])

\* What files are made of.
LEMMA Contents ==
    /\ <<>> \in Seq(Data) /\ NoFile \notin Seq(Data)
    /\ "w" \in Data /\ "cut" \in Data /\ "lost" \in Data
    /\ \A i \in 1 .. Len(PutData) : PutData[i] \in Data
<1>1. PutData \in Seq(Data) /\ "none" \notin Data
  BY SessionAssumption, Zenon
<1>2. NoFile \notin Seq(Data)
  <2>1. NoFile[1] = "none" /\ Len(NoFile) = 1
    BY DEF NoFile
  <2>2. ASSUME NoFile \in Seq(Data) PROVE NoFile[1] \in Data
    BY <2>1, <2>2
  <2>. QED  BY <1>1, <2>1, <2>2
<1>3. "w" \in Data /\ "cut" \in Data /\ "lost" \in Data
  BY DEF Data
<1>. QED  BY <1>1, <1>2, <1>3

\* The pieces of a file that is there are the file.
LEMMA PiecesOf ==
    ASSUME NEW f \in Content
    PROVE  /\ Pieces(f) \in Seq(Data)
           /\ f # NoFile => Pieces(f) = f /\ f \in Seq(Data)
BY Contents DEF Pieces, Content

\* File is the file that is named.
LEMMA FileThere ==
    ASSUME VolumeShape
    PROVE  /\ File \in Content /\ (File # NoFile => cmd.name \in Names)
           /\ cmd.name \in Names => File = volume.files[cmd.name]
BY DEF VolumeShape, File, Content

\* What SetFile does.
LEMMA FileSet ==
    ASSUME VolumeShape, cmd.name \in Names, NEW f \in Content, NEW kept \in BOOLEAN, SetFile(f, kept)
    PROVE  /\ VolumeShape' /\ volume'.formatted = volume.formatted /\ volume'.dirs = volume.dirs
           /\ \A n \in Names :
                /\ volume'.files[n] = IF n = cmd.name THEN f ELSE volume.files[n]
                /\ saved'[n] = IF n = cmd.name /\ kept THEN f ELSE saved[n]
<1>. DEFINE new == [volume.files EXCEPT ![cmd.name] = f]
<1>1. volume' = [volume EXCEPT !.files = new]
  BY DEF SetFile, VolumeShape
<1>2. new \in [Names -> Content] /\ \A n \in Names : new[n] = IF n = cmd.name THEN f ELSE volume.files[n]
  BY DEF VolumeShape
<1>. HIDE DEF new
<1>3. volume' = [formatted |-> volume.formatted, files |-> new, dirs |-> volume.dirs]
  BY <1>1 DEF VolumeShape
<1>4. /\ saved' \in [Names -> Content]
      /\ \A n \in Names : saved'[n] = IF n = cmd.name /\ kept THEN f ELSE saved[n]
  BY DEF SetFile, VolumeShape
<1>. QED  BY <1>2, <1>3, <1>4 DEF VolumeShape

\* A file that has grown, and been saved or not, is kept; so are the others.
LEMMA FileGrows ==
    ASSUME VolumeShape, Kept, volume.formatted, cmd.name \in Names,
           NEW f \in Seq(Data), IsPrefix(Pieces(File), f), File # NoFile \/ saved[cmd.name] = NoFile,
           \A s \in Seq(Data) : IsPrefix(s, Pieces(File)) => IsPrefix(s, f),
           NEW kept \in BOOLEAN, SetFile(f, kept)
    PROVE  /\ VolumeShape' /\ volume'.formatted /\ volume'.dirs = volume.dirs
           /\ volume'.files[cmd.name] = f
           /\ \A n \in Names : saved'[n] # NoFile =>
                volume'.files[n] # NoFile /\ IsPrefix(saved'[n], volume'.files[n])
           /\ \A n \in Names : saved[n] # NoFile => IsPrefix(saved[n], saved'[n])
<1>1. f \in Content /\ f # NoFile
  BY Contents DEF Content
<1>2. /\ VolumeShape' /\ volume'.formatted = volume.formatted /\ volume'.dirs = volume.dirs
      /\ \A n \in Names :
           /\ volume'.files[n] = IF n = cmd.name THEN f ELSE volume.files[n]
           /\ saved'[n] = IF n = cmd.name /\ kept THEN f ELSE saved[n]
  BY <1>1, FileSet
<1>3. \A n \in Names : saved[n] # NoFile => saved[n] \in Seq(Data)
  BY PiecesOf DEF VolumeShape
<1>4. saved[cmd.name] # NoFile => IsPrefix(saved[cmd.name], f)
  BY <1>3, FileThere, PiecesOf DEF Kept
<1>5. IsPrefix(f, f)
  BY PrefixSame
<1>6. \A n \in Names : saved[n] # NoFile => IsPrefix(saved[n], saved[n])
  BY <1>3, PrefixSame
<1>. QED  BY <1>1, <1>2, <1>4, <1>5, <1>6 DEF Kept

\* A mount leaves a volume that is formatted, and formats none that was.
LEMMA MountKeeps ==
    ASSUME VolumeShape, Kept, Mount
    PROVE  /\ VolumeShape' /\ volume'.formatted
           /\ volume.formatted => volume' = volume /\ saved' = saved
           /\ ~volume.formatted => saved = Nothing /\ saved' = Nothing
<1>1. CASE volume.formatted
  BY <1>1 DEF Mount, myfat_get_free_clust, mylfs_mount, SameFile, VolumeShape
<1>2. CASE ~volume.formatted
  <2>1. Nothing \in [Names -> Content]
    BY DEF Nothing, Content
  <2>2. Format
    BY <1>2 DEF Mount, myfat_get_free_clust, mylfs_mount
  <2>. QED  BY <1>2, <2>1, <2>2 DEF Format, VolumeShape, Kept
<1>. QED  BY <1>1, <1>2

\* What happens to a file that is written to, closed or opened.
Grows ==
    \/ SameFile
    \/ /\ cmd.name \in Names
       /\ \E kept \in BOOLEAN : SetFile(Pieces(File), kept)
    \/ /\ cmd.name \in Names /\ File # NoFile
       /\ \E p \in Data, kept \in BOOLEAN : SetFile(Append(File, p), kept)

\* What is saved stays, and grows, when a file is written to, closed or opened.
LEMMA GrowsKept ==
    ASSUME VolumeShape, Kept, volume.formatted, Grows
    PROVE  /\ VolumeShape' /\ volume'.formatted /\ volume'.dirs = volume.dirs
           /\ \A n \in Names : volume.files[n] # NoFile => volume'.files[n] # NoFile
           /\ \A n \in Names : saved'[n] # NoFile =>
                volume'.files[n] # NoFile /\ IsPrefix(saved'[n], volume'.files[n])
           /\ \A n \in Names : saved[n] # NoFile => IsPrefix(saved[n], saved'[n])
<1>1. \A n \in Names : saved[n] # NoFile => IsPrefix(saved[n], saved[n])
  BY PiecesOf, PrefixSame DEF VolumeShape
<1>2. CASE SameFile
  BY <1>1, <1>2 DEF SameFile, VolumeShape, Kept
<1>3. CASE cmd.name \in Names /\ \E kept \in BOOLEAN : SetFile(Pieces(File), kept)
  <2>. DEFINE f == Pieces(File)
  <2>1. PICK kept \in BOOLEAN : SetFile(f, kept)
    BY <1>3
  <2>2. f \in Seq(Data) /\ f # NoFile /\ IsPrefix(f, f) /\ f \in Content
    BY FileThere, PiecesOf, PrefixSame, Contents DEF Content
  <2>3. File # NoFile \/ saved[cmd.name] = NoFile
    BY <1>3, FileThere DEF Kept
  <2>4. f = Pieces(File)
    OBVIOUS
  <2>. HIDE DEF f
  <2>5. /\ VolumeShape' /\ volume'.formatted /\ volume'.dirs = volume.dirs
        /\ \A n \in Names : saved'[n] # NoFile =>
             volume'.files[n] # NoFile /\ IsPrefix(saved'[n], volume'.files[n])
        /\ \A n \in Names : saved[n] # NoFile => IsPrefix(saved[n], saved'[n])
    BY <1>3, <2>1, <2>2, <2>3, <2>4, FileGrows
  <2>6. \A n \in Names : volume.files[n] # NoFile => volume'.files[n] # NoFile
    BY <1>3, <2>1, <2>2, FileSet
  <2>. QED  BY <2>5, <2>6
<1>4. CASE /\ cmd.name \in Names /\ File # NoFile
           /\ \E p \in Data, kept \in BOOLEAN : SetFile(Append(File, p), kept)
  <2>1. PICK p \in Data, kept \in BOOLEAN : SetFile(Append(File, p), kept)
    BY <1>4
  <2>2. File \in Seq(Data) /\ Pieces(File) = File
    BY <1>4, FileThere, PiecesOf
  <2>. DEFINE f == Append(File, p)
  <2>3. f \in Seq(Data) /\ f # NoFile /\ f \in Content /\ IsPrefix(File, f)
    BY <2>2, Contents, PrefixSame, PrefixAppend DEF Content
  <2>4. \A s \in Seq(Data) : IsPrefix(s, File) => IsPrefix(s, f)
    BY <2>2, PrefixAppend
  <2>5. SetFile(f, kept)
    BY <2>1
  <2>. HIDE DEF f
  <2>6. /\ VolumeShape' /\ volume'.formatted /\ volume'.dirs = volume.dirs
        /\ \A n \in Names : saved'[n] # NoFile =>
             volume'.files[n] # NoFile /\ IsPrefix(saved'[n], volume'.files[n])
        /\ \A n \in Names : saved[n] # NoFile => IsPrefix(saved[n], saved'[n])
    BY <1>4, <2>2, <2>3, <2>4, <2>5, FileGrows
  <2>7. \A n \in Names : volume.files[n] # NoFile => volume'.files[n] # NoFile
    BY <1>4, <2>3, <2>5, FileSet
  <2>. QED  BY <2>6, <2>7
<1>. QED  BY <1>2, <1>3, <1>4 DEF Grows

\* at is idle when its stage is.
LEMMA IdleAt ==
    ASSUME AtShape
    PROVE  (at.stage = "idle" <=> at = Idle) /\ (at.stage # "idle" => at.stage \in StageNames)
<1>1. Idle.stage = "idle"
  BY DEF Idle
<1>2. at.stage \in StageNames => at.stage # "idle"
  BY DEF StageNames
<1>. QED  BY <1>1, <1>2 DEF AtShape

\* A step stays in its stage.
LEMMA StepAt ==
    ASSUME AtShape, at.stage # "idle", NEW s, Step(s)
    PROVE  AtShape' /\ at'.stage = at.stage /\ at'.step = s /\ before' = before
<1>1. at.stage \in StageNames
  BY IdleAt
<1>2. at' = [stage |-> at.stage, step |-> s]
  BY DEF AtShape, Step
<1>3. at'.stage = at.stage /\ at'.step = s
  BY <1>2
<1>4. AtShape'
  BY <1>1, <1>2, <1>3 DEF AtShape
<1>. QED  BY <1>3, <1>4 DEF Step

\* The end of a stage leads to the first step of one that was asked for.
LEMMA DoneAt ==
    ASSUME AtShape, at.stage \notin {"idle", "end"}, Done
    PROVE  /\ AtShape' /\ at'.stage \in StageNames \ {"init"} /\ at'.stage # at.stage
           /\ at'.step = FirstStep(at'.stage) /\ at'.step \in {"open", "begin", ""}
           /\ Wanted(at'.stage) /\ Begin
<1>1. at.stage \in StageNames \ {"end"}
  BY IdleAt
<1>2. /\ at'.stage \in StageNames \ {"init"} /\ at'.stage # at.stage /\ Wanted(at'.stage)
      /\ at' = [stage |-> at'.stage, step |-> FirstStep(at'.stage)]
  BY <1>1, NextStageWanted DEF Done
<1>3. FirstStep(at'.stage) \in {"open", "begin", ""}
  BY DEF FirstStep
<1>4. AtShape'
  BY <1>2 DEF AtShape
<1>5. at'.step = FirstStep(at'.stage)
  BY <1>2
<1>. QED  BY <1>2, <1>3, <1>4, <1>5 DEF Done

\* A step that only writes to a file keeps what is saved.
LEMMA WhileRunning ==
    ASSUME KeepInv, at.stage \notin {"idle", "init"}, Grows, type' = type, AtShape', OpenThere'
    PROVE  KeepInv' /\ FilesGrow
BY GrowsKept DEF KeepInv, Shapes, Kept, FilesGrow

\* An open file that is still the same object remains one.
LEMMA StillOpen ==
    ASSUME KeepInv, at.stage \notin {"idle", "init"}, Grows, cmd' = cmd, file' = file,
           file.open => at'.stage = at.stage /\ at'.step \in {"data", "close"}
    PROVE  OpenThere'
BY GrowsKept DEF KeepInv, Shapes, Kept, OpenThere

\* The ways in which a file is written to.
LEMMA SetGrows ==
    ASSUME NEW f, NEW kept, SetFile(f, kept)
    PROVE  \E k \in BOOLEAN : SetFile(f, k)
<1>1. CASE kept
  BY <1>1 DEF SetFile
<1>2. CASE ~kept
  BY <1>2 DEF SetFile
<1>. QED  BY <1>1, <1>2

\* A write adds to the file, or fails.
LEMMA WritesGrow ==
    ASSUME VolumeShape, OpenThere, at.stage # "idle", NEW p \in Data, NEW kept,
           Writes(p, kept) \/ WriteFails
    PROVE  Grows
<1>1. CASE SameFile
  BY <1>1 DEF Grows
<1>2. CASE file.open /\ SetFile(Append(File, p), kept)
  BY <1>2, SetGrows, FileThere DEF Grows, OpenThere
<1>3. CASE file.open /\ SetFile(Append(File, "cut"), FALSE)
  BY <1>3, Contents, FileThere DEF Grows, OpenThere
<1>. QED  BY <1>1, <1>2, <1>3 DEF Writes, WriteFails, CutShort

\* An open keeps the file, or makes it; an open object has a file.
LEMMA OpenGrows ==
    ASSUME VolumeShape, volume.formatted, Kept, OpenFile
    PROVE  /\ Grows
           /\ file'.open => cmd.name \in Names /\ volume'.files[cmd.name] # NoFile
<1>1. CASE \E read \in BOOLEAN : Opened(read)
  <2>1. cmd.name \in Names /\ SetFile(Pieces(File), FALSE)
    BY <1>1 DEF Opened
  <2>2. Pieces(File) \in Content /\ Pieces(File) # NoFile
    BY FileThere, PiecesOf, Contents DEF Content
  <2>3. volume'.files[cmd.name] = Pieces(File)
    BY <2>1, <2>2, FileSet
  <2>. QED  BY <2>1, <2>2, <2>3 DEF Grows
<1>2. CASE OpenFails
  BY <1>2 DEF OpenFails, Grows, Closed
<1>. QED  BY <1>1, <1>2 DEF OpenFile, myfat_open, mylfs_open

\* A close keeps the file.
LEMMA CloseGrows ==
    ASSUME VolumeShape, OpenThere, at.stage # "idle", CloseFile
    PROVE  Grows /\ ~file'.open
<1>1. CASE file.open
  <2>1. File # NoFile /\ cmd.name \in Names /\ SetFile(File, TRUE)
    BY <1>1, FileThere DEF OpenThere, CloseFile
  <2>2. Pieces(File) = File
    BY <2>1, FileThere, PiecesOf
  <2>. QED  BY <2>1, <2>2 DEF Grows, CloseFile, Closed
<1>2. CASE ~file.open
  BY <1>2 DEF CloseFile, Closed, Grows
<1>. QED  BY <1>1, <1>2

\* Removing is the only step that takes something from the device.
LEMMA RemoveKeeps ==
    ASSUME KeepInv, at.stage \notin {"idle", "init"}, ~file.open, RemoveFile,
           UNCHANGED <<type, file>>, AtShape'
    PROVE  KeepInv'
<1>1. CASE SameFile
  BY <1>1 DEF SameFile, KeepInv, Shapes, VolumeShape, Kept, OpenThere
<1>2. CASE File # NoFile /\ SetFile(NoFile, TRUE)
  <2>1. cmd.name \in Names /\ SetFile(NoFile, TRUE) /\ NoFile \in Content
    BY <1>2, FileThere DEF KeepInv, Shapes, Content
  <2>2. /\ VolumeShape' /\ volume'.formatted = volume.formatted
        /\ \A n \in Names :
             /\ volume'.files[n] = IF n = cmd.name THEN NoFile ELSE volume.files[n]
             /\ saved'[n] = IF n = cmd.name THEN NoFile ELSE saved[n]
    BY <2>1, FileSet DEF KeepInv, Shapes
  <2>. QED  BY <2>2 DEF KeepInv, Shapes, Kept, OpenThere
<1>. QED  BY <1>1, <1>2 DEF RemoveFile

\* The process is gone: what was saved is all there is.
LEMMA SurvivesKeeps ==
    ASSUME KeepInv, at # Idle, Survives, Gone
    PROVE  KeepInv' /\ FilesGrow
<1>1. /\ saved' \in [Names -> Content]
      /\ \A n \in Names : saved[n] # NoFile => saved'[n] = saved[n]
      /\ ~volume.formatted => saved' = saved
  <2>1. CASE saved' = saved
    BY <2>1 DEF KeepInv, Shapes, VolumeShape
  <2>2. CASE file.open /\ saved[cmd.name] = NoFile /\ saved' = [saved EXCEPT ![cmd.name] = <<>>]
    <3>1. at.stage # "idle"
      BY DEF KeepInv, Shapes, AtShape, StageNames
    <3>2. volume.formatted
      BY <2>2, <3>1 DEF KeepInv, Kept, OpenThere
    <3>. QED  BY <2>2, <3>1, <3>2, Contents DEF KeepInv, Shapes, VolumeShape, Content, OpenThere
  <2>. QED  BY <2>1, <2>2 DEF Survives
<1>2. volume' = [formatted |-> volume.formatted, files |-> saved', dirs |-> volume.dirs]
  BY DEF Survives, KeepInv, Shapes, VolumeShape
<1>3. at' = Idle /\ type' = type
  BY DEF Gone
<1>4. \A n \in Names : saved'[n] # NoFile => saved'[n] \in Seq(Data)
  BY <1>1, PiecesOf
<1>5. \A n \in Names : saved'[n] # NoFile => IsPrefix(saved'[n], saved'[n])
  BY <1>4, PrefixSame
<1>6. VolumeShape' /\ AtShape'
  BY <1>1, <1>2, <1>3 DEF KeepInv, Shapes, VolumeShape, AtShape, Idle
<1>7. Kept'
  BY <1>1, <1>2, <1>3, <1>5 DEF KeepInv, Kept, Idle
<1>8. OpenThere'
  BY DEF Gone, OpenThere, Closed
<1>9. FilesGrow
  <2>1. \A n \in Names : saved[n] # NoFile => saved[n] \in Seq(Data)
    BY PiecesOf DEF KeepInv, Shapes, VolumeShape
  <2>. QED  BY <1>1, <2>1, PrefixSame DEF FilesGrow
<1>. QED  BY <1>3, <1>6, <1>7, <1>8, <1>9 DEF KeepInv, Shapes

\* So it is when the image was being written again, but for what is lost then.
LEMMA TornKeeps ==
    ASSUME KeepInv, Torn, Gone
    PROVE  KeepInv'
<1>1. PICK tables \in BOOLEAN, whole \in SUBSET Names, dirs \in {{}, volume.dirs} :
        /\ saved' = [n \in Names |-> IF ~tables \/ saved[n] = NoFile THEN NoFile
                                     ELSE IF n \in whole THEN saved[n] ELSE <<"lost">>]
        /\ volume' = [formatted |-> volume.formatted /\ tables, files |-> saved',
                      dirs |-> IF tables THEN dirs ELSE {}]
  BY DEF Torn
<1>2. <<"lost">> \in Seq(Data)
  BY Contents
<1>3. saved \in [Names -> Content] /\ volume.formatted \in BOOLEAN
  BY DEF KeepInv, Shapes, VolumeShape
<1>4. /\ saved' \in [Names -> Content]
      /\ \A n \in Names : saved'[n] = NoFile \/ saved'[n] \in Seq(Data)
  BY <1>1, <1>2, <1>3, PiecesOf DEF Content
<1>5. volume'.formatted = (volume.formatted /\ tables) /\ volume'.files = saved'
      /\ volume' = [formatted |-> volume'.formatted, files |-> volume'.files, dirs |-> volume'.dirs]
  BY <1>1
<1>6. VolumeShape' /\ AtShape'
  BY <1>3, <1>4, <1>5 DEF VolumeShape, AtShape, Gone, Idle
<1>7. ~volume'.formatted => saved' = Nothing
  <2>1. CASE ~tables
    BY <1>1, <2>1 DEF Nothing
  <2>2. CASE tables /\ ~volume.formatted
    <3>1. \A n \in Names : saved[n] = NoFile
      BY <2>2 DEF KeepInv, Kept, Nothing
    <3>. QED  BY <1>1, <3>1 DEF Nothing
  <2>. QED  BY <1>5, <2>1, <2>2
<1>8. \A n \in Names : saved'[n] # NoFile => IsPrefix(saved'[n], volume'.files[n])
  BY <1>4, <1>5, PrefixSame
<1>9. Kept'
  BY <1>5, <1>7, <1>8 DEF Kept, Gone, Idle
<1>10. OpenThere'
  BY DEF Gone, OpenThere, Closed
<1>. QED  BY <1>6, <1>9, <1>10 DEF KeepInv, Shapes, Gone

(***************************************************************************)
(* The options and the counters.                                           *)
(***************************************************************************)
\* The options are of the types SessionAssumption gives them.
LEMMA Options ==
    ASSUME NEW c \in Commands \cup {NoCmd}
    PROVE  /\ c.wcnt \in Nat /\ c.sync \in Nat /\ c.cycc \in Nat
           /\ c.dir \in Seq(STRING) /\ c.inf \in BOOLEAN
           /\ c.list \in SUBSET Seq(STRING) /\ \A p, q \in c.list : p = q
<1>1. CASE c = NoCmd
  <2>1. c.wcnt \in Nat /\ c.sync \in Nat /\ c.cycc \in Nat /\ c.inf \in BOOLEAN /\ c.list = {}
    BY <1>1 DEF NoCmd
  <2>2. c.dir \in Seq(STRING)
    <3>1. c.dir = <<>>
      BY <1>1 DEF NoCmd
    <3>2. <<>> \in Seq(STRING)
      OBVIOUS
    <3>. QED  BY <3>1, <3>2
  <2>. QED  BY <2>1, <2>2
<1>2. CASE c \in Commands
  <2>1. Commands \subseteq
         [name : STRING, rm : BOOLEAN, dir : Seq(STRING), w : BOOLEAN, wcnt : Nat, sync : Nat,
          inf : BOOLEAN, cyc : BOOLEAN, cycc : Nat, r : BOOLEAN, get : BOOLEAN,
          put : BOOLEAN, list : SUBSET Seq(STRING)]
         /\ \A k \in Commands : \A p, q \in k.list : p = q
    BY SessionAssumption, Zenon
  <2>. QED  BY <1>2, <2>1
<1>. QED  BY <1>1, <1>2

\* No command has begun.
LEMMA InitCounts == Init => Counts
<1>1. NoLoop \in [count : Int, cycle : Nat, put : Nat] /\ Idle.stage = "idle"
  BY DEF NoLoop, Idle
<1>. QED  BY <1>1 DEF Init, Counts, At

\* The counters stay numbers, and --put reads from the first piece on.
LEMMA StepCounts ==
    ASSUME AtShape, Counts, [Next]_vars
    PROVE  Counts'
<1>1. CASE UNCHANGED vars
  BY <1>1 DEF vars, Counts, At
<1>2. ASSUME NEW c \in Commands, Start(c) PROVE Counts'
  <2>2. at'.stage = "init"
    BY <1>2 DEF Start
  <2>. QED  BY <1>2, <2>2 DEF Start, Counts, At
<1>3. CASE Ends
  <2>1. NoLoop \in [count : Int, cycle : Nat, put : Nat]
    BY DEF NoLoop
  <2>. QED  BY <1>3, <2>1 DEF Ends, Counts, At, Idle
<1>4. CASE Done /\ at.stage \notin {"idle", "end"} /\ UNCHANGED <<cmd, loop>>
  <2>1. at'.step \in {"open", "begin", ""}
    BY <1>4, DoneAt
  <2>. QED  BY <1>4, <2>1 DEF Counts, At
<1>5. CASE OpenStep
  <2>1. cmd' = cmd /\ loop' = [loop EXCEPT !.put = 1, !.count = cmd.wcnt]
    BY <1>5 DEF OpenStep
  <2>0. cmd.wcnt \in Nat
    BY Options DEF Counts
  <2>2. loop' = [count |-> cmd.wcnt, cycle |-> loop.cycle, put |-> 1] /\ loop.cycle \in Nat
    BY <2>1 DEF Counts
  <2>3. loop' \in [count : Int, cycle : Nat, put : Nat]
    BY <2>0, <2>2
  <2>4. loop'.put >= 1
    BY <2>2
  <2>. QED  BY <2>1, <2>3, <2>4 DEF Counts
<1>6. CASE WriteStep
  <2>1. /\ at.stage \in {"write", "cycle"} /\ cmd' = cmd /\ \E s \in {"data", "close"} : Step(s)
        /\ loop' = loop \/ loop' = [loop EXCEPT !.count = IF cmd.inf THEN @ ELSE @ - 1]
    BY <1>6 DEF WriteStep, At
  <2>2. at'.stage = at.stage
    BY <2>1, StepAt
  <2>3. loop' \in [count : Int, cycle : Nat, put : Nat]
    BY <2>1 DEF Counts
  <2>. QED  BY <2>1, <2>2, <2>3 DEF Counts, At
<1>7. CASE PutStep
  BY <1>7 DEF PutStep, Counts, At
<1>8. CASE PutEnd \/ GetStep \/ (CloseStep /\ at.stage = "cycle") \/ CycleRemove \/ GetOpen \/ ListOpen
           \/ Export
  <2>1. /\ at.stage \in {"put", "get", "cycle", "list", "init"} /\ UNCHANGED <<cmd, loop>>
        /\ \E s \in {"data", "close", "remove", "next", "mount"} :
             Step(s) /\ (at.stage = "put" => s = "close")
    BY <1>8 DEF PutEnd, GetStep, CloseStep, CycleRemove, GetOpen, ListOpen, Export, At
  <2>2. at'.stage = at.stage /\ (at.stage = "put" => at'.step = "close")
    BY <2>1, StepAt
  <2>. QED  BY <2>1, <2>2 DEF Counts, At
<1>9. CASE CycleBegin \/ CycleNext
  <2>1. /\ at.stage = "cycle" /\ cmd' = cmd
        /\ Step("open") \/ Done
        /\ \E k \in Nat : loop' = [loop EXCEPT !.cycle = k]
    <3>1. cmd.cycc \in Nat /\ CyclesLeft \in Nat
      <4>1. UintMod \in Nat \ {0, 1}
        BY SessionAssumption, Zenon
      <4>. QED  BY <4>1, Options DEF Counts, CyclesLeft
    <3>. QED  BY <1>9, <3>1 DEF CycleBegin, CycleNext, At
  <2>2. at'.step \in {"open", "begin", ""}
    <3>1. CASE Step("open")
      BY <2>1, <3>1, StepAt
    <3>2. CASE Done
      BY <2>1, <3>2, DoneAt
    <3>. QED  BY <2>1, <3>1, <3>2
  <2>3. loop' \in [count : Int, cycle : Nat, put : Nat]
    BY <2>1 DEF Counts
  <2>. QED  BY <2>1, <2>2, <2>3 DEF Counts, At
<1>10. CASE ListNext \/ ListBack \/ ListCut
  BY <1>10 DEF ListNext, ListBack, ListCut, Counts, At
<1>11. ASSUME InitStage \/ RemoveStage \/ MkdirStage \/ ReadStage \/ (CloseStep /\ at.stage # "cycle")
              \/ ListEnd
       PROVE  Done /\ at.stage \notin {"idle", "end"} /\ UNCHANGED <<cmd, loop>>
  BY <1>11 DEF InitStage, RemoveStage, MkdirStage, ReadStage, CloseStep, ListEnd, At
<1>12. ASSUME NoPcFile
       PROVE  \/ Done /\ at.stage \notin {"idle", "end"} /\ UNCHANGED <<cmd, loop>>
              \/ Ends
  BY <1>12 DEF NoPcFile, At
<1>13. ASSUME InitFails \/ Uninit \/ Kill \/ ListOverflow PROVE Ends
  BY <1>13 DEF InitFails, Uninit, Kill, ListOverflow
<1>. QED
  BY <1>1, <1>2, <1>3, <1>4, <1>5, <1>6, <1>7, <1>8, <1>9, <1>10, <1>11, <1>12, <1>13
  DEF Next, Run

(***************************************************************************)
(* FilesKept.                                                              *)
(***************************************************************************)
LEMMA InitKeeps == Init => KeepInv
<1>. SUFFICES ASSUME Init PROVE KeepInv
  OBVIOUS
<1>1. Nothing \in [Names -> Content] /\ \A n \in Names : Nothing[n] = NoFile
  BY DEF Nothing, Content
<1>2. PICK formatted \in BOOLEAN, t \in Trees :
         volume = [formatted |-> formatted, files |-> Nothing,
                   dirs |-> IF formatted THEN t ELSE {}]
  BY DEF Init
<1>3. saved = Nothing /\ at = Idle /\ file = Closed /\ type \in Types
  BY DEF Init
<1>4. VolumeShape
  BY <1>1, <1>2, <1>3 DEF VolumeShape
<1>5. AtShape
  BY <1>3 DEF AtShape, Idle
<1>. QED  BY <1>1, <1>3, <1>4, <1>5 DEF KeepInv, Shapes, Kept, OpenThere, Idle, Closed

\* A step that leaves the volume alone, and the file open or as it is.
LEMMA OnlyMoves ==
    ASSUME KeepInv, SameFile, type' = type, AtShape', OpenThere',
           at'.stage \in {"idle", "init"} \/ volume.formatted
    PROVE  KeepInv' /\ FilesGrow
<1>1. \A n \in Names : saved[n] # NoFile => saved[n] \in Seq(Data)
  BY PiecesOf DEF KeepInv, Shapes, VolumeShape
<1>2. VolumeShape'
  BY DEF KeepInv, Shapes, VolumeShape, SameFile
<1>3. Kept'
  BY DEF KeepInv, Kept, SameFile
<1>4. FilesGrow
  BY <1>1, PrefixSame DEF FilesGrow, SameFile
<1>. QED  BY <1>2, <1>3, <1>4 DEF KeepInv, Shapes

\* Every step keeps the invariant, and but for a removal what is saved.
LEMMA StepKeeps ==
    ASSUME KeepInv, Counts, [Next]_vars
    PROVE  /\ KeepInv'
           /\ at.stage # "rm" /\ at.step # "remove" /\ ~(at.step = "export" /\ at' = Idle) => FilesGrow
<1>. USE DEF KeepInv, Shapes
<1>0. at.stage \notin {"idle", "init"} => volume.formatted
  BY DEF Kept
<1>idle. at.stage = "idle" <=> at = Idle
  BY IdleAt
<1>nodata. at.stage \notin {"idle", "write", "cycle", "get", "put"}
           \/ (at.stage # "idle" /\ at.step \notin {"data", "close"}) => ~file.open
  BY DEF OpenThere
<1>1. CASE UNCHANGED vars
  <2>1. SameFile /\ type' = type /\ AtShape' /\ OpenThere' /\ at' = at
    BY <1>1 DEF vars, SameFile, AtShape, OpenThere
  <2>. QED  BY <2>1, <1>0, OnlyMoves
<1>2. ASSUME NEW c \in Commands, Start(c) PROVE KeepInv' /\ FilesGrow
  <2>0. ~file.open
    BY <1>2, <1>idle DEF Start, OpenThere
  <2>1. SameFile /\ type' = type /\ AtShape' /\ OpenThere' /\ at'.stage = "init"
    BY <1>2, <2>0 DEF Start, SameFile, AtShape, OpenThere, StageNames
  <2>. QED  BY <2>1, OnlyMoves
<1>3. CASE InitStage
  <2>1. at.stage = "init" /\ Mount /\ Done /\ UNCHANGED <<type, file>>
    BY <1>3 DEF InitStage, At
  <2>2. AtShape'
    BY <2>1, DoneAt
  <2>3. ~file'.open
    BY <2>1, <1>nodata
  <2>4. /\ VolumeShape' /\ volume'.formatted
        /\ volume.formatted => volume' = volume /\ saved' = saved
        /\ ~volume.formatted => saved = Nothing /\ saved' = Nothing
    BY <2>1, MountKeeps
  <2>5. \A n \in Names : Nothing[n] = NoFile
    BY DEF Nothing
  <2>6. Kept'
    BY <2>4, <2>5 DEF Kept
  <2>7. \A n \in Names : saved[n] # NoFile => IsPrefix(saved[n], saved[n])
    BY PiecesOf, PrefixSame DEF VolumeShape
  <2>8. FilesGrow
    BY <2>4, <2>5, <2>7 DEF FilesGrow
  <2>. QED  BY <2>1, <2>2, <2>3, <2>4, <2>6, <2>8 DEF OpenThere
<1>4. CASE InitFails \/ Uninit \/ (SameFile /\ Ends)
  <2>1. SameFile /\ type' = type /\ at' = Idle /\ file' = Closed
    BY <1>4 DEF InitFails, Uninit, Ends
  <2>2. AtShape' /\ OpenThere' /\ at'.stage = "idle"
    BY <2>1 DEF AtShape, OpenThere, Idle, Closed
  <2>. QED  BY <2>1, <2>2, OnlyMoves
<1>5. CASE RemoveStage
  <2>1. at.stage = "rm" /\ RemoveFile /\ Done /\ UNCHANGED <<type, file>>
    BY <1>5 DEF RemoveStage
  <2>2. AtShape' /\ ~file.open
    BY <2>1, <1>nodata, DoneAt
  <2>. QED  BY <2>1, <2>2, RemoveKeeps
<1>6. CASE MkdirStage
  <2>1. at.stage = "mkdir" /\ Done /\ UNCHANGED <<type, file, saved>>
    BY <1>6 DEF MkdirStage
  <2>2. AtShape' /\ ~file'.open
    BY <2>1, <1>nodata, DoneAt
  <2>3. /\ VolumeShape' /\ volume'.formatted = volume.formatted
        /\ volume'.files = volume.files
    BY <1>6, <2>1 DEF MkdirStage, VolumeShape
  <2>4. Kept'
    BY <1>0, <2>1, <2>3 DEF Kept
  <2>5. FilesGrow
    BY <2>1, PiecesOf, PrefixSame DEF FilesGrow, VolumeShape
  <2>. QED  BY <2>1, <2>2, <2>3, <2>4, <2>5 DEF OpenThere
<1>7. CASE ReadStage
  <2>1. at.stage = "read" /\ Done /\ UNCHANGED <<type, file>>
    BY <1>7 DEF ReadStage
  <2>2. AtShape' /\ ~file'.open
    BY <2>1, <1>nodata, DoneAt
  <2>3. Grows
    BY <1>7 DEF ReadStage, Grows
  <2>. QED  BY <2>1, <2>2, <2>3, WhileRunning DEF OpenThere
<1>8. CASE OpenStep \/ GetOpen
  <2>1. /\ at.stage \in {"write", "cycle", "put", "get"} /\ OpenFile /\ Step("data")
        /\ UNCHANGED <<type, cmd>>
    BY <1>8 DEF OpenStep, GetOpen, At
  <2>2. AtShape' /\ at'.stage = at.stage /\ at'.step = "data"
    BY <2>1, StepAt
  <2>3. Grows /\ (file'.open => cmd.name \in Names /\ volume'.files[cmd.name] # NoFile)
    BY <2>1, <1>0, OpenGrows
  <2>4. OpenThere'
    BY <2>1, <2>2, <2>3 DEF OpenThere
  <2>. QED  BY <2>1, <2>2, <2>3, <2>4, WhileRunning
<1>9. CASE WriteStep \/ PutStep
  <2>1. /\ at.stage \in {"write", "cycle", "put"} /\ UNCHANGED <<type, cmd, file>>
        /\ \E s \in {"data", "close"} : Step(s)
    BY <1>9 DEF WriteStep, PutStep, PutNext, At
  <2>2. AtShape' /\ at'.stage = at.stage /\ at'.step \in {"data", "close"}
    BY <2>1, StepAt
  <2>3. \E p \in Data, kept \in BOOLEAN : Writes(p, kept) \/ WriteFails
    <3>1. CASE WriteStep
      <4>1. WriteFails \/ Writes("w", Synced)
        BY <3>1 DEF WriteStep
      <4>2. CASE Synced
        BY <4>1, <4>2, Contents DEF Writes, SetFile
      <4>3. CASE ~Synced
        BY <4>1, <4>3, Contents DEF Writes, SetFile
      <4>. QED  BY <4>2, <4>3
    <3>2. CASE PutStep
      <4>1. WriteFails \/ Writes(PutData[loop.put], FALSE)
        BY <3>2 DEF PutStep
      <4>2. loop.put \in 1 .. Len(PutData)
        BY <3>2 DEF PutStep, Counts
      <4>. QED  BY <4>1, <4>2, Contents
    <3>. QED  BY <1>9, <3>1, <3>2
  <2>4. Grows
    BY <2>1, <2>3, WritesGrow
  <2>5. OpenThere'
    BY <2>1, <2>2, <2>4, StillOpen
  <2>. QED  BY <2>1, <2>2, <2>4, <2>5, WhileRunning
<1>10. CASE PutEnd \/ GetStep
  <2>1. /\ at.stage \in {"put", "get"} /\ SameFile /\ Step("close")
        /\ UNCHANGED <<type, cmd, file>>
    BY <1>10 DEF PutEnd, GetStep, At
  <2>2. AtShape' /\ at'.stage = at.stage /\ at'.step = "close" /\ Grows
    BY <2>1, StepAt DEF Grows
  <2>3. OpenThere'
    BY <2>1, <2>2, StillOpen
  <2>. QED  BY <2>1, <2>2, <2>3, WhileRunning
<1>11. CASE CloseStep
  <2>1. /\ at.stage \in {"write", "put", "get", "cycle"} /\ CloseFile
        /\ (\E s \in {"remove", "next"} : Step(s)) \/ Done
        /\ UNCHANGED <<type, cmd>>
    BY <1>11 DEF CloseStep, At
  <2>2. AtShape'
    BY <2>1, StepAt, DoneAt
  <2>3. Grows /\ ~file'.open
    BY <2>1, CloseGrows
  <2>. QED  BY <2>1, <2>2, <2>3, WhileRunning DEF OpenThere
<1>12. CASE CycleRemove
  <2>1. at.stage = "cycle" /\ at.step = "remove" /\ RemoveFile /\ Step("next")
        /\ UNCHANGED <<type, file>>
    BY <1>12 DEF CycleRemove, At
  <2>2. AtShape' /\ ~file.open
    BY <2>1, <1>nodata, StepAt
  <2>. QED  BY <2>1, <2>2, RemoveKeeps
<1>13. CASE CycleBegin \/ CycleNext \/ ListOpen \/ ListEnd
  <2>1. /\ at.stage \in {"cycle", "list"} /\ SameFile /\ UNCHANGED <<type, file>>
        /\ (\E s \in {"open", "data"} : Step(s)) \/ Done
        /\ at.stage = "cycle" => at.step \in {"begin", "next"}
    BY <1>13 DEF CycleBegin, CycleNext, ListOpen, ListEnd, At
  <2>2. AtShape' /\ ~file'.open
    BY <2>1, <1>nodata, StepAt, DoneAt
  <2>. QED  BY <2>1, <2>2, <1>0, OnlyMoves DEF OpenThere
<1>14. CASE ListNext \/ ListBack \/ ListCut
  <2>1. SameFile /\ UNCHANGED <<type, file, cmd, at>> /\ at.stage = "list"
    BY <1>14 DEF ListNext, ListBack, ListCut, Listing, At, SameFile
  <2>2. AtShape' /\ ~file'.open
    BY <2>1, <1>nodata DEF AtShape
  <2>. QED  BY <2>1, <2>2, <1>0, OnlyMoves DEF OpenThere
<1>15. CASE NoPcFile /\ ~Ends
  <2>1. SameFile /\ UNCHANGED <<type, file>> /\ at.stage = "put" /\ at.step = "open" /\ Done
    BY <1>15 DEF NoPcFile, At
  <2>2. AtShape'
    BY <2>1, DoneAt
  <2>3. ~file'.open
    BY <2>1, <1>nodata
  <2>. QED  BY <2>1, <2>2, <2>3, <1>0, OnlyMoves DEF OpenThere
<1>16. CASE Kill \/ ListOverflow
  <2>1. Gone /\ at' = Idle
    BY <1>16 DEF Kill, ListOverflow, Ends, Gone
  <2>2. CASE At({"init"}, "export") /\ Torn
    BY <2>1, <2>2, TornKeeps DEF At
  <2>3. CASE Survives /\ at # Idle
    BY <2>1, <2>3, SurvivesKeeps
  <2>4. ListOverflow => at # Idle
    BY <1>idle DEF ListOverflow, Listing, At
  <2>. QED  BY <1>16, <2>2, <2>3, <2>4 DEF Kill, ListOverflow
<1>17. CASE Export
  <2>1. at.stage = "init" /\ SameFile /\ Step("mount") /\ UNCHANGED <<type, file>>
    BY <1>17 DEF Export, At
  <2>2. AtShape' /\ at'.stage = "init" /\ ~file'.open
    BY <2>1, <1>nodata, StepAt
  <2>. QED  BY <2>1, <2>2, OnlyMoves DEF OpenThere
<1>. QED
  BY <1>1, <1>2, <1>3, <1>4, <1>5, <1>6, <1>7, <1>8, <1>9, <1>10, <1>11, <1>12, <1>13, <1>14,
     <1>15, <1>16, <1>17 DEF Next, Run, CycleRemove, RemoveStage, NoPcFile, At

\* A file that is on the device stays there and only grows, whatever the
\* process does next, but for a removal that was asked for, and a kill while
\* the image is written again; any other kill is one of the steps.  [main, test_open, test_write, test_close, test_remove]
THEOREM FilesStay == Spec => FilesKept
<1>1. KeepInv /\ Counts /\ [Next]_vars => KeepInv' /\ Counts'
  BY StepKeeps, StepCounts DEF KeepInv, Shapes
<1>2. KeepInv /\ Counts /\ [Next]_vars
      => [at.stage # "rm" /\ at.step # "remove" /\ ~(at.step = "export" /\ at' = Idle) =>
            \A n \in Names : saved[n] # NoFile => IsPrefix(saved[n], saved'[n])]_vars
  BY StepKeeps DEF FilesGrow
<1>. QED  BY InitKeeps, InitCounts, <1>1, <1>2, PTL DEF Spec, FilesKept

(***************************************************************************)
(* StagesDone.                                                             *)
(***************************************************************************)
\* How often --w writes the text.
Total == IF cmd.wcnt = 0 THEN 1 ELSE cmd.wcnt
Firsts(t, n) == SubSeq(t, 1, n)
Wrote(n) == file.open /\ File = Pieces(before) \o Repeated("w", n)
Copied(n) == file.open /\ File = Pieces(before) \o Firsts(PutData, n)
Clean == at.stage \notin err

\* What was there is the beginning of what is; without an open file it is all.
Beginning ==
    IF file.open THEN IsPrefix(Pieces(before), Pieces(File)) ELSE File = before

\* What a stage has done, at each of its steps, when it has reported no error.
Progress ==
    /\ before \in Content
    /\ at.stage \in {"write", "put"} => Beginning
    /\ at.stage = "write" /\ at.step = "data" /\ Clean /\ ~cmd.inf =>
         /\ Wrote(cmd.wcnt - loop.count)
         /\ loop.count >= 0 /\ loop.count <= cmd.wcnt /\ (loop.count = 0 => cmd.wcnt = 0)
    /\ at.stage = "write" /\ at.step = "close" /\ Clean /\ ~cmd.inf => Wrote(Total)
    /\ at.stage = "put" /\ at.step = "data" /\ Clean =>
         Copied(loop.put - 1) /\ loop.put <= Len(PutData) + 1
    /\ at.stage = "put" /\ at.step = "close" /\ Clean => Copied(Len(PutData))
    /\ at.stage = "cycle" /\ at.step = "next" /\ Clean => File = NoFile \/ loop.cycle = 0

\* What StagesDone says of a step.
StageDone ==
    at.stage # at'.stage /\ at' # Idle =>
        IF at.stage \notin err'
        THEN CASE at.stage = "rm" -> File' = NoFile
               [] at.stage = "write" /\ ~cmd.inf ->
                    File' = Pieces(before) \o Repeated("w", IF cmd.wcnt = 0 THEN 1 ELSE cmd.wcnt)
               [] at.stage = "cycle" -> File' = NoFile
               [] at.stage = "put" -> File' = Pieces(before) \o PutData
               [] OTHER -> TRUE
        ELSE at.stage \in {"write", "put"} =>
               IF file.open THEN IsPrefix(Pieces(before), Pieces(File')) ELSE File' = before

\* One more of the text at the end.
LEMMA RepeatedMore ==
    ASSUME NEW S, NEW s \in Seq(S), NEW p \in S, NEW n \in Nat
    PROVE  /\ s \o Repeated(p, 0) = s
           /\ Append(s \o Repeated(p, n), p) = s \o Repeated(p, n + 1)
<1>. DEFINE r == Repeated(p, n)
            q == Repeated(p, n + 1)
<1>1. /\ r \in Seq(S) /\ Len(r) = n /\ \A i \in 1 .. n : r[i] = p
      /\ q \in Seq(S) /\ Len(q) = n + 1 /\ \A i \in 1 .. n + 1 : q[i] = p
  BY DEF Repeated
<1>2. Repeated(p, 0) = <<>>
  BY DEF Repeated
<1>. HIDE DEF r, q
<1>3. q = Append(r, p)
  BY <1>1
<1>4. Append(s \o r, p) = s \o Append(r, p)
  BY <1>1
<1>5. s \o <<>> = s
  OBVIOUS
<1>. QED  BY <1>2, <1>3, <1>4, <1>5 DEF r, q

\* One more of the pieces of the PC's file at the end.
LEMMA SubSeqMore ==
    ASSUME NEW s \in Seq(Data), NEW t \in Seq(Data), NEW n \in Nat
    PROVE  /\ s \o Firsts(t, 0) = s
           /\ Firsts(t, Len(t)) = t
           /\ n < Len(t) => Append(s \o Firsts(t, n), t[n + 1]) = s \o Firsts(t, n + 1)
<1>1. SubSeq(t, 1, 0) = <<>> /\ s \o <<>> = s
  OBVIOUS
<1>2. SubSeq(t, 1, Len(t)) = t
  OBVIOUS
<1>3. ASSUME n < Len(t) PROVE Append(s \o SubSeq(t, 1, n), t[n + 1]) = s \o SubSeq(t, 1, n + 1)
  BY <1>3
<1>. QED  BY <1>1, <1>2, <1>3 DEF Firsts

\* The next stage finds what there is.
LEMMA DoneProgress ==
    ASSUME AtShape, VolumeShape', OpenThere', at.stage \notin {"idle", "end"}, Done, cmd' = cmd
    PROVE  Progress'
<1>1. /\ at'.stage \in StageNames \ {"init"} /\ at'.step = FirstStep(at'.stage) /\ Begin
  BY DoneAt
<1>2. before' = File' /\ File' \in Content
  BY <1>1 DEF Begin, File, VolumeShape, Content
<1>3. /\ at'.stage \in {"write", "put"} => at'.step = "open"
      /\ at'.stage = "cycle" => at'.step = "begin"
  BY <1>1 DEF FirstStep
<1>4. at'.stage \in {"write", "put"} => ~file'.open
  BY <1>3 DEF OpenThere
<1>. QED  BY <1>2, <1>3, <1>4 DEF Progress, Beginning

\* The pieces of the PC's file.
LEMMA PutIsData == PutData \in Seq(Data)
BY SessionAssumption, Zenon

\* A removal that reports no error leaves no file.
LEMMA RemovedFile ==
    ASSUME VolumeShape, cmd' = cmd, RemoveFile
    PROVE  at.stage \notin err' => File' = NoFile /\ err' = err
<1>1. CASE Fails
  BY <1>1 DEF Fails
<1>2. CASE File # NoFile /\ SetFile(NoFile, TRUE) /\ err' = err
  <2>1. cmd.name \in Names /\ NoFile \in Content
    BY <1>2, FileThere DEF Content
  <2>. QED  BY <1>2, <2>1, FileSet DEF File
<1>. QED  BY <1>1, <1>2 DEF RemoveFile

\* A file that is opened has what it had.
LEMMA OpenedFile ==
    ASSUME VolumeShape, VolumeShape', cmd' = cmd, OpenFile
    PROVE  /\ at.stage \notin err' => file'.open /\ err' = err
           /\ IF file'.open THEN File' = Pieces(File) ELSE File' = File
<1>1. CASE \E read \in BOOLEAN : Opened(read)
  <2>1. PICK read \in BOOLEAN : Opened(read)
    BY <1>1
  <2>2. cmd.name \in Names /\ SetFile(Pieces(File), FALSE) /\ err' = err
        /\ file' = [open |-> TRUE, read |-> read, leak |-> FALSE]
    BY <2>1 DEF Opened
  <2>3. file'.open
    BY <2>2
  <2>4. Pieces(File) \in Content
    BY FileThere, PiecesOf DEF Content
  <2>5. File' = Pieces(File)
    BY <2>2, <2>4, FileSet DEF File
  <2>. QED  BY <2>2, <2>3, <2>5
<1>2. CASE OpenFails
  BY <1>2 DEF OpenFails, Fails, Closed, SameFile, File
<1>. QED  BY <1>1, <1>2 DEF OpenFile, myfat_open, mylfs_open

\* A file that is closed keeps what it has.
LEMMA ClosedFile ==
    ASSUME VolumeShape, OpenThere, at.stage # "idle", cmd' = cmd, CloseFile
    PROVE  File' = File /\ (at.stage \notin err' => err' = err)
<1>1. CASE file.open
  <2>1. cmd.name \in Names /\ SetFile(File, TRUE) /\ err' = err /\ File \in Content
    BY <1>1, FileThere DEF OpenThere, CloseFile
  <2>. QED  BY <2>1, FileSet DEF File
<1>2. CASE ~file.open
  BY <1>2 DEF CloseFile, SameFile, Fails, File
<1>. QED  BY <1>1, <1>2

\* A piece that is written is the last of the file.
LEMMA WrittenFile ==
    ASSUME VolumeShape, OpenThere, at.stage # "idle", cmd' = cmd, NEW p \in Data, NEW kept \in BOOLEAN,
           Writes(p, kept)
    PROVE  file.open /\ File \in Seq(Data) /\ File' = Append(File, p)
<1>1. file.open /\ cmd.name \in Names /\ File # NoFile /\ SetFile(Append(File, p), kept)
  BY FileThere DEF Writes, OpenThere
<1>2. File \in Seq(Data) /\ Append(File, p) \in Content
  BY <1>1, FileThere, PiecesOf DEF Content
<1>. QED  BY <1>1, <1>2, FileSet DEF File

\* A write, done or failed, leaves what was there at the beginning.
LEMMA WriteBegins ==
    ASSUME VolumeShape, OpenThere, at.stage # "idle", UNCHANGED <<cmd, before, file>>,
           before \in Content, Beginning,
           NEW p \in Data, NEW kept \in BOOLEAN, Writes(p, kept) \/ WriteFails
    PROVE  Beginning'
<1>1. CASE SameFile
  BY <1>1 DEF SameFile, Beginning, File
<1>2. ASSUME NEW q \in Data, NEW k \in BOOLEAN, file.open, SetFile(Append(File, q), k)
      PROVE  Beginning'
  <2>1. cmd.name \in Names /\ File \in Seq(Data) /\ Pieces(File) = File
    BY <1>2, FileThere, PiecesOf DEF OpenThere
  <2>2. Pieces(before) \in Seq(Data) /\ IsPrefix(Pieces(before), File)
    BY <1>2, <2>1, PiecesOf DEF Beginning
  <2>. DEFINE f == Append(File, q)
  <2>3. f \in Seq(Data) /\ f \in Content /\ f # NoFile /\ IsPrefix(Pieces(before), f)
    BY <2>1, <2>2, PrefixAppend, Contents DEF Content
  <2>4. SetFile(f, k)
    BY <1>2
  <2>. HIDE DEF f
  <2>5. File' = f
    BY <2>1, <2>3, <2>4, FileSet DEF File
  <2>6. Pieces(File)' = f
    BY <2>3, <2>5 DEF Pieces
  <2>. QED  BY <1>2, <2>3, <2>6 DEF Beginning
<1>3. "cut" \in Data
  BY Contents
<1>. QED  BY <1>1, <1>2, <1>3 DEF Writes, WriteFails, CutShort

\* Every step keeps Progress, and the last one of a stage finds it done.
LEMMA StepProgress ==
    ASSUME KeepInv, KeepInv', Counts, Progress, [Next]_vars
    PROVE  Progress' /\ (UNCHANGED vars \/ StageDone)
<1>. USE DEF KeepInv, Shapes
<1>0. at = Idle <=> at.stage = "idle"
  BY IdleAt
<1>1. CASE UNCHANGED vars
  <2>1. /\ at' = at /\ before' = before /\ cmd' = cmd /\ file' = file /\ volume' = volume
        /\ loop' = loop /\ err' = err
    BY <1>1 DEF vars
  <2>2. File' = File
    BY <2>1 DEF File
  <2>3. \A n : (Wrote(n) => file.open' /\ File' = Pieces(before') \o Repeated("w", n))
               /\ (Copied(n) => file.open' /\ File' = Pieces(before') \o Firsts(PutData, n))
    BY <2>1, <2>2 DEF Wrote, Copied
  <2>4. Progress'
    BY <2>1, <2>2, <2>3 DEF Progress, Beginning, Clean, Wrote, Copied, Total
  <2>. QED  BY <1>1, <2>4
<1>2. ASSUME NEW c \in Commands, Start(c) PROVE Progress' /\ StageDone
  <2>1. before' = before /\ at'.stage = "init" /\ at.stage = "idle"
    BY <1>2, <1>0 DEF Start
  <2>. QED  BY <2>1 DEF Progress, StageDone
<1>3. CASE Ends
  <2>1. at' = Idle /\ at'.stage = "idle" /\ before' \in Content
    BY <1>3 DEF Ends, Idle, Content
  <2>. QED  BY <2>1 DEF Progress, StageDone
<1>4. CASE /\ Done /\ cmd' = cmd /\ at.stage \notin {"idle", "end"}
           /\ at.stage \notin {"rm", "write", "cycle", "put"}
  <2>1. Progress'
    BY <1>4, DoneProgress
  <2>2. StageDone
    BY <1>4 DEF StageDone
  <2>. QED  BY <2>1, <2>2
<1>5. CASE RemoveStage
  <2>1. at.stage = "rm" /\ RemoveFile /\ Done /\ cmd' = cmd
    BY <1>5 DEF RemoveStage
  <2>2. at.stage \notin err' => File' = NoFile
    BY <2>1, RemovedFile
  <2>3. Progress'
    BY <2>1, DoneProgress
  <2>. QED  BY <2>1, <2>2, <2>3 DEF StageDone
<1>6. CASE OpenStep
  <2>1. /\ at.stage \in {"write", "cycle", "put"} /\ at.step = "open" /\ OpenFile
        /\ Step("data") /\ cmd' = cmd /\ loop' = [loop EXCEPT !.put = 1, !.count = cmd.wcnt]
    BY <1>6 DEF OpenStep, At
  <2>2. at'.stage = at.stage /\ at'.step = "data" /\ before' = before
    BY <2>1, StepAt
  <2>3. loop'.put = 1 /\ loop'.count = cmd.wcnt /\ cmd.wcnt \in Nat
    BY <2>1, Options DEF Counts
  <2>4. /\ Clean' => file'.open
        /\ IF file'.open THEN File' = Pieces(File) ELSE File' = File
    BY <2>1, <2>2, OpenedFile DEF Clean
  <2>5. at.stage # "cycle" => before = File
    BY <2>1 DEF Progress, Beginning, OpenThere
  <2>6. /\ Pieces(before) \o Repeated("w", 0) = Pieces(before)
        /\ Pieces(before) \o Firsts(PutData, 0) = Pieces(before)
    BY PiecesOf, RepeatedMore, SubSeqMore, Contents, PutIsData DEF Progress
  <2>7. Wrote(0)' \/ ~Clean' \/ at.stage = "cycle"
    BY <2>2, <2>4, <2>5, <2>6 DEF Wrote
  <2>8. Copied(0)' \/ ~Clean' \/ at.stage = "cycle"
    BY <2>2, <2>4, <2>5, <2>6 DEF Copied
  <2>9. Len(PutData) \in Nat
    BY PutIsData
  <2>11. at.stage # "cycle" => Beginning'
    <3>1. Pieces(before) \in Seq(Data)
      BY PiecesOf DEF Progress
    <3>2. Pieces(Pieces(before)) = Pieces(before)
      BY <3>1, Contents DEF Pieces
    <3>. QED  BY <2>2, <2>4, <2>5, <3>1, <3>2, PrefixSame DEF Beginning
  <2>10. Progress'
    BY <2>1, <2>2, <2>3, <2>7, <2>8, <2>9, <2>11 DEF Progress
  <2>. QED  BY <2>2, <2>10 DEF StageDone
<1>7. CASE WriteStep
  <2>1. PICK failed \in BOOLEAN :
          /\ IF failed THEN WriteFails ELSE Writes("w", Synced)
          /\ IF failed THEN Fails ELSE err' = err
          /\ IF MoreWrites(failed)
             THEN loop' = [loop EXCEPT !.count = IF cmd.inf THEN @ ELSE @ - 1] /\ Step("data")
             ELSE loop' = loop /\ Step("close")
    BY <1>7 DEF WriteStep
  <2>2. at.stage \in {"write", "cycle"} /\ at.step = "data" /\ cmd' = cmd /\ file' = file
    BY <1>7 DEF WriteStep, At
  <2>3. at'.stage = at.stage /\ at'.step \in {"data", "close"} /\ before' = before
    BY <2>1, <2>2, StepAt
  <2>6. at.stage = "write" => Beginning'
    <3>1. "w" \in Data /\ Synced \in BOOLEAN
      BY Contents DEF Synced
    <3>2. at.stage = "write" => Beginning
      BY DEF Progress
    <3>. QED  BY <2>1, <2>2, <2>3, <3>1, <3>2, WriteBegins DEF Progress
  <2>4. CASE at.stage = "cycle" \/ ~Clean' \/ cmd.inf
    BY <2>2, <2>3, <2>4, <2>6 DEF Progress, StageDone
  <2>5. CASE at.stage = "write" /\ Clean' /\ ~cmd.inf
    <3>1. ~failed /\ Clean
      BY <2>1, <2>3, <2>5 DEF Clean, Fails
    <3>2. Writes("w", Synced)
      BY <2>1, <3>1
    <3>3. File \in Seq(Data) /\ File' = Append(File, "w") /\ file.open
      <4>1. Synced \in BOOLEAN
        BY DEF Synced
      <4>. QED  BY <2>2, <3>2, <4>1, WrittenFile, Contents
    <3>0. PICK n \in Int : n = cmd.wcnt - loop.count
      BY Options DEF Counts
    <3>4. /\ Wrote(n) /\ loop.count \in Nat /\ cmd.wcnt \in Nat /\ n \in Nat
          /\ loop.count = 0 => cmd.wcnt = 0
      BY <2>2, <2>5, <3>0, <3>1, Options DEF Progress, Counts
    <3>5. Wrote(n + 1)'
      <4>1. Pieces(before) \in Seq(Data)
        BY PiecesOf DEF Progress
      <4>2. Append(Pieces(before) \o Repeated("w", n), "w") = Pieces(before) \o Repeated("w", n + 1)
        <5>1. "w" \in Data
          BY Contents
        <5>. HIDE DEF Repeated
        <5>. QED  BY <3>4, <4>1, <5>1, RepeatedMore
      <4>3. File' = Pieces(before) \o Repeated("w", n + 1)
        BY <3>3, <3>4, <4>2 DEF Wrote
      <4>. QED  BY <2>2, <2>3, <3>3, <4>3 DEF Wrote
    <3>6. CASE loop.count - 1 > 0
      <4>1. MoreWrites(failed)
        BY <3>1, <3>6 DEF MoreWrites
      <4>2. loop' = [loop EXCEPT !.count = loop.count - 1] /\ Step("data")
        BY <2>1, <2>5, <4>1
      <4>3. loop'.count = loop.count - 1 /\ at'.step = "data"
        BY <2>2, <4>2, StepAt DEF Counts
      <4>4. cmd.wcnt - loop'.count = n + 1
        BY <3>0, <3>4, <4>3
      <4>5. loop'.count >= 0 /\ loop'.count <= cmd.wcnt /\ loop'.count # 0
        BY <3>0, <3>4, <3>6, <4>3
      <4>6. Wrote(cmd.wcnt - loop.count)'
        BY <2>2, <3>5, <4>4 DEF Wrote
      <4>. QED  BY <2>2, <2>3, <2>5, <2>6, <4>3, <4>5, <4>6 DEF Progress, StageDone
    <3>7. CASE ~(loop.count - 1 > 0)
      <4>1. ~MoreWrites(failed)
        BY <2>5, <3>7 DEF MoreWrites
      <4>2. at'.step = "close"
        BY <2>1, <2>2, <4>1, StepAt
      <4>3. n + 1 = Total /\ Total' = Total
        BY <2>2, <3>0, <3>4, <3>7 DEF Total
      <4>4. Wrote(Total)'
        BY <3>5, <4>3 DEF Wrote
      <4>. QED  BY <2>2, <2>3, <2>5, <2>6, <4>2, <4>4 DEF Progress, StageDone
    <3>. QED  BY <3>6, <3>7
  <2>. QED  BY <2>2, <2>4, <2>5
<1>8. CASE PutStep
  <2>1. PICK failed \in BOOLEAN :
          /\ IF failed THEN WriteFails ELSE Writes(PutData[loop.put], FALSE)
          /\ PutNext(failed)
    BY <1>8 DEF PutStep
  <2>2. /\ at.stage = "put" /\ at.step = "data" /\ cmd' = cmd /\ file' = file
        /\ loop' = [loop EXCEPT !.put = @ + 1] /\ loop.put <= Len(PutData)
    BY <1>8 DEF PutStep, At
  <2>3. at'.stage = "put" /\ at'.step \in {"data", "close"} /\ before' = before
    BY <2>1, <2>2, StepAt DEF PutNext
  <2>6. Beginning'
    <3>1. loop.put \in 1 .. Len(PutData)
      BY <2>2 DEF Counts, At
    <3>2. PutData[loop.put] \in Data
      BY <3>1, Contents
    <3>. QED  BY <2>1, <2>2, <2>3, <3>2, WriteBegins DEF Progress
  <2>4. CASE ~Clean'
    BY <2>3, <2>2, <2>4, <2>6 DEF Progress, StageDone
  <2>5. CASE Clean'
    <3>1. ~failed /\ Clean /\ Step("data")
      BY <2>1, <2>2, <2>3, <2>5 DEF PutNext, Clean, Fails
    <3>2. at'.step = "data"
      BY <2>2, <3>1, StepAt
    <3>0. PICK n \in Int : n = loop.put - 1
      BY DEF Counts
    <3>3. /\ Copied(n) /\ loop.put \in Nat /\ n \in Nat /\ n < Len(PutData)
          /\ loop'.put = loop.put + 1 /\ loop.put = n + 1 /\ loop'.put - 1 = n + 1
      BY <2>2, <3>0, <3>1, PutIsData DEF Progress, Counts, At
    <3>4. File \in Seq(Data) /\ File' = Append(File, PutData[n + 1]) /\ file.open
      <4>1. PutData[n + 1] \in Data
        BY <3>3, PutIsData
      <4>2. Writes(PutData[n + 1], FALSE)
        BY <2>1, <3>1, <3>3
      <4>. QED  BY <2>2, <4>1, <4>2, WrittenFile
    <3>5. File' = Pieces(before) \o Firsts(PutData, n + 1)
      <4>1. Pieces(before) \in Seq(Data)
        BY PiecesOf DEF Progress
      <4>2. Append(Pieces(before) \o Firsts(PutData, n), PutData[n + 1])
              = Pieces(before) \o Firsts(PutData, n + 1)
        BY <3>3, <4>1, SubSeqMore, PutIsData
      <4>. QED  BY <3>3, <3>4, <4>2 DEF Copied
    <3>6. Copied(loop.put - 1)'
      BY <2>2, <2>3, <3>3, <3>4, <3>5 DEF Copied
    <3>7. loop'.put <= Len(PutData) + 1
      BY <2>2, <3>3, PutIsData
    <3>. QED  BY <2>2, <2>3, <2>6, <3>2, <3>6, <3>7 DEF Progress, StageDone
  <2>. QED  BY <2>4, <2>5
<1>9. CASE PutEnd
  <2>1. /\ at.stage = "put" /\ at.step = "data" /\ loop.put > Len(PutData) /\ SameFile
        /\ Step("close") /\ UNCHANGED <<cmd, file, loop, err>>
    BY <1>9 DEF PutEnd, At
  <2>2. at'.stage = "put" /\ at'.step = "close" /\ before' = before
    BY <2>1, StepAt
  <2>3. Clean => loop.put - 1 = Len(PutData) /\ Copied(loop.put - 1)
    BY <2>1, PutIsData DEF Progress, Counts
  <2>4. Clean' => Copied(Len(PutData))'
    BY <2>1, <2>2, <2>3 DEF Copied, File, SameFile, Clean
  <2>5. Beginning'
    BY <2>1, <2>2 DEF Progress, Beginning, File, SameFile
  <2>. QED  BY <2>1, <2>2, <2>4, <2>5 DEF Progress, StageDone
<1>10. CASE CloseStep
  <2>1. /\ at.stage \in {"write", "put", "get", "cycle"} /\ at.step = "close" /\ CloseFile
        /\ IF at.stage = "cycle" THEN Step(IF loop.cycle # 0 THEN "remove" ELSE "next") ELSE Done
        /\ UNCHANGED <<cmd, loop>>
    BY <1>10 DEF CloseStep, At
  <2>2. File' = File /\ (at.stage \notin err' => Clean)
    BY <2>1, ClosedFile DEF Clean
  <2>3. CASE at.stage = "cycle"
    <3>1. at'.stage = "cycle" /\ before' = before
          /\ at'.step = IF loop.cycle # 0 THEN "remove" ELSE "next"
      BY <2>1, <2>3, StepAt
    <3>. QED  BY <2>1, <2>3, <3>1 DEF Progress, StageDone
  <2>4. CASE at.stage # "cycle"
    <3>1. Progress'
      BY <2>1, <2>4, DoneProgress
    <3>2. Clean /\ at.stage = "put" => File = Pieces(before) \o PutData
      BY <2>1, PutIsData, SubSeqMore DEF Progress, Copied
    <3>3. Clean /\ at.stage = "write" /\ ~cmd.inf => File = Pieces(before) \o Repeated("w", Total)
      BY <2>1 DEF Progress, Wrote
    <3>5. at.stage \in {"write", "put"} =>
            IF file.open THEN IsPrefix(Pieces(before), Pieces(File')) ELSE File' = before
      BY <2>2 DEF Progress, Beginning, Pieces
    <3>4. StageDone
      BY <2>1, <2>2, <2>4, <3>2, <3>3, <3>5 DEF StageDone, Total
    <3>. QED  BY <3>1, <3>4
  <2>. QED  BY <2>3, <2>4
<1>11. CASE CycleRemove
  <2>1. at.stage = "cycle" /\ RemoveFile /\ Step("next") /\ cmd' = cmd
    BY <1>11 DEF CycleRemove, At
  <2>2. at'.stage = "cycle" /\ at'.step = "next" /\ before' = before
    BY <2>1, StepAt
  <2>3. Clean' => File' = NoFile
    BY <2>1, <2>2, RemovedFile DEF Clean
  <2>. QED  BY <2>1, <2>2, <2>3 DEF Progress, StageDone
<1>12. CASE CycleNext
  <2>1. /\ at.stage = "cycle" /\ at.step = "next" /\ SameFile /\ UNCHANGED <<cmd, err>>
        /\ IF CyclesLeft # 0 THEN Step("open") ELSE Done
    BY <1>12 DEF CycleNext, At
  <2>2. CASE CyclesLeft # 0
    <3>1. at'.stage = "cycle" /\ at'.step = "open" /\ before' = before
      BY <2>1, <2>2, StepAt
    <3>. QED  BY <2>1, <3>1 DEF Progress, StageDone
  <2>3. CASE CyclesLeft = 0
    <3>1. loop.cycle # 0
      <4>1. UintMod \in Nat \ {0, 1}
        BY SessionAssumption, Zenon
      <4>2. (0 - 1) % UintMod # 0
        BY <4>1
      <4>. QED  BY <2>3, <4>2 DEF CyclesLeft
    <3>2. at.stage \notin err' => File = NoFile
      BY <2>1, <3>1 DEF Progress, Clean
    <3>3. File' = File
      BY <2>1 DEF File, SameFile
    <3>4. Progress'
      BY <2>1, <2>3, DoneProgress
    <3>. QED  BY <2>1, <3>2, <3>3, <3>4 DEF StageDone
  <2>. QED  BY <2>2, <2>3
<1>13. CASE CycleBegin \/ GetOpen \/ GetStep \/ ListOpen \/ Export
  <2>1. /\ at.stage \in {"cycle", "get", "list", "init"} /\ cmd' = cmd
        /\ \E s \in {"open", "data", "close", "mount"} : Step(s)
    BY <1>13 DEF CycleBegin, GetOpen, GetStep, ListOpen, Export, At
  <2>2. at'.stage = at.stage /\ before' = before /\ at'.step # "next"
    BY <2>1, StepAt
  <2>. QED  BY <2>1, <2>2 DEF Progress, StageDone
<1>14. CASE ListNext \/ ListBack \/ ListCut
  <2>1. at.stage = "list" /\ UNCHANGED <<at, before>>
    BY <1>14 DEF ListNext, ListBack, ListCut, Listing, At
  <2>. QED  BY <2>1 DEF Progress, StageDone
<1>15. ASSUME InitStage \/ MkdirStage \/ ReadStage \/ ListEnd
       PROVE  Done /\ cmd' = cmd /\ at.stage \in {"init", "mkdir", "read", "list"}
  BY <1>15 DEF InitStage, MkdirStage, ReadStage, ListEnd, At
<1>16. CASE NoPcFile /\ ~Ends
  <2>1. /\ SameFile /\ at.stage = "put" /\ at.step = "open" /\ Done /\ Fails
        /\ UNCHANGED <<cmd, file>>
    BY <1>16 DEF NoPcFile, At
  <2>2. Progress'
    BY <2>1, DoneProgress
  <2>3. File' = before /\ ~file.open
    BY <2>1 DEF Progress, Beginning, OpenThere, SameFile, File
  <2>. QED  BY <2>1, <2>2, <2>3 DEF StageDone, Fails
<1>17. ASSUME InitFails \/ Uninit \/ Kill \/ ListOverflow PROVE Ends
  BY <1>17 DEF InitFails, Uninit, Kill, ListOverflow
<1>. QED
  BY <1>1, <1>2, <1>3, <1>4, <1>5, <1>6, <1>7, <1>8, <1>9, <1>10, <1>11, <1>12, <1>13, <1>14,
     <1>15, <1>16, <1>17 DEF Next, Run

\* When a stage ends and has reported no error, whatever the stages before it
\* have, it has done what its option says: the text is written as often as
\* asked behind what was there, the file of the PC is copied whole, the file to
\* be removed or cycled is gone.  One that has reported an error keeps what was
\* there, and changes nothing when its file was not open.
\* [main, test_write, test_copy_to_fs, test_remove, test_close]
THEOREM StagesDo == Spec => StagesDone
<1>. DEFINE Inv == KeepInv /\ Counts /\ Progress
<1>1. Init => Inv
  <2>1. ASSUME Init PROVE Progress
    <3>1. at = Idle /\ before = NoFile
      BY <2>1 DEF Init
    <3>2. at.stage = "idle" /\ before \in Content
      BY <3>1 DEF Idle, Content
    <3>. QED  BY <3>2 DEF Progress
  <2>. QED  BY <2>1, InitKeeps, InitCounts
<1>2. Inv /\ [Next]_vars => Inv'
  BY StepKeeps, StepCounts, StepProgress DEF KeepInv, Shapes
<1>3. Inv /\ Inv' /\ [Next]_vars => [StageDone]_vars
  BY StepProgress
<1>4. [StageDone]_vars
      => [at.stage # at'.stage /\ at' # Idle =>
            IF at.stage \notin err'
            THEN CASE at.stage = "rm" -> File' = NoFile
                   [] at.stage = "write" /\ ~cmd.inf ->
                        File' = Pieces(before) \o Repeated("w", IF cmd.wcnt = 0 THEN 1 ELSE cmd.wcnt)
                   [] at.stage = "cycle" -> File' = NoFile
                   [] at.stage = "put" -> File' = Pieces(before) \o PutData
                   [] OTHER -> TRUE
            ELSE at.stage \in {"write", "put"} =>
                   IF file.open THEN IsPrefix(Pieces(before), Pieces(File')) ELSE File' = before]_vars
  BY DEF StageDone
<1>. HIDE DEF Inv
<1>. QED  BY <1>1, <1>2, <1>3, <1>4, PTL DEF Spec, StagesDone

(***************************************************************************)
(* ListsReached.                                                           *)
(***************************************************************************)
\* A directory lies in one that is there.
DirsTree == \A d \in volume.dirs : d \in Seq(STRING) \ {<<>>} /\ Front(d) \in volume.dirs \cup {<<>>}
MkdirNamed == at.stage = "mkdir" => cmd.dir # <<>>

\* The calls of test_list_dir: the first is for the directory asked for, each
\* of the others for one in that before it, or for the same one again; and what
\* they lock is no more than their depth.
CallRec == [dir : Seq(STRING), left : SUBSET Seq(STRING), locks : Nat]
ListShape ==
    /\ list = [calls |-> list.calls, filed |-> list.filed, failed |-> list.failed]
    /\ list.calls \in Seq(CallRec)
Path(r, calls) ==
    /\ \A i \in 1 .. Len(calls) :
         /\ calls[i].dir \in volume.dirs \cup {<<>>}
         /\ calls[i].left \subseteq Subdirs(calls[i].dir)
         /\ type = "fat" => calls[i].locks <= Leaked + Depth(r, calls[i].dir)
    /\ Len(calls) >= 1 => calls[1].dir = r
    /\ \A i \in 1 .. Len(calls) - 1 :
         calls[i + 1].dir = calls[i].dir \/ calls[i + 1].dir \in Subdirs(calls[i].dir)

\* The directories a listing can reach, and whether it can begin.
Allowed(r, p) ==
    /\ p \in volume.dirs \cup {<<>>}
    /\ type = "fat" => Depth(r, p) + Leaked <= LockCount /\ p \notin Long
Begins(r) == r \in volume.dirs \cup {<<>>} /\ (type = "fat" => Depth(r, r) + Leaked <= LockCount)

\* What is below a directory that is being listed is still to be shown, or
\* listed, or being listed; what is below one that was listed is listed.
Owed(r, calls, filed) ==
    /\ \A i \in 1 .. Len(calls) : \A c \in Subdirs(calls[i].dir) : Allowed(r, c) =>
         c \in calls[i].left \/ c \in filed \/ (i < Len(calls) /\ calls[i + 1].dir = c)
    /\ \A p \in filed : \A c \in Subdirs(p) : Allowed(r, c) => c \in filed
    /\ Len(calls) = 0 /\ Begins(r) => r \in filed
ListInv ==
    At({"list"}, "data") =>
        /\ ListShape
        /\ \A r \in cmd.list : Path(r, list.calls)
        /\ ~list.failed => \A r \in cmd.list : Owed(r, list.calls, list.filed)

\* The ways in which at moves.
LEMMA Moves ==
    ASSUME AtShape, [Next]_vars
    PROVE  \/ Done /\ cmd' = cmd /\ at.stage \notin {"idle", "end"} /\ (at.stage = "list" => ListEnd)
           \/ cmd' = cmd /\ at'.stage = at.stage /\ at.stage # "list"
           \/ at.stage = "list" /\ at'.stage = "list" /\ cmd' = cmd
              /\ (ListOpen \/ ListNext \/ ListBack \/ ListCut)
           \/ UNCHANGED <<at, cmd, volume, type, file, list>>
           \/ at'.stage \in {"idle", "init"}
<1>1. CASE UNCHANGED vars
  BY <1>1 DEF vars
<1>2. ASSUME NEW c \in Commands, Start(c) PROVE at'.stage = "init"
  BY <1>2 DEF Start
<1>3. CASE InitFails \/ Uninit \/ Kill \/ ListOverflow
  <2>1. at' = Idle
    BY <1>3 DEF InitFails, Uninit, Kill, ListOverflow, Ends
  <2>. QED  BY <2>1 DEF Idle
<1>4. CASE InitStage \/ RemoveStage \/ MkdirStage \/ ReadStage \/ ListEnd
  BY <1>4 DEF InitStage, RemoveStage, MkdirStage, ReadStage, ListEnd, At
<1>5. CASE OpenStep \/ WriteStep \/ PutStep \/ PutEnd \/ CycleBegin \/ CycleRemove \/ GetOpen \/ GetStep
           \/ Export
  <2>1. /\ at.stage \in {"write", "cycle", "put", "get", "init"} /\ cmd' = cmd
        /\ \E s \in {"open", "data", "close", "next", "mount"} : Step(s)
    BY <1>5 DEF OpenStep, WriteStep, PutStep, PutNext, PutEnd, CycleBegin, CycleRemove, GetOpen,
               GetStep, Export, At
  <2>. QED  BY <2>1, StepAt
<1>6. CASE CloseStep \/ CycleNext
  <2>1. /\ at.stage \in {"write", "cycle", "put", "get"} /\ cmd' = cmd
        /\ Done \/ \E s \in {"open", "remove", "next"} : Step(s)
    BY <1>6 DEF CloseStep, CycleNext, At
  <2>. QED  BY <2>1, StepAt
<1>7. CASE ListOpen
  <2>1. at.stage = "list" /\ Step("data") /\ cmd' = cmd
    BY <1>7 DEF ListOpen, At
  <2>. QED  BY <1>7, <2>1, StepAt
<1>8. CASE ListNext \/ ListBack \/ ListCut
  BY <1>8 DEF ListNext, ListBack, ListCut, Listing, At
<1>9. CASE NoPcFile
  <2>1. Idle.stage = "idle"
    BY DEF Idle
  <2>. QED  BY <1>9, <2>1 DEF NoPcFile, Ends, At
<1>. QED
  BY <1>1, <1>2, <1>3, <1>4, <1>5, <1>6, <1>7, <1>8, <1>9 DEF Next, Run

\* Only mkdir and formatting change the directories.
LEMMA SetDirs ==
    ASSUME VolumeShape, NEW f, NEW k, SetFile(f, k)
    PROVE  volume'.dirs = volume.dirs
<1>1. volume' = [formatted |-> volume.formatted, files |-> [volume.files EXCEPT ![cmd.name] = f],
                 dirs |-> volume.dirs]
  BY DEF SetFile, VolumeShape
<1>. QED  BY <1>1

\* A step that is not mkdir keeps the directories, or formats them away.
LEMMA DirsKept ==
    ASSUME VolumeShape, [Next]_vars
    PROVE  volume'.dirs = volume.dirs \/ volume'.dirs = {} \/ MkdirStage
<1>1. CASE volume' = volume
  BY <1>1
<1>2. CASE \E f, k : SetFile(f, k)
  BY <1>2, SetDirs
<1>3. CASE Mount
  BY <1>3 DEF Mount, Format, SameFile
<1>4. CASE Survives
  <2>1. volume' = [formatted |-> volume.formatted, files |-> saved', dirs |-> volume.dirs]
    BY <1>4 DEF Survives, VolumeShape
  <2>. QED  BY <2>1
<1>7. CASE Torn
  BY <1>7 DEF Torn
<1>5. RemoveFile \/ WriteFails \/ OpenFile \/ CloseFile => volume' = volume \/ \E f, k : SetFile(f, k)
  BY DEF RemoveFile, WriteFails, CutShort, OpenFile, myfat_open, mylfs_open, Opened, OpenFails,
         CloseFile, SameFile
<1>6. \A p, k : Writes(p, k) => \E f, j : SetFile(f, j)
  BY DEF Writes
<1>. QED
  BY <1>1, <1>2, <1>3, <1>4, <1>5, <1>6, <1>7
  DEF Next, Run, vars, Start, Export, InitStage, InitFails, Uninit, Kill, RemoveStage, ReadStage,
      OpenStep, WriteStep, PutStep, PutEnd, CloseStep, CycleBegin, CycleRemove, CycleNext, GetOpen,
      GetStep, NoPcFile, ListOpen, ListNext, ListOverflow, ListCut, ListBack, ListEnd, SameFile

\* The directories stay a tree, and mkdir names one.
LEMMA StepTree ==
    ASSUME AtShape, VolumeShape, Counts, DirsTree, MkdirNamed, [Next]_vars
    PROVE  DirsTree' /\ MkdirNamed'
<1>1. MkdirNamed'
  <2>1. CASE Done /\ cmd' = cmd /\ at.stage \notin {"idle", "end"}
    BY <2>1, DoneAt DEF Wanted, MkdirNamed
  <2>2. CASE cmd' = cmd /\ at'.stage = at.stage
    BY <2>2 DEF MkdirNamed
  <2>3. CASE at'.stage \in {"idle", "init"}
    BY <2>3 DEF MkdirNamed
  <2>. QED  BY <2>1, <2>2, <2>3, Moves
<1>2. CASE volume'.dirs = volume.dirs \/ volume'.dirs = {}
  BY <1>1, <1>2 DEF DirsTree
<1>3. CASE MkdirStage
  <2>1. cmd.dir \in Seq(STRING) \ {<<>>}
    BY <1>3, Options DEF MkdirStage, Counts, MkdirNamed
  <2>2. \/ volume'.dirs = volume.dirs
        \/ volume'.dirs = volume.dirs \cup {cmd.dir} /\ Front(cmd.dir) \in volume.dirs \cup {<<>>}
    BY <1>3 DEF MkdirStage, VolumeShape
  <2>. QED  BY <1>1, <2>1, <2>2 DEF DirsTree
<1>. QED  BY <1>1, <1>2, <1>3, DirsKept

\* What is below a directory.
LEMMA Below ==
    ASSUME DirsTree, NEW p, NEW c \in Subdirs(p)
    PROVE  c \in volume.dirs /\ c \in Seq(STRING) /\ c # <<>> /\ Len(c) = Len(p) + 1 /\ Front(c) = p
BY DEF Subdirs, DirsTree

\* A path without its last name.
LEMMA FrontLen ==
    ASSUME NEW S, NEW c \in Seq(S), c # <<>>
    PROVE  /\ Front(c) \in Seq(S) /\ Len(c) = Len(Front(c)) + 1 /\ Len(Front(c)) < Len(c)
           /\ \A i \in 1 .. Len(c) - 1 : Front(c)[i] = c[i]
<1>1. Len(c) \in Nat \ {0} /\ \A i \in 1 .. Len(c) - 1 : c[i] \in S
  OBVIOUS
<1>. DEFINE f == SubSeq(c, 1, Len(c) - 1)
<1>2. /\ f \in Seq(S)
      /\ Len(f) = IF 1 <= Len(c) - 1 THEN (Len(c) - 1) - 1 + 1 ELSE 0
      /\ \A i \in 1 .. (Len(c) - 1) - 1 + 1 : f[i] = c[1 + i - 1]
  BY <1>1, SubSeqProperties
<1>. HIDE DEF f
<1>3. Front(c) = f
  BY DEF Front, f
<1>4. Len(c) = Len(f) + 1
  <2>1. PICK k \in Nat \ {0} : k = Len(c)
    BY <1>1
  <2>2. Len(f) = IF 1 <= k - 1 THEN (k - 1) - 1 + 1 ELSE 0
    BY <1>2, <2>1
  <2>. QED  BY <2>1, <2>2
<1>5. \A i \in 1 .. Len(c) - 1 : f[i] = c[i]
  BY <1>1, <1>2
<1>. QED  BY <1>1, <1>2, <1>3, <1>4, <1>5

\* A listing changes no directory, and no lock of a file.
LEMMA SameReach ==
    ASSUME UNCHANGED <<volume, type, file>>
    PROVE  /\ \A p : Subdirs(p)' = Subdirs(p)
           /\ \A r, c : Path(r, c)' <=> Path(r, c)
           /\ \A r, c, f : Owed(r, c, f)' <=> Owed(r, c, f)
<1>1. \A p : Subdirs(p)' = Subdirs(p)
  BY DEF Subdirs
<1>2. Leaked' = Leaked
  BY DEF Leaked
<1>3. \A r, p : (Allowed(r, p)' <=> Allowed(r, p)) /\ (Begins(r)' <=> Begins(r))
  BY <1>2 DEF Allowed, Begins
<1>. QED  BY <1>1, <1>2, <1>3 DEF Path, Owed

\* How many locks there are, and how deep a directory lies.
LEMMA Limits ==
    ASSUME type \in Types
    PROVE  LockCount \in Nat \ {0} /\ Leaked \in {0, 1} /\ type \in {"fat", "lfs"}
BY SessionAssumption, Zenon DEF Leaked

LEMMA DepthOf ==
    ASSUME NEW r \in Seq(STRING), NEW p \in Seq(STRING)
    PROVE  /\ Depth(r, p) \in Int
           /\ Depth(r, r) = IF r = <<>> THEN 0 ELSE 1
           /\ \A c \in Seq(STRING) : Len(c) = Len(p) + 1 => Depth(r, c) = Depth(r, p) + 1
BY DEF Depth

\* The directory asked for is opened when there is a lock for it.
LEMMA FirstOpens ==
    ASSUME type \in Types, NEW r \in Seq(STRING), Begins(r)
    PROVE  Opens(r, <<>>)
<1>1. Locks(<<>>) = Leaked /\ DOMAIN <<>> = {}
  BY DEF Locks
<1>2. Takes(r, <<>>) = IF type = "fat" /\ r # <<>> THEN 1 ELSE 0
  BY <1>1 DEF Takes
<1>. QED  BY <1>1, <1>2, Limits, DepthOf DEF Begins, Opens

\* So is one below that which is being listed.
LEMMA NextOpens ==
    ASSUME type \in Types, DirsTree, NEW r \in Seq(STRING), NEW calls \in Seq(CallRec), calls # <<>>,
           Path(r, calls), NEW c \in Subdirs(calls[Len(calls)].dir), Allowed(r, c)
    PROVE  Opens(c, calls)
<1>. DEFINE n == Len(calls)
            p == calls[n].dir
<1>1. n \in Nat \ {0} /\ Last(calls) = calls[n] /\ calls[n] \in CallRec
  BY DEF Last
<1>2. p \in Seq(STRING) /\ calls[n].locks \in Nat /\ c \in Seq(STRING) /\ Len(c) = Len(p) + 1
  BY <1>1, Below DEF CallRec
<1>3. Depth(r, c) = Depth(r, p) + 1 /\ Depth(r, p) \in Int
  BY <1>2, DepthOf
<1>4. Locks(calls) = calls[n].locks /\ (type = "fat" => calls[n].locks <= Leaked + Depth(r, p))
  BY <1>1 DEF Locks, Path
<1>5. type # "fat" => Takes(c, calls) = 0
  BY DEF Takes
<1>. HIDE DEF n, p
<1>. QED  BY <1>2, <1>3, <1>4, <1>5, Limits DEF Allowed, Opens

\* What is called when a directory is opened.
LEMMA Called ==
    ASSUME type \in Types, NEW p \in Seq(STRING), NEW calls \in Seq(CallRec), DirsTree
    PROVE  /\ Call(p, calls) \in CallRec /\ Call(p, calls).dir = p
           /\ Call(p, calls).left = Subdirs(p)
           /\ Call(p, calls).locks = Locks(calls) + Takes(p, calls)
           /\ Locks(calls) \in Nat /\ Takes(p, calls) \in {0, 1}
<1>1. Takes(p, calls) \in {0, 1}
  BY DEF Takes
<1>2. Locks(calls) \in Nat
  <2>1. CASE calls = <<>>
    BY <2>1, Limits DEF Locks
  <2>2. CASE calls # <<>>
    <3>1. Last(calls) \in CallRec
      BY <2>2 DEF Last
    <3>. QED  BY <2>2, <3>1 DEF Locks, CallRec
  <2>. QED  BY <2>1, <2>2
<1>3. Subdirs(p) \in SUBSET Seq(STRING)
  BY Below
<1>. QED  BY <1>1, <1>2, <1>3 DEF Call, CallRec

\* The last call with fewer directories still to be shown.
LEMMA ShownIs ==
    ASSUME ListShape, list.calls # <<>>, NEW left \in SUBSET Seq(STRING)
    PROVE  \E calls \in Seq(CallRec) :
             /\ Shown(left) = [calls |-> calls, filed |-> list.filed, failed |-> list.failed]
             /\ Len(calls) = Len(list.calls) /\ calls # <<>>
             /\ \A i \in 1 .. Len(list.calls) :
                  /\ calls[i].dir = list.calls[i].dir /\ calls[i].locks = list.calls[i].locks
                  /\ calls[i].left = IF i = Len(list.calls) THEN left ELSE list.calls[i].left
             /\ Locks(calls) = Locks(list.calls)
             /\ \A p : Takes(p, calls) = Takes(p, list.calls)
<1>. DEFINE n == Len(list.calls)
            calls == [list.calls EXCEPT ![n] = [list.calls[n] EXCEPT !.left = left]]
<1>1. n \in Nat \ {0} /\ list.calls[n] \in CallRec /\ list.calls \in Seq(CallRec)
  BY DEF ListShape
<1>2. [list.calls[n] EXCEPT !.left = left] \in CallRec
      /\ [list.calls[n] EXCEPT !.left = left].left = left
      /\ [list.calls[n] EXCEPT !.left = left].dir = list.calls[n].dir
      /\ [list.calls[n] EXCEPT !.left = left].locks = list.calls[n].locks
  BY <1>1 DEF CallRec
<1>3. calls \in Seq(CallRec) /\ Len(calls) = n
      /\ \A i \in 1 .. n : calls[i] = IF i = n THEN [list.calls[n] EXCEPT !.left = left]
                                      ELSE list.calls[i]
  BY <1>1, <1>2
<1>4. Shown(left) = [calls |-> calls, filed |-> list.filed, failed |-> list.failed]
  <2>1. Shown(left) = [list EXCEPT !.calls = calls]
    BY DEF Shown
  <2>. HIDE DEF calls
  <2>. QED  BY <2>1 DEF ListShape
<1>. HIDE DEF calls
<1>5. calls # <<>> /\ Last(calls).locks = Last(list.calls).locks
  <2>1. Last(calls) = calls[n] /\ Last(list.calls) = list.calls[n]
    BY <1>3 DEF Last
  <2>2. calls # <<>>
    BY <1>1, <1>3
  <2>3. n \in 1 .. n
    BY <1>1
  <2>4. calls[n] = [list.calls[n] EXCEPT !.left = left]
    BY <1>3, <2>3
  <2>. QED  BY <1>2, <2>1, <2>2, <2>4, Zenon
<1>6. \A i \in 1 .. n :
        /\ calls[i].dir = list.calls[i].dir /\ calls[i].locks = list.calls[i].locks
        /\ calls[i].left = IF i = n THEN left ELSE list.calls[i].left
  BY <1>2, <1>3
<1>7. DOMAIN calls = 1 .. n /\ DOMAIN list.calls = 1 .. n
  BY <1>1, <1>3
<1>8. \A p : Takes(p, calls) = Takes(p, list.calls)
  BY <1>6, <1>7 DEF Takes
<1>9. Locks(calls) = Locks(list.calls)
  BY <1>5 DEF Locks
<1>. QED  BY <1>3, <1>4, <1>5, <1>6, <1>8, <1>9

\* The directory asked for is opened, or not.
LEMMA ListOpens ==
    ASSUME type \in Types, DirsTree, Counts, ListOpen
    PROVE  ListInv'
<1>1. PICK r \in cmd.list : ListCall(r, NoList)
  BY DEF ListOpen
<1>2. UNCHANGED <<volume, type, file, cmd>>
  BY DEF ListOpen, SameFile
<1>3. r \in Seq(STRING) /\ \A q \in cmd.list : q = r
  BY <1>1, Options DEF Counts
<1>4. <<>> \in Seq(CallRec) /\ Len(<<>>) = 0
  OBVIOUS
<1>5. NoList = [calls |-> <<>>, filed |-> {}, failed |-> FALSE]
      /\ NoList.calls = <<>>
  BY DEF NoList
<1>6. CASE list' = [NoList EXCEPT !.failed = TRUE]
  <2>1. list' = [calls |-> <<>>, filed |-> {}, failed |-> TRUE]
    BY <1>5, <1>6
  <2>2. ListShape' /\ list'.calls = <<>> /\ list'.failed
    BY <1>4, <2>1 DEF ListShape
  <2>3. Path(r, <<>>)
    BY <1>4 DEF Path
  <2>. QED  BY <1>2, <1>3, <2>2, <2>3, SameReach DEF ListInv
<1>7. CASE ~Opens(r, <<>>) /\ list' = NoList
  <2>1. ListShape' /\ list'.calls = <<>> /\ list'.filed = {}
    BY <1>4, <1>5, <1>7 DEF ListShape
  <2>2. Path(r, <<>>) /\ Owed(r, <<>>, {})
    BY <1>3, <1>4, <1>7, FirstOpens DEF Path, Owed
  <2>. QED  BY <1>2, <1>3, <2>1, <2>2, SameReach DEF ListInv
<1>8. CASE Opens(r, <<>>) /\ list' = [NoList EXCEPT !.calls = Append(@, Call(r, <<>>))]
  <2>. DEFINE c == Call(r, <<>>)
              calls == Append(<<>>, c)
  <2>1. /\ c \in CallRec /\ c.dir = r /\ c.left = Subdirs(r)
        /\ c.locks = Locks(<<>>) + Takes(r, <<>>)
    BY <1>3, <1>4, Called
  <2>. HIDE DEF c
  <2>2. calls \in Seq(CallRec) /\ Len(calls) = 1 /\ calls[1] = c
    BY <1>4, <2>1
  <2>3. list' = [calls |-> calls, filed |-> {}, failed |-> FALSE]
    BY <1>5, <1>8 DEF c
  <2>. HIDE DEF calls
  <2>4. ListShape' /\ list'.calls = calls /\ list'.filed = {}
    BY <2>2, <2>3 DEF ListShape
  <2>5. c.locks <= Leaked + Depth(r, r)
    <3>1. Locks(<<>>) = Leaked /\ Takes(r, <<>>) \in {0, 1} /\ (r = <<>> => Takes(r, <<>>) = 0)
      BY DEF Locks, Takes
    <3>. QED  BY <1>3, <2>1, <3>1, Limits, DepthOf
  <2>6. Path(r, calls)
    BY <1>8, <2>1, <2>2, <2>5 DEF Path, Opens
  <2>7. Owed(r, calls, {})
    BY <2>1, <2>2 DEF Owed
  <2>. QED  BY <1>2, <1>3, <2>4, <2>6, <2>7, SameReach DEF ListInv
<1>. QED  BY <1>1, <1>5, <1>6, <1>7, <1>8 DEF ListCall

\* A call more, for a directory below or for the same one again.
LEMMA PathGrows ==
    ASSUME type \in Types, DirsTree, NEW r \in Seq(STRING), NEW calls \in Seq(CallRec), calls # <<>>,
           Path(r, calls), NEW p, Opens(p, calls),
           p = calls[Len(calls)].dir \/ p \in Subdirs(calls[Len(calls)].dir)
    PROVE  Path(r, Append(calls, Call(p, calls))) /\ Append(calls, Call(p, calls)) \in Seq(CallRec)
<1>. DEFINE n == Len(calls)
            q == calls[n].dir
            c == Call(p, calls)
            new == Append(calls, c)
<1>1. n \in Nat \ {0} /\ n \in 1 .. n /\ calls[n] \in CallRec /\ Last(calls) = calls[n]
  BY DEF Last
<1>2. q \in Seq(STRING) /\ calls[n].locks \in Nat
  BY <1>1 DEF CallRec
<1>3. p \in Seq(STRING) /\ (p # q => Len(p) = Len(q) + 1)
  BY <1>2, Below
<1>4. /\ c \in CallRec /\ c.dir = p /\ c.left = Subdirs(p)
      /\ c.locks = Locks(calls) + Takes(p, calls) /\ Takes(p, calls) \in {0, 1}
  BY <1>3, Called
<1>5. Locks(calls) = calls[n].locks
  BY <1>1 DEF Locks
<1>6. p = q => Takes(p, calls) = 0
  <2>1. n \in DOMAIN calls
    BY <1>1
  <2>. QED  BY <2>1 DEF Takes
<1>7. type = "fat" => calls[n].locks <= Leaked + Depth(r, q)
  BY <1>1 DEF Path
<1>. HIDE DEF c
<1>8. new \in Seq(CallRec) /\ Len(new) = n + 1 /\ new[n + 1] = c
      /\ \A i \in 1 .. n : new[i] = calls[i]
  BY <1>1, <1>4, AppendProperties
<1>9. type = "fat" => c.locks <= Leaked + Depth(r, p)
  <2>. HIDE DEF q, n
  <2>1. Depth(r, q) \in Int /\ (p # q => Depth(r, p) = Depth(r, q) + 1)
    BY <1>2, <1>3, DepthOf
  <2>. QED  BY <1>2, <1>4, <1>5, <1>6, <1>7, <2>1, Limits
<1>10. p \in volume.dirs \cup {<<>>}
  BY DEF Opens
<1>11. \A i \in 1 .. n + 1 :
         /\ new[i].dir \in volume.dirs \cup {<<>>} /\ new[i].left \subseteq Subdirs(new[i].dir)
         /\ type = "fat" => new[i].locks <= Leaked + Depth(r, new[i].dir)
  <2>1. ASSUME NEW i \in 1 .. n
        PROVE  /\ new[i].dir \in volume.dirs \cup {<<>>} /\ new[i].left \subseteq Subdirs(new[i].dir)
               /\ type = "fat" => new[i].locks <= Leaked + Depth(r, new[i].dir)
    BY <1>8, <2>1 DEF Path
  <2>2. \A i \in 1 .. n + 1 : i \in 1 .. n \/ i = n + 1
    BY <1>1
  <2>. QED  BY <1>4, <1>8, <1>9, <1>10, <2>1, <2>2
<1>12. \A i \in 1 .. n :
         new[i + 1].dir = new[i].dir \/ new[i + 1].dir \in Subdirs(new[i].dir)
  <2>1. ASSUME NEW i \in 1 .. n - 1
        PROVE  new[i + 1].dir = new[i].dir \/ new[i + 1].dir \in Subdirs(new[i].dir)
    <3>1. i \in 1 .. n /\ i + 1 \in 1 .. n
      BY <1>1
    <3>. QED  BY <1>8, <2>1, <3>1 DEF Path
  <2>2. \A i \in 1 .. n : i \in 1 .. n - 1 \/ i = n
    BY <1>1
  <2>. QED  BY <1>1, <1>4, <1>8, <2>1, <2>2
<1>13. new[1].dir = r
  BY <1>1, <1>8 DEF Path
<1>. HIDE DEF new, n, q
<1>14. Path(r, new)
  BY <1>1, <1>8, <1>11, <1>12, <1>13 DEF Path
<1>. QED  BY <1>8, <1>14 DEF new, c

\* A directory is shown, and listed when it can be opened.
LEMMA ListNexts ==
    ASSUME type \in Types, DirsTree, Counts, ListInv, ListNext
    PROVE  ListInv'
<1>. DEFINE n == Len(list.calls)
<1>1. PICK d \in Top.left :
        \/ \E p \in SubPath(d) : ListCall(p, Shown(Top.left \ {d}))
        \/ Cut(d) /\ list' = Shown(Top.left \ {d})
  BY DEF ListNext
<1>2. /\ ListShape /\ list.calls # <<>> /\ UNCHANGED <<volume, type, file, cmd>>
      /\ \A r \in cmd.list : Path(r, list.calls)
      /\ ~list.failed => \A r \in cmd.list : Owed(r, list.calls, list.filed)
  BY DEF ListNext, Listing, ListInv
<1>3. n \in Nat \ {0} /\ Top = list.calls[n] /\ Top \in CallRec /\ n \in 1 .. n
  BY <1>2 DEF ListShape, Top, Last
<1>4. Top.left \ {d} \in SUBSET Seq(STRING)
  BY <1>3 DEF CallRec
<1>5. PICK calls \in Seq(CallRec) :
        /\ Shown(Top.left \ {d}) = [calls |-> calls, filed |-> list.filed, failed |-> list.failed]
        /\ Len(calls) = n /\ calls # <<>>
        /\ \A i \in 1 .. n :
             /\ calls[i].dir = list.calls[i].dir /\ calls[i].locks = list.calls[i].locks
             /\ calls[i].left = IF i = n THEN Top.left \ {d} ELSE list.calls[i].left
        /\ Locks(calls) = Locks(list.calls)
        /\ \A p : Takes(p, calls) = Takes(p, list.calls)
  BY <1>2, <1>4, ShownIs
<1>. DEFINE l == [calls |-> calls, filed |-> list.filed, failed |-> list.failed]
<1>6. \A r \in cmd.list : r \in Seq(STRING)
  BY Options DEF Counts
<1>7. \A r \in cmd.list : Path(r, calls)
  <2>1. ASSUME NEW r \in cmd.list PROVE Path(r, calls)
    <3>1. Path(r, list.calls)
      BY <1>2
    <3>2. \A i \in 1 .. n : calls[i].left \subseteq list.calls[i].left
      BY <1>3, <1>5
    <3>3. \A i \in 1 .. n - 1 : i \in 1 .. n /\ i + 1 \in 1 .. n
      BY <1>3
    <3>4. 1 \in 1 .. n
      BY <1>3
    <3>. HIDE DEF n
    <3>. QED  BY <1>5, <3>1, <3>2, <3>3, <3>4 DEF Path, n
  <2>. QED  BY <2>1
<1>8. \A r \in cmd.list : calls[n].dir = Top.dir /\ d \in Subdirs(Top.dir)
  BY <1>2, <1>3, <1>5 DEF Path
<1>9. ASSUME NEW r \in cmd.list, ~list.failed
      PROVE  /\ \A i \in 1 .. n : \A c \in Subdirs(calls[i].dir) : Allowed(r, c) =>
                  c \in calls[i].left \/ c \in list.filed \/ (i < n /\ calls[i + 1].dir = c)
                  \/ (i = n /\ c = d)
             /\ \A q \in list.filed : \A c \in Subdirs(q) : Allowed(r, c) => c \in list.filed
  <2>1. Owed(r, list.calls, list.filed)
    BY <1>2, <1>9
  <2>2. ASSUME NEW i \in 1 .. n, NEW c \in Subdirs(calls[i].dir), Allowed(r, c)
        PROVE  c \in calls[i].left \/ c \in list.filed \/ (i < n /\ calls[i + 1].dir = c)
               \/ (i = n /\ c = d)
    <3>1. calls[i].dir = list.calls[i].dir
      BY <1>5
    <3>2. c \in list.calls[i].left \/ c \in list.filed \/ (i < n /\ list.calls[i + 1].dir = c)
      BY <2>1, <2>2, <3>1 DEF Owed
    <3>3. CASE c \in list.calls[i].left
      BY <1>3, <1>5, <3>3
    <3>4. CASE i < n /\ list.calls[i + 1].dir = c
      <4>1. i + 1 \in 1 .. n
        BY <1>3, <3>4
      <4>. QED  BY <1>5, <3>4, <4>1
    <3>. QED  BY <3>2, <3>3, <3>4
  <2>. QED  BY <2>1, <2>2 DEF Owed
\* One that is not called is not owed.
<1>10. ASSUME list' = l, \A r \in cmd.list : ~list.failed => ~Allowed(r, d)
       PROVE  ListInv'
  <2>1. ListShape' /\ list'.calls = calls /\ list'.filed = list.filed /\ list'.failed = list.failed
    BY <1>10 DEF ListShape
  <2>2. ASSUME NEW r \in cmd.list, ~list.failed PROVE Owed(r, calls, list.filed)
    <3>1. \A i \in 1 .. n : \A c \in Subdirs(calls[i].dir) : Allowed(r, c) =>
            c \in calls[i].left \/ c \in list.filed \/ (i < n /\ calls[i + 1].dir = c)
      BY <1>9, <1>10, <2>2
    <3>2. Len(calls) = n /\ n # 0
      BY <1>3, <1>5
    <3>. HIDE DEF n
    <3>. QED  BY <1>9, <2>2, <3>1, <3>2 DEF Owed
  <2>. QED  BY <1>2, <1>7, <2>1, <2>2, SameReach DEF ListInv
<1>11. \A r \in cmd.list : Allowed(r, d) => ~Cut(d)
  BY DEF Allowed, Cut
<1>12. \A q : Opens(q, calls) <=> Opens(q, list.calls)
  BY <1>5 DEF Opens
<1>13. CASE Cut(d) /\ list' = Shown(Top.left \ {d})
  BY <1>5, <1>10, <1>11, <1>13
<1>14. ASSUME NEW p \in SubPath(d), ListCall(p, l) PROVE ListInv'
  <2>1. \A r \in cmd.list : Allowed(r, d) => p = d
    BY <1>11, <1>14 DEF SubPath
  <2>2. CASE list' = [l EXCEPT !.failed = TRUE]
    <3>1. list' = [calls |-> calls, filed |-> list.filed, failed |-> TRUE]
      BY <2>2
    <3>2. ListShape' /\ list'.calls = calls /\ list'.failed
      BY <3>1 DEF ListShape
    <3>. QED  BY <1>2, <1>7, <3>2, SameReach DEF ListInv
  <2>3. CASE ~Opens(p, calls) /\ list' = l
    <3>1. ASSUME NEW r \in cmd.list, Allowed(r, d) PROVE FALSE
      <4>1. d \in Subdirs(list.calls[n].dir) /\ r \in Seq(STRING) /\ list.calls \in Seq(CallRec)
        BY <1>2, <1>3, <1>6, <1>8 DEF ListShape
      <4>2. Opens(d, list.calls)
        BY <1>2, <3>1, <4>1, NextOpens
      <4>. QED  BY <1>12, <2>1, <2>3, <3>1, <4>2
    <3>. QED  BY <1>10, <2>3, <3>1
  <2>4. CASE Opens(p, calls) /\ list' = [l EXCEPT !.calls = Append(@, Call(p, calls))]
    <3>. DEFINE new == Append(calls, Call(p, calls))
    <3>1. p \in Seq(STRING)
      <4>1. p \in volume.dirs \/ p = <<>>
        BY <2>4 DEF Opens
      <4>2. <<>> \in Seq(STRING)
        OBVIOUS
      <4>. QED  BY <4>1, <4>2 DEF DirsTree
    <3>2. Call(p, calls) \in CallRec /\ Call(p, calls).dir = p /\ Call(p, calls).left = Subdirs(p)
      BY <3>1, Called
    <3>3. new \in Seq(CallRec) /\ Len(new) = n + 1 /\ new[n + 1] = Call(p, calls)
          /\ \A i \in 1 .. n : new[i] = calls[i]
      BY <1>3, <1>5, <3>2, AppendProperties
    <3>4. list' = [calls |-> new, filed |-> list.filed, failed |-> list.failed]
      BY <2>4
    <3>. HIDE DEF new
    <3>5. ListShape' /\ list'.calls = new /\ list'.filed = list.filed /\ list'.failed = list.failed
      BY <3>3, <3>4 DEF ListShape
    <3>6. ASSUME NEW r \in cmd.list PROVE Path(r, new)
      <4>1. d \in Subdirs(calls[n].dir) /\ Front(d) = calls[n].dir
        BY <1>8, <3>6, Below
      <4>2. p = calls[n].dir \/ p \in Subdirs(calls[n].dir)
        BY <1>14, <4>1 DEF SubPath
      <4>. QED  BY <1>5, <1>6, <1>7, <2>4, <4>2, PathGrows DEF new
    <3>7. ASSUME NEW r \in cmd.list, ~list.failed PROVE Owed(r, new, list.filed)
      <4>1. ASSUME NEW i \in 1 .. n + 1, NEW c \in Subdirs(new[i].dir), Allowed(r, c)
            PROVE  c \in new[i].left \/ c \in list.filed \/ (i < n + 1 /\ new[i + 1].dir = c)
        <5>1. CASE i = n + 1
          BY <3>2, <3>3, <5>1
        <5>2. CASE i \in 1 .. n
          <6>1. new[i] = calls[i] /\ (i < n => i + 1 \in 1 .. n) /\ i < n + 1
            BY <1>3, <3>3, <5>2
          <6>2. c \in calls[i].left \/ c \in list.filed \/ (i < n /\ calls[i + 1].dir = c)
                \/ (i = n /\ c = d)
            BY <1>9, <3>7, <4>1, <5>2, <6>1
          <6>3. i = n /\ c = d => new[i + 1].dir = c
            BY <2>1, <3>2, <3>3, <4>1
          <6>. QED  BY <3>3, <6>1, <6>2, <6>3
        <5>3. i \in 1 .. n \/ i = n + 1
          BY <1>3
        <5>. QED  BY <5>1, <5>2, <5>3
      <4>2. n + 1 # 0
        BY <1>3
      <4>. HIDE DEF n
      <4>. QED  BY <1>9, <3>3, <3>7, <4>1, <4>2 DEF Owed
    <3>. QED  BY <1>2, <3>5, <3>6, <3>7, SameReach DEF ListInv
  <2>. QED  BY <1>14, <2>2, <2>3, <2>4 DEF ListCall
<1>. QED  BY <1>1, <1>5, <1>13, <1>14

\* The rest of a directory is not shown.
LEMMA ListCuts ==
    ASSUME type \in Types, DirsTree, ListInv, ListCut
    PROVE  ListInv'
<1>. DEFINE n == Len(list.calls)
<1>1. /\ ListShape /\ list.calls # <<>> /\ UNCHANGED <<volume, type, file, cmd>>
      /\ \A r \in cmd.list : Path(r, list.calls)
      /\ list' = [Shown({}) EXCEPT !.failed = TRUE]
  BY DEF ListCut, Listing, ListInv
<1>2. PICK calls \in Seq(CallRec) :
        /\ Shown({}) = [calls |-> calls, filed |-> list.filed, failed |-> list.failed]
        /\ Len(calls) = n /\ calls # <<>>
        /\ \A i \in 1 .. n :
             /\ calls[i].dir = list.calls[i].dir /\ calls[i].locks = list.calls[i].locks
             /\ calls[i].left = IF i = n THEN {} ELSE list.calls[i].left
  BY <1>1, ShownIs
<1>3. list' = [calls |-> calls, filed |-> list.filed, failed |-> TRUE]
  <2>1. list' = [[calls |-> calls, filed |-> list.filed, failed |-> list.failed]
                   EXCEPT !.failed = TRUE]
    BY <1>1, <1>2, Zenon
  <2>. QED  BY <2>1
<1>4. ListShape' /\ list'.calls = calls /\ list'.failed
  BY <1>3 DEF ListShape
<1>5. ASSUME NEW r \in cmd.list PROVE Path(r, calls)
  <2>1. n \in Nat \ {0}
    BY <1>1 DEF ListShape
  <2>2. \A i \in 1 .. n : calls[i].left \subseteq list.calls[i].left
    BY <1>2
  <2>3. \A i \in 1 .. n - 1 : i \in 1 .. n /\ i + 1 \in 1 .. n
    BY <2>1
  <2>4. 1 \in 1 .. n
    BY <2>1
  <2>. HIDE DEF n
  <2>. QED  BY <1>1, <1>2, <2>2, <2>3, <2>4 DEF Path, n
<1>. QED  BY <1>1, <1>4, <1>5, SameReach DEF ListInv

\* A directory is closed, and its files are listed.
LEMMA ListBacks ==
    ASSUME type \in Types, DirsTree, Counts, ListInv, ListBack
    PROVE  ListInv'
<1>. DEFINE n == Len(list.calls)
            calls == Front(list.calls)
            q == Top.dir
<1>1. /\ ListShape /\ list.calls # <<>> /\ UNCHANGED <<volume, type, file, cmd>>
      /\ \A r \in cmd.list : Path(r, list.calls)
      /\ ~list.failed => \A r \in cmd.list : Owed(r, list.calls, list.filed)
      /\ Top.left = {}
  BY DEF ListBack, Listing, ListInv
<1>2. /\ n \in Nat \ {0} /\ Top = list.calls[n] /\ Top \in CallRec /\ n \in 1 .. n
      /\ list.calls \in Seq(CallRec)
  BY <1>1 DEF ListShape, Top, Last
<1>3. /\ calls \in Seq(CallRec) /\ n = Len(calls) + 1
      /\ \A i \in 1 .. n - 1 : calls[i] = list.calls[i]
  BY <1>1, <1>2, FrontLen
<1>4. \/ list' = [calls |-> calls, filed |-> list.filed, failed |-> TRUE]
      \/ /\ ~Opens(q, calls)
         /\ list' = [calls |-> calls, filed |-> list.filed, failed |-> list.failed]
      \/ /\ Opens(q, calls)
         /\ list' = [calls |-> calls, filed |-> list.filed \cup {q}, failed |-> list.failed]
  <2>1. CASE list' = [list EXCEPT !.calls = calls, !.failed = TRUE]
    <3>. HIDE DEF calls
    <3>. QED  BY <1>1, <2>1 DEF ListShape
  <2>2. CASE /\ Opens(q, calls)
             /\ list' = [list EXCEPT !.calls = calls, !.filed = @ \cup {q}]
    <3>. HIDE DEF calls, q
    <3>. QED  BY <1>1, <2>2 DEF ListShape
  <2>3. CASE ~Opens(q, calls) /\ list' = [list EXCEPT !.calls = calls]
    <3>. HIDE DEF calls, q
    <3>. QED  BY <1>1, <2>3 DEF ListShape
  <2>. QED  BY <2>1, <2>2, <2>3 DEF ListBack, CloseDir
<1>. HIDE DEF calls
<1>5. ListShape' /\ list'.calls = calls
  BY <1>3, <1>4 DEF ListShape
<1>6. \A r \in cmd.list : r \in Seq(STRING)
  BY Options DEF Counts
<1>7. Len(calls) \in Nat /\ Len(calls) = n - 1
  BY <1>2, <1>3
<1>8. ASSUME NEW r \in cmd.list PROVE Path(r, calls)
  <2>1. Path(r, list.calls)
    BY <1>1
  <2>2. \A i \in 1 .. n - 1 : i \in 1 .. n
    BY <1>2
  <2>3. \A i \in 1 .. (n - 1) - 1 : i \in 1 .. n - 1 /\ i + 1 \in 1 .. n - 1
    BY <1>2
  <2>4. n - 1 >= 1 => 1 \in 1 .. n - 1 /\ n >= 1
    BY <1>2
  <2>. HIDE DEF n
  <2>. QED  BY <1>3, <1>7, <2>1, <2>2, <2>3, <2>4 DEF Path, n
\* When no more than this fails, the files are listed.
<1>9. ASSUME NEW r \in cmd.list, ~list.failed, n = 1 => Begins(r),
             n = 1 \/ list.calls[n - 1].dir = q \/ Allowed(r, q)
      PROVE  Opens(q, calls)
  <2>1. CASE n = 1
    <3>1. calls = <<>>
      <4>1. Len(calls) = 0
        <5>. HIDE DEF n
        <5>. QED  BY <1>7, <2>1
      <4>. QED  BY <1>3, <4>1
    <3>2. q = r
      BY <1>1, <1>2, <2>1 DEF Path
    <3>. QED  BY <1>6, <1>9, <2>1, <3>1, <3>2, FirstOpens
  <2>2. CASE n # 1
    <3>1. n - 1 \in 1 .. n - 1 /\ Len(calls) # 0 /\ n - 1 \in 1 .. n /\ (n - 1) + 1 = n
      <4>1. n \in Nat \ {0, 1}
        BY <1>2, <2>2
      <4>. HIDE DEF n
      <4>. QED  BY <1>7, <4>1
    <3>2. calls # <<>> /\ calls[Len(calls)] = list.calls[n - 1]
      BY <1>3, <1>7, <3>1
    <3>3. q = list.calls[n - 1].dir \/ q \in Subdirs(list.calls[n - 1].dir)
      BY <1>1, <1>2, <3>1 DEF Path
    <3>4. CASE q = list.calls[n - 1].dir
      <4>1. q \in volume.dirs \cup {<<>>}
        BY <1>1, <1>2 DEF Path
      <4>2. Takes(q, calls) = 0
        <5>1. n - 1 \in DOMAIN calls /\ calls[n - 1].dir = q
          BY <1>3, <3>1, <3>4, <1>7
        <5>. QED  BY <5>1 DEF Takes
      <4>. QED  BY <4>1, <4>2 DEF Opens
    <3>5. CASE q \in Subdirs(list.calls[n - 1].dir) /\ Allowed(r, q)
      BY <1>3, <1>6, <1>8, <3>2, <3>5, NextOpens
    <3>. QED  BY <1>9, <2>2, <3>3, <3>4, <3>5
  <2>. QED  BY <2>1, <2>2
<1>10. ASSUME NEW r \in cmd.list, ~list'.failed PROVE Owed(r, calls, list'.filed)
  <2>1. /\ ~list.failed
        /\ \/ ~Opens(q, calls) /\ list'.filed = list.filed
           \/ Opens(q, calls) /\ list'.filed = list.filed \cup {q}
    BY <1>4, <1>10
  <2>2. Owed(r, list.calls, list.filed)
    BY <1>1, <2>1
  \* What is below it has been listed.
  <2>3. \A c \in Subdirs(q) : Allowed(r, c) => c \in list.filed
    BY <1>1, <1>2, <2>2 DEF Owed
  <2>4. ASSUME NEW i \in 1 .. Len(calls), NEW c \in Subdirs(calls[i].dir), Allowed(r, c)
        PROVE  c \in calls[i].left \/ c \in list'.filed
               \/ (i < Len(calls) /\ calls[i + 1].dir = c)
    <3>1. i \in 1 .. n - 1 /\ i \in 1 .. n /\ i < n /\ calls[i] = list.calls[i]
          /\ (i < n - 1 => i + 1 \in 1 .. n - 1)
      BY <1>2, <1>3, <1>7
    <3>2. c \in list.calls[i].left \/ c \in list.filed \/ list.calls[i + 1].dir = c
      BY <2>2, <2>4, <3>1 DEF Owed
    <3>3. CASE list.calls[i + 1].dir = c
      <4>1. CASE i < n - 1
        BY <1>3, <1>7, <3>1, <3>3, <4>1
      <4>2. CASE i = n - 1
        <5>1. i + 1 = n /\ n # 1
          BY <1>2, <3>1, <4>2
        <5>2. c = q
          BY <1>2, <3>3, <5>1
        <5>3. Opens(q, calls)
          BY <1>9, <2>1, <2>4, <5>1, <5>2
        <5>. QED  BY <2>1, <5>2, <5>3
      <4>. QED  BY <1>2, <3>1, <4>1, <4>2
    <3>. QED  BY <2>1, <3>1, <3>2, <3>3
  <2>5. ASSUME NEW p \in list'.filed, NEW c \in Subdirs(p), Allowed(r, c) PROVE c \in list'.filed
    BY <2>1, <2>2, <2>3, <2>5 DEF Owed
  <2>6. ASSUME Len(calls) = 0, Begins(r) PROVE r \in list'.filed
    <3>1. n = 1 /\ q = r
      BY <1>1, <1>2, <1>7, <2>6 DEF Path
    <3>. QED  BY <1>9, <2>1, <2>6, <3>1
  <2>. QED  BY <2>4, <2>5, <2>6 DEF Owed
<1>. QED  BY <1>1, <1>5, <1>8, <1>10, SameReach DEF ListInv

\* The end of a listing finds all listed.
LEMMA ListEnds ==
    ASSUME type \in Types, DirsTree, Counts, ListInv, ListEnd, ~list.failed
    PROVE  \A r \in cmd.list : Promised(r) \subseteq list.filed
<1>1. ASSUME NEW r \in cmd.list, NEW p \in Promised(r), p \notin list.filed PROVE FALSE
  <2>. DEFINE Missing == {q \in Promised(r) : q \notin list.filed}
              Lens == {Len(q) : q \in Missing}
  <2>1. r \in Seq(STRING)
    BY Options DEF Counts
  <2>2. Owed(r, <<>>, list.filed)
    BY DEF ListEnd, ListInv
  <2>3. \A q \in volume.dirs \cup {<<>>} : q \in Seq(STRING)
    <3>1. <<>> \in Seq(STRING)
      OBVIOUS
    <3>. QED  BY <3>1 DEF DirsTree
  <2>4. \A q \in Promised(r) : q \in Seq(STRING) /\ q \in volume.dirs \cup {<<>>}
    BY <2>3 DEF Promised
  <2>5. Lens # {} /\ Lens \subseteq Nat
    <3>1. p \in Missing
      BY <1>1
    <3>2. \A q \in Missing : Len(q) \in Nat
      BY <2>4
    <3>. QED  BY <3>1, <3>2
  <2>6. PICK x \in Lens : \A y \in Lens : ~(y < x)
    BY <2>5, LeastOne
  <2>7. PICK q \in Missing : Len(q) = x
    BY <2>6
  <2>8. /\ q \in Seq(STRING) /\ q \in volume.dirs \cup {<<>>} /\ IsPrefix(r, q)
        /\ type = "fat" =>
             /\ Depth(r, q) + Leaked <= LockCount
             /\ \A k \in Len(r) + 1 .. Len(q) : SubSeq(q, 1, k) \notin Long
    BY <2>3 DEF Promised
  <2>9. Len(r) <= Len(q) /\ \A i \in 1 .. Len(r) : r[i] = q[i]
    BY <2>1, <2>8 DEF IsPrefix
  <2>10. CASE Len(q) = Len(r)
    <3>1. q = r
      BY <2>1, <2>8, <2>9, <2>10
    <3>2. Begins(r)
      BY <2>8, <3>1 DEF Begins
    <3>3. Len(<<>>) = 0
      OBVIOUS
    <3>. QED  BY <2>2, <3>1, <3>2, <3>3 DEF Owed
  <2>11. CASE Len(q) # Len(r)
    <3>1. Len(q) \in Nat /\ Len(r) \in Nat /\ Len(q) > Len(r) /\ q # <<>>
      BY <2>1, <2>8, <2>9, <2>11
    <3>2. /\ Front(q) \in Seq(STRING) /\ Len(q) = Len(Front(q)) + 1 /\ Len(Front(q)) < Len(q)
          /\ \A i \in 1 .. Len(q) - 1 : Front(q)[i] = q[i]
      BY <2>8, <3>1, FrontLen
    <3>3. q \in volume.dirs /\ Front(q) \in volume.dirs \cup {<<>>}
      BY <2>8, <3>1 DEF DirsTree
    <3>4. Allowed(r, q)
      <4>1. SubSeq(q, 1, Len(q)) = q
        BY <2>8
      <4>2. Len(q) \in Len(r) + 1 .. Len(q)
        BY <3>1
      <4>. QED  BY <2>8, <4>1, <4>2 DEF Allowed
    <3>5. IsPrefix(r, Front(q))
      <4>1. Len(r) <= Len(Front(q))
        BY <3>1, <3>2
      <4>2. \A i \in 1 .. Len(r) : r[i] = Front(q)[i]
        BY <2>9, <3>1, <3>2
      <4>. QED  BY <2>1, <3>2, <4>1, <4>2 DEF IsPrefix
    <3>6. Front(q) \in Promised(r)
      <4>1. ASSUME type = "fat" PROVE Depth(r, Front(q)) + Leaked <= LockCount
        <5>1. Depth(r, Front(q)) \in Int /\ Depth(r, q) = Depth(r, Front(q)) + 1
          BY <2>1, <2>8, <3>2, DepthOf
        <5>. QED  BY <2>8, <4>1, <5>1, Limits
      <4>2. ASSUME type = "fat", NEW k \in Len(r) + 1 .. Len(Front(q))
            PROVE  SubSeq(Front(q), 1, k) \notin Long
        <5>1. k \in Nat /\ k <= Len(q) - 1 /\ k \in Len(r) + 1 .. Len(q)
          BY <3>1, <3>2
        <5>2. SubSeq(Front(q), 1, k) = SubSeq(q, 1, k)
          BY <2>8, <3>2, <5>1
        <5>. QED  BY <2>8, <4>2, <5>1, <5>2
      <4>. QED  BY <3>3, <3>5, <4>1, <4>2 DEF Promised
    <3>7. Front(q) \in list.filed
      BY <2>6, <2>7, <3>2, <3>6
    <3>8. q \in Subdirs(Front(q))
      BY <3>2, <3>3 DEF Subdirs
    <3>. QED  BY <2>2, <3>4, <3>7, <3>8 DEF Owed
  <2>. QED  BY <2>10, <2>11
<1>. QED  BY <1>1

\* Every step keeps ListInv, and the end of a listing finds all listed.
LEMMA StepList ==
    ASSUME AtShape, type \in Types, DirsTree, Counts, ListInv, [Next]_vars
    PROVE  /\ ListInv'
           /\ at.stage = "list" /\ at'.stage = "end" /\ ~list.failed =>
                \A r \in cmd.list : Promised(r) \subseteq list.filed
<1>1. CASE Done /\ cmd' = cmd /\ at.stage \notin {"idle", "end"} /\ (at.stage = "list" => ListEnd)
  <2>1. at'.step # "data"
    BY <1>1, DoneAt
  <2>. QED  BY <1>1, <2>1, ListEnds DEF ListInv, At
<1>2. CASE cmd' = cmd /\ at'.stage = at.stage /\ at.stage # "list"
  BY <1>2 DEF ListInv, At
<1>3. CASE at.stage = "list" /\ at'.stage = "list"
           /\ (ListOpen \/ ListNext \/ ListBack \/ ListCut)
  BY <1>3, ListOpens, ListNexts, ListBacks, ListCuts
<1>4. CASE UNCHANGED <<at, cmd, volume, type, file, list>>
  <2>1. ListShape' <=> ListShape
    BY <1>4 DEF ListShape
  <2>2. at'.stage = at.stage
    BY <1>4
  <2>. QED  BY <1>4, <2>1, <2>2, SameReach DEF ListInv, At
<1>5. CASE at'.stage \in {"idle", "init"}
  BY <1>5 DEF ListInv, At
<1>. QED  BY <1>1, <1>2, <1>3, <1>4, <1>5, Moves

\* A listing during which nothing fails that it reads shows the files of every
\* directory below the one asked for; on FAT, of every one that the locks not
\* left over and the buffer of its path have room for.
\* [test_list_all, test_list_dir, test_list_file]
THEOREM ListsReach == Spec => ListsReached
<1>. DEFINE Inv == KeepInv /\ Counts /\ DirsTree /\ MkdirNamed /\ ListInv
<1>1. Init => Inv
  <2>1. ASSUME Init PROVE DirsTree
    <3>1. PICK formatted \in BOOLEAN, t \in Trees :
            volume = [formatted |-> formatted, files |-> Nothing,
                      dirs |-> IF formatted THEN t ELSE {}]
      BY <2>1 DEF Init
    <3>2. volume.dirs = t \/ volume.dirs = {}
      BY <3>1
    <3>3. \A d \in t : d \in Seq(STRING) \ {<<>>} /\ Front(d) \in t \cup {<<>>}
      BY SessionAssumption, Zenon
    <3>. QED  BY <3>2, <3>3 DEF DirsTree
  <2>2. ASSUME Init PROVE MkdirNamed /\ ListInv
    <3>1. at = Idle
      BY <2>2 DEF Init
    <3>2. at.stage = "idle"
      BY <3>1 DEF Idle
    <3>. QED  BY <3>2 DEF MkdirNamed, ListInv, At
  <2>. QED  BY <2>1, <2>2, InitKeeps, InitCounts
<1>2. Inv /\ [Next]_vars => Inv'
  BY StepKeeps, StepCounts, StepTree, StepList DEF KeepInv, Shapes
<1>3. Inv /\ [Next]_vars
      => [at.stage = "list" /\ at'.stage = "end" /\ ~list.failed =>
            \A r \in cmd.list : Promised(r) \subseteq list.filed]_vars
  BY StepList DEF KeepInv, Shapes
<1>. HIDE DEF Inv
<1>. QED  BY <1>1, <1>2, <1>3, PTL DEF Spec, ListsReached
=============================================================================
