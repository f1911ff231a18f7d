------------------------------- MODULE Session -------------------------------
(***************************************************************************)
(* The command flow of main: one process per command line, which brings    *)
(* the file system up, formats it when it must, goes through the stages    *)
(* asked for (remove, mkdir, write, cycle, read, get, put, list) and takes *)
(* it down again; it may be killed anywhere.  The files of a volume are    *)
(* sequences of pieces, as myfs_write gets them.  What the volume keeps of *)
(* a file that is open when the process is killed is what FatVolume and    *)
(* littlefs promise: all that was there at the last sync or close.         *)
(***************************************************************************)
EXTENDS Integers, Sequences, SequencesExt

CONSTANTS
    Types,      \* the file systems: "fat", "lfs"
    Commands,   \* the command lines
    Names,      \* file names that can be opened
    Trees,      \* sets of directories a volume may begin with
    PutData,    \* the pieces of the file on the PC
    Space,      \* how many pieces a volume holds
    UintMod,    \* 2 to the width of an unsigned int
    LockCount,  \* _FS_LOCK
    Long,       \* directories whose path test_list_dir has no room for, on FAT
    StackMax    \* how many calls of test_list_dir the stack has room for

\* The pieces that files are made of: what --w writes, what is cut short, what
\* is left of a file whose sectors are lost, what --put copies.
Data == {"w", "cut", "lost"} \cup ToSet(PutData)

\* A directory is a path from the root, and lies in one that is there.
ASSUME SessionAssumption ==
    /\ Types \subseteq {"fat", "lfs"}
    /\ Commands \subseteq
         [name : STRING, rm : BOOLEAN, dir : Seq(STRING), w : BOOLEAN, wcnt : Nat, sync : Nat,
          inf : BOOLEAN, cyc : BOOLEAN, cycc : Nat, r : BOOLEAN, get : BOOLEAN,
          put : BOOLEAN, list : SUBSET Seq(STRING)]
    /\ \A c \in Commands : \A p, q \in c.list : p = q
    /\ \A t \in Trees : \A d \in t :
         d \in Seq(STRING) \ {<<>>} /\ Front(d) \in t \cup {<<>>}
    /\ PutData \in Seq(Data) /\ "none" \notin Data
    /\ Space \in Nat /\ UintMod \in Nat \ {0, 1}
    /\ LockCount \in Nat \ {0} /\ StackMax \in Nat \ {0}

VARIABLES
    type,       \* --type
    volume,     \* whether it is formatted, the files and the directories
    saved,      \* the files a process finds that comes after a kill
    cmd,        \* the options
    at,         \* the stage of main, and the step in it
    file,       \* the static myfs_file
    loop,       \* the counters of test_write and of the cycle stage
    got,        \* the file on the PC that --get writes
    list,       \* the calls of test_list_dir, what has been listed, what has failed
    before,     \* the file when the stage began
    err         \* the stages that have reported an error

vars == <<type, volume, saved, cmd, at, file, loop, got, list, before, err>>

NoFile == <<"none">>
NoCmd == [name |-> "", rm |-> FALSE, dir |-> <<>>, w |-> FALSE, wcnt |-> 1, sync |-> 0,
          inf |-> FALSE, cyc |-> FALSE, cycc |-> 0, r |-> FALSE, get |-> FALSE,
          put |-> FALSE, list |-> {}]
Idle == [stage |-> "idle", step |-> ""]
Closed == [open |-> FALSE, read |-> FALSE, leak |-> FALSE]
NoLoop == [count |-> 0, cycle |-> 0, put |-> 0]
NoList == [calls |-> <<>>, filed |-> {}, failed |-> FALSE]
Nothing == [n \in Names |-> NoFile]

Init ==
    /\ type \in Types
    /\ \E formatted \in BOOLEAN, t \in Trees :
         volume = [formatted |-> formatted, files |-> Nothing,
                   dirs |-> IF formatted THEN t ELSE {}]
    /\ saved = Nothing
    /\ cmd = NoCmd /\ at = Idle /\ file = Closed /\ loop = NoLoop
    /\ got = NoFile /\ list = NoList /\ before = NoFile /\ err = {}

-----------------------------------------------------------------------------
\* The stages.

Stages == <<"init", "rm", "mkdir", "write", "cycle", "read", "get", "put", "list", "end">>
Wanted(s) ==
    CASE s = "rm" -> cmd.rm
      [] s = "mkdir" -> cmd.dir # <<>>
      [] s = "write" -> cmd.w
      [] s = "cycle" -> cmd.cyc
      [] s = "read" -> cmd.r
      [] s = "get" -> cmd.get
      [] s = "put" -> cmd.put
      [] s = "list" -> cmd.list # {}
      [] OTHER -> TRUE
FirstStep(s) ==
    CASE s \in {"write", "get", "put", "list"} -> "open" [] s = "cycle" -> "begin" [] OTHER -> ""

File == IF cmd.name \in Names THEN volume.files[cmd.name] ELSE NoFile
Pieces(f) == IF f = NoFile THEN <<>> ELSE f
Used == LET Len0(n) == Len(Pieces(volume.files[n])) IN
        FoldLeft(LAMBDA a, n : a + Len0(n), 0, SetToSeq(Names))

\* The next stage begins.
NextStage ==
    LET i == CHOOSE j \in DOMAIN Stages : Stages[j] = at.stage
        k == CHOOSE j \in i + 1 .. Len(Stages) :
                 Wanted(Stages[j]) /\ \A m \in i + 1 .. j - 1 : ~Wanted(Stages[m])
    IN at' = [stage |-> Stages[k], step |-> FirstStep(Stages[k])]
Begin == before' = IF cmd.name \in Names THEN volume'.files[cmd.name] ELSE NoFile
Done == NextStage /\ Begin
Fails == err' = err \cup {at.stage}
Step(s) == at' = [at EXCEPT !.step = s] /\ UNCHANGED before
At(stages, step) == at.stage \in stages /\ at.step = step

\* The file becomes f, on the device too if kept.
SetFile(f, kept) ==
    /\ volume' = [volume EXCEPT !.files[cmd.name] = f]
    /\ saved' = IF kept THEN [saved EXCEPT ![cmd.name] = f] ELSE saved
SameFile == UNCHANGED <<volume, saved>>

-----------------------------------------------------------------------------
\* A process begins, and ends.

\* What littlefs makes of a file object that could not be opened is not known
\* here (its sources are not in the repository): on it files are named.
Start(c) ==
    /\ at = Idle
    /\ type = "lfs" /\ (c.w \/ c.cyc \/ c.get \/ c.put) => c.name \in Names
    /\ cmd' = c /\ at' = [stage |-> "init", step |-> "export"]
    /\ UNCHANGED <<type, volume, saved, file, loop, got, list, before, err>>

\* With the process goes all it has in memory.
Ends ==
    /\ at' = Idle /\ cmd' = NoCmd /\ file' = Closed /\ loop' = NoLoop /\ list' = NoList
    /\ before' = NoFile /\ err' = {}
    /\ UNCHANGED <<type, got>>

Format == volume' = [formatted |-> TRUE, files |-> Nothing, dirs |-> {}] /\ saved' = Nothing

\* A mutant: the volume is formatted before anything is asked of it.
MountFormats == Format

\* Only a formatted volume has free clusters to count, on FAT, where f_mount
\* does no more than register it; or can be mounted, on littlefs.
myfat_get_free_clust == volume.formatted
mylfs_mount == volume.formatted

\* What fails is formatted.
Mount ==
    IF IF type = "fat" THEN myfat_get_free_clust ELSE mylfs_mount THEN SameFile ELSE Format

\* The image is read, and written again: its file is cut to nothing first.
Export ==
    /\ At({"init"}, "export")
    /\ SameFile /\ Step("mount")
    /\ UNCHANGED <<type, cmd, file, loop, got, list, err>>

InitStage ==
    /\ At({"init"}, "mount")
    /\ Mount /\ Done
    /\ UNCHANGED <<type, cmd, file, loop, got, list, err>>

\* No memory, or no driver: main exits.
InitFails ==
    /\ at.stage = "init"
    /\ SameFile /\ Ends

\* Unmounting.
Uninit ==
    /\ at.stage = "end"
    /\ SameFile /\ Ends

\* The process is killed: a file that was being created may be there.
Survives ==
    /\ \/ saved' = saved
       \/ file.open /\ saved[cmd.name] = NoFile /\ saved' = [saved EXCEPT ![cmd.name] = <<>>]
    /\ volume' = [volume EXCEPT !.files = saved']

\* Killed while the image is written again: the file holds the beginning of it.
\* The tables are in it or not, and the sectors of a file are or are not; so
\* are the directories below the root.
Torn ==
    \E tables \in BOOLEAN, whole \in SUBSET Names, dirs \in {{}, volume.dirs} :
        /\ saved' = [n \in Names |-> IF ~tables \/ saved[n] = NoFile THEN NoFile
                                     ELSE IF n \in whole THEN saved[n] ELSE <<"lost">>]
        /\ volume' = [formatted |-> volume.formatted /\ tables, files |-> saved',
                      dirs |-> IF tables THEN dirs ELSE {}]

Kill ==
    /\ at # Idle
    /\ IF At({"init"}, "export") THEN Torn ELSE Survives
    /\ Ends

-----------------------------------------------------------------------------
\* Removing, and making a directory.

\* test_remove.  A lock that is left on the file forbids it.
RemoveFile ==
    IF File = NoFile \/ file.leak THEN SameFile /\ Fails
    ELSE SetFile(NoFile, TRUE) /\ err' = err

RemoveStage ==
    /\ at.stage = "rm" /\ RemoveFile /\ Done
    /\ UNCHANGED <<type, cmd, file, loop, got, list>>

\* It fails too when there is no room for the directory.
MkdirStage ==
    /\ at.stage = "mkdir"
    /\ \/ /\ cmd.dir \notin volume.dirs
          /\ Front(cmd.dir) \in volume.dirs \cup {<<>>}
          /\ volume' = [volume EXCEPT !.dirs = @ \cup {cmd.dir}]
          /\ err' = err
       \/ UNCHANGED volume /\ Fails
    /\ Done
    /\ UNCHANGED <<type, saved, cmd, file, loop, got, list>>

-----------------------------------------------------------------------------
\* Opening, writing and closing.

\* The file is there, and open.
Opened(read) ==
    /\ cmd.name \in Names /\ ~file.leak
    /\ file' = [open |-> TRUE, read |-> read, leak |-> FALSE]
    /\ SetFile(Pieces(File), FALSE)
    /\ err' = err

\* When FatFs has found the file, and locked it, and then cannot reach its end,
\* the lock stays.
OpenFails ==
    /\ SameFile /\ Fails
    /\ \/ file' = [Closed EXCEPT !.leak = file.leak]
       \/ Pieces(File) # <<>> /\ file' = [Closed EXCEPT !.leak = TRUE]

\* test_open with open_flag: FA_OPEN_APPEND | FA_WRITE, or the flags of
\* littlefs that read, create and append.  When it fails the object is
\* invalid, and main goes on all the same.
myfat_open == Opened(FALSE) \/ OpenFails
mylfs_open == Opened(TRUE)
OpenFile == IF type = "fat" THEN myfat_open ELSE mylfs_open

OpenStep ==
    /\ At({"write", "cycle", "put"}, "open")
    /\ OpenFile /\ Step("data")
    /\ loop' = [loop EXCEPT !.put = 1, !.count = cmd.wcnt]
    /\ UNCHANGED <<type, cmd, got, list>>

CycleBegin ==
    /\ At({"cycle"}, "begin")
    /\ loop' = [loop EXCEPT !.cycle = cmd.cycc]
    /\ Step("open") /\ SameFile
    /\ UNCHANGED <<type, cmd, file, got, list, err>>

\* myfs_write of one piece.  FatFs writes what there is room for of a piece
\* that does not fit: myfat_write reports the rest as an error.
Writes(p, kept) == file.open /\ Used < Space /\ SetFile(Append(File, p), kept)
CutShort == file.open /\ Used = Space /\ SetFile(Append(File, "cut"), FALSE)
WriteFails ==
    \/ (~file.open \/ Used >= Space) /\ SameFile
    \/ type = "fat" /\ CutShort

\* A mutant of MoreWrites: the loop goes on after a write that failed.
MoreWritesAlways(failed) == cmd.inf \/ (loop.count - 1 > 0 /\ ~failed)

\* Whether test_write goes round once more.
MoreWrites(failed) == ~failed /\ (cmd.inf \/ loop.count - 1 > 0)

Synced == cmd.sync # 0 /\ (cmd.inf \/ loop.count # 0) /\ loop.count % cmd.sync = 0

WriteStep ==
    /\ At({"write", "cycle"}, "data")
    /\ \E failed \in BOOLEAN :
         /\ IF failed THEN WriteFails ELSE Writes("w", Synced)
         /\ IF failed THEN Fails ELSE err' = err
         /\ IF MoreWrites(failed)
            THEN loop' = [loop EXCEPT !.count = IF cmd.inf THEN @ ELSE @ - 1] /\ Step("data")
            ELSE loop' = loop /\ Step("close")
    /\ UNCHANGED <<type, cmd, file, got, list>>

\* A mutant of PutNext: the result of the write is not looked at.
PutNextBlind(failed) == Step("data") /\ err' = err

\* test_copy_to_fs goes on after a write that did not fail.
PutNext(failed) ==
    /\ Step(IF failed THEN "close" ELSE "data")
    /\ IF failed THEN Fails ELSE err' = err

\* There is nothing left to read from the file on the PC.
PutEnd ==
    /\ At({"put"}, "data") /\ loop.put > Len(PutData)
    /\ SameFile /\ Step("close")
    /\ UNCHANGED <<type, cmd, file, loop, got, list, err>>

PutStep ==
    /\ At({"put"}, "data") /\ loop.put <= Len(PutData)
    /\ \E failed \in BOOLEAN :
         /\ IF failed THEN WriteFails ELSE Writes(PutData[loop.put], FALSE)
         /\ PutNext(failed)
    /\ loop' = [loop EXCEPT !.put = @ + 1]
    /\ UNCHANGED <<type, cmd, file, got, list>>

\* test_close.  The stage is over, but for the removal of the cycle stage.
CloseFile ==
    /\ file' = [Closed EXCEPT !.leak = file.leak]
    /\ IF file.open THEN SetFile(File, TRUE) /\ err' = err ELSE SameFile /\ Fails

CloseStep ==
    /\ At({"write", "put", "get", "cycle"}, "close")
    /\ CloseFile
    /\ IF at.stage = "cycle" THEN Step(IF loop.cycle # 0 THEN "remove" ELSE "next") ELSE Done
    /\ UNCHANGED <<type, cmd, loop, got, list>>

CycleRemove ==
    /\ At({"cycle"}, "remove")
    /\ RemoveFile /\ Step("next")
    /\ UNCHANGED <<type, cmd, file, loop, got, list>>

\* --cycle of an unsigned int: a count of 0 is followed by the largest.
CyclesLeft == (loop.cycle - 1) % UintMod

CycleNext ==
    /\ At({"cycle"}, "next")
    /\ loop' = [loop EXCEPT !.cycle = CyclesLeft]
    /\ SameFile
    /\ IF CyclesLeft # 0 THEN Step("open") ELSE Done
    /\ UNCHANGED <<type, cmd, file, got, list, err>>

-----------------------------------------------------------------------------
\* Reading.

\* test_show_file: flags LFS_O_RDWR | LFS_O_CREAT, of which FatFs gets the
\* low byte, read and write of a file that exists.
ReadStage ==
    /\ at.stage = "read"
    /\ IF cmd.name \in Names /\ (File # NoFile \/ type = "lfs")
       THEN SetFile(Pieces(File), TRUE) /\ err' = err
       ELSE SameFile /\ Fails
    /\ Done
    /\ UNCHANGED <<type, cmd, file, loop, got, list>>

\* The file on the PC is made empty, and the file opened as for writing.
GetOpen ==
    /\ At({"get"}, "open")
    /\ got' = <<>>
    /\ OpenFile /\ Step("data")
    /\ UNCHANGED <<type, cmd, loop, list>>

\* The file on the PC cannot be opened: --put does without, with --get main
\* returns, and leaves the volume mounted.
NoPcFile ==
    /\ SameFile
    /\ \/ /\ At({"put"}, "open") /\ Done /\ Fails
          /\ UNCHANGED <<type, cmd, file, loop, got, list>>
       \/ At({"get"}, "open") /\ Ends

\* FatFs refuses to read a file that was opened without FA_READ.
Reads == file.open /\ file.read

\* test_copy_from_fs: a read that is refused ends the loop, not the stage.
GetStep ==
    /\ At({"get"}, "data")
    /\ IF Reads THEN got' = File /\ err' = err
       ELSE got' = got /\ Fails
    /\ SameFile /\ Step("close")
    /\ UNCHANGED <<type, cmd, file, loop, list>>

-----------------------------------------------------------------------------
\* Listing: test_list_all calls test_list_dir, which stays open while it lists
\* the directories in its own, and then test_list_file.  A call of
\* test_list_dir has its directory, what it has still to show of it, and how
\* many locks were taken when it had taken its own.

Subdirs(p) == {d \in volume.dirs : Len(d) = Len(p) + 1 /\ Front(d) = p}
Leaked == IF file.leak THEN 1 ELSE 0
Locks(calls) == IF calls = <<>> THEN Leaked ELSE Last(calls).locks

\* FatFs has one lock for all who have a directory open, and none for the root.
Takes(p, calls) ==
    IF type = "fat" /\ p # <<>> /\ \A i \in DOMAIN calls : calls[i].dir # p THEN 1 ELSE 0
Opens(p, calls) ==
    p \in volume.dirs \cup {<<>>} /\ (Takes(p, calls) = 0 \/ Locks(calls) < LockCount)
Call(p, calls) == [dir |-> p, left |-> Subdirs(p), locks |-> Locks(calls) + Takes(p, calls)]

\* test_list_dir is entered for p: when it cannot be opened, or read, it is not
\* shown.
ListCall(p, l) ==
    \/ list' = IF Opens(p, l.calls) THEN [l EXCEPT !.calls = Append(@, Call(p, l.calls))] ELSE l
    \/ list' = [l EXCEPT !.failed = TRUE]

ListOpen ==
    /\ At({"list"}, "open")
    /\ \E p \in cmd.list : ListCall(p, NoList)
    /\ Step("data") /\ SameFile
    /\ UNCHANGED <<type, cmd, file, loop, got, err>>

Top == Last(list.calls)
Listing == At({"list"}, "data") /\ list.calls # <<>>
Shown(left) == LET n == Len(list.calls) IN [list EXCEPT !.calls[n].left = left]

\* What the path of d leads to: when it is cut where sub_path ends, to another
\* directory in the same one, to the same one again, or to nothing.
Cut(d) == type = "fat" /\ d \in Long
SubPath(d) == IF Cut(d) THEN {Front(d)} \cup (Subdirs(Front(d)) \ {d}) ELSE {d}

\* The next directory in it.
ListNext ==
    /\ Listing /\ Len(list.calls) < StackMax
    /\ \E d \in Top.left :
         \/ \E p \in SubPath(d) :
              /\ ListCall(p, Shown(Top.left \ {d}))
              /\ IF Opens(p, list.calls) THEN err' = err ELSE Fails
         \/ Cut(d) /\ list' = Shown(Top.left \ {d}) /\ Fails
    /\ UNCHANGED <<type, volume, saved, cmd, at, file, loop, got, before>>

\* A directory that lists itself again does so until the stack is full.
ListOverflow ==
    /\ Listing /\ Len(list.calls) = StackMax /\ Top.left # {}
    /\ Survives /\ Ends

\* readdir fails: the rest of the directory is not shown.
ListCut ==
    /\ Listing
    /\ list' = [Shown({}) EXCEPT !.failed = TRUE]
    /\ UNCHANGED <<type, volume, saved, cmd, at, file, loop, got, before, err>>

\* A mutant of CloseDir: the lock stays.
CloseDirKeeps(calls) ==
    IF Len(calls) < 2 THEN Front(calls)
    ELSE [Front(calls) EXCEPT ![Len(calls) - 1] = [@ EXCEPT !.locks = Last(calls).locks]]

CloseDir(calls) == Front(calls)

\* There is none left: the directory is closed, and its files are listed.
ListBack ==
    /\ Listing /\ Top.left = {}
    /\ \E calls \in {CloseDir(list.calls)} :
         \/ list' = IF Opens(Top.dir, calls)
                    THEN [list EXCEPT !.calls = calls, !.filed = @ \cup {Top.dir}]
                    ELSE [list EXCEPT !.calls = calls]
         \/ list' = [list EXCEPT !.calls = calls, !.failed = TRUE]
    /\ UNCHANGED <<type, volume, saved, cmd, at, file, loop, got, before, err>>

ListEnd ==
    /\ At({"list"}, "data") /\ list.calls = <<>>
    /\ SameFile /\ Done
    /\ UNCHANGED <<type, cmd, file, loop, got, list, err>>

-----------------------------------------------------------------------------
Run ==
    \/ Export \/ InitStage \/ RemoveStage \/ MkdirStage \/ ReadStage
    \/ OpenStep \/ WriteStep \/ PutStep \/ PutEnd \/ CloseStep \/ CycleBegin \/ CycleRemove \/ CycleNext
    \/ GetOpen \/ GetStep
    \/ ListOpen \/ ListNext \/ ListOverflow \/ ListBack \/ ListEnd
    \/ Uninit

Next == (\E c \in Commands : Start(c)) \/ Run \/ InitFails \/ NoPcFile \/ ListCut \/ Kill

Spec == Init /\ [][Next]_vars /\ WF_vars(Run)

-----------------------------------------------------------------------------
\* Properties

Repeated(p, n) == [i \in 1 .. n |-> p]

\* A stage that has reported no error, whatever the ones before it have, has
\* done what its option says: the text is written as often as asked, the file
\* is appended to the one that was there, and the file that was to be removed,
\* or cycled, is gone.  One that has leaves the file with all it had, and as it
\* was if main wrote to, and closed, an object that was not open.
StagesDone ==
    [][at.stage # at'.stage /\ at' # Idle =>
        IF at.stage \notin err'
        THEN CASE at.stage = "rm" -> File' = NoFile
               [] at.stage = "write" /\ ~cmd.inf ->
                    File' = Pieces(before) \o Repeated("w", IF cmd.wcnt = 0 THEN 1 ELSE cmd.wcnt)
               [] at.stage = "cycle" -> File' = NoFile
               [] at.stage = "put" -> File' = Pieces(before) \o PutData
               [] OTHER -> TRUE
        ELSE at.stage \in {"write", "put"} =>
               IF file.open THEN IsPrefix(Pieces(before), Pieces(File')) ELSE File' = before]_vars

\* A file that is on the device only grows, whatever command follows, unless
\* it is asked to be removed, or the process is killed while it writes the
\* image again.
FilesKept ==
    [][at.stage # "rm" /\ at.step # "remove" /\ ~(at.step = "export" /\ at' = Idle) =>
        \A n \in Names : saved[n] # NoFile => IsPrefix(saved[n], saved'[n])]_vars

\* The directories a listing of r promises: those below it, on FAT as far as
\* the locks that are not left over and the buffer of sub_path go.
Depth(r, p) == Len(p) - Len(r) + (IF r = <<>> THEN 0 ELSE 1)
Promised(r) ==
    {p \in volume.dirs \cup {<<>>} :
        /\ IsPrefix(r, p)
        /\ type = "fat" =>
             /\ Depth(r, p) + Leaked <= LockCount
             /\ \A k \in Len(r) + 1 .. Len(p) : SubSeq(p, 1, k) \notin Long}

\* A listing reaches all of them when nothing it reads fails.
ListsReached ==
    [][at.stage = "list" /\ at'.stage = "end" /\ ~list.failed =>
        \A r \in cmd.list : Promised(r) \subseteq list.filed]_vars

\* Every command comes to an end: an endless write when the volume is full, an
\* endless listing when the stack is.
SessionEnds == at # Idle ~> at = Idle

\* What --get has copied is what the file holds.
GetCopies ==
    [][at.stage = "get" /\ at.step = "close" /\ file.open => got = File]_vars
=============================================================================
