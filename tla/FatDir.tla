------------------------------- MODULE FatDir --------------------------------
(***************************************************************************)
(* The directory tree of a FAT12 volume: the root directory is a table of  *)
(* its own, every other one a chain of clusters that grows by one when it  *)
(* is full.  All of them are read and written through the one window of    *)
(* FatChain, and a program may list a directory while it changes it.       *)
(*                                                                         *)
(* As in FatVolume a call is computed whole on a record v, which carries a *)
(* DIR object in v.d and its FRESULT in v.res; then its sectors go to the  *)
(* disk one by one, and the program may be killed between two of them.     *)
(* Files are empty here: they are entries that never have a cluster.  The  *)
(* last cluster of the volume is the end of the flash, which the driver    *)
(* writes and cannot read: a search that comes to it ends with an error.   *)
(***************************************************************************)
EXTENDS FatChain, SequencesExt

CONSTANTS
    Names,      \* file names
    Dirs,       \* DIR objects of the program
    PerSect,    \* directory entries per sector
    MaxListed,  \* bound: how many entries a listing returns
    Plans       \* the programs that use the tree, see plan

End == "end"            \* DIR_Name[0] = 0: no entry from here on
Deleted == "deleted"    \* DDEM
Dot == "."
DotDot == ".."
Garbage == "garbage"    \* the 0xFF bytes of an erased sector

Entry(n, isdir, c) == [name |-> n, dir |-> isdir, clu |-> c]
NoEntry == Entry(End, FALSE, 0)
EmptyTable == [i \in 0 .. PerSect - 1 |-> NoEntry]
\* An erased sector has entries: attribute 0xFF is no long name and no label.
ErasedTable == [i \in 0 .. PerSect - 1 |-> Entry(Garbage, TRUE, 0)]
NewTable(c, parent) ==
    [EmptyTable EXCEPT ![0] = Entry(Dot, TRUE, c), ![1] = Entry(DotDot, TRUE, parent)]

ASSUME DirAssumption ==
    /\ PerSect \in Nat \ {0, 1}
    /\ \A p \in Plans :
         /\ \A path \in p.paths : path # <<>> /\ Range(path) \subseteq Names
         /\ p.ops \subseteq {"create", "mkdir", "unlink", "rename", "list"}
    /\ Erased = ErasedTable
    /\ {End, Deleted, Dot, DotDot, Garbage} \cap Names = {}

n_rootdir == DirSects * PerSect
Formatted ==
    [s \in fatbase .. database + NumClusters - 1 |->
       CASE s < dirbase -> BlankFat(s)
         [] s \in DirSectors -> EmptyTable
         [] OTHER -> Erased]

VARIABLES
    disk,   \* the sectors of the disk
    queue,  \* sectors the running call has still to write
    vol,    \* the FATFS object: window, free_clst, last_clst
    dirs,   \* the DIR objects, or NoDir
    call,   \* the running call
    torn,   \* a directory was growing when the program was killed
    hurt,   \* what f_rename was moving when the program was killed, see Moving
    kills,
    plan    \* the program: the calls it makes (ops), the paths it names (paths) and those it
            \* makes directories of (mkdirs), and how often it may be killed (kills):
            \* all of them bounds

vars == <<disk, queue, vol, dirs, call, torn, hurt, kills, plan>>

NoDir == [open |-> FALSE]
NoCall == [on |-> FALSE, grows |-> FALSE, moves |-> {}]
NoPos == [sclust |-> 0, clust |-> 0, sect |-> 0, dptr |-> 0]

View == [disk |-> disk, log |-> <<>>, win |-> vol.win, free |-> vol.free,
         last |-> vol.last, ret |-> 0, d |-> NoPos, res |-> "ok", grows |-> FALSE]

Result(v, r) == [v EXCEPT !.res = r]
Item(v) == v.win.buf[v.d.dptr % PerSect]
PutItem(v, e) == Poke(v, v.d.dptr % PerSect, e)

LastSect == clust2sect(n_fatent - 1)
\* move_window where it may fail: the window has been written back, and holds nothing.
ToSector(v, s) ==
    IF s = LastSect /\ s # v.win.sect
    THEN [sync_window(v) EXCEPT !.win = NoWindow, !.res = "disk_err"]
    ELSE move_window(v, s)

-----------------------------------------------------------------------------
\* Moving along a directory.

dir_sdi(v, c) ==
    LET s == IF c = 0 THEN dirbase ELSE clust2sect(c)
    IN [v EXCEPT !.d = [sclust |-> c, clust |-> c, sect |-> s, dptr |-> 0],
                 !.res = IF s = 0 THEN "int_err" ELSE "ok"]

ToCluster(v, c, ofs) ==
    [v EXCEPT !.d.clust = c, !.d.sect = clust2sect(c), !.d.dptr = ofs, !.res = "ok"]

\* The new cluster c is cleared through the window, after the FAT is written.
\* (The mutant does not clear it.)
CleanUpSkipped(v, c, ofs) == ToCluster(sync_window(v), c, ofs)
CleanUp(v, c, ofs) ==
    ToCluster(sync_window([sync_window(v) EXCEPT
                             !.win = [sect |-> clust2sect(c), buf |-> EmptyTable, dirty |-> TRUE],
                             !.grows = TRUE]), c, ofs)

Stretched(v, ofs) ==
    CASE v.ret = 0 -> Result(v, "denied")
      [] v.ret = 1 -> Result(v, "int_err")
      [] OTHER -> CleanUp(v, v.ret, ofs)

EndOfTable(v) == [v EXCEPT !.d.sect = 0, !.res = "no_file"]

NextCluster(v, ofs, stretch) ==
    CASE v.ret <= 1 -> Result(v, "int_err")
      [] v.ret < n_fatent -> ToCluster(v, v.ret, ofs)
      [] stretch -> Stretched(create_chain(v, v.d.clust), ofs)
      [] OTHER -> EndOfTable(v)

dir_next(v, stretch) ==
    LET ofs == v.d.dptr + 1
        next == [v EXCEPT !.d.sect = @ + 1]
    IN CASE v.d.sect = 0 -> Result(v, "no_file")
         [] ofs % PerSect # 0 -> [v EXCEPT !.d.dptr = ofs, !.res = "ok"]
         [] v.d.clust # 0 -> NextCluster(get_fat(next, v.d.clust), ofs, stretch)
         [] ofs >= n_rootdir -> EndOfTable(v)
         [] OTHER -> [next EXCEPT !.d.dptr = ofs, !.res = "ok"]

\* The loop of dir_find, at an entry that is in the window.
RECURSIVE FindLoop(_, _), FindAt(_, _)
FindLoop(v, n) == IF v.res # "ok" THEN v ELSE FindAt(ToSector(v, v.d.sect), n)
FindAt(v, n) ==
    CASE v.res # "ok" -> v
      [] Item(v).name = End -> Result(v, "no_file")
      [] Item(v).name = n -> v
      [] OTHER -> FindLoop(dir_next(v, FALSE), n)
dir_find(v, c, n) == FindLoop(dir_sdi(v, c), n)

RECURSIVE AllocLoop(_), AllocAt(_)
AllocLoop(v) == IF v.res # "ok" THEN v ELSE AllocAt(ToSector(v, v.d.sect))
AllocAt(v) ==
    IF v.res # "ok" \/ Item(v).name \in {End, Deleted} THEN v ELSE AllocLoop(dir_next(v, TRUE))
Denied(v) == IF v.res = "no_file" THEN Result(v, "denied") ELSE v
dir_alloc(v, c) == Denied(AllocLoop(dir_sdi(v, c)))

SetEntry(v, n) == IF v.res # "ok" THEN v ELSE PutItem(v, Entry(n, FALSE, 0))
dir_register(v, c, n) == SetEntry(dir_alloc(v, c), n)

Marked(v, n) == IF v.res = "ok" THEN PutItem(v, [Item(v) EXCEPT !.name = n]) ELSE v
\* A mutant of dir_remove marks the entry as the end of the table.
dir_removeEnds(v, d) == Marked(ToSector([v EXCEPT !.d = d], d.sect), End)

\* Remove the entry the DIR object d is at.
dir_remove(v, d) == Marked(ToSector([v EXCEPT !.d = d], d.sect), Deleted)

\* The next entry that is a file or a directory; dots are not listed.
Stop(v) == IF v.res = "ok" THEN v ELSE [v EXCEPT !.d.sect = 0]
RECURSIVE ReadLoop(_), ReadAt(_)
ReadLoop(v) ==
    CASE v.d.sect = 0 -> Result(v, "no_file")
      [] v.res # "ok" -> v
      [] OTHER -> ReadAt(ToSector(v, v.d.sect))
ReadAt(v) ==
    CASE v.res # "ok" -> v
      [] Item(v).name = End -> Result(v, "no_file")
      [] Item(v).name \notin {Deleted, Dot, DotDot} -> v
      [] OTHER -> ReadLoop(dir_next(v, FALSE))
dir_read(v) == Stop(ReadLoop(Result(v, "ok")))

-----------------------------------------------------------------------------
\* The calls.

\* follow_path: a path is a sequence of names.
RECURSIVE Into(_, _)
Into(v, path) ==
    CASE Len(path) = 1 -> v
      [] v.res = "no_file" -> Result(v, "no_path")
      [] v.res # "ok" -> v
      [] ~Item(v).dir -> Result(v, "no_path")
      [] OTHER -> Into(dir_find(v, Item(v).clu, path[2]), Tail(path))
follow_path(v, path) == Into(dir_find(v, 0, path[1]), path)

\* f_open with FA_CREATE_NEW, and f_close: an empty file.
Create(v, n) ==
    CASE v.res = "no_file" -> dir_register(v, v.d.sclust, n)
      [] v.res = "ok" -> Result(v, "exist")
      [] OTHER -> v
Synced(v) == IF v.res = "ok" THEN sync_fs(v) ELSE v
f_create(v, path) == Synced(Create(follow_path(v, path), Last(path)))

\* The table of the new directory is written through the window, which is
\* then cleared, although it still claims to hold that sector.
InitTable(v, c, parent) ==
    [sync_window([sync_window(v) EXCEPT
                    !.win = [sect |-> clust2sect(c), buf |-> NewTable(c, parent), dirty |-> TRUE]])
       EXCEPT !.win.buf = EmptyTable]

\* A mutant of Enter: the cluster is kept.
EnterKeeps(v, n, c) == IF v.res = "ok" THEN sync_fs(PutItem(v, Entry(n, TRUE, c))) ELSE v

\* The entry of the new directory c; without room for it c is given back.
Enter(v, n, c) ==
    IF v.res = "ok" THEN sync_fs(PutItem(v, Entry(n, TRUE, c)))
    ELSE [remove_chain(v, c, 0) EXCEPT !.res = v.res]

MakeDir(v, n, parent) ==
    CASE v.ret = 0 -> Result(v, "denied")
      [] v.ret = 1 -> Result(v, "int_err")
      [] OTHER -> Enter(dir_register(InitTable(v, v.ret, parent), parent, n), n, v.ret)
NewDir(v, n) ==
    CASE v.res = "ok" -> Result(v, "exist")
      [] v.res = "no_file" -> MakeDir(create_chain(v, 0), n, v.d.sclust)
      [] OTHER -> v
f_mkdir(v, path) == NewDir(follow_path(v, path), Last(path))

\* chk_lock compares the place of the entry with the keys of the lock table;
\* f_opendir has locked a directory under the place of its first entry.
Locks == {dirs[h].lock : h \in {k \in Dirs : dirs[k].open}}
Locked(v) == <<v.d.sclust, v.d.dptr>> \in Locks

\* The entry at d goes, then the chain c.  (The mutant: the other way round.)
Checked(v) == IF v.ret = 0 THEN v ELSE Result(v, "int_err")
FreeChain(v, c) == IF v.res = "ok" /\ c # 0 THEN Checked(remove_chain(v, c, 0)) ELSE v
Gone(v, d) == IF v.res = "ok" THEN dir_remove(v, d) ELSE v
RemoveEntryLast(v, d, c) == Synced(Gone(FreeChain(v, c), d))
RemoveEntry(v, d, c) == Synced(FreeChain(Gone(v, d), c))

\* A directory must be empty.
IfEmpty(v) ==
    CASE v.res = "ok" -> Result(v, "denied")
      [] v.res = "no_file" -> Result(v, "ok")
      [] OTHER -> v
Emptied(v, c) == IF v.res = "ok" THEN IfEmpty(dir_read(v)) ELSE v
Unlinked(v) ==
    CASE v.res # "ok" -> v
      [] Locked(v) -> Result(v, "locked")
      [] Item(v).dir -> RemoveEntry(Emptied(dir_sdi(v, Item(v).clu), Item(v).clu), v.d, Item(v).clu)
      [] OTHER -> RemoveEntry(v, v.d, Item(v).clu)
f_unlink(v, path) == Unlinked(follow_path(v, path))

\* The .. entry of a directory that has another parent now.
SetParent(v, parent) ==
    IF v.res = "ok" /\ v.win.buf[1].name = DotDot
    THEN Poke(v, 1, [v.win.buf[1] EXCEPT !.clu = parent]) ELSE v
UpdateParent(v, info, d) ==
    CASE ~info.dir \/ d.sclust = v.d.sclust -> v
      [] clust2sect(info.clu) = 0 -> Result(v, "int_err")
      [] OTHER -> SetParent(ToSector(v, clust2sect(info.clu)), v.d.sclust)

\* The entry info, once at d, is registered at its new place and removed; it
\* stays at both when its .. entry cannot be changed.
Relinked(v, info, d) ==
    IF v.res = "ok" THEN Synced(Gone(UpdateParent(PutItem(v, info), info, d), d)) ELSE v
\* (The mutant does not ask whether the new name is taken.)
IfNewAlways(v, info, d) ==
    IF v.res \in {"ok", "no_file"} THEN Relinked(dir_register(v, v.d.sclust, info.name), info, d)
    ELSE v
IfNew(v, info, d) ==
    CASE v.res = "ok" /\ <<v.d.sclust, v.d.dptr>> # <<d.sclust, d.dptr>> -> Result(v, "exist")
      [] v.res \in {"ok", "no_file"} -> Relinked(dir_register(v, v.d.sclust, info.name), info, d)
      [] OTHER -> v
Renamed(v, path) ==
    CASE v.res # "ok" -> v
      [] Locked(v) -> Result(v, "locked")
      [] OTHER -> IfNew(follow_path(v, path), [Item(v) EXCEPT !.name = Last(path)], v.d)
f_rename(v, old, new) == Renamed(follow_path(v, old), new)

Opened(v) ==
    CASE v.res # "ok" -> v
      [] Item(v).dir -> dir_sdi(v, Item(v).clu)
      [] OTHER -> Result(v, "no_path")
f_opendir(v, path) ==
    IF path = <<>> THEN dir_sdi(v, 0) ELSE Opened(follow_path(v, path))

\* The place of one entry, in v.ret, or -1 (at the end, where v.res is "no_file",
\* or for an error); and on to the next.
Passed(v, at) == [v EXCEPT !.ret = IF v.res \in {"ok", "no_file"} THEN at ELSE -1]
Given(v) ==
    IF v.res = "ok" THEN Passed(dir_next(v, FALSE), v.d.dptr) ELSE [v EXCEPT !.ret = -1]
f_readdir(v, d) == Given(dir_read([v EXCEPT !.d = d]))

-----------------------------------------------------------------------------
\* The tree that a disk d holds.

\* The entry at place j of the table that starts at cluster c, 0 for the root.
SectAt(d, c, k) ==
    IF c # 0 THEN clust2sect(NthCluster(d, c, k)) ELSE IF k < DirSects THEN dirbase + k ELSE 0
ItemAt(d, c, j) ==
    LET s == SectAt(d, c, j \div PerSect) IN IF s = 0 THEN NoEntry ELSE d[s][j % PerSect]
Places == 0 .. (DirSects + NumClusters) * PerSect - 1

Used(d, c) == {j \in Places : ItemAt(d, c, j).name \in Names}
Behind(d, c, j) == \E i \in 0 .. j : ItemAt(d, c, i).name = End
Subdirs(d, c) == {ItemAt(d, c, j).clu : j \in {i \in Used(d, c) : ItemAt(d, c, i).dir}}

\* The directories, by their first clusters: those of S and all below them.
Below(d, S) ==
    LET reach[X \in SUBSET (Clusters \cup {0})] ==
          LET Y == X \cup UNION {Subdirs(d, c) : c \in X}
          IN IF Y = X THEN X ELSE reach[Y]
    IN reach[S]
\* The tree; and the directories that f_rename has moved into themselves.
Tree(d) == Below(d, {0})
Adrift(d) == {c \in Clusters : c \in Below(d, Subdirs(d, c))}

Seen == Overlaid(disk, vol.win)

-----------------------------------------------------------------------------
Init ==
    /\ disk = Formatted
    /\ queue = <<>>
    /\ vol = Mounted
    /\ dirs = [h \in Dirs |-> NoDir]
    /\ call = NoCall
    /\ torn = FALSE
    /\ hurt = {}
    /\ kills = 0
    /\ plan \in Plans

Idle == call = NoCall

\* The open DIR objects, once the disk is d: which entries that were there
\* when the listing began have stayed in their place.
Watched(d) ==
    [h \in Dirs |->
       IF dirs[h].open THEN [dirs[h] EXCEPT !.stays = @ \cap Used(d, dirs[h].d.sclust)]
       ELSE NoDir]

\* The call that computed v, and moves what is in ms.  When it removes a
\* directory that another entry still leads to, nothing is safe from that one.
Run(v, ms) ==
    LET freed == {c \in Clusters : FatOn(Seen, c) # 0 /\ FatOn(Overlaid(v.disk, v.win), c) = 0}
    IN /\ call' = [on |-> TRUE, grows |-> v.grows, moves |-> ms]
       /\ queue' = v.log
       /\ vol' = [win |-> v.win, free |-> v.free, last |-> v.last]
       /\ hurt' = IF hurt \cap freed # {} THEN Names \cup Clusters ELSE hurt
       /\ UNCHANGED <<disk, torn, kills, plan>>

\* What f_rename has in two places for a moment: a directory, and the name of an
\* entry that is renamed onto itself.
Moving(old, new) ==
    LET o == follow_path(View, old)
        n == follow_path(View, new)
    IN IF o.res # "ok" THEN {}
       ELSE (IF Item(o).dir THEN {Item(o).clu} ELSE {})
            \cup (IF n.res = "ok" /\ n.d = o.d THEN {Last(new)} ELSE {})

Change(op, v, ms) ==
    /\ Idle /\ op \in plan.ops
    /\ Run(v, ms)
    /\ dirs' = Watched(Overlaid(v.disk, v.win))

CreateFile(path) == Change("create", f_create(View, path), {})
MakeDirectory(path) == path \in plan.mkdirs /\ Change("mkdir", f_mkdir(View, path), {})
Unlink(path) == Change("unlink", f_unlink(View, path), {})
Rename(old, new) == Change("rename", f_rename(View, old, new), Moving(old, new))

OpenDir(h, path) ==
    /\ Idle /\ "list" \in plan.ops /\ ~dirs[h].open
    /\ \E v \in {f_opendir(View, path)} :
         /\ Run(v, {})
         /\ dirs' = [dirs EXCEPT ![h] =
                       IF v.res # "ok" THEN NoDir
                       ELSE [open |-> TRUE, d |-> v.d, lock |-> <<v.d.sclust, 0>>, got |-> {},
                             stays |-> Used(Seen, v.d.sclust), done |-> FALSE, failed |-> FALSE]]

ReadDir(h) ==
    /\ Idle /\ dirs[h].open /\ ~dirs[h].done /\ Cardinality(dirs[h].got) < MaxListed
    /\ \E v \in {f_readdir(View, dirs[h].d)} :
         /\ Run(v, {})
         /\ dirs' = [dirs EXCEPT ![h].d = v.d,
                                 ![h].done = v.ret = -1 /\ v.res = "no_file",
                                 ![h].failed = @ \/ (v.ret = -1 /\ v.res # "no_file"),
                                 ![h].got = IF v.ret = -1 THEN @ ELSE @ \cup {v.ret}]

CloseDir(h) ==
    /\ Idle /\ dirs[h].open
    /\ dirs' = [dirs EXCEPT ![h] = NoDir]
    /\ UNCHANGED <<disk, queue, vol, call, torn, hurt, kills, plan>>

WriteSector ==
    /\ queue # <<>>
    /\ disk' = [disk EXCEPT ![Head(queue)[1]] = Head(queue)[2]]
    /\ queue' = Tail(queue)
    /\ UNCHANGED <<vol, dirs, call, torn, hurt, kills, plan>>

Return ==
    /\ ~Idle /\ queue = <<>>
    /\ call' = NoCall
    /\ UNCHANGED <<disk, queue, vol, dirs, torn, hurt, kills, plan>>

\* The program is killed, and the next one mounts the volume.
Kill ==
    /\ kills < plan.kills /\ kills' = kills + 1
    /\ torn' = (torn \/ (call.grows /\ queue # <<>>))
    /\ hurt' = IF queue # <<>> THEN hurt \cup call.moves ELSE hurt
    /\ queue' = <<>> /\ vol' = Mounted /\ call' = NoCall
    /\ dirs' = [h \in Dirs |-> NoDir]
    /\ UNCHANGED <<disk, plan>>

Next ==
    \/ \E p \in plan.paths : CreateFile(p) \/ MakeDirectory(p) \/ Unlink(p)
    \/ \E old, new \in plan.paths : Rename(old, new)
    \/ \E h \in Dirs, p \in plan.paths \cup {<<>>} : OpenDir(h, p)
    \/ \E h \in Dirs : ReadDir(h) \/ CloseDir(h)
    \/ WriteSector \/ Return \/ Kill

Spec == Init /\ [][Next]_vars

-----------------------------------------------------------------------------
\* Properties

\* At every moment each directory on the disk has a chain that ends, a table
\* that begins with itself and its parent, and no cluster of another.  Not so
\* the one that f_rename is moving, nor for good if the program is killed in
\* that; and the one in the sector that the driver cannot read keeps its old
\* entry, and its .. with it, when it is moved.
Ends(d, c) == \A k \in Chain(d, c) : FatOn(d, k) >= 2
ParentOf(d, k, c) ==
    \/ ItemAt(d, k, 1) = Entry(DotDot, TRUE, c)
    \/ /\ clust2sect(k) = LastSect
       /\ \E p \in Clusters \cup {0} :
            k \in Subdirs(d, p) /\ ItemAt(d, k, 1) = Entry(DotDot, TRUE, p)
TreeOnDisk ==
    \A c \in Tree(disk) : \A k \in Subdirs(disk, c) \ (hurt \cup call.moves) :
        /\ Ends(disk, k)
        /\ ItemAt(disk, k, 0) = Entry(Dot, TRUE, k)
        /\ ParentOf(disk, k, c)
        /\ \A l \in Tree(disk) \ {k} : Chain(disk, k) \cap Chain(disk, l) = {}

\* The table of a directory holds bytes of an erased sector only from the
\* moment its chain grows until the new cluster is cleared: for good, when the
\* program is killed in between.
Adulterated == Names \cup Clusters \subseteq hurt
GarbageOnlyWhenTorn ==
    Adulterated \/ torn \/ (call.grows /\ queue # <<>>) \/
    \A c \in Tree(disk) : \A j \in Places : ItemAt(disk, c, j).name # Garbage

\* No entry in use lies behind the end mark, where no search finds it.
NoneBehindEnd ==
    \A c \in Tree(disk) : \A j \in Used(disk, c) : ~Behind(disk, c, j)

\* Between calls no directory has a name twice; but for one that was renamed
\* onto itself when the program was killed.
NamesUnique ==
    Idle => \A c \in Tree(Seen) : \A i, j \in Used(Seen, c) :
              i # j /\ ItemAt(Seen, c, i).name \notin hurt =>
                  ItemAt(Seen, c, i).name # ItemAt(Seen, c, j).name

\* Without kills every cluster in use belongs to a directory of the tree, or to
\* one below a directory that f_rename has moved into itself.
NoLostClusters ==
    Idle /\ kills = 0 =>
        \A c \in Clusters : FatOn(Seen, c) # 0 =>
            \E k \in Below(Seen, {0} \cup Adrift(Seen)) : c \in Chain(Seen, k)

=============================================================================
