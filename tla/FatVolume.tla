----------------------------- MODULE FatVolume ------------------------------
(***************************************************************************)
(* A FAT12 volume with one root directory, as ff.c keeps it on a disk of   *)
(* sectors: the directory entries, the file objects with their buffers and *)
(* the data, on top of the window and the cluster chains of FatChain.      *)
(*                                                                         *)
(* A call of the API is computed whole, as an operator on a record v that  *)
(* holds the disk, the window and the log of the sectors it writes.  The   *)
(* log then goes to the disk sector by sector, and the program may be      *)
(* killed between any two of them.  The driver answers RES_OK to every     *)
(* sector of the volume, so that the error paths of disk I/O are left out. *)
(***************************************************************************)
EXTENDS FatChain

CONSTANTS
    Names,          \* file names
    BytesOf,        \* the values the bytes of each file take
    Handles,        \* file objects of the program
    EntriesPerSect, \* directory entries per sector
    MaxSize,        \* bound: the largest file, in bytes
    Plans           \* the programs that use the volume, see plan

SS == 2                         \* bytes per sector (and per cluster)
End == "end"                    \* DIR_Name[0] = 0: no entry from here on
Deleted == "deleted"            \* DDEM
Zero == "zero"                  \* a byte of an erased or blank sector
NoSlot == -1
Renamed == -2                   \* f_rename has succeeded
None == -1                      \* no size is promised
Twice == -2                     \* nor that the name is listed once

\* What CTRL_TRIM leaves of a sector of bytes.
BlankBytes == [i \in 1 .. SS |-> Zero]

ASSUME VolumeAssumption ==
    /\ Erased = BlankBytes
    /\ {End, Deleted, Zero} \cap Names = {}
    /\ EntriesPerSect \in Nat \ {0}
    /\ MaxSize \in Nat
    /\ \A p \in Plans : p.ops \subseteq {"open", "append", "always", "write", "sync", "close",
                                       "unlink", "getfree", "read", "seek", "truncate", "rename"}

NumSlots == DirSects * EntriesPerSect
Slots == 0 .. NumSlots - 1
SlotSect(i) == dirbase + (i \div EntriesPerSect)

NoEntry == [name |-> End, clu |-> 0, size |-> 0]

\* What f_mkfs leaves.
Formatted ==
    [s \in fatbase .. database + NumClusters - 1 |->
       CASE s < dirbase -> BlankFat(s)
         [] s \in DirSectors -> [i \in {j \in Slots : SlotSect(j) = s} |-> NoEntry]
         [] OTHER -> Erased]

VARIABLES
    disk,   \* the sectors of the disk
    queue,  \* sectors the running call has still to write
    vol,    \* the FATFS object: window, free_clst, last_clst
    files,  \* the FIL objects, or NoFile
    call,   \* the running call
    kept,   \* size of each file at its last completed f_sync or f_close; or None, or Twice
    hurt,   \* the files that a kill may have left on clusters that are not theirs alone
    kills,
    plan    \* the program: the calls it makes (ops), with its objects (handles), on how
            \* many bytes (sizes), seeking where (seeks), perhaps past the end (past), and
            \* how often it may be killed (kills): all of them bounds

vars == <<disk, queue, vol, files, call, kept, hurt, kills, plan>>

NoFile == [open |-> FALSE]
NoCall == [op |-> "none"]

\* The state a call works on: v.ret is the result of the last operator.
View == [disk |-> disk, log |-> <<>>, win |-> vol.win, free |-> vol.free,
         last |-> vol.last, ret |-> 0, f |-> NoFile, out |-> <<>>]

-----------------------------------------------------------------------------
\* The directory: a walk over the slots from 0, through the window.  These
\* leave the slot in v.ret, or NoSlot.

EntryAt(v, i) == v.win.buf[i]

\* The first slot whose name is wanted, unless one of stops comes first.
Looked(v) ==
    LET after[i \in 0 .. NumSlots] ==
          IF i = 0 THEN v ELSE move_window(after[i - 1], SlotSect(i - 1))
    IN after
Walk(v, wanted, stops) ==
    LET after == Looked(v)
        name(i) == EntryAt(after[i], i - 1).name
        hits == {i \in 1 .. NumSlots : name(i) \in wanted \cup stops}
        hit == Least(hits)
    IN IF hits = {} THEN [after[NumSlots] EXCEPT !.ret = NoSlot]
       ELSE [after[hit] EXCEPT !.ret = IF name(hit) \in wanted THEN hit - 1 ELSE NoSlot]

dir_find(v, n) == Walk(v, {n}, {End})
dir_alloc(v) == Walk(v, {End, Deleted}, {})

Fill(v, e) == IF v.ret = NoSlot THEN v ELSE Poke(v, v.ret, e)
dir_register(v, n) == Fill(dir_alloc(v), [name |-> n, clu |-> 0, size |-> 0])

\* dir_remove writes one byte; what is left of the entry is never read.
dir_remove(v, i) == Poke(move_window(v, SlotSect(i)), i, [NoEntry EXCEPT !.name = Deleted])

-----------------------------------------------------------------------------
\* Files.  A call on a file carries the FIL object along in v.f.

Bytes(x, k) == [i \in 1 .. k |-> x]

\* The last sector of the flash cannot be read (vflash_read steps past it).
Readable(s) == s # database + NumClusters - 1

\* FA_OPEN_APPEND: the chain is followed to the end of the file.
SeekEnd(v, size) ==
    LET after[i \in 0 .. (size - 1) \div SS] ==
          IF i = 0 THEN v
          ELSE IF after[i - 1].ret <= 1 THEN after[i - 1]
          ELSE get_fat(after[i - 1], after[i - 1].ret)
    IN after[(size - 1) \div SS]

SetStart(v, i, c, size) == Poke(v, i, [EntryAt(v, i) EXCEPT !.clu = c, !.size = size])

\* Overwriting an existing file: the entry first, then its chain.
Restart(v, i, cl) ==
    IF v.ret # 0 THEN v ELSE [move_window(v, SlotSect(i)) EXCEPT !.last = cl - 1]
\* A mutant of OpenTruncate: the chain first.
RestartChainFirst(v, i, cl) ==
    IF v.ret # 0 THEN v
    ELSE [SetStart(move_window(v, SlotSect(i)), i, 0, 0) EXCEPT !.last = cl - 1]
OpenTruncateChainFirst(v, i, cl) ==
    IF cl = 0 THEN [SetStart(v, i, 0, 0) EXCEPT !.ret = 0]
    ELSE RestartChainFirst(remove_chain(v, cl, 0), i, cl)

OpenTruncate(v, i, cl) ==
    IF cl = 0 THEN [SetStart(v, i, 0, 0) EXCEPT !.ret = 0]
    ELSE Restart(remove_chain(SetStart(v, i, 0, 0), cl, 0), i, cl)

NewFile(v, i, n, modified) ==
    [open |-> TRUE, name |-> n, slot |-> i, sclust |-> EntryAt(v, i).clu, clust |-> 0,
     fptr |-> 0, size |-> EntryAt(v, i).size, sect |-> 0, buf |-> Erased,
     dirty |-> FALSE, modified |-> modified, err |-> FALSE, cut |-> FALSE]

\* The end of a file of size bytes is in cluster v.ret: the sector it lies in
\* is read, unless it lies on the border of two.
Land(v, size, inside, sc) ==
    IF v.ret <= 1 \/ (inside /\ (sc = 0 \/ ~Readable(sc))) THEN [v EXCEPT !.f = NoFile]
    ELSE [v EXCEPT !.f.fptr = size, !.f.clust = v.ret,
                   !.f.sect = IF inside THEN sc ELSE 0,
                   !.f.buf = IF inside THEN v.disk[sc] ELSE @]
Landed(v) == Land(v, v.f.size, v.f.size % SS # 0, clust2sect(v.ret))
AtEnd(v) ==
    IF v.f.size = 0 THEN v ELSE Landed(SeekEnd([v EXCEPT !.ret = v.f.sclust], v.f.size))

Attach(v, i, n, mode, modified) ==
    IF mode = "append" THEN AtEnd([v EXCEPT !.f = NewFile(v, i, n, modified)])
    ELSE [v EXCEPT !.f = NewFile(v, i, n, modified)]
Cleared(v, i, n, mode) == IF v.ret # 0 THEN v ELSE Attach(v, i, n, mode, TRUE)
Overwrite(v, i, n, mode) ==
    IF i = NoSlot THEN v ELSE Cleared(OpenTruncate(v, i, EntryAt(v, i).clu), i, n, mode)
Created(v, n, mode) == Overwrite(v, v.ret, n, mode)
Found(v, n, mode, locked) ==
    IF v.ret \in locked THEN v
    ELSE IF v.ret = NoSlot THEN
      IF mode = "existing" THEN v ELSE Created(dir_register(v, n), n, mode)
    ELSE IF mode = "always" THEN Overwrite(v, v.ret, n, mode)
    ELSE Attach(v, v.ret, n, mode, FALSE)

\* f_open for writing; a file another object has open is refused by chk_lock.
f_open(v, n, mode, locked) == Found(dir_find(v, n), n, mode, locked)

\* Write-back of the buffer of a file.
FlushBuf(v) ==
    IF v.f.dirty THEN [disk_write(v, v.f.sect, v.f.buf) EXCEPT !.f.dirty = FALSE] ELSE v

Abort(v) == [v EXCEPT !.f.err = TRUE]

\* k bytes from the file pointer on are now n's: the position moves along.
Advance(v, k) ==
    LET p == v.f.fptr + k
    IN [v EXCEPT !.f.fptr = p, !.f.size = IF p > @ THEN p ELSE @]

\* k bytes x go to the buffer.
ToBuffer(v, k, x) ==
    LET off == v.f.fptr % SS
    IN Advance([v EXCEPT !.f.buf = [j \in 1 .. SS |-> IF j \in off + 1 .. off + k
                                                      THEN x ELSE @[j]],
                         !.f.dirty = TRUE], k)

\* A whole sector goes to the disk; the buffer follows if it holds that one.
ToDisk(v, s, x) ==
    LET w == disk_write(v, s, Bytes(x, SS))
    IN Advance(IF v.f.sect = s
               THEN [w EXCEPT !.f.buf = Bytes(x, SS), !.f.dirty = FALSE]
               ELSE w, SS)

\* A round of the loop of f_write, with r.todo > 0 bytes x to go.
WriteIn(v, sect, todo, x) ==
    LET load == v.f.sect # sect /\ v.f.fptr < v.f.size
        held == [v EXCEPT !.f.sect = sect, !.f.buf = IF load THEN v.disk[sect] ELSE @]
    IN IF sect # 0 /\ todo >= SS THEN [v |-> ToDisk(v, sect, x), todo |-> todo - SS]
       ELSE [v |-> IF sect = 0 \/ (load /\ ~Readable(sect)) THEN Abort(v)
                   ELSE ToBuffer(held, todo, x),
             todo |-> 0]
\* On a sector boundary, with cluster c to write: 0 is a full disk.
WriteAt(v, c, todo, x) ==
    CASE c = 0 -> [v |-> v, todo |-> 0]
      [] c = 1 -> [v |-> Abort(v), todo |-> 0]
      [] OTHER -> WriteIn(FlushBuf([v EXCEPT !.f.clust = c, !.f.sclust = IF @ = 0 THEN c ELSE @]),
                          clust2sect(c), todo, x)
WriteNext(v, todo, x) == WriteAt(v, v.ret, todo, x)
WriteRound(r, x) ==
    LET f == r.v.f
        left == SS - (f.fptr % SS)
        k == IF left < r.todo THEN left ELSE r.todo
    IN CASE left < SS -> [v |-> ToBuffer(r.v, k, x), todo |-> r.todo - k]
         [] left = SS /\ f.fptr = 0 /\ f.sclust # 0 -> WriteAt(r.v, f.sclust, r.todo, x)
         [] OTHER -> WriteNext(create_chain(r.v, IF f.fptr = 0 THEN 0 ELSE f.clust), r.todo, x)
Written(v, btw, x) ==
    LET round[i \in 0 .. btw] ==
          IF i = 0 THEN [v |-> v, todo |-> btw]
          ELSE IF round[i - 1].todo > 0 THEN WriteRound(round[i - 1], x)
          ELSE round[i - 1]
    IN round[btw].v

MarkModified(v) == IF v.f.err THEN v ELSE [v EXCEPT !.f.modified = TRUE]
f_write(v, btw, x) == IF v.f.err THEN v ELSE MarkModified(Written(v, btw, x))

EntryOf(v) == SetStart(move_window(v, SlotSect(v.f.slot)), v.f.slot, v.f.sclust, v.f.size)
Saved(v) == [v EXCEPT !.f.modified = FALSE, !.f.cut = FALSE]

f_sync(v) == IF ~v.f.modified THEN v ELSE Saved(sync_fs(EntryOf(FlushBuf(v))))

\* A round of the loop of f_read, with r.todo > 0 bytes to go; v.out collects
\* the k bytes x that are read.
Take(v, k, x) == [v EXCEPT !.f.fptr = @ + k, !.out = @ \o x]
ReadIn(v, sect, todo) ==
    LET held == v.f.sect = sect
        direct == IF held /\ v.f.dirty THEN v.f.buf ELSE v.disk[sect]
        loaded == IF held THEN v ELSE [FlushBuf(v) EXCEPT !.f.buf = v.disk[sect], !.f.sect = sect]
    IN IF sect = 0 THEN [v |-> Abort(v), todo |-> 0]
       ELSE IF todo >= SS
       THEN IF Readable(sect) THEN [v |-> Take(v, SS, direct), todo |-> todo - SS]
            ELSE [v |-> Abort(v), todo |-> 0]
       ELSE IF ~held /\ ~Readable(sect) THEN [v |-> Abort(FlushBuf(v)), todo |-> 0]
       ELSE [v |-> Take(loaded, todo, SubSeq(loaded.f.buf, 1, todo)), todo |-> 0]
ReadAt(v, todo) ==
    IF v.ret < 2 THEN [v |-> Abort(v), todo |-> 0]
    ELSE ReadIn([v EXCEPT !.f.clust = v.ret], clust2sect(v.ret), todo)
ReadRound(r) ==
    LET f == r.v.f
        off == f.fptr % SS
        k == IF SS - off < r.todo THEN SS - off ELSE r.todo
    IN CASE off # 0 -> [v |-> Take(r.v, k, SubSeq(f.buf, off + 1, off + k)), todo |-> r.todo - k]
         [] off = 0 /\ f.fptr = 0 -> ReadAt([r.v EXCEPT !.ret = f.sclust], r.todo)
         [] OTHER -> ReadAt(get_fat(r.v, f.clust), r.todo)
TakeAll(v, btr) ==
    LET round[i \in 0 .. btr] ==
          IF i = 0 THEN [v |-> v, todo |-> btr]
          ELSE IF round[i - 1].todo > 0 THEN ReadRound(round[i - 1])
          ELSE round[i - 1]
    IN round[btr].v

f_read(v, btr) ==
    LET remain == v.f.size - v.f.fptr
    IN IF v.f.err THEN v ELSE TakeAll(v, IF btr > remain THEN remain ELSE btr)

\* The cluster loop of f_lseek, which stretches the chain when it must.  It
\* leaves in v.ret what is left of the offset, within the cluster reached.
FollowOn(v, todo) ==
    CASE v.ret = 0 -> [v |-> v, todo |-> 0]
      [] v.ret = 1 -> [v |-> Abort(v), todo |-> 0]
      [] OTHER -> [v |-> [v EXCEPT !.f.clust = v.ret], todo |-> todo]
FollowRound(r) == FollowOn(create_chain([r.v EXCEPT !.f.fptr = @ + SS], r.v.f.clust), r.todo - SS)
Reached(r) == [r.v EXCEPT !.ret = r.todo]
Follow(v, ofs) ==
    LET round[i \in 0 .. ofs] ==
          IF i = 0 THEN [v |-> v, todo |-> ofs]
          ELSE IF round[i - 1].todo > SS THEN FollowRound(round[i - 1])
          ELSE round[i - 1]
    IN Reached(round[ofs])

\* The walk starts at the current cluster when the target is not in front of
\* it, at the first one, allocated if there is none, otherwise.
SeekFrom(v, ofs) ==
    CASE v.ret = 1 -> Abort(v)
      [] v.ret = 0 -> [v EXCEPT !.f.clust = 0]
      [] OTHER -> Follow([v EXCEPT !.f.sclust = v.ret, !.f.clust = v.ret], ofs)
SeekStart(v, ofs) ==
    LET p == v.f.fptr
        base == ((p - 1) \div SS) * SS
        start == [v EXCEPT !.f.fptr = 0]
    IN IF p > 0 /\ ofs > base THEN Follow([v EXCEPT !.f.fptr = base], ofs - base)
       ELSE SeekFrom(IF v.f.sclust # 0 THEN [start EXCEPT !.ret = v.f.sclust]
                     ELSE create_chain(start, 0), ofs)

\* The position reached; the buffer is loaded when it lies inside a sector.
\* The mutants do not write a dirty buffer back first, and do not load.
SeekLoadUnread(v, sect) ==
    IF v.f.fptr % SS = 0 \/ v.f.sect = sect THEN v
    ELSE [FlushBuf(v) EXCEPT !.f.sect = sect]
SeekLoadDrops(v, sect) ==
    IF v.f.fptr % SS = 0 \/ v.f.sect = sect THEN v
    ELSE IF ~Readable(sect) THEN Abort(v)
    ELSE [v EXCEPT !.f.buf = v.disk[sect], !.f.sect = sect, !.f.dirty = FALSE]
LoadData(v, sect) ==
    IF ~Readable(sect) THEN Abort(v) ELSE [v EXCEPT !.f.buf = v.disk[sect], !.f.sect = sect]
SeekLoad(v, sect) ==
    IF v.f.fptr % SS = 0 \/ v.f.sect = sect THEN v ELSE LoadData(FlushBuf(v), sect)
SeekGrow(v) ==
    SeekLoad(IF v.f.fptr <= v.f.size THEN v
             ELSE [v EXCEPT !.f.size = v.f.fptr, !.f.modified = TRUE], clust2sect(v.f.clust))
SeekEnds(v) == IF v.f.err THEN v ELSE SeekGrow([v EXCEPT !.f.fptr = @ + v.ret])

f_lseek(v, ofs) ==
    IF v.f.err THEN v
    ELSE IF ofs = 0 THEN [v EXCEPT !.f.fptr = 0]
    ELSE SeekEnds(SeekStart(v, ofs))

\* What follows the file pointer goes, and then the buffer is written.
CutAt(v, c) ==
    CASE v.ret \in Clusters -> remove_chain(v, v.ret, c)
      [] v.ret = 1 -> v
      [] OTHER -> [v EXCEPT !.ret = 0]
Resized(v) == IF v.ret = 1 THEN Abort(v) ELSE FlushBuf(v)
f_truncate(v) ==
    LET cut == [v EXCEPT !.f.size = v.f.fptr, !.f.modified = TRUE, !.f.cut = TRUE]
    IN IF v.f.err \/ v.f.fptr >= v.f.size THEN v
       ELSE Resized(IF v.f.fptr = 0 THEN remove_chain([cut EXCEPT !.f.sclust = 0], v.f.sclust, 0)
                    ELSE CutAt(get_fat(cut, v.f.clust), v.f.clust))

Finish(v) == IF v.ret # 0 THEN v ELSE sync_fs(v)
\* The mutant of Drop leaves the chain allocated.
DropKeeps(v, cl) == [v EXCEPT !.ret = 0]
Drop(v, cl) == IF cl = 0 THEN [v EXCEPT !.ret = 0] ELSE remove_chain(v, cl, 0)
Doomed(v, locked) == v.ret # NoSlot /\ v.ret \notin locked

\* A mutant of Remove: the chain first.
RemoveChainFirst(v, i, cl) == Finish([dir_remove(Drop(v, cl), i) EXCEPT !.ret = 0])

\* The entry first, then its chain.
Remove(v, i, cl) == Finish(Drop(dir_remove(v, i), cl))
Unlinked(v, locked) ==
    IF Doomed(v, locked) THEN Remove(v, v.ret, EntryAt(v, v.ret).clu) ELSE v
f_unlink(v, n, locked) == Unlinked(dir_find(v, n), locked)

\* A mutant of Moved: the old entry goes first.
MovedOldFirst(v, info, i) ==
    IF v.ret = NoSlot THEN v
    ELSE [sync_fs(Poke(move_window(dir_remove(v, i), SlotSect(v.ret)), v.ret, info))
            EXCEPT !.ret = Renamed]

\* The new entry in slot v.ret gets what the old one says of the file; then
\* the old entry goes.
Moved(v, info, i) ==
    IF v.ret = NoSlot THEN v
    ELSE [sync_fs(dir_remove(Poke(v, v.ret, info), i)) EXCEPT !.ret = Renamed]
\* The new name is taken, unless what has it is the very entry to be renamed.
IfNew(v, info, i) ==
    IF v.ret \notin {NoSlot, i} THEN v ELSE Moved(dir_register(v, info.name), info, i)
Renaming(v, new, locked) ==
    IF ~Doomed(v, locked) THEN v
    ELSE IfNew(dir_find(v, new), [EntryAt(v, v.ret) EXCEPT !.name = new], v.ret)
f_rename(v, old, new, locked) == Renaming(dir_find(v, old), new, locked)

\* f_getfree on FAT12: every cluster is looked up when the count is unknown.
Inspected(v) ==
    LET after[i \in 0 .. NumClusters] == IF i = 0 THEN v ELSE get_fat(after[i - 1], i + 1)
    IN after
CountFree(v) ==
    LET after == Inspected(v)
        bad == {i \in 1 .. NumClusters : after[i].ret = 1}
        last == IF bad = {} THEN NumClusters ELSE Least(bad)
    IN [after[last] EXCEPT !.free = Cardinality({i \in 1 .. last : after[i].ret = 0})]
f_getfree(v) == IF v.free <= NumClusters THEN v ELSE CountFree(v)

-----------------------------------------------------------------------------
\* The calls.

Init ==
    /\ disk = Formatted
    /\ queue = <<>>
    /\ vol = Mounted
    /\ files = [h \in Handles |-> NoFile]
    /\ call = NoCall
    /\ kept = [n \in Names |-> None]
    /\ hurt = {}
    /\ kills = 0
    /\ plan \in Plans

Idle == call = NoCall
Locked == {files[h].slot : h \in {k \in Handles : files[k].open}}

\* The call c on the files ns computed v: its sectors are queued, the objects
\* are changed.  One that writes to a file on the clusters of another may hurt
\* that one too.
Run(c, v, ns) ==
    /\ call' = c /\ queue' = v.log
    /\ vol' = [win |-> v.win, free |-> v.free, last |-> v.last]
    /\ hurt' = IF ns \cap hurt # {} /\ (v.log # <<>> \/ v.win.dirty) THEN Names ELSE hurt
    /\ UNCHANGED <<disk, kills, plan>>

\* What a call promises ends when one that changes it begins.
Forget(n) == kept' = [kept EXCEPT ![n] = IF @ = Twice THEN @ ELSE None]
Keep == UNCHANGED kept

Open(h, n, mode) ==
    LET op == IF mode = "existing" THEN "open" ELSE mode
        v == f_open([View EXCEPT !.f = NoFile], n, mode, Locked)
    IN /\ Idle /\ op \in plan.ops /\ h \in plan.handles /\ ~files[h].open
       /\ Run([op |-> op], v, {n})
       /\ files' = [files EXCEPT ![h] = v.f]
       /\ IF mode = "always" /\ v.f.open THEN Forget(n) ELSE Keep

\* The size a completed f_sync vouches for.  A write that is given up may leave
\* the object larger than its entry and not marked modified: f_sync then writes
\* nothing, and vouches for nothing new; nor does it for one of two entries.
Vouched(h, v) ==
    LET k == kept[files[h].name]
    IN IF k = Twice \/ (files[h].err /\ ~files[h].modified) THEN k ELSE v.f.size

\* A call on an open file.
OnFile(h, op, v) ==
    /\ Run(CASE op \in {"sync", "close"} -> [op |-> op, name |-> files[h].name,
                                           size |-> Vouched(h, v), cut |-> files[h].cut]
              [] op = "read" -> [op |-> op, file |-> h, at |-> files[h].fptr, out |-> v.out]
              [] OTHER -> [op |-> op], v, {files[h].name})
    /\ files' = [files EXCEPT ![h] = IF op = "close" THEN NoFile ELSE v.f]

May(h, op) == Idle /\ op \in plan.ops /\ files[h].open
On(h) == [View EXCEPT !.f = files[h]]

Write(h, k, x) ==
    /\ May(h, "write") /\ k \in plan.sizes /\ x \in BytesOf[files[h].name]
    /\ files[h].fptr + k <= MaxSize
    /\ OnFile(h, "write", f_write(On(h), k, x)) /\ Keep

Read(h, k) == May(h, "read") /\ k \in plan.sizes /\ OnFile(h, "read", f_read(On(h), k)) /\ Keep
Seek(h, p) ==
    /\ May(h, "seek") /\ p \in plan.seeks /\ (plan.past \/ p <= files[h].size)
    /\ OnFile(h, "seek", f_lseek(On(h), p)) /\ Keep

SyncFile(h) == May(h, "sync") /\ OnFile(h, "sync", f_sync(On(h))) /\ Keep
Close(h) == May(h, "close") /\ OnFile(h, "close", f_sync(On(h))) /\ Keep

Truncate(h) ==
    May(h, "truncate") /\ OnFile(h, "truncate", f_truncate(On(h))) /\ Forget(files[h].name)

Unlink(n) ==
    LET v == f_unlink(View, n, Locked)
    IN /\ Idle /\ "unlink" \in plan.ops
       /\ Run([op |-> "unlink"], v, {n})
       /\ IF v.log # <<>> \/ v.win # vol.win THEN Forget(n) ELSE Keep
       /\ UNCHANGED files

Rename(old, new) ==
    LET v == f_rename(View, old, new, Locked)
        done == v.ret = Renamed
    IN /\ Idle /\ "rename" \in plan.ops
       /\ Run([op |-> "rename", old |-> old, name |-> new,
               size |-> IF done /\ kept[old] >= 0 THEN kept[old] ELSE kept[new]], v, {old, new})
       /\ IF done THEN IF old = new THEN kept' = [kept EXCEPT ![old] = Twice] ELSE Forget(old)
          ELSE Keep
       /\ UNCHANGED files

GetFree ==
    /\ Idle /\ "getfree" \in plan.ops
    /\ Run([op |-> "getfree"], f_getfree(View), {})
    /\ Keep /\ UNCHANGED files

WriteSector ==
    /\ queue # <<>>
    /\ disk' = [disk EXCEPT ![Head(queue)[1]] = Head(queue)[2]]
    /\ queue' = Tail(queue)
    /\ UNCHANGED <<vol, files, call, kept, hurt, kills, plan>>

Return ==
    /\ ~Idle /\ queue = <<>>
    /\ call' = NoCall
    /\ kept' = IF call.op \in {"sync", "close", "rename"} THEN [kept EXCEPT ![call.name] = call.size]
               ELSE kept
    /\ UNCHANGED <<disk, queue, vol, files, hurt, kills, plan>>

\* The files that have been truncated and whose f_sync has not returned, and
\* the names of one that is being renamed.
CutShort ==
    {files[h].name : h \in {k \in Handles : files[k].open /\ files[k].cut}}
    \cup (IF call.op \in {"sync", "close"} /\ call.cut THEN {call.name} ELSE {})
InRename == IF call.op = "rename" THEN {call.old, call.name} ELSE {}

\* The program is killed, and the next one mounts the volume.
Kill ==
    /\ kills < plan.kills /\ kills' = kills + 1
    /\ hurt' = hurt \cup CutShort \cup InRename
    /\ queue' = <<>> /\ vol' = Mounted /\ call' = NoCall
    /\ files' = [h \in Handles |-> NoFile]
    /\ UNCHANGED <<disk, kept, plan>>

Sizes == 1 .. MaxSize

Next ==
    \/ \E h \in Handles, n \in Names, m \in {"existing", "append", "always"} : Open(h, n, m)
    \/ \E h \in Handles, k \in Sizes, x \in UNION {BytesOf[n] : n \in Names} : Write(h, k, x)
    \/ \E h \in Handles, k \in Sizes : Read(h, k)
    \/ \E h \in Handles, p \in 0 .. MaxSize : Seek(h, p)
    \/ \E h \in Handles : SyncFile(h) \/ Close(h) \/ Truncate(h)
    \/ \E n \in Names : Unlink(n)
    \/ \E old, new \in Names : Rename(old, new)
    \/ GetFree \/ WriteSector \/ Return \/ Kill

Spec == Init /\ [][Next]_vars

-----------------------------------------------------------------------------
\* What the disk says, and what the program sees of it.

Entries(d) ==
    LET all == {i \in Slots : d[SlotSect(i)][i].name # Deleted}
    IN {i \in all : \A j \in 0 .. i : d[SlotSect(j)][j].name # End}
Entry(d, i) == d[SlotSect(i)][i]

ByteAt(d, c, j) == d[clust2sect(NthCluster(d, c, j \div SS))][(j % SS) + 1]

\* The chain of an entry covers its size; and it holds the file's bytes.
Covered(d, i) ==
    LET e == Entry(d, i)
    IN \A j \in 0 .. e.size - 1 : NthCluster(d, e.clu, j \div SS) \in Clusters
Sound(d, i) ==
    LET e == Entry(d, i)
    IN Covered(d, i) /\ \A j \in 0 .. e.size - 1 : ByteAt(d, e.clu, j) \in BytesOf[e.name]

\* What the calls of the volume see between two calls, and the same while the
\* sectors of a call are on their way.
Seen == Overlaid(disk, vol.win)
SeenNow == Overlaid(Applied(disk, queue), vol.win)

-----------------------------------------------------------------------------
\* Properties

\* At every moment each entry on the disk has a chain that covers its size and
\* holds its bytes, a kill being one: it costs clusters.  It costs a file too
\* only when it comes between f_truncate, which frees clusters that the entry
\* refers to, and the end of f_sync, or in the critical section of f_rename;
\* and that file another one only once it is itself written to.  (The bytes
\* are not looked at where a seek past the end has left any value, or a file
\* has another name than the bytes were written under.)
Intact ==
    \A i \in Entries(disk) :
        \/ Entry(disk, i).name \in hurt \cup CutShort
        \/ IF plan.past \/ "rename" \in plan.ops THEN Covered(disk, i) ELSE Sound(disk, i)

\* At every moment no cluster on the disk belongs to two entries, with the same
\* exceptions, and that of the two names of a file that is being renamed.
Renames(d, e) ==
    /\ call.op = "rename" /\ {d.name, e.name} = {call.old, call.name}
    /\ d.clu = e.clu /\ d.size = e.size
Unshared ==
    \A i, j \in Entries(disk) :
        \/ i = j \/ {Entry(disk, i).name, Entry(disk, j).name} \cap (hurt \cup CutShort) # {}
        \/ Chain(disk, Entry(disk, i).clu) \cap Chain(disk, Entry(disk, j).clu) = {}
        \/ Renames(Entry(disk, i), Entry(disk, j))

\* A file whose f_sync or f_close returned stays on the disk with at least
\* that size, whatever is written, closed or killed later.
ClosedFilesSurvive ==
    \A n \in Names : kept[n] >= 0 =>
        \E i \in Entries(disk) : Entry(disk, i).name = n /\ Entry(disk, i).size >= kept[n]

\* The free count, once known, is the number of free clusters in the FAT.
FreeCount ==
    Idle /\ vol.free <= NumClusters =>
        vol.free = Cardinality({c \in Clusters : FatOn(Seen, c) = 0})

\* Without kills no cluster is lost: every cluster in use belongs to a file.
NoLostClusters ==
    Idle /\ kills = 0 =>
        \A c \in Clusters : FatOn(Seen, c) # 0 =>
            \/ \E i \in Entries(Seen) : c \in Chain(Seen, Entry(Seen, i).clu)
            \/ \E h \in Handles : files[h].open /\ c \in Chain(Seen, files[h].sclust)

\* While a file is renamed, one of its names is on the disk with its bytes.
RenameKeepsFile ==
    call.op = "rename" /\ call.size >= 0 /\ {call.old, call.name} \cap hurt = {} =>
        \E i \in Entries(disk) : /\ Entry(disk, i).name \in {call.old, call.name}
                                 /\ Entry(disk, i).size >= call.size
                                 /\ Covered(disk, i)

\* A read returns the bytes asked for, up to the end of the file; one that
\* comes short has met the last sector of the flash, which cannot be read.
\* The bytes are those of the file from the position on.  (A program that
\* seeks past the end gets bytes of any value there.)
FileBytes(h) ==
    LET f == files[h]
        at(j) == LET c == NthCluster(SeenNow, f.sclust, j \div SS)
                 IN IF f.dirty /\ f.sect = clust2sect(c) THEN f.buf[(j % SS) + 1]
                    ELSE ByteAt(SeenNow, f.sclust, j)
    IN [j \in 1 .. f.size |-> at(j - 1)]
ReadsWhatWasWritten ==
    call.op = "read" =>
        LET f == files[call.file]
            upto == call.at + Len(call.out)
        IN /\ call.out = SubSeq(FileBytes(call.file), call.at + 1, upto)
           /\ f.err => ~Readable(clust2sect(NthCluster(SeenNow, f.sclust, upto \div SS)))

-----------------------------------------------------------------------------
\* The volume implements a store of files, for a program that is not killed.

Opened(n) == {h \in Handles : files[h].open /\ files[h].name = n}
Stored(n) ==
    LET at == {i \in Entries(SeenNow) : Entry(SeenNow, i).name = n}
        e == Entry(SeenNow, CHOOSE i \in at : TRUE)
    IN [there |-> at # {},
        bytes |-> CASE Opened(n) # {} -> FileBytes(CHOOSE h \in Opened(n) : TRUE)
                    [] at = {} -> <<>>
                    [] OTHER -> [j \in 1 .. e.size |-> ByteAt(SeenNow, e.clu, j - 1)]]

FileSpec == INSTANCE FileStore WITH
    Values <- UNION {BytesOf[n] : n \in Names},
    store <- [n \in Names |-> Stored(n)],
    name <- [h \in Handles |-> IF files[h].open THEN files[h].name ELSE "closed"],
    pos <- [h \in Handles |-> IF files[h].open THEN files[h].fptr ELSE 0]
ImplementsStore == FileSpec!Spec
=============================================================================
