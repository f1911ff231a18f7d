------------------------------ MODULE FatFormat ------------------------------
(***************************************************************************)
(* f_mkfs and the mounting of what it leaves: the choice of a layout, pass *)
(* by pass; the trim and the writes that make the volume, each of which    *)
(* may fail, with a kill between any two; and find_volume, which reads the *)
(* boot record back and computes the layout once more.  A sector of the    *)
(* tables is known by its area: the first sector of the FAT, the rest of   *)
(* it, the root directory.                                                 *)
(***************************************************************************)
EXTENDS Integers, FiniteSets

CONSTANTS
    Drives,     \* what the driver answers: [total, block] in sectors and as is
    Requests    \* the calls of f_mkfs: [opt, au], au in sectors, 0 for automatic

ss == 2048      \* _MAX_SS
SZDIRE == 32
n_rootdir == 512
MAX_FAT12 == 4085
MAX_FAT16 == 65525
MAX_FAT32 == 268435445
cst == <<1, 4, 16, 64, 256, 512>>
cst32 == <<1, 2, 4, 8, 16, 32>>

\* A power of two that f_mkfs takes for the size of an erase block, in sectors.
Powers == {1, 2, 4, 8, 16, 32, 64, 128, 256, 512, 1024, 2048, 4096, 8192, 16384, 32768}

\* A drive has less than 2^31 sectors, for its size in bytes is an int.
MaxSectors == 2147483647
DriveSizes == 0 .. MaxSectors

\* f_mkfs refuses a cluster size that is not a power of two before anything else.
ASSUME FormatAssumption ==
    /\ Drives \subseteq [total : DriveSizes, block : Nat]
    /\ Requests \subseteq [opt : SUBSET {"FAT", "FAT32"}, au : {0} \cup Powers]

VARIABLES
    drive,      \* the answers of the driver
    disk,       \* the partition table, the boot record and the areas
    call,       \* the call of f_mkfs: its arguments, stage and layout, and
                \* (history) the failures it did not look at
    res         \* what the last call of f_mkfs answered

vars == <<drive, disk, call, res>>

Areas == {"head", "table", "root"}
NoRecord == [none |-> TRUE]
NoCall == [pc |-> "idle", opt |-> {}, auto |-> TRUE, au |-> 0, fmt |-> "FAT16",
           lay |-> NoRecord, missed |-> {}]

\* A drive that was never formatted.
Init ==
    /\ drive \in Drives
    /\ disk = [parts |-> NoRecord, boot |-> NoRecord, fsinfo |-> NoRecord,
               area |-> [a \in Areas |-> "erased"]]
    /\ call = NoCall
    /\ res = "none"

-----------------------------------------------------------------------------
\* The layout.

sz_blk == IF drive.block \in Powers THEN drive.block ELSE 1
b_vol == 63     \* FM_SFD has no caller
sz_vol == drive.total - b_vol
Ceil(a, b) == (a + b - 1) \div b

\* A DWORD below zero is larger than anything it is compared with.
Dword(n) == IF n < 0 THEN 2147483647 ELSE n

\* The cluster size of a volume of that many units: it doubles with every entry
\* of the table that is not above them.
Doubled == <<1, 2, 4, 8, 16, 32, 64>>
AutoSize(table, units) == Doubled[1 + Cardinality({i \in DOMAIN table : table[i] <= units})]
pau == IF call.au # 0 THEN call.au
       ELSE IF call.fmt = "FAT32" THEN AutoSize(cst32, sz_vol \div 131072)
       ELSE AutoSize(cst, sz_vol \div 4096)

\* A mutant: the root directory is not taken off.
ClustersWithRoot(rsv, fat, dir) == Dword(sz_vol - rsv - fat) \div pau

Clusters(rsv, fat, dir) == Dword(sz_vol - rsv - fat - dir) \div pau

\* One pass of the loop, from the size of a cluster on.
Fit ==
    LET n == sz_vol \div pau
        fmt == IF call.fmt = "FAT32" \/ n > MAX_FAT12 THEN call.fmt ELSE "FAT12"
        bytes == IF fmt = "FAT32" THEN 4 * n + 8
                 ELSE IF fmt = "FAT16" THEN 2 * n + 4
                 ELSE (3 * n + 1) \div 2 + 3
        dir == IF fmt = "FAT32" THEN 0 ELSE (n_rootdir * SZDIRE) \div ss
        rsv == IF fmt = "FAT32" THEN 32 ELSE 1
        b_data == b_vol + rsv + Ceil(bytes, ss) + dir
        pad == Ceil(b_data, sz_blk) * sz_blk - b_data
        fat == Ceil(bytes, ss) + IF fmt = "FAT32" THEN 0 ELSE pad
        rsv2 == rsv + IF fmt = "FAT32" THEN pad ELSE 0
    IN [fmt |-> fmt, pau |-> pau, guess |-> n, rsv |-> rsv2, fat |-> fat, dir |-> dir,
        small |-> sz_vol < b_data + pau * 16 - b_vol,
        n_clst |-> Clusters(rsv2, fat, dir)]

TooFew(l) ==
    \/ l.fmt = "FAT32" /\ l.n_clst <= MAX_FAT16
    \/ l.fmt = "FAT16" /\ l.n_clst <= MAX_FAT12
TooMany(l) ==
    \/ l.fmt = "FAT16" /\ l.n_clst > MAX_FAT16
    \/ l.fmt = "FAT12" /\ l.n_clst > MAX_FAT12
Unfit(l) ==
    \/ l.fmt = "FAT32" /\ (l.guess <= MAX_FAT16 \/ l.guess > MAX_FAT32)
    \/ l.small

Larger(l) == [call EXCEPT !.au = 2 * l.pau]
AsFat32 == [call EXCEPT !.fmt = "FAT32"]

\* A mutant: FAT32 with too few clusters tries FAT16 again.
RetryBack(l) ==
    CASE l.fmt = "FAT32" -> [call EXCEPT !.fmt = "FAT16"]
      [] TooMany(l) -> AsFat32
      [] OTHER -> NoCall

\* The next pass, when this one gave a layout that is not of its type: with
\* another cluster size, if that is automatic, or as FAT32.
Retry(l) ==
    LET grows(most) == call.au = 0 /\ l.pau * 2 <= most
        switches == TooMany(l) /\ ~grows(64) /\ "FAT32" \in call.opt
    IN IF l.fmt = "FAT32" /\ call.au = 0 /\ l.pau \div 2 # 0
         THEN [call EXCEPT !.au = l.pau \div 2]
       ELSE IF l.fmt = "FAT16" /\ switches THEN AsFat32
       ELSE IF l.fmt = "FAT16" /\ grows(128) THEN Larger(l)
       ELSE NoCall

-----------------------------------------------------------------------------
\* f_mkfs.

Answer(r) == res' = r /\ call' = NoCall
Go(pc) == call' = [call EXCEPT !.pc = pc] /\ res' = res
GoWithout(what, pc) == call' = [call EXCEPT !.pc = pc, !.missed = @ \cup {what}] /\ res' = res
Untouched == UNCHANGED <<drive, disk>>
Put(changed) == disk' = changed /\ UNCHANGED drive

\* The arguments are looked at, and the type is chosen but for its size.
f_mkfs(opt, au) ==
    /\ call.pc = "idle"
    /\ UNCHANGED <<drive, disk>>
    /\ LET fmt == IF "FAT32" \in opt /\ "FAT" \notin opt THEN "FAT32" ELSE "FAT16"
       IN IF sz_vol < 128 THEN Answer("aborted")
          ELSE IF au > 128 \/ opt \cap {"FAT", "FAT32"} = {} THEN Answer("invalid")
          ELSE /\ call' = [NoCall EXCEPT !.pc = "fit", !.opt = opt, !.auto = au = 0, !.au = au, !.fmt = fmt]
               /\ res' = "none"

Pass ==
    /\ call.pc = "fit" /\ Untouched
    /\ \E l \in {Fit} :
         IF Unfit(l) THEN Answer("aborted")
         ELSE IF ~TooFew(l) /\ ~TooMany(l)
           THEN call' = [call EXCEPT !.pc = "trim", !.lay = l] /\ res' = res
         ELSE IF Retry(l) = NoCall THEN Answer("aborted")
         ELSE call' = Retry(l) /\ res' = res

\* What a table holds that the trim does not erase.
Unless(a, left) == IF disk.area[a] = "erased" THEN "erased" ELSE left

\* CTRL_TRIM: the driver erases block by block, the boot record in the first.
\* What it has not come to is of the volume that was there before.
Trim ==
    \/ /\ call.pc = "trim" /\ Go("trimmed")
       /\ \E some \in SUBSET Areas :
            Put([disk EXCEPT !.boot = NoRecord, !.fsinfo = NoRecord,
                             !.area = [a \in Areas |-> IF a \in some THEN "erased"
                                                       ELSE Unless(a, "old")]])
    \/ /\ call.pc = "trimmed" /\ Go("boot")
       /\ Put([disk EXCEPT !.area = [a \in Areas |-> "erased"]])

\* The driver gives up before the first block or after some; neither it nor
\* f_mkfs says so, and the tables it has not come to are kept.
TrimFails ==
    /\ call.pc \in {"trim", "trimmed"} /\ GoWithout("trim", "boot")
    /\ Put([disk EXCEPT !.area = [a \in Areas |-> Unless(a, "kept")]])

\* The boot record: every number in the width of its field.
BootRecord(l) ==
    [csize |-> l.pau % 256, nrsv |-> l.rsv % 65536,
     fatsz16 |-> IF l.fmt = "FAT32" THEN 0 ELSE l.fat % 65536,
     fatsz32 |-> IF l.fmt = "FAT32" THEN l.fat ELSE 0,
     n_rootdir |-> IF l.fmt = "FAT32" THEN 0 ELSE n_rootdir,
     tot16 |-> IF sz_vol < 65536 THEN sz_vol ELSE 0,
     tot32 |-> IF sz_vol < 65536 THEN 0 ELSE sz_vol]

WriteBoot ==
    /\ call.pc = "boot"
    /\ Go(IF call.lay.fmt = "FAT32" THEN "fsinfo" ELSE "head")
    /\ Put([disk EXCEPT !.boot = BootRecord(call.lay)])

WriteFSInfo ==
    /\ call.pc = "fsinfo" /\ Go("head")
    /\ Put([disk EXCEPT !.fsinfo = [free_clst |-> call.lay.n_clst - 1, last_clst |-> 2]])

\* The write of the FSINFO sector fails, which is not looked at.
WriteFSInfoFails ==
    call.pc = "fsinfo" /\ GoWithout("fsinfo", "head") /\ Untouched

\* The loops write sector by sector: an area is fresh with its last one.
Fill(area) == Put([disk EXCEPT !.area[area] = "fresh"])

\* A mutant of WriteTables: the root directory is left as the trim made it.
WriteTablesTrusting ==
    \/ call.pc = "head" /\ Fill("head") /\ Go("table")
    \/ call.pc = "table" /\ Fill("table") /\ Go("root")
    \/ call.pc = "root" /\ Untouched /\ Go("parts")

WriteTables ==
    \/ call.pc = "head" /\ Fill("head") /\ Go("table")
    \/ call.pc = "table" /\ Fill("table") /\ Go("root")
    \/ call.pc = "root" /\ Fill("root") /\ Go("parts")

WriteParts ==
    /\ call.pc = "parts" /\ Go("sync")
    /\ Put([disk EXCEPT !.parts = [start |-> b_vol, size |-> sz_vol]])

Sync == call.pc = "sync" /\ Answer("ok") /\ Untouched

\* Any other write fails, and f_mkfs gives up.
WriteFails ==
    /\ call.pc \in {"boot", "head", "table", "root", "parts"}
    /\ Answer("disk_err") /\ Untouched

\* A mutant of Store: the partition table comes first.
StorePartsFirst ==
    \/ call.pc = "boot" /\ Go("head")
       /\ Put([disk EXCEPT !.boot = BootRecord(call.lay),
                           !.parts = [start |-> b_vol, size |-> sz_vol]])
    \/ WriteTables
    \/ call.pc = "parts" /\ Go("sync") /\ UNCHANGED <<drive, disk>>

Store == WriteBoot \/ WriteFSInfo \/ WriteTables \/ WriteParts

-----------------------------------------------------------------------------
\* find_volume on what the disk holds.

\* check_fs of sector 0, and of the one the partition table names.
Found == disk.parts # NoRecord /\ disk.boot # NoRecord

fsize == IF disk.boot.fatsz16 = 0 THEN disk.boot.fatsz32 ELSE disk.boot.fatsz16
tsect == IF disk.boot.tot16 = 0 THEN disk.boot.tot32 ELSE disk.boot.tot16
sysect == disk.boot.nrsv + fsize + disk.boot.n_rootdir \div (ss \div SZDIRE)
nclst == (tsect - sysect) \div disk.boot.csize
fs_type == IF nclst <= MAX_FAT12 THEN "FAT12" ELSE IF nclst <= MAX_FAT16 THEN "FAT16" ELSE "FAT32"
n_fatent == nclst + 2
szbfat == IF fs_type = "FAT32" THEN n_fatent * 4
          ELSE IF fs_type = "FAT16" THEN n_fatent * 2
          ELSE (n_fatent * 3) \div 2 + (n_fatent % 2)
fatbase == disk.parts.start + disk.boot.nrsv
database == disk.parts.start + sysect
free_clst == IF fs_type = "FAT32" /\ disk.fsinfo # NoRecord THEN disk.fsinfo.free_clst ELSE -1

Mounts ==
    /\ Found
    /\ disk.boot.csize \in Powers
    /\ disk.boot.n_rootdir % (ss \div SZDIRE) = 0
    /\ disk.boot.nrsv # 0
    /\ tsect >= sysect /\ nclst # 0
    /\ (fs_type = "FAT32") = (disk.boot.n_rootdir = 0)
    /\ fsize >= Ceil(szbfat, ss)

\* The process is killed.
Kill ==
    /\ call.pc # "idle"
    /\ call' = NoCall /\ res' = "killed"
    /\ Untouched

Step == Pass \/ Trim \/ Store \/ Sync

Next ==
    \/ \E r \in Requests : f_mkfs(r.opt, r.au)
    \/ Step \/ TrimFails \/ WriteFSInfoFails \/ WriteFails \/ Kill

Spec == Init /\ [][Next]_vars /\ WF_vars(Step)

-----------------------------------------------------------------------------
\* Properties

\* The FAT of a FAT12 volume, padded to the erase block, leaves no cluster: the
\* check for a volume that is too small does not look at the padding.
NoRoom(l) == l.fmt = "FAT12" /\ l.n_clst = 0 /\ sz_blk > 1

\* What a FAT32 volume says of its free clusters: the number, unless FSINFO
\* could not be written; and then nothing, unless the trim failed too, so that
\* the record of an older volume is still there.
FreeKnown(missed) ==
    \/ free_clst = nclst - 1
    \/ "fsinfo" \in missed /\ (free_clst = -1 \/ "trim" \in missed)

\* What f_mkfs has made, whatever failure it did not look at, is mounted as the
\* volume it chose: of the same type and number of clusters, whose last one is
\* on the disk, with a data area aligned to the erase block, and with the right
\* number of free clusters or none.  (But f_mkfs also makes volumes without a
\* cluster, which no one mounts.)
MountsAsFormatted ==
    call.pc = "sync" /\ ~NoRoom(call.lay) =>
        /\ Mounts
        /\ fs_type = call.lay.fmt /\ nclst = call.lay.n_clst
        /\ database + nclst * disk.boot.csize <= drive.total
        /\ database % sz_blk = 0
        /\ fs_type = "FAT32" => FreeKnown(call.missed)

\* A volume with a partition table is mounted for the first time when it is
\* whole: a format that was cut short is followed by another.
FirstFormatWhole ==
    [][/\ ~Mounts /\ Mounts' /\ disk.parts = NoRecord
       => \A a \in Areas : disk'.area[a] = "fresh"]_vars

\* A volume that mounts has nothing in its tables of the volume that was there
\* before a format, unless the driver's trim failed; and when f_mkfs answers
\* that all is well, not even then: it has written every table itself.  (A
\* format of an old volume that is cut short between the boot record and the
\* tables leaves a volume that mounts with tables that are erased.)
NoOldTables ==
    /\ Mounts => \A a \in Areas : disk.area[a] # "old"
    /\ res = "ok" => \A a \in Areas : disk.area[a] = "fresh"

\* The loop that looks for a layout, and the call, come to an end.
FormatReturns == call.pc # "idle" ~> call.pc = "idle"
=============================================================================
