------------------------------- MODULE FatLock -------------------------------
(***************************************************************************)
(* The lock table of FatFs and the life of file and directory objects: the *)
(* volume is registered by f_mount and mounted by the first call that      *)
(* needs it; every mount has a new number, which an object carries; and    *)
(* the table Files counts the objects open on each directory entry.        *)
(***************************************************************************)
EXTENDS Integers, FiniteSets

CONSTANTS
    Places,     \* directory entries of files: (cluster of the directory, offset)
    Tables,     \* the places f_opendir locks: first entries of sub-directories
    Root,       \* the root directory, which is not locked
    Objects,    \* FIL and DIR objects of the program
    LockCount,  \* _FS_LOCK
    WriteMark,  \* 0x100, the counter of an entry open for writing
    IdMod,      \* Fsid is a WORD: 2^16 mounts
    None,
    SeekFails,  \* f_open may fail when it seeks to the end of the file
    MaxMounts   \* bound: how often the volume is registered or formatted

Keys == Places \cup Tables

ASSUME LockAssumption ==
    /\ Places \cap Tables = {}
    /\ None \notin Keys /\ Root \notin Keys /\ None # Root
    /\ LockCount \in Nat /\ WriteMark \in Nat /\ IdMod \in Nat /\ MaxMounts \in Nat
    /\ MaxMounts < IdMod
    /\ IsFiniteSet(Objects) /\ Cardinality(Objects) < WriteMark
    /\ SeekFails \in BOOLEAN

Slots == 1 .. LockCount

VARIABLES
    fs,         \* FatFs[0]: registered, fs_type # 0, the mount ID
    Fsid,       \* the last mount ID given
    Files,      \* the lock table
    objs,       \* the FIL and DIR objects
    exists,     \* the places that hold the entry of a file
    mounts,     \* how often the volume has been registered or formatted
    era         \* how often it has been mounted

vars == <<fs, Fsid, Files, objs, exists, mounts, era>>

Closed == [fs |-> FALSE, id |-> 0, lockid |-> 0, key |-> None, write |-> FALSE, era |-> 0]

BlankSlot == [key |-> None, ctr |-> 0]

Init ==
    /\ fs = [registered |-> FALSE, fs_type |-> FALSE, id |-> 0]
    /\ Fsid = 0
    /\ Files = [i \in Slots |-> BlankSlot]
    /\ objs = [o \in Objects |-> Closed]
    /\ exists \in SUBSET Places
    /\ mounts = 0 /\ era = 0

-----------------------------------------------------------------------------
\* The table.  No one reads the counter of a blank slot.

SlotsOf(T, k) == {i \in Slots : T[i].key = k}
IsFirst(i, S) == i \in S /\ \A j \in S : i <= j

\* A mutant: deleting is checked as reading is.
chk_lockShared(T, k, acc) ==
    LET mine == SlotsOf(T, k)
    IN IF mine = {}
       THEN IF SlotsOf(T, None) # {} \/ acc = 2 THEN "ok" ELSE "too_many"
       ELSE IF acc = 1 \/ \E i \in mine : T[i].ctr = WriteMark THEN "locked" ELSE "ok"

\* A mutant: a writer is let in beside readers.
chk_lockWriters(T, k, acc) ==
    LET mine == SlotsOf(T, k)
    IN IF mine = {}
       THEN IF SlotsOf(T, None) # {} \/ acc = 2 THEN "ok" ELSE "too_many"
       ELSE IF acc = 2 \/ \E i \in mine : T[i].ctr = WriteMark THEN "locked" ELSE "ok"

\* acc: 0 read, 1 write, 2 delete or rename
chk_lock(T, k, acc) ==
    LET mine == SlotsOf(T, k)
    IN IF mine = {}
       THEN IF SlotsOf(T, None) # {} \/ acc = 2 THEN "ok" ELSE "too_many"
       ELSE IF acc # 0 \/ \E i \in mine : T[i].ctr = WriteMark THEN "locked" ELSE "ok"

\* A mutant: the new entry is made without a look at the table.
enq_lockNever(T) == TRUE

enq_lock(T) == SlotsOf(T, None) # {}

\* inc_lock takes the slot i: that of k, or the first blank one.  It answers 0
\* when there is none, and when a writer asks for an entry in use.
Takes(T, k, i) == IsFirst(i, IF SlotsOf(T, k) # {} THEN SlotsOf(T, k) ELSE SlotsOf(T, None))
Count(T, k, i) == IF T[i].key = k THEN T[i].ctr ELSE 0
inc_lock(T, k, acc, i) ==
    [T EXCEPT ![i] = [key |-> k, ctr |-> IF acc = 1 THEN WriteMark ELSE Count(T, k, i) + 1]]
inc_lockFails(T, k, acc) ==
    \/ SlotsOf(T, k) \cup SlotsOf(T, None) = {}
    \/ acc = 1 /\ \E i \in SlotsOf(T, k) : T[i].ctr # 0

dec_lock(T, i) ==
    LET n == IF T[i].ctr = WriteMark \/ T[i].ctr = 0 THEN 0 ELSE T[i].ctr - 1
    IN [T EXCEPT ![i] = IF n = 0 THEN BlankSlot ELSE [@ EXCEPT !.ctr = n]]

clear_lock(T) == [i \in Slots |-> BlankSlot]

-----------------------------------------------------------------------------
\* find_volume: the call goes on with the lock table Table, on the mount Id.

NextId == (Fsid + 1) % IdMod
Table == IF fs.fs_type THEN Files ELSE clear_lock(Files)
Id == IF fs.fs_type THEN fs.id ELSE NextId
Era == IF fs.fs_type THEN era ELSE era + 1
find_volume ==
    /\ fs.registered
    /\ fs' = [fs EXCEPT !.fs_type = TRUE, !.id = Id]
    /\ Fsid' = IF fs.fs_type THEN Fsid ELSE NextId
    /\ era' = Era

\* A mutant of validate: the mount ID is not compared.
validateAny(o) == objs[o].fs /\ fs.fs_type

validate(o) == objs[o].fs /\ fs.fs_type /\ objs[o].id = fs.id

\* The object o is open on the place k, which the slot i counts.
Attached(o, k, i, write) ==
    objs' = [objs EXCEPT ![o] = [fs |-> TRUE, id |-> Id, lockid |-> i, key |-> k,
                                 write |-> write, era |-> Era]]

\* A call that finds the volume and is refused.
Refused == find_volume /\ Files' = Table /\ UNCHANGED <<objs, exists, mounts>>

\* No volume is registered: the call is refused.
NotEnabled == ~fs.registered /\ UNCHANGED vars

-----------------------------------------------------------------------------
\* Mounting.

\* f_mount, of the object (registered) or of none.
f_mount(registered) ==
    /\ mounts < MaxMounts /\ mounts' = mounts + 1
    /\ Files' = IF fs.registered THEN clear_lock(Files) ELSE Files
    /\ fs' = [fs EXCEPT !.registered = registered, !.fs_type = FALSE]
    /\ UNCHANGED <<Fsid, objs, exists, era>>

\* f_mkfs leaves the lock table to the next mount.
f_mkfs ==
    /\ mounts < MaxMounts /\ mounts' = mounts + 1
    /\ fs.registered
    /\ fs' = [fs EXCEPT !.fs_type = FALSE]
    /\ exists' = {}
    /\ UNCHANGED <<Fsid, Files, objs, era>>

-----------------------------------------------------------------------------
\* Files.

\* What f_open finds out before it asks for a lock.
OpenResult(k, acc, create) ==
    CASE k \in exists -> chk_lock(Table, k, acc)
      [] k \notin exists /\ create -> IF enq_lock(Table) THEN "ok" ELSE "too_many"
      [] OTHER -> "no_file"

OpenRefused(o, k, acc, create) ==
    /\ ~objs[o].fs
    /\ OpenResult(k, acc, create) # "ok"
    /\ Refused

\* The file is open; or the seek to its end has failed, and the object is
\* invalid again.
f_open(o, k, acc, create, i) ==
    /\ ~objs[o].fs
    /\ OpenResult(k, acc, create) = "ok"
    /\ Takes(Table, k, i)
    /\ find_volume
    /\ Files' = inc_lock(Table, k, acc, i)
    /\ exists' = exists \cup {k}
    /\ \/ Attached(o, k, i, acc = 1)
       \/ SeekFails /\ acc = 1 /\ k \in exists /\ UNCHANGED objs
    /\ UNCHANGED mounts

\* f_close: f_sync may fail, and the file stays open.
f_close(o) ==
    /\ validate(o)
    /\ objs[o].key \in Places
    /\ Files' = dec_lock(Files, objs[o].lockid)
    /\ objs' = [objs EXCEPT ![o] = Closed]
    /\ UNCHANGED <<fs, Fsid, exists, mounts, era>>

\* Any call on an object that is not valid; the program gives it up.
Forget(o) ==
    /\ objs[o].fs /\ ~validate(o)
    /\ objs' = [objs EXCEPT ![o] = Closed]
    /\ UNCHANGED <<fs, Fsid, Files, exists, mounts, era>>

f_unlink(k) ==
    /\ k \in exists
    /\ IF chk_lock(Table, k, 2) # "ok" THEN Refused
       ELSE /\ find_volume /\ Files' = Table
            /\ exists' = exists \ {k}
            /\ UNCHANGED <<objs, mounts>>

\* f_rename gives the file another place.
f_rename(k, l) ==
    /\ k \in exists /\ l \in Places \ exists
    /\ IF chk_lock(Table, k, 2) # "ok" THEN Refused
       ELSE /\ find_volume /\ Files' = Table
            /\ exists' = (exists \ {k}) \cup {l}
            /\ UNCHANGED <<objs, mounts>>

-----------------------------------------------------------------------------
\* Directories.  f_opendir asks no one before it takes its lock.

f_opendir(o, k, i) ==
    /\ ~objs[o].fs
    /\ ~inc_lockFails(Table, k, 0)
    /\ Takes(Table, k, i)
    /\ find_volume
    /\ Files' = inc_lock(Table, k, 0, i)
    /\ Attached(o, k, i, FALSE)
    /\ UNCHANGED <<exists, mounts>>

OpenDirRefused(o, k) ==
    /\ ~objs[o].fs
    /\ inc_lockFails(Table, k, 0)
    /\ Refused

OpenRoot(o) ==
    /\ ~objs[o].fs
    /\ find_volume /\ Files' = Table
    /\ Attached(o, Root, 0, FALSE)
    /\ UNCHANGED <<exists, mounts>>

f_closedir(o) ==
    /\ validate(o)
    /\ objs[o].key \in Tables \cup {Root}
    /\ Files' = IF objs[o].lockid # 0 THEN dec_lock(Files, objs[o].lockid) ELSE Files
    /\ objs' = [objs EXCEPT ![o] = Closed]
    /\ UNCHANGED <<fs, Fsid, exists, mounts, era>>

-----------------------------------------------------------------------------
Open(o, k) ==
    \E acc \in {0, 1}, create \in BOOLEAN :
        /\ create => acc = 1
        /\ \/ OpenRefused(o, k, acc, create)
           \/ \E i \in Slots : f_open(o, k, acc, create, i)

OpenDir(o, k) == OpenDirRefused(o, k) \/ \E i \in Slots : f_opendir(o, k, i)

Next ==
    \/ \E registered \in BOOLEAN : f_mount(registered)
    \/ f_mkfs
    \/ NotEnabled
    \/ \E o \in Objects :
         \/ \E k \in Places : Open(o, k)
         \/ \E k \in Tables : OpenDir(o, k)
         \/ OpenRoot(o) \/ f_close(o) \/ f_closedir(o) \/ Forget(o)
    \/ \E k \in Places : f_unlink(k)
    \/ \E k, l \in Places : f_rename(k, l)

Spec == Init /\ [][Next]_vars

-----------------------------------------------------------------------------
\* Properties

TypeOK ==
    /\ fs \in [registered : BOOLEAN, fs_type : BOOLEAN, id : Nat]
    /\ Fsid \in Nat
    /\ Files \in [Slots -> [key : Keys \cup {None}, ctr : 0 .. WriteMark]]
    /\ objs \in [Objects -> [fs : BOOLEAN, id : Nat, lockid : 0 .. LockCount,
                             key : Keys \cup {None, Root}, write : BOOLEAN, era : Nat]]
    /\ exists \subseteq Places
    /\ mounts \in 0 .. MaxMounts /\ era \in Nat

\* A file that is open for writing is open once.
WriteExclusive ==
    \A o, p \in Objects :
        validate(o) /\ validate(p) /\ o # p /\ objs[o].write => objs[p].key # objs[o].key

\* The entry of an open file is neither removed nor renamed.
OpenStays ==
    \A o \in Objects : validate(o) /\ objs[o].key \in Places => objs[o].key \in exists

\* An object from before the volume was mounted again, formatted or not, is
\* refused by every call.
StaleRefused == \A o \in Objects : validate(o) => objs[o].era = era

\* The error inc_lock calls internal does not come up in f_open: chk_lock and
\* enq_lock have seen to it.
NoInternalError ==
    \A k \in Places, acc \in {0, 1}, create \in BOOLEAN :
        OpenResult(k, acc, create) = "ok" => ~inc_lockFails(Table, k, acc)
=============================================================================
