---------------------------- MODULE FatLockProofs ----------------------------
(***************************************************************************)
(* Theorems about FatLock, for every size of the lock table, every number  *)
(* of objects below the write mark and of mounts below the wrap of Fsid.   *)
(***************************************************************************)
EXTENDS FatLock, FiniteSetTheorems, TLAPS

(***************************************************************************)
(* The inductive invariant: a statement about a table T, the objects ob,   *)
(* the mount n and the places ex that exist.                               *)
(***************************************************************************)
TableType == [Slots -> [key : Keys \cup {None}, ctr : 0 .. WriteMark]]
ObjsType == [Objects -> [fs : BOOLEAN, id : Nat, lockid : 0 .. LockCount,
                         key : Keys \cup {None, Root}, write : BOOLEAN, era : Nat]]

Valid(ob, n) == {o \in Objects : ob[o].fs /\ ob[o].id = n}
HoldersIn(ob, n, i) == {o \in Valid(ob, n) : ob[o].lockid = i}

\* No two entries of the table are for the same place.
Single(T) == \A i, j \in Slots : T[i].key # None /\ T[j].key = T[i].key => i = j

\* An entry is for a place that exists.
Listed(T, ex) == \A i \in Slots : T[i].key \in Places => T[i].key \in ex

\* A valid object knows the entry that counts it.
Held(T, ob, n, o) ==
    \/ ob[o].key = Root /\ ob[o].lockid = 0 /\ ~ob[o].write
    \/ ob[o].key \in Keys /\ ob[o].lockid \in Slots /\ T[ob[o].lockid].key = ob[o].key

\* An entry counts a writer, the only one if there is one, or its readers.
Counted(T, ob, n, i) ==
    \/ /\ T[i].ctr = WriteMark /\ T[i].key \in Places
       /\ \A o, p \in HoldersIn(ob, n, i) : o = p
    \/ /\ T[i].ctr = Cardinality(HoldersIn(ob, n, i))
       /\ \A o \in HoldersIn(ob, n, i) : ~ob[o].write

Sound(T, ob, n, ex) ==
    /\ Single(T)
    /\ Listed(T, ex)
    /\ \A o \in Valid(ob, n) : Held(T, ob, n, o)
    /\ \A i \in Slots : T[i].key # None => Counted(T, ob, n, i)

\* The mount numbers: there is a mount to be made only if the volume was
\* registered or formatted since the last, and an object carries its own.
Eras ==
    /\ fs.fs_type => fs.registered /\ fs.id = era
    /\ Fsid = era /\ era <= mounts
    /\ fs.registered /\ ~fs.fs_type => era < mounts
    /\ \A o \in Objects : objs[o].fs => objs[o].id = objs[o].era /\ objs[o].era <= era

IInv ==
    /\ TypeOK
    /\ Eras
    /\ fs.fs_type => Sound(Files, objs, fs.id, exists)

(***************************************************************************)
(* The table, one operation at a time.                                     *)
(***************************************************************************)
LEMMA HoldersFinite ==
    ASSUME NEW ob, NEW n, NEW i
    PROVE  /\ IsFiniteSet(HoldersIn(ob, n, i))
           /\ Cardinality(HoldersIn(ob, n, i)) \in Nat
           /\ Cardinality(HoldersIn(ob, n, i)) < WriteMark
<1>1. HoldersIn(ob, n, i) \in SUBSET Objects
  BY DEF HoldersIn, Valid
<1>2. IsFiniteSet(Objects) /\ Cardinality(Objects) < WriteMark /\ WriteMark \in Nat
  BY LockAssumption
<1>3. /\ IsFiniteSet(HoldersIn(ob, n, i))
      /\ Cardinality(HoldersIn(ob, n, i)) <= Cardinality(Objects)
  BY <1>1, <1>2, FS_Subset
<1>4. Cardinality(HoldersIn(ob, n, i)) \in Nat /\ Cardinality(Objects) \in Nat
  BY <1>2, <1>3, FS_CardinalityType
<1>. QED  BY <1>2, <1>3, <1>4

\* An entry that is taken for k is the one of k, or a blank one if k has none.
LEMMA TakesSlot ==
    ASSUME NEW T \in TableType, NEW k \in Keys, NEW i \in Slots, Takes(T, k, i)
    PROVE  /\ T[i].key = k \/ (T[i].key = None /\ SlotsOf(T, k) = {})
           /\ \A j \in Slots : T[j].key = k => T[i].key = k
BY DEF Takes, IsFirst, SlotsOf

\* The object o, which was closed, is open on k and counted by i.
LEMMA AttachSound ==
    ASSUME NEW T \in TableType, NEW ob \in ObjsType, NEW n \in Nat, NEW ex, NEW ex2,
           Sound(T, ob, n, ex), ex \subseteq ex2,
           NEW o \in Objects, ~ob[o].fs,
           NEW k \in Keys, k \in Places => k \in ex2,
           NEW i \in Slots, Takes(T, k, i),
           NEW acc \in {0, 1},
           acc = 1 => SlotsOf(T, k) = {} /\ k \in Places,
           \A j \in SlotsOf(T, k) : T[j].ctr # WriteMark,
           NEW e \in Nat, NEW w \in BOOLEAN, w = (acc = 1),
           NEW ob2, ob2 = [ob EXCEPT ![o] = [fs |-> TRUE, id |-> n, lockid |-> i, key |-> k,
                                             write |-> w, era |-> e]]
    PROVE  Sound(inc_lock(T, k, acc, i), ob2, n, ex2) /\ inc_lock(T, k, acc, i) \in TableType
<1>. DEFINE T2 == inc_lock(T, k, acc, i)
<1>0. None \notin Keys /\ Root \notin Keys /\ WriteMark \in Nat
  BY LockAssumption
<1>1. T[i].key = k \/ (T[i].key = None /\ SlotsOf(T, k) = {})
  BY TakesSlot
<1>2. \A j \in Slots : T[j].key = k => T[i].key = k
  BY TakesSlot
<1>3. /\ T2[i] = [key |-> k, ctr |-> IF acc = 1 THEN WriteMark ELSE Count(T, k, i) + 1]
      /\ \A j \in Slots : j # i => T2[j] = T[j]
  BY DEF inc_lock, TableType
<1>4. /\ ob2[o] = [fs |-> TRUE, id |-> n, lockid |-> i, key |-> k, write |-> w, era |-> e]
      /\ \A p \in Objects : p # o => ob2[p] = ob[p]
  BY DEF ObjsType
<1>41. ob2[o].lockid = i
  BY <1>4
<1>42. ob2[o].write <=> acc = 1
  <2>1. ob2[o].write = w
    BY <1>4
  <2>. QED  BY <2>1
<1>43. \A p \in Objects : p # o => ob2[p].lockid = ob[p].lockid /\ (ob2[p].write <=> ob[p].write)
  BY <1>4, Zenon
<1>5. Valid(ob2, n) = Valid(ob, n) \cup {o} /\ o \notin Valid(ob, n)
  BY <1>4 DEF Valid
<1>6. HoldersIn(ob2, n, i) = HoldersIn(ob, n, i) \cup {o} /\ o \notin HoldersIn(ob, n, i)
  BY <1>41, <1>43, <1>5, Zenon DEF HoldersIn, Valid
<1>7. \A j \in Slots : j # i => HoldersIn(ob2, n, j) = HoldersIn(ob, n, j)
  BY <1>41, <1>43, <1>5, Zenon DEF HoldersIn, Valid
<1>8. T[i].key = None => HoldersIn(ob, n, i) = {}
  <2>. SUFFICES ASSUME T[i].key = None, NEW p \in HoldersIn(ob, n, i) PROVE FALSE
    OBVIOUS
  <2>1. p \in Valid(ob, n) /\ ob[p].lockid = i /\ Held(T, ob, n, p)
    BY DEF HoldersIn, Sound
  <2>. QED  BY <2>1, <1>0 DEF Held, Slots
<1>9. Single(T2)
  BY <1>0, <1>1, <1>2, <1>3 DEF Sound, Single
<1>10. Listed(T2, ex2)
  BY <1>3 DEF Sound, Listed
<1>11. ASSUME NEW p \in Valid(ob2, n) PROVE Held(T2, ob2, n, p)
  <2>1. CASE p = o
    BY <2>1, <1>3, <1>4 DEF Held
  <2>2. CASE p # o
    <3>1. p \in Valid(ob, n) /\ ob2[p] = ob[p]
      BY <2>2, <1>4, <1>5, <1>11 DEF Valid
    <3>2. Held(T, ob, n, p)
      BY <3>1 DEF Sound
    <3>3. \A j \in Slots : T[j].key \in Keys => T2[j].key = T[j].key
      BY <1>0, <1>1, <1>3
    <3>. QED  BY <3>1, <3>2, <3>3 DEF Held
  <2>. QED  BY <2>1, <2>2
<1>12. Counted(T2, ob2, n, i)
  <2>1. CASE acc = 1
    <3>1. T[i].key = None
      BY <2>1, <1>1 DEF SlotsOf
    <3>2. HoldersIn(ob2, n, i) = {o}
      BY <3>1, <1>6, <1>8
    <3>3. T2[i].ctr = WriteMark /\ T2[i].key \in Places
      BY <2>1, <1>3
    <3>4. \A p, r \in HoldersIn(ob2, n, i) : p = r
      BY <3>2
    <3>. QED  BY <3>3, <3>4 DEF Counted
  <2>2. CASE acc = 0
    <3>1. Count(T, k, i) = Cardinality(HoldersIn(ob, n, i))
      <4>1. CASE T[i].key = k
        <5>1. T[i].ctr # WriteMark
          BY <4>1 DEF SlotsOf
        <5>2. Counted(T, ob, n, i)
          BY <4>1, <1>0 DEF Sound
        <5>. QED  BY <4>1, <5>1, <5>2 DEF Counted, Count
      <4>2. CASE T[i].key # k
        BY <4>2, <1>1, <1>8, FS_EmptySet DEF Count
      <4>. QED  BY <4>1, <4>2
    <3>2. Cardinality(HoldersIn(ob2, n, i)) = Count(T, k, i) + 1
      <4>1. IsFiniteSet(HoldersIn(ob, n, i))
        BY HoldersFinite
      <4>2. Cardinality(HoldersIn(ob, n, i) \cup {o}) = Cardinality(HoldersIn(ob, n, i)) + 1
        BY <4>1, <1>6, FS_AddElement
      <4>. QED  BY <3>1, <4>2, <1>6
    <3>3. \A p \in HoldersIn(ob, n, i) : ~ob[p].write
      <4>1. CASE T[i].key = k
        <5>1. T[i].ctr # WriteMark
          BY <4>1 DEF SlotsOf
        <5>2. Counted(T, ob, n, i)
          BY <4>1, <1>0 DEF Sound
        <5>. QED  BY <5>1, <5>2 DEF Counted
      <4>. QED  BY <4>1, <1>1, <1>8
    <3>4. \A p \in HoldersIn(ob2, n, i) : ~ob2[p].write
      <4>1. o \in Objects /\ ~ob2[o].write
        BY <2>2, <1>42
      <4>2. \A p \in HoldersIn(ob, n, i) : p \in Objects /\ p # o
        BY <1>6 DEF HoldersIn, Valid
      <4>. QED  BY <3>3, <4>1, <4>2, <1>43, <1>6, Zenon
    <3>5. T2[i].ctr = Count(T, k, i) + 1
      BY <2>2, <1>3
    <3>. QED  BY <3>2, <3>4, <3>5 DEF Counted
  <2>. QED  BY <2>1, <2>2
<1>13. ASSUME NEW j \in Slots, j # i, T2[j].key # None PROVE Counted(T2, ob2, n, j)
  <2>1. T2[j] = T[j] /\ HoldersIn(ob2, n, j) = HoldersIn(ob, n, j) /\ Counted(T, ob, n, j)
    BY <1>3, <1>7, <1>13 DEF Sound
  <2>2. \A p \in HoldersIn(ob, n, j) : ob2[p] = ob[p]
    BY <1>4 DEF HoldersIn, Valid
  <2>. QED  BY <2>1, <2>2 DEF Counted
<1>14. T2[i].ctr \in 0 .. WriteMark
  <2>1. CASE acc = 1
    BY <2>1, <1>0, <1>3
  <2>2. CASE acc = 0
    <3>1. Count(T, k, i) \in Nat
      BY FS_EmptySet DEF Count, TableType
    <3>2. T2[i].ctr = Count(T, k, i) + 1
      BY <2>2, <1>3
    <3>3. T2[i].ctr = Cardinality(HoldersIn(ob2, n, i)) \/ T2[i].ctr = WriteMark
      BY <1>12 DEF Counted
    <3>. QED  BY <1>0, <3>1, <3>2, <3>3, HoldersFinite
  <2>. QED  BY <2>1, <2>2
<1>15. T2 \in TableType
  BY <1>3, <1>14 DEF inc_lock, TableType
<1>. QED  BY <1>9, <1>10, <1>11, <1>12, <1>13, <1>15 DEF Sound

\* The object o, which an entry counts, is closed.
LEMMA DetachSound ==
    ASSUME NEW T \in TableType, NEW ob \in ObjsType, NEW n \in Nat, NEW ex,
           Sound(T, ob, n, ex),
           NEW o \in Objects, ob[o].fs, ob[o].id = n, ob[o].key \in Keys,
           NEW ob2, ob2 = [ob EXCEPT ![o] = Closed]
    PROVE  /\ Sound(dec_lock(T, ob[o].lockid), ob2, n, ex)
           /\ dec_lock(T, ob[o].lockid) \in TableType
<1>. DEFINE i == ob[o].lockid
            T2 == dec_lock(T, i)
            H == HoldersIn(ob, n, i)
<1>0. None \notin Keys /\ Root \notin Keys /\ WriteMark \in Nat
  BY LockAssumption
<1>1. i \in Slots /\ T[i].key = ob[o].key /\ T[i].key # None
  <2>1. o \in Valid(ob, n)
    BY DEF Valid
  <2>2. Held(T, ob, n, o)
    BY <2>1 DEF Sound
  <2>. QED  BY <2>2, <1>0 DEF Held
<1>2. Counted(T, ob, n, i) /\ o \in H
  BY <1>1 DEF Sound, HoldersIn, Valid
<1>3. /\ ~ob2[o].fs
      /\ \A p \in Objects : p # o => ob2[p] = ob[p]
  BY DEF ObjsType, Closed
<1>4. Valid(ob2, n) = Valid(ob, n) \ {o}
  BY <1>3 DEF Valid
<1>5. \A p \in Objects : p # o => ob2[p].lockid = ob[p].lockid /\ (ob2[p].write <=> ob[p].write)
  BY <1>3, Zenon
<1>6. HoldersIn(ob2, n, i) = H \ {o}
  BY <1>4, <1>5, Zenon DEF HoldersIn, Valid
<1>7. \A j \in Slots : j # i => HoldersIn(ob2, n, j) = HoldersIn(ob, n, j)
  BY <1>4, <1>5, Zenon DEF HoldersIn, Valid
<1>8. IsFiniteSet(H) /\ Cardinality(H) \in Nat /\ Cardinality(H) < WriteMark
  BY HoldersFinite
<1>9. /\ IsFiniteSet(H \ {o}) /\ Cardinality(H \ {o}) = Cardinality(H) - 1
      /\ Cardinality(H \ {o}) \in Nat
  BY <1>2, <1>8, FS_RemoveElement, FS_CardinalityType
<1>10. /\ \A j \in Slots : j # i => T2[j] = T[j]
       /\ \/ T2[i] = BlankSlot /\ H \ {o} = {}
          \/ /\ T2[i].key = T[i].key /\ T2[i].ctr = Cardinality(H) - 1
             /\ \A p \in H : ~ob[p].write
       /\ T2 \in TableType
  <2>1. T2 = [T EXCEPT ![i] = BlankSlot] \/ T2 = [T EXCEPT ![i] = [T[i] EXCEPT !.ctr = T[i].ctr - 1]]
    BY DEF dec_lock
  <2>2. T2 \in TableType
    <3>1. BlankSlot \in [key : Keys \cup {None}, ctr : 0 .. WriteMark]
      BY <1>0 DEF BlankSlot
    <3>2. T[i] \in [key : Keys \cup {None}, ctr : 0 .. WriteMark]
      BY <1>1 DEF TableType
    <3>3. T[i].ctr # 0 => T[i].ctr - 1 \in 0 .. WriteMark
      BY <1>0, <3>2
    <3>4. T2 = [T EXCEPT ![i] = BlankSlot] \/ (T[i].ctr # 0 /\ T2 = [T EXCEPT ![i] = [T[i] EXCEPT !.ctr = T[i].ctr - 1]])
      BY DEF dec_lock
    <3>5. [T[i] EXCEPT !.ctr = T[i].ctr - 1] = [key |-> T[i].key, ctr |-> T[i].ctr - 1]
      BY <3>2
    <3>6. CASE T2 = [T EXCEPT ![i] = BlankSlot]
      BY <3>1, <3>6 DEF TableType
    <3>7. CASE T[i].ctr # 0 /\ T2 = [T EXCEPT ![i] = [T[i] EXCEPT !.ctr = T[i].ctr - 1]]
      BY <3>2, <3>3, <3>5, <3>7 DEF TableType
    <3>. QED  BY <3>4, <3>6, <3>7
  <2>3. CASE T[i].ctr = WriteMark
    <3>1. \A p, r \in H : p = r
      BY <2>3, <1>2, <1>8 DEF Counted
    <3>2. T2 = [T EXCEPT ![i] = BlankSlot]
      BY <2>3 DEF dec_lock
    <3>. QED  BY <3>1, <3>2, <2>2, <1>1, <1>2 DEF TableType
  <2>4. CASE T[i].ctr # WriteMark
    <3>1. T[i].ctr = Cardinality(H) /\ \A p \in H : ~ob[p].write
      BY <2>4, <1>2 DEF Counted
    <3>2. Cardinality(H) # 0
      BY <1>9, <1>8
    <3>3. CASE Cardinality(H) = 1
      <4>1. H \ {o} = {}
        BY <3>3, <1>9, FS_EmptySet
      <4>2. T2 = [T EXCEPT ![i] = BlankSlot]
        BY <2>4, <3>1, <3>3 DEF dec_lock
      <4>. QED  BY <4>1, <4>2, <2>2, <1>1 DEF TableType
    <3>4. CASE Cardinality(H) # 1
      <4>1. T2 = [T EXCEPT ![i] = [T[i] EXCEPT !.ctr = T[i].ctr - 1]]
        <5>1. T[i].ctr # WriteMark /\ T[i].ctr # 0 /\ T[i].ctr - 1 # 0
          BY <2>4, <3>1, <3>2, <3>4, <1>8
        <5>. QED  BY <5>1 DEF dec_lock
      <4>2. T[i] \in [key : Keys \cup {None}, ctr : 0 .. WriteMark]
        BY <1>1 DEF TableType
      <4>. QED  BY <4>1, <4>2, <3>1, <2>2, <1>1 DEF TableType
    <3>. QED  BY <3>3, <3>4
  <2>. QED  BY <2>3, <2>4
<1>11. Single(T2) /\ Listed(T2, ex)
  <2>1. \A j \in Slots : T2[j].key = T[j].key \/ T2[j].key = None
    BY <1>10 DEF BlankSlot
  <2>. QED  BY <2>1, <1>0 DEF Sound, Single, Listed, Keys
<1>12. ASSUME NEW p \in Valid(ob2, n) PROVE Held(T2, ob2, n, p)
  <2>1. p \in Valid(ob, n) /\ p # o /\ ob2[p] = ob[p] /\ Held(T, ob, n, p)
    BY <1>3, <1>4, <1>12 DEF Sound, Valid
  <2>2. CASE ob[p].key = Root
    BY <2>1, <2>2, <1>0 DEF Held
  <2>3. CASE ob[p].lockid = i
    <3>1. p \in H \ {o}
      BY <2>1, <2>3 DEF HoldersIn
    <3>. QED  BY <3>1, <2>1, <2>3, <1>1, <1>10 DEF Held
  <2>4. CASE ob[p].lockid # i /\ ob[p].key # Root
    BY <2>1, <2>4, <1>10 DEF Held
  <2>. QED  BY <2>2, <2>3, <2>4
<1>13. ASSUME NEW j \in Slots, T2[j].key # None PROVE Counted(T2, ob2, n, j)
  <2>1. CASE j = i
    <3>1. T2[i].ctr = Cardinality(H) - 1 /\ \A p \in H : ~ob[p].write
      BY <2>1, <1>10, <1>13 DEF BlankSlot
    <3>2. \A p \in H \ {o} : ~ob2[p].write
      <4>1. \A p \in H : p \in Objects
        BY DEF HoldersIn, Valid
      <4>. QED  BY <3>1, <4>1, <1>5, Zenon
    <3>. QED  BY <2>1, <3>1, <3>2, <1>6, <1>9 DEF Counted
  <2>2. CASE j # i
    <3>1. T2[j] = T[j] /\ HoldersIn(ob2, n, j) = HoldersIn(ob, n, j) /\ Counted(T, ob, n, j)
      BY <2>2, <1>7, <1>10, <1>13 DEF Sound
    <3>2. \A p \in HoldersIn(ob, n, j) : p \in Objects /\ p # o
      BY <2>2 DEF HoldersIn, Valid
    <3>3. \A p \in HoldersIn(ob, n, j) : ob2[p] = ob[p]
      BY <3>2, <1>3
    <3>. QED  BY <3>1, <3>3 DEF Counted
  <2>. QED  BY <2>1, <2>2
<1>. QED  BY <1>10, <1>11, <1>12, <1>13 DEF Sound

\* Only what valid objects are, and what exists, can disturb a sound table.
LEMMA SameSound ==
    ASSUME NEW T \in TableType, NEW ob \in ObjsType, NEW n \in Nat, NEW ex, NEW ex2,
           Sound(T, ob, n, ex), Listed(T, ex2),
           NEW o \in Objects, o \notin Valid(ob, n) \/ ob[o].key = Root,
           NEW r, NEW ob2, ob2 = [ob EXCEPT ![o] = r],
           ~r.fs \/ (r.key = Root /\ r.lockid = 0 /\ ~r.write)
    PROVE  Sound(T, ob2, n, ex2)
<1>0. Root \notin Keys
  BY LockAssumption
<1>1. ob2[o] = r /\ \A p \in Objects : p # o => ob2[p] = ob[p]
  BY DEF ObjsType
<1>2. \A p \in Valid(ob2, n) : Held(T, ob2, n, p)
  <2>. SUFFICES ASSUME NEW p \in Valid(ob2, n) PROVE Held(T, ob2, n, p)
    OBVIOUS
  <2>1. CASE p = o
    BY <2>1, <1>1 DEF Valid, Held
  <2>2. CASE p # o
    <3>1. p \in Valid(ob, n) /\ ob2[p] = ob[p]
      BY <2>2, <1>1 DEF Valid
    <3>2. Held(T, ob, n, p)
      BY <3>1 DEF Sound
    <3>. QED  BY <3>1, <3>2 DEF Held
  <2>. QED  BY <2>1, <2>2
<1>3. ASSUME NEW i \in Slots PROVE HoldersIn(ob2, n, i) = HoldersIn(ob, n, i)
  <2>1. \A p \in Objects : p # o => (p \in HoldersIn(ob2, n, i) <=> p \in HoldersIn(ob, n, i))
    BY <1>1 DEF HoldersIn, Valid
  <2>2. o \notin HoldersIn(ob, n, i)
    <3>1. CASE o \notin Valid(ob, n)
      BY <3>1 DEF HoldersIn
    <3>2. CASE o \in Valid(ob, n) /\ ob[o].key = Root
      <4>1. Held(T, ob, n, o)
        BY <3>2 DEF Sound
      <4>. QED  BY <4>1, <3>2, <1>0 DEF Held, HoldersIn, Slots
    <3>. QED  BY <3>1, <3>2
  <2>3. o \notin HoldersIn(ob2, n, i)
    BY <1>1 DEF HoldersIn, Valid, Slots
  <2>4. HoldersIn(ob2, n, i) \subseteq Objects /\ HoldersIn(ob, n, i) \subseteq Objects
    BY DEF HoldersIn, Valid
  <2>5. ASSUME NEW p PROVE p \in HoldersIn(ob2, n, i) <=> p \in HoldersIn(ob, n, i)
    <3>1. CASE p = o
      BY <3>1, <2>2, <2>3
    <3>2. CASE p # o
      BY <3>2, <2>1, <2>4
    <3>. QED  BY <3>1, <3>2
  <2>. QED  BY <2>5, Zenon
<1>4. ASSUME NEW i \in Slots, T[i].key # None PROVE Counted(T, ob2, n, i)
  <2>1. Counted(T, ob, n, i)
    BY <1>4 DEF Sound
  <2>2. \A p \in HoldersIn(ob, n, i) : ob2[p].write <=> ob[p].write
    <3>1. \A p \in HoldersIn(ob, n, i) : p \in Objects
      BY DEF HoldersIn, Valid
    <3>2. o \in HoldersIn(ob, n, i) => FALSE
      <4>1. o \in HoldersIn(ob, n, i) => o \in Valid(ob, n) /\ ob[o].lockid = i
        BY DEF HoldersIn
      <4>2. o \in Valid(ob, n) => Held(T, ob, n, o)
        BY DEF Sound
      <4>. QED  BY <4>1, <4>2, <1>0 DEF Held, Slots
    <3>. QED  BY <3>1, <3>2, <1>1, Zenon
  <2>. QED  BY <2>1, <2>2, <1>3 DEF Counted
<1>. QED  BY <1>2, <1>4 DEF Sound

\* The places that exist change, but for those that are locked.
LEMMA PlacesSound ==
    ASSUME NEW T, NEW ob, NEW n, NEW ex, NEW ex2, Sound(T, ob, n, ex), Listed(T, ex2)
    PROVE  Sound(T, ob, n, ex2)
BY DEF Sound

\* A table that was cleared is sound for a mount no object has seen.
LEMMA BlankSound ==
    ASSUME NEW T, NEW ob, NEW n, NEW ex, \A i \in Slots : T[i] = BlankSlot, Valid(ob, n) = {}
    PROVE  Sound(T, ob, n, ex)
<1>1. None \notin Places
  BY LockAssumption DEF Keys
<1>. QED  BY <1>1 DEF Sound, Single, Listed, BlankSlot

\* The lock of an f_open that failed: no object will give it back.
LEMMA LeakSound ==
    ASSUME NEW T \in TableType, NEW ob \in ObjsType, NEW n \in Nat, NEW ex,
           Sound(T, ob, n, ex),
           NEW k \in Places, k \in ex, SlotsOf(T, k) = {},
           NEW i \in Slots, Takes(T, k, i)
    PROVE  Sound(inc_lock(T, k, 1, i), ob, n, ex) /\ inc_lock(T, k, 1, i) \in TableType
<1>. DEFINE T2 == inc_lock(T, k, 1, i)
<1>0. None \notin Keys /\ Root \notin Keys /\ WriteMark \in Nat /\ k \in Keys
  BY LockAssumption DEF Keys
<1>1. T[i].key = None /\ \A j \in Slots : T[j].key # k
  BY <1>0, TakesSlot DEF SlotsOf
<1>2. /\ T2[i] = [key |-> k, ctr |-> WriteMark]
      /\ \A j \in Slots : j # i => T2[j] = T[j]
      /\ T2 \in TableType
  BY <1>0 DEF inc_lock, TableType
<1>3. HoldersIn(ob, n, i) = {}
  <2>. SUFFICES ASSUME NEW p \in HoldersIn(ob, n, i) PROVE FALSE
    OBVIOUS
  <2>1. p \in Valid(ob, n) /\ ob[p].lockid = i /\ Held(T, ob, n, p)
    BY DEF HoldersIn, Sound
  <2>. QED  BY <2>1, <1>0, <1>1 DEF Held, Slots
<1>4. Single(T2) /\ Listed(T2, ex)
  BY <1>1, <1>2 DEF Sound, Single, Listed
<1>5. ASSUME NEW p \in Valid(ob, n) PROVE Held(T2, ob, n, p)
  <2>1. Held(T, ob, n, p)
    BY <1>5 DEF Sound
  <2>. QED  BY <2>1, <1>0, <1>1, <1>2 DEF Held
<1>6. ASSUME NEW j \in Slots, T2[j].key # None PROVE Counted(T2, ob, n, j)
  <2>1. CASE j = i
    BY <2>1, <1>2, <1>3 DEF Counted
  <2>2. CASE j # i
    <3>1. T2[j] = T[j] /\ Counted(T, ob, n, j)
      BY <2>2, <1>2, <1>6 DEF Sound
    <3>. QED  BY <3>1 DEF Counted
  <2>. QED  BY <2>1, <2>2
<1>. QED  BY <1>2, <1>4, <1>5, <1>6 DEF Sound

(***************************************************************************)
(* Finding the volume.                                                     *)
(***************************************************************************)
LEMMA FindSound ==
    ASSUME IInv, fs.registered
    PROVE  /\ Sound(Table, objs, Id, exists)
           /\ Table \in TableType /\ objs \in ObjsType
           /\ Id = Era /\ Era \in Nat /\ Era <= mounts
           /\ ~fs.fs_type => Valid(objs, Id) = {} /\ Era = era + 1
           /\ ~fs.fs_type => NextId = Era
           /\ fs.fs_type => Era = era
<1>1. /\ Files \in TableType /\ objs \in ObjsType /\ era \in Nat /\ fs.fs_type \in BOOLEAN
      /\ mounts \in 0 .. MaxMounts /\ Fsid \in Nat
  BY DEF IInv, TypeOK, TableType, ObjsType
<1>2. MaxMounts \in Nat /\ IdMod \in Nat /\ MaxMounts < IdMod /\ WriteMark \in Nat
  BY LockAssumption
<1>3. CASE fs.fs_type
  BY <1>1, <1>3 DEF IInv, Eras, Table, Id, Era
<1>4. CASE ~fs.fs_type
  <2>1. era + 1 \in Nat /\ era + 1 < IdMod /\ Fsid = era /\ era + 1 <= mounts
    BY <1>1, <1>2, <1>4 DEF IInv, Eras
  <2>2. NextId = era + 1
    <3>1. \A a \in Nat : a < IdMod => a % IdMod = a
      BY <1>2
    <3>. QED  BY <2>1, <3>1 DEF NextId
  <2>3. Id = era + 1 /\ Era = era + 1 /\ Table = clear_lock(Files)
    BY <1>4, <2>2 DEF Id, Era, Table
  <2>4. Table \in TableType /\ \A i \in Slots : Table[i] = BlankSlot
    BY <2>3, <1>2 DEF TableType, clear_lock, BlankSlot
  <2>5. Valid(objs, Id) = {}
    <3>. SUFFICES ASSUME NEW o \in Objects, objs[o].fs, objs[o].id = Id PROVE FALSE
      BY DEF Valid
    <3>1. objs[o].id = objs[o].era /\ objs[o].era <= era
      BY DEF IInv, Eras
    <3>2. objs[o].era \in Nat
      BY <1>1 DEF ObjsType
    <3>3. objs[o].era = era + 1
      BY <3>1, <2>3
    <3>4. \A a, b \in Nat : a <= b => a # b + 1
      OBVIOUS
    <3>. QED  BY <3>1, <3>2, <3>3, <3>4, <1>1
  <2>6. Sound(Table, objs, Id, exists)
    BY <2>4, <2>5, BlankSound
  <2>. QED  BY <1>1, <1>4, <2>1, <2>2, <2>3, <2>4, <2>5, <2>6
<1>. QED  BY <1>1, <1>3, <1>4

\* An object is left alone, closed, or opened on this mount.
ObjectsKept ==
    \A o \in Objects :
        \/ objs'[o] = objs[o]
        \/ ~objs'[o].fs
        \/ objs'[o].id = Id /\ objs'[o].era = Era

\* What every call that finds the volume has in common.
LEMMA FoundInv ==
    ASSUME IInv, find_volume, mounts' = mounts,
           Files' \in TableType, objs' \in ObjsType, exists' \subseteq Places,
           Sound(Files', objs', Id, exists'),
           ObjectsKept
    PROVE  IInv'
<1>1. /\ fs \in [registered : BOOLEAN, fs_type : BOOLEAN, id : Nat] /\ era \in Nat
      /\ mounts \in 0 .. MaxMounts /\ Fsid = era
  BY DEF IInv, TypeOK, Eras
<1>2. /\ Id = Era /\ Era \in Nat /\ Era <= mounts /\ (~fs.fs_type => Era = era + 1 /\ NextId = Era)
      /\ (fs.fs_type => Era = era)
  BY FindSound DEF find_volume
<1>3. fs' = [fs EXCEPT !.fs_type = TRUE, !.id = Id] /\ era' = Era
  BY DEF find_volume
<1>4. fs' \in [registered : BOOLEAN, fs_type : BOOLEAN, id : Nat]
  BY <1>1, <1>2, <1>3
<1>5. fs'.registered /\ fs'.fs_type /\ fs'.id = Era
  BY <1>1, <1>2, <1>3 DEF find_volume
<1>6. Fsid' = Era
  BY <1>1, <1>2 DEF find_volume
<1>7. era <= Era
  BY <1>1, <1>2
<1>8. ASSUME NEW o \in Objects, objs'[o].fs
      PROVE  objs'[o].id = objs'[o].era /\ objs'[o].era <= Era
  <2>1. CASE objs'[o] = objs[o]
    <3>1. objs[o].id = objs[o].era /\ objs[o].era <= era
      BY <2>1, <1>8 DEF IInv, Eras
    <3>2. objs[o].era \in Nat
      BY DEF IInv, TypeOK
    <3>. QED  BY <2>1, <3>1, <3>2, <1>1, <1>2, <1>7
  <2>2. CASE objs'[o].id = Id /\ objs'[o].era = Era
    BY <2>2, <1>2
  <2>. QED  BY <2>1, <2>2, <1>8 DEF ObjectsKept
<1>9. Eras'
  BY <1>2, <1>3, <1>5, <1>6, <1>8 DEF Eras
<1>10. TypeOK'
  BY <1>1, <1>2, <1>3, <1>4, <1>6 DEF TypeOK, TableType, ObjsType
<1>11. Sound(Files', objs', fs'.id, exists')
  BY <1>2, <1>5
<1>. QED  BY <1>9, <1>10, <1>11 DEF IInv

(***************************************************************************)
(* The steps.                                                              *)
(***************************************************************************)
LEMMA InitInv == Init => IInv
<1>. SUFFICES ASSUME Init PROVE IInv
  OBVIOUS
<1>1. LockCount \in Nat /\ WriteMark \in Nat /\ MaxMounts \in Nat
  BY LockAssumption
<1>2. TypeOK
  BY <1>1 DEF Init, TypeOK, Closed, BlankSlot
<1>. QED  BY <1>2 DEF Init, IInv, Eras, Closed

LEMMA RefusedInv == ASSUME IInv, Refused PROVE IInv'
<1>1. find_volume /\ fs.registered /\ Files' = Table /\ objs' = objs /\ exists' = exists /\ mounts' = mounts
  BY DEF Refused, find_volume
<1>2. exists \subseteq Places
  BY DEF IInv, TypeOK
<1>3. Sound(Table, objs, Id, exists) /\ Table \in TableType /\ objs \in ObjsType
  BY <1>1, FindSound
<1>4. Sound(Files', objs', Id, exists') /\ Files' \in TableType /\ objs' \in ObjsType
  BY <1>1, <1>3
<1>5. ObjectsKept
  <2>1. \A o \in Objects : objs'[o] = objs[o]
    BY <1>1
  <2>. QED  BY <2>1, Zenon DEF ObjectsKept
<1>6. exists' \subseteq Places
  BY <1>1, <1>2
<1>. QED  BY <1>1, <1>4, <1>5, <1>6, FoundInv, Zenon

LEMMA MountInv ==
    ASSUME IInv, NEW registered \in BOOLEAN, f_mount(registered)
    PROVE  IInv'
<1>1. fs' = [fs EXCEPT !.registered = registered, !.fs_type = FALSE]
  BY DEF f_mount
<1>2. fs \in [registered : BOOLEAN, fs_type : BOOLEAN, id : Nat] /\ era \in Nat
      /\ mounts \in 0 .. MaxMounts /\ MaxMounts \in Nat /\ WriteMark \in Nat
  BY LockAssumption DEF IInv, TypeOK
<1>3. fs' \in [registered : BOOLEAN, fs_type : BOOLEAN, id : Nat] /\ ~fs'.fs_type
  BY <1>1, <1>2
<1>4. mounts' = mounts + 1 /\ mounts' \in 0 .. MaxMounts /\ era' = era /\ Fsid' = Fsid /\ objs' = objs
  BY <1>2 DEF f_mount
<1>5. Files' \in [Slots -> [key : Keys \cup {None}, ctr : 0 .. WriteMark]]
  BY <1>2 DEF f_mount, clear_lock, BlankSlot, IInv, TypeOK
<1>6. TypeOK'
  BY <1>3, <1>4, <1>5 DEF f_mount, IInv, TypeOK
<1>7. Eras'
  BY <1>2, <1>3, <1>4 DEF IInv, Eras
<1>. QED  BY <1>3, <1>6, <1>7 DEF IInv

LEMMA MkfsInv == ASSUME IInv, f_mkfs PROVE IInv'
<1>1. fs' = [fs EXCEPT !.fs_type = FALSE]
  BY DEF f_mkfs
<1>2. fs \in [registered : BOOLEAN, fs_type : BOOLEAN, id : Nat] /\ era \in Nat
      /\ mounts \in 0 .. MaxMounts /\ MaxMounts \in Nat
  BY LockAssumption DEF IInv, TypeOK
<1>3. fs' \in [registered : BOOLEAN, fs_type : BOOLEAN, id : Nat] /\ ~fs'.fs_type
  BY <1>1, <1>2
<1>4. mounts' = mounts + 1 /\ mounts' \in 0 .. MaxMounts
  BY <1>2 DEF f_mkfs
<1>5. TypeOK'
  BY <1>3, <1>4 DEF f_mkfs, IInv, TypeOK
<1>6. Eras'
  BY <1>2, <1>3, <1>4 DEF f_mkfs, IInv, Eras
<1>. QED  BY <1>3, <1>5, <1>6 DEF IInv

\* Attached, to a file or to a directory.
LEMMA AttachedInv ==
    ASSUME IInv, find_volume, mounts' = mounts,
           NEW o \in Objects, ~objs[o].fs,
           NEW k \in Keys, exists' \subseteq Places, exists \subseteq exists',
           k \in Places => k \in exists',
           NEW i \in Slots, Takes(Table, k, i),
           NEW acc \in {0, 1},
           acc = 1 => SlotsOf(Table, k) = {} /\ k \in Places,
           \A j \in SlotsOf(Table, k) : Table[j].ctr # WriteMark,
           NEW w \in BOOLEAN, w = (acc = 1),
           Files' = inc_lock(Table, k, acc, i),
           Attached(o, k, i, w)
    PROVE  IInv'
<1>1. /\ Sound(Table, objs, Id, exists) /\ Table \in TableType /\ objs \in ObjsType
      /\ Id \in Nat /\ Era \in Nat
  BY FindSound DEF find_volume
<1>2. objs' = [objs EXCEPT ![o] = [fs |-> TRUE, id |-> Id, lockid |-> i, key |-> k,
                                   write |-> w, era |-> Era]]
  BY DEF Attached
<1>3. Sound(Files', objs', Id, exists') /\ Files' \in TableType
  BY <1>1, <1>2, AttachSound
<1>4. objs' \in ObjsType
  BY <1>1, <1>2 DEF ObjsType, Slots
<1>5. ObjectsKept
  <2>1. \A p \in Objects : objs'[p] = objs[p] \/ (objs'[p].id = Id /\ objs'[p].era = Era)
    BY <1>1, <1>2 DEF ObjsType
  <2>. QED  BY <2>1, Zenon DEF ObjectsKept
<1>6. Sound(Files', objs', Id, exists') /\ Files' \in TableType /\ objs' \in ObjsType
  BY <1>3, <1>4
<1>. QED  BY <1>5, <1>6, FoundInv, Zenon

LEMMA OpenInv ==
    ASSUME IInv, NEW o \in Objects, NEW k \in Places, NEW acc \in {0, 1}, NEW create \in BOOLEAN,
           create => acc = 1, NEW i \in Slots, f_open(o, k, acc, create, i)
    PROVE  IInv'
<1>1. /\ Sound(Table, objs, Id, exists) /\ Table \in TableType /\ objs \in ObjsType /\ Id \in Nat
  BY FindSound DEF f_open, find_volume
<1>2. /\ exists' = exists \cup {k} /\ exists' \subseteq Places /\ mounts' = mounts /\ k \in Keys
      /\ find_volume /\ ~objs[o].fs /\ Takes(Table, k, i) /\ Files' = inc_lock(Table, k, acc, i)
  BY DEF f_open, IInv, TypeOK, Keys
<1>3. k \in exists => chk_lock(Table, k, acc) = "ok"
  BY DEF f_open, OpenResult
<1>4. k \notin exists => SlotsOf(Table, k) = {}
  BY <1>1 DEF Sound, Listed, SlotsOf
<1>5. acc = 1 => SlotsOf(Table, k) = {}
  BY <1>3, <1>4 DEF chk_lock
<1>6. \A j \in SlotsOf(Table, k) : Table[j].ctr # WriteMark
  BY <1>3, <1>4 DEF chk_lock
<1>7. CASE Attached(o, k, i, acc = 1)
  <2>. DEFINE w == acc = 1
  <2>1. w \in BOOLEAN /\ w = (acc = 1) /\ Attached(o, k, i, w)
    BY <1>7
  <2>. HIDE DEF w
  <2>. QED  BY <1>2, <1>5, <1>6, <2>1, AttachedInv
<1>8. CASE acc = 1 /\ k \in exists /\ UNCHANGED objs
  <2>1. exists' = exists
    BY <1>2, <1>8
  <2>2. Sound(Files', objs, Id, exists) /\ Files' \in TableType
    BY <1>1, <1>2, <1>5, <1>8, LeakSound
  <2>3. Sound(Files', objs', Id, exists') /\ objs' \in ObjsType
    BY <1>1, <1>8, <2>1, <2>2
  <2>4. ObjectsKept
    <3>1. \A p \in Objects : objs'[p] = objs[p]
      BY <1>8
    <3>. QED  BY <3>1, Zenon DEF ObjectsKept
  <2>. QED  BY <1>2, <2>2, <2>3, <2>4, FoundInv, Zenon
<1>. QED  BY <1>7, <1>8 DEF f_open

LEMMA OpenDirInv ==
    ASSUME IInv, NEW o \in Objects, NEW k \in Tables, NEW i \in Slots, f_opendir(o, k, i)
    PROVE  IInv'
<1>1. Sound(Table, objs, Id, exists) /\ Table \in TableType
  BY FindSound DEF f_opendir, find_volume
<1>2. /\ find_volume /\ mounts' = mounts /\ exists' = exists /\ exists \subseteq Places
      /\ k \in Keys /\ k \notin Places /\ None \notin Keys
      /\ ~objs[o].fs /\ Takes(Table, k, i) /\ Files' = inc_lock(Table, k, 0, i)
      /\ Attached(o, k, i, FALSE)
  BY LockAssumption DEF f_opendir, IInv, TypeOK, Keys
<1>3. ASSUME NEW j \in SlotsOf(Table, k) PROVE Table[j].ctr # WriteMark
  <2>1. j \in Slots /\ Table[j].key = k
    BY <1>3 DEF SlotsOf
  <2>2. Counted(Table, objs, Id, j)
    BY <1>1, <1>2, <2>1 DEF Sound
  <2>3. Cardinality(HoldersIn(objs, Id, j)) < WriteMark
        /\ Cardinality(HoldersIn(objs, Id, j)) \in Nat /\ WriteMark \in Nat
    BY HoldersFinite, LockAssumption
  <2>. QED  BY <1>2, <2>1, <2>2, <2>3 DEF Counted
<1>4. FALSE \in BOOLEAN /\ FALSE = (0 = 1)
  OBVIOUS
<1>. QED  BY <1>2, <1>3, <1>4, AttachedInv

LEMMA OpenRootInv == ASSUME IInv, NEW o \in Objects, OpenRoot(o) PROVE IInv'
<1>1. /\ Sound(Table, objs, Id, exists) /\ Table \in TableType /\ objs \in ObjsType
      /\ Id \in Nat /\ Era \in Nat
  BY FindSound DEF OpenRoot, find_volume
<1>2. /\ find_volume /\ mounts' = mounts /\ exists' = exists /\ exists \subseteq Places
      /\ ~objs[o].fs /\ Files' = Table
  BY DEF OpenRoot, IInv, TypeOK
<1>. DEFINE r == [fs |-> TRUE, id |-> Id, lockid |-> 0, key |-> Root, write |-> FALSE, era |-> Era]
<1>3. objs' = [objs EXCEPT ![o] = r]
  BY DEF OpenRoot, Attached
<1>4. Listed(Table, exists) /\ o \notin Valid(objs, Id)
  BY <1>1, <1>2 DEF Sound, Valid
<1>5. r.key = Root /\ r.lockid = 0 /\ ~r.write
  OBVIOUS
<1>6. Sound(Files', objs', Id, exists')
  <2>. HIDE DEF r
  <2>. QED  BY <1>1, <1>2, <1>3, <1>4, <1>5, SameSound
<1>7. objs' \in ObjsType
  BY <1>1, <1>3, LockAssumption DEF ObjsType
<1>8. ObjectsKept
  <2>1. \A p \in Objects : objs'[p] = objs[p] \/ (objs'[p].id = Id /\ objs'[p].era = Era)
    BY <1>1, <1>3 DEF ObjsType
  <2>. QED  BY <2>1, Zenon DEF ObjectsKept
<1>9. Files' \in TableType /\ exists' \subseteq Places
  BY <1>1, <1>2
<1>. QED  BY <1>2, <1>6, <1>7, <1>8, <1>9, FoundInv, Zenon

LEMMA CloseInv ==
    ASSUME IInv, NEW o \in Objects, f_close(o) \/ f_closedir(o) \/ Forget(o)
    PROVE  IInv'
<1>1. /\ UNCHANGED <<fs, Fsid, exists, mounts, era>>
      /\ objs' = [objs EXCEPT ![o] = Closed]
  BY DEF f_close, f_closedir, Forget
<1>2. /\ Files \in TableType /\ objs \in ObjsType /\ fs.id \in Nat
      /\ fs.fs_type => Sound(Files, objs, fs.id, exists) /\ Listed(Files, exists)
  BY DEF IInv, TypeOK, TableType, ObjsType, Sound
<1>3. None \notin Keys /\ Root \notin Keys /\ LockCount \in Nat
  BY LockAssumption
<1>4. objs' \in ObjsType
  BY <1>1, <1>2, <1>3 DEF ObjsType, Closed
<1>5. ASSUME NEW p \in Objects, objs'[p].fs PROVE objs'[p] = objs[p]
  BY <1>1, <1>2, <1>5 DEF ObjsType, Closed
<1>6. Eras'
  BY <1>1, <1>5 DEF IInv, Eras
<1>7. ASSUME validate(o), objs[o].key \in Keys, Files' = dec_lock(Files, objs[o].lockid)
      PROVE  IInv'
  <2>1. objs[o].fs /\ fs.fs_type /\ objs[o].id = fs.id
    BY <1>7 DEF validate
  <2>2. Sound(Files', objs', fs.id, exists) /\ Files' \in TableType
    BY <2>1, <1>1, <1>2, <1>7, DetachSound
  <2>3. TypeOK'
    BY <2>2, <1>1, <1>4 DEF IInv, TypeOK, TableType, ObjsType
  <2>4. Sound(Files', objs', fs'.id, exists')
    BY <2>2, <1>1
  <2>. QED  BY <2>3, <2>4, <1>6 DEF IInv
<1>8. ASSUME Files' = Files, fs.fs_type => o \notin Valid(objs, fs.id) \/ objs[o].key = Root
      PROVE  IInv'
  <2>1. TypeOK'
    BY <1>8, <1>1, <1>4 DEF IInv, TypeOK, ObjsType
  <2>2. fs.fs_type => Sound(Files, objs', fs.id, exists)
    <3>1. ~Closed.fs
      BY DEF Closed
    <3>. QED  BY <3>1, <1>1, <1>2, <1>8, SameSound
  <2>3. fs'.fs_type => Sound(Files', objs', fs'.id, exists')
    BY <2>2, <1>1, <1>8
  <2>. QED  BY <2>1, <2>3, <1>6 DEF IInv
<1>9. CASE f_close(o)
  BY <1>7, <1>9 DEF f_close, Keys
<1>10. CASE f_closedir(o)
  <2>1. CASE objs[o].key = Root
    <3>1. o \in Valid(objs, fs.id) /\ fs.fs_type
      BY <1>10 DEF f_closedir, validate, Valid
    <3>2. Held(Files, objs, fs.id, o)
      BY <3>1 DEF IInv, Sound
    <3>3. Files' = Files
      BY <3>2, <2>1, <1>3, <1>10 DEF f_closedir, Held
    <3>. QED  BY <3>3, <2>1, <1>8
  <2>2. CASE objs[o].key \in Tables
    <3>1. o \in Valid(objs, fs.id) /\ fs.fs_type /\ objs[o].key \in Keys
      BY <2>2, <1>10 DEF f_closedir, validate, Valid, Keys
    <3>2. Held(Files, objs, fs.id, o)
      BY <3>1 DEF IInv, Sound
    <3>3. objs[o].lockid # 0
      BY <3>1, <3>2, <1>3 DEF Held, Slots
    <3>. QED  BY <3>1, <3>3, <1>7, <1>10 DEF f_closedir
  <2>. QED  BY <2>1, <2>2, <1>10 DEF f_closedir
<1>11. CASE Forget(o)
  <2>1. Files' = Files /\ ~validate(o)
    BY <1>11 DEF Forget
  <2>2. fs.fs_type => o \notin Valid(objs, fs.id)
    BY <2>1 DEF validate, Valid
  <2>. QED  BY <2>1, <2>2, <1>8
<1>. QED  BY <1>9, <1>10, <1>11

LEMMA UnlinkInv == ASSUME IInv, NEW k \in Places, f_unlink(k) PROVE IInv'
<1>1. CASE chk_lock(Table, k, 2) # "ok"
  BY <1>1, RefusedInv DEF f_unlink
<1>2. CASE chk_lock(Table, k, 2) = "ok"
  <2>1. /\ find_volume /\ Files' = Table /\ exists' = exists \ {k}
        /\ objs' = objs /\ mounts' = mounts /\ fs.registered /\ exists \subseteq Places
    BY <1>2 DEF f_unlink, find_volume, IInv, TypeOK
  <2>2. SlotsOf(Table, k) = {}
    BY <1>2 DEF chk_lock
  <2>3. Sound(Table, objs, Id, exists) /\ Table \in TableType /\ objs \in ObjsType
    BY <2>1, FindSound
  <2>4. Listed(Table, exists \ {k})
    BY <2>2, <2>3 DEF Sound, Listed, SlotsOf
  <2>5. Sound(Table, objs, Id, exists \ {k})
    BY <2>3, <2>4, PlacesSound
  <2>6. /\ Sound(Files', objs', Id, exists') /\ Files' \in TableType /\ objs' \in ObjsType
        /\ exists' \subseteq Places
    BY <2>1, <2>3, <2>5
  <2>7. ObjectsKept
    <3>1. \A o \in Objects : objs'[o] = objs[o]
      BY <2>1
    <3>. QED  BY <3>1 DEF ObjectsKept
  <2>. QED  BY <2>1, <2>6, <2>7, FoundInv, Zenon
<1>. QED  BY <1>1, <1>2

LEMMA RenameInv ==
    ASSUME IInv, NEW k \in Places, NEW l \in Places, f_rename(k, l) PROVE IInv'
<1>1. CASE chk_lock(Table, k, 2) # "ok"
  BY <1>1, RefusedInv DEF f_rename
<1>2. CASE chk_lock(Table, k, 2) = "ok"
  <2>1. /\ find_volume /\ Files' = Table /\ exists' = (exists \ {k}) \cup {l}
        /\ objs' = objs /\ mounts' = mounts /\ fs.registered /\ exists \subseteq Places
    BY <1>2 DEF f_rename, find_volume, IInv, TypeOK
  <2>2. SlotsOf(Table, k) = {}
    BY <1>2 DEF chk_lock
  <2>3. Sound(Table, objs, Id, exists) /\ Table \in TableType /\ objs \in ObjsType
    BY <2>1, FindSound
  <2>4. Listed(Table, (exists \ {k}) \cup {l})
    BY <2>2, <2>3 DEF Sound, Listed, SlotsOf
  <2>5. Sound(Table, objs, Id, (exists \ {k}) \cup {l})
    BY <2>3, <2>4, PlacesSound
  <2>6. /\ Sound(Files', objs', Id, exists') /\ Files' \in TableType /\ objs' \in ObjsType
        /\ exists' \subseteq Places
    BY <2>1, <2>3, <2>5
  <2>7. ObjectsKept
    <3>1. \A o \in Objects : objs'[o] = objs[o]
      BY <2>1
    <3>. QED  BY <3>1 DEF ObjectsKept
  <2>. QED  BY <2>1, <2>6, <2>7, FoundInv, Zenon
<1>. QED  BY <1>1, <1>2

LEMMA NextInv == IInv /\ [Next]_vars => IInv'
<1>. SUFFICES ASSUME IInv, [Next]_vars PROVE IInv'
  OBVIOUS
<1>1. CASE UNCHANGED vars \/ NotEnabled
  BY <1>1 DEF NotEnabled, vars, IInv, TypeOK, Eras
<1>2. CASE \E registered \in BOOLEAN : f_mount(registered)
  BY <1>2, MountInv
<1>3. CASE f_mkfs
  BY <1>3, MkfsInv
<1>4. ASSUME NEW o \in Objects, NEW k \in Places, Open(o, k) PROVE IInv'
  <2>1. PICK acc \in {0, 1}, create \in BOOLEAN :
            /\ create => acc = 1
            /\ \/ OpenRefused(o, k, acc, create)
               \/ \E i \in Slots : f_open(o, k, acc, create, i)
    BY <1>4 DEF Open
  <2>2. CASE OpenRefused(o, k, acc, create)
    BY <2>2, RefusedInv DEF OpenRefused
  <2>3. CASE \E i \in Slots : f_open(o, k, acc, create, i)
    BY <2>1, <2>3, OpenInv
  <2>. QED  BY <2>1, <2>2, <2>3
<1>5. ASSUME NEW o \in Objects, NEW k \in Tables, OpenDir(o, k) PROVE IInv'
  <2>1. CASE OpenDirRefused(o, k)
    BY <2>1, RefusedInv DEF OpenDirRefused
  <2>2. CASE \E i \in Slots : f_opendir(o, k, i)
    BY <2>2, OpenDirInv
  <2>. QED  BY <1>5, <2>1, <2>2 DEF OpenDir
<1>6. ASSUME NEW o \in Objects, OpenRoot(o) PROVE IInv'
  BY <1>6, OpenRootInv
<1>7. ASSUME NEW o \in Objects, f_close(o) \/ f_closedir(o) \/ Forget(o) PROVE IInv'
  BY <1>7, CloseInv
<1>8. ASSUME NEW k \in Places, f_unlink(k) PROVE IInv'
  BY <1>8, UnlinkInv
<1>9. ASSUME NEW k \in Places, NEW l \in Places, f_rename(k, l) PROVE IInv'
  BY <1>9, RenameInv
<1>. QED  BY <1>1, <1>2, <1>3, <1>4, <1>5, <1>6, <1>7, <1>8, <1>9 DEF Next

LEMMA Invariant == Spec => []IInv
BY InitInv, NextInv, PTL DEF Spec

(***************************************************************************)
(* What the table promises.                                                *)
(***************************************************************************)

\* A valid object, on the mount that is there, and the table that counts it.
LEMMA ValidHeld ==
    ASSUME IInv, NEW o \in Objects, validate(o)
    PROVE  /\ fs.fs_type /\ o \in Valid(objs, fs.id)
           /\ Sound(Files, objs, fs.id, exists)
           /\ Held(Files, objs, fs.id, o)
BY DEF IInv, validate, Valid, Sound

\* The variables keep their types; the counter of an entry never passes the
\* mark of a writer.
THEOREM TypeCorrect == Spec => []TypeOK
<1>1. IInv => TypeOK
  BY DEF IInv
<1>. QED  BY <1>1, Invariant, PTL

\* No call accepts an object of an earlier mount, as validate compares the
\* mount IDs and they do not come round.
THEOREM StaleObjectsRefused == Spec => []StaleRefused
<1>1. IInv => StaleRefused
  <2>. SUFFICES ASSUME IInv, NEW o \in Objects, validate(o) PROVE objs[o].era = era
    BY DEF StaleRefused
  <2>1. objs[o].id = objs[o].era /\ objs[o].id = fs.id /\ fs.id = era
    BY DEF IInv, Eras, validate
  <2>. QED  BY <2>1
<1>. QED  BY <1>1, Invariant, PTL

\* f_unlink and f_rename leave an open file where it is, after an f_open that
\* failed and kept its lock too.
THEOREM OpenFilesStay == Spec => []OpenStays
<1>1. IInv => OpenStays
  <2>. SUFFICES ASSUME IInv, NEW o \in Objects, validate(o), objs[o].key \in Places
                PROVE  objs[o].key \in exists
    BY DEF OpenStays
  <2>1. Held(Files, objs, fs.id, o) /\ Listed(Files, exists)
    BY ValidHeld DEF Sound
  <2>2. objs[o].key # Root
    BY LockAssumption DEF Keys
  <2>. QED  BY <2>1, <2>2 DEF Held, Listed
<1>. QED  BY <1>1, Invariant, PTL

\* A file open for writing is open once.
THEOREM WritersAlone == Spec => []WriteExclusive
<1>1. IInv => WriteExclusive
  <2>. SUFFICES ASSUME IInv, NEW o \in Objects, NEW p \in Objects, validate(o), validate(p),
                       o # p, objs[o].write, objs[p].key = objs[o].key
                PROVE  FALSE
    BY DEF WriteExclusive
  <2>1. /\ Held(Files, objs, fs.id, o) /\ Held(Files, objs, fs.id, p)
        /\ o \in Valid(objs, fs.id) /\ p \in Valid(objs, fs.id)
        /\ Sound(Files, objs, fs.id, exists)
    BY ValidHeld
  <2>. DEFINE i == objs[o].lockid
  <2>2. /\ i \in Slots /\ objs[p].lockid \in Slots /\ Files[i].key # None
        /\ Files[objs[p].lockid].key = Files[i].key
    BY <2>1, LockAssumption DEF Held
  <2>3. objs[p].lockid = i
    BY <2>1, <2>2 DEF Sound, Single
  <2>4. o \in HoldersIn(objs, fs.id, i) /\ p \in HoldersIn(objs, fs.id, i)
    BY <2>1, <2>3 DEF HoldersIn
  <2>5. Counted(Files, objs, fs.id, i)
    BY <2>1, <2>2 DEF Sound
  <2>. QED  BY <2>4, <2>5 DEF Counted
<1>. QED  BY <1>1, Invariant, PTL

\* When f_open has asked chk_lock and enq_lock, inc_lock finds a slot.
THEOREM LockNeverFails == Spec => []NoInternalError
<1>1. IInv => NoInternalError
  <2>. SUFFICES ASSUME IInv, NEW k \in Places, NEW acc \in {0, 1}, NEW create \in BOOLEAN,
                       OpenResult(k, acc, create) = "ok", inc_lockFails(Table, k, acc)
                PROVE  FALSE
    BY DEF NoInternalError
  <2>1. CASE k \in exists
    <3>1. chk_lock(Table, k, acc) = "ok"
      BY <2>1 DEF OpenResult
    <3>. QED  BY <3>1 DEF chk_lock, inc_lockFails
  <2>2. CASE k \notin exists
    <3>1. enq_lock(Table)
      BY <2>2 DEF OpenResult
    <3>2. SlotsOf(Table, k) = {}
      <4>1. CASE fs.fs_type
        <5>1. Listed(Files, exists) /\ Table = Files
          BY <4>1 DEF IInv, Sound, Table
        <5>. QED  BY <5>1, <2>2 DEF Listed, SlotsOf
      <4>2. CASE ~fs.fs_type
        <5>1. \A i \in Slots : Table[i].key = None
          BY <4>2 DEF Table, clear_lock, BlankSlot
        <5>2. k # None
          BY LockAssumption DEF Keys
        <5>. QED  BY <5>1, <5>2 DEF SlotsOf
      <4>. QED  BY <4>1, <4>2
    <3>. QED  BY <3>1, <3>2 DEF inc_lockFails, enq_lock
  <2>. QED  BY <2>1, <2>2
<1>. QED  BY <1>1, Invariant, PTL
=============================================================================
