--------------------------- MODULE FatVolumeProofs ----------------------------
(***************************************************************************)
(* What FatVolume and the modules it extends promise, proved for every     *)
(* number of clusters (up to the 12 that HalfBase leaves room for), every  *)
(* place of the entry that lies across the two FAT sectors, every size of  *)
(* the root directory and of the files, any names, any number of file      *)
(* objects and any program that uses them.                                 *)
(*                                                                         *)
(* The argument.  A disk is Good when its FAT is made of digits and has no *)
(* entry 1, its directory has its end marker last and lists each name once *)
(* (but for one that was renamed onto itself, which a kill can leave there *)
(* twice), and each file has at least the size that was promised.  An      *)
(* operator that models a function of ff.c takes a record that is OK (the  *)
(* disk as the calls see it is Good, and so was each disk on the way       *)
(* there: Timeline) to one that is.  A call of the API is such an          *)
(* operator, and IInv says of every state that its queue is the rest of    *)
(* such a way.                                                             *)
(*                                                                         *)
(* A loop of the code is a function of its round; the lemmas ...Rounds say *)
(* what each round is, and Rounds is the induction over them.              *)
(***************************************************************************)
EXTENDS FatVolume, FiniteSetTheorems, FunctionTheorems, NaturalsInduction, WellFoundedInduction, TLAPS

USE ChainAssumption

Sectors == fatbase .. database + NumClusters - 1
FatSectors == {fatbase, fatbase + 1}
Digits == 0 .. HalfBase - 1

\* What the calls of the volume see of the disk.
Image(v) == Overlaid(v.disk, v.win)

\* The record an operator takes: a window that is not dirty and lies on the FAT
\* holds what the disk holds, and the FAT sectors are made of digits.  (f_mkdir
\* leaves a window on the new table that holds something else.)
Shape(v) ==
    /\ {"disk", "log", "win", "free", "last", "ret"} \subseteq DOMAIN v
    /\ {"sect", "buf", "dirty"} \subseteq DOMAIN v.win
Whole(d) ==
    /\ d = [s \in Sectors |-> d[s]]
    /\ \A s \in FatSectors : d[s] \in [Cells(s) -> Digits]
Coherent(v) ==
    /\ v.win.dirty \in BOOLEAN
    /\ v.win.sect \in Sectors \cup {0}
    /\ v.win.dirty => v.win.sect # 0
    /\ v.win.sect \in FatSectors =>
         /\ v.win.buf \in [Cells(v.win.sect) -> Digits]
         /\ ~v.win.dirty => v.win.buf = v.disk[v.win.sect]
WindowOK(v) == Shape(v) /\ Whole(v.disk) /\ Coherent(v)

-----------------------------------------------------------------------------
\* Both halves of an entry lie in a FAT sector.
LEMMA CellSects ==
    ASSUME NEW c \in Clusters
    PROVE  /\ LowSect(c) \in FatSectors /\ HighSect(c) \in FatSectors
           /\ <<c, "lo">> \in Cells(LowSect(c)) /\ <<c, "hi">> \in Cells(HighSect(c))
           /\ FatSectors \subseteq Sectors /\ 0 \notin Sectors
  BY DEF LowSect, HighSect, FatSectors, Cells, Sectors, fatbase, database, dirbase, Clusters,
         n_fatent

\* sync_window leaves the window clean, where it is.
LEMMA SyncWindow ==
    ASSUME NEW v, WindowOK(v)
    PROVE  LET w == sync_window(v)
           IN /\ WindowOK(w) /\ ~w.win.dirty
              /\ w.disk = Image(v) /\ Image(w) = Image(v)
              /\ w.win.sect = v.win.sect /\ w.win.buf = v.win.buf
              /\ w.free = v.free /\ w.last = v.last /\ w.ret = v.ret
<1>1. CASE v.win.dirty
  <2> DEFINE w == sync_window(v)
  <2>1. /\ w.disk = [v.disk EXCEPT ![v.win.sect] = v.win.buf]
        /\ w.win.dirty = FALSE /\ w.win.sect = v.win.sect /\ w.win.buf = v.win.buf
        /\ w.free = v.free /\ w.last = v.last /\ w.ret = v.ret
        /\ Shape(w)
    BY <1>1 DEF sync_window, disk_write, WindowOK, Shape
  <2>2. w.disk = Image(v) /\ Image(w) = Image(v)
    BY <2>1, <1>1 DEF Image, Overlaid
  <2>3. Whole(w.disk)
    BY <2>1, <1>1 DEF WindowOK, Whole, Coherent
  <2>4. Coherent(w)
    BY <2>1, <1>1 DEF WindowOK, Whole, Coherent
  <2>. QED  BY <2>1, <2>2, <2>3, <2>4 DEF WindowOK
<1>2. CASE ~v.win.dirty
  BY <1>2 DEF sync_window, Image, Overlaid
<1>. QED  BY <1>1, <1>2 DEF WindowOK, Coherent

\* Wherever the window moves, the volume reads the same.
LEMMA MoveWindow ==
    ASSUME NEW v, WindowOK(v), NEW s \in FatSectors
    PROVE  LET w == move_window(v, s)
           IN /\ WindowOK(w) /\ Image(w) = Image(v)
              /\ w.win.sect = s /\ w.win.buf = Image(v)[s]
              /\ w.free = v.free /\ w.last = v.last /\ w.ret = v.ret
<1>0. s \in Sectors /\ s # 0
  BY DEF FatSectors, Sectors, fatbase, database, dirbase
<1>1. CASE s = v.win.sect
  BY <1>0, <1>1 DEF move_window, Image, Overlaid, WindowOK, Whole, Coherent
<1>2. CASE s # v.win.sect
  <2> DEFINE u == sync_window(v)
             w == Load(u, s)
  <2>1. WindowOK(u) /\ u.disk = Image(v) /\ Image(u) = Image(v)
        /\ u.free = v.free /\ u.last = v.last /\ u.ret = v.ret
    BY SyncWindow
  <2>2. /\ w.disk = u.disk /\ w.win = [sect |-> s, buf |-> u.disk[s], dirty |-> FALSE]
        /\ w.free = u.free /\ w.last = u.last /\ w.ret = u.ret
        /\ Shape(w)
    BY <2>1 DEF Load, WindowOK, Shape
  <2> HIDE DEF w, u
  <2>3. Image(w) = Image(v)
    BY <2>1, <2>2 DEF Image, Overlaid
  <2>4. WindowOK(w)
    <3>1. Shape(w) /\ Whole(w.disk)
      BY <2>1, <2>2 DEF WindowOK
    <3>2. s \in FatSectors => w.win.buf \in [Cells(s) -> Digits]
      BY <2>2, <3>1 DEF Whole
    <3>3. Coherent(w)
      BY <2>2, <3>2, <1>0 DEF Coherent
    <3>. QED  BY <3>1, <3>3 DEF WindowOK
  <2>. QED  BY <1>2, <2>1, <2>2, <2>3, <2>4 DEF move_window, w, u
<1>. QED  BY <1>1, <1>2

\* The disk d with x in cell k of sector s.
StoredCell(d, s, k, x) == [d EXCEPT ![s] = [@ EXCEPT ![k] = x]]

\* A store into a FAT sector in the window changes that cell and no other.
LEMMA PokeCell ==
    ASSUME NEW v, WindowOK(v), v.win.sect \in FatSectors,
           NEW k \in Cells(v.win.sect), NEW x \in Digits
    PROVE  LET w == Poke(v, k, x)
           IN /\ WindowOK(w) /\ w.win.sect = v.win.sect
              /\ Image(w) = StoredCell(Image(v), v.win.sect, k, x)
              /\ w.free = v.free /\ w.last = v.last /\ w.ret = v.ret
<1> DEFINE w == Poke(v, k, x)
<1>1. /\ w.disk = v.disk /\ w.win.sect = v.win.sect /\ w.win.dirty = TRUE
      /\ w.win.buf = [v.win.buf EXCEPT ![k] = x]
      /\ w.free = v.free /\ w.last = v.last /\ w.ret = v.ret
      /\ Shape(w)
  BY DEF Poke, WindowOK, Shape
<1> HIDE DEF w
<1>2. v.win.sect \in Sectors /\ v.win.sect # 0
  BY DEF FatSectors, Sectors, fatbase, database, dirbase
<1>3. Image(w) = [v.disk EXCEPT ![v.win.sect] = [v.win.buf EXCEPT ![k] = x]]
  BY <1>1 DEF Image, Overlaid
<1>4. Image(v)[v.win.sect] = v.win.buf
  BY <1>2 DEF Image, Overlaid, WindowOK, Whole, Coherent
<1>5. Image(w) = [Image(v) EXCEPT ![v.win.sect] = [@ EXCEPT ![k] = x]]
  <2>1. CASE v.win.dirty
    BY <2>1, <1>2, <1>3, <1>4 DEF Image, Overlaid, WindowOK, Whole
  <2>2. CASE ~v.win.dirty
    BY <2>2, <1>2, <1>3, <1>4 DEF Image, Overlaid, WindowOK, Whole
  <2>. QED  BY <2>1, <2>2
<1>6. Coherent(w)
  BY <1>1, <1>2 DEF WindowOK, Coherent
<1>. QED  BY <1>1, <1>5, <1>6 DEF WindowOK, StoredCell, w

\* What the calls see is whole when the window is coherent.
LEMMA ImageWhole ==
    ASSUME NEW v, WindowOK(v)
    PROVE  Whole(Image(v))
<1>1. CASE v.win.dirty
  BY <1>1 DEF Image, Overlaid, WindowOK, Whole, Coherent
<1>2. CASE ~v.win.dirty
  BY <1>2 DEF Image, Overlaid, WindowOK
<1>. QED  BY <1>1, <1>2

-----------------------------------------------------------------------------
\* What get_fat answers is what the FAT says, wherever the window was and on
\* whichever of the two sectors the entry lies: and it changes nothing.
THEOREM GetReads ==
    ASSUME NEW v, WindowOK(v), NEW c \in Clusters
    PROVE  LET w == get_fat(v, c)
           IN /\ WindowOK(w) /\ Image(w) = Image(v)
              /\ w.ret = FatOn(Image(v), c)
              /\ w.free = v.free /\ w.last = v.last
<1> DEFINE p == move_window(v, LowSect(c))
           q == AddLow(p, c)
           r == move_window(q, HighSect(c))
<1>1. /\ WindowOK(p) /\ Image(p) = Image(v) /\ p.win.buf = Image(v)[LowSect(c)]
      /\ p.free = v.free /\ p.last = v.last
  BY MoveWindow, CellSects
<1>2. /\ WindowOK(q) /\ Image(q) = Image(v) /\ q.ret = Image(v)[LowSect(c)][<<c, "lo">>]
      /\ q.free = v.free /\ q.last = v.last
  BY <1>1 DEF AddLow, Cell, WindowOK, Shape, Coherent, Image
<1> HIDE DEF q
<1>3. /\ WindowOK(r) /\ Image(r) = Image(v) /\ r.win.buf = Image(v)[HighSect(c)]
      /\ r.ret = q.ret /\ r.free = v.free /\ r.last = v.last
  <2>1. HighSect(c) \in FatSectors
    BY CellSects
  <2>. QED  BY <1>2, <2>1, MoveWindow
<1>4. get_fat(v, c) = [r EXCEPT !.ret = @ + HalfBase * r.win.buf[<<c, "hi">>]]
  BY DEF get_fat, AddHigh, Cell, q
<1> HIDE DEF p, r
<1>. QED  BY <1>2, <1>3, <1>4 DEF FatOn, WindowOK, Shape, Coherent, Image

\* put_fat sets the entry it is given, both its halves, and no other entry and
\* no other sector of the volume.
THEOREM PutWrites ==
    ASSUME NEW v, WindowOK(v), NEW c \in Clusters, NEW x \in 0 .. EOC
    PROVE  LET w == put_fat(v, c, x)
           IN /\ WindowOK(w)
              /\ FatOn(Image(w), c) = x
              /\ \A k \in Clusters \ {c} : FatOn(Image(w), k) = FatOn(Image(v), k)
              /\ \A s \in Sectors \ FatSectors : Image(w)[s] = Image(v)[s]
              /\ w.free = v.free /\ w.last = v.last /\ w.ret = v.ret
<1> DEFINE low == x % HalfBase
           high == x \div HalfBase
           p == move_window(v, LowSect(c))
           q == Poke(p, <<c, "lo">>, low)
           r == move_window(q, HighSect(c))
           w == put_fat(v, c, x)
<1>0. low \in Digits /\ high \in Digits /\ low + HalfBase * high = x
  BY DEF EOC, HalfBase, Digits
<1>9. w = Poke(r, <<c, "hi">>, high)
  BY DEF put_fat
<1> HIDE DEF low, high
<1>1. /\ WindowOK(p) /\ Image(p) = Image(v) /\ p.win.sect = LowSect(c)
      /\ p.free = v.free /\ p.last = v.last /\ p.ret = v.ret
  BY MoveWindow, CellSects
<1> HIDE DEF p
<1>2. /\ WindowOK(q)
      /\ Image(q) = StoredCell(Image(v), LowSect(c), <<c, "lo">>, low)
      /\ q.free = v.free /\ q.last = v.last /\ q.ret = v.ret
  <2>1. p.win.sect \in FatSectors /\ <<c, "lo">> \in Cells(p.win.sect)
    BY <1>1, CellSects
  <2>2. /\ WindowOK(q)
        /\ Image(q) = StoredCell(Image(p), p.win.sect, <<c, "lo">>, low)
        /\ q.free = p.free /\ q.last = p.last /\ q.ret = p.ret
    BY <1>0, <1>1, <2>1, PokeCell
  <2>. QED  BY <1>1, <2>2
<1> HIDE DEF q
<1>3. /\ WindowOK(r) /\ Image(r) = Image(q) /\ r.win.sect = HighSect(c)
      /\ r.free = v.free /\ r.last = v.last /\ r.ret = v.ret
  BY <1>2, MoveWindow, CellSects
<1> HIDE DEF r, w
<1>5. /\ WindowOK(w)
      /\ Image(w) = StoredCell(Image(q), HighSect(c), <<c, "hi">>, high)
      /\ w.free = v.free /\ w.last = v.last /\ w.ret = v.ret
  <2>1. r.win.sect \in FatSectors /\ <<c, "hi">> \in Cells(r.win.sect)
    BY <1>3, CellSects
  <2>2. /\ WindowOK(w)
        /\ Image(w) = StoredCell(Image(r), r.win.sect, <<c, "hi">>, high)
        /\ w.free = r.free /\ w.last = r.last /\ w.ret = r.ret
    BY <1>0, <1>3, <1>9, <2>1, PokeCell
  <2>. QED  BY <1>3, <2>2
<1>6. \A s \in Sectors \ FatSectors : Image(w)[s] = Image(v)[s]
  <2>1. Whole(Image(v)) /\ Whole(Image(q))
    BY <1>2, ImageWhole
  <2>. QED  BY <1>2, <1>5, <2>1, CellSects DEF Whole, StoredCell
<1>7. ASSUME NEW k \in Clusters
      PROVE  FatOn(Image(w), k) = IF k = c THEN x ELSE FatOn(Image(v), k)
  <2>1. Whole(Image(v)) /\ Whole(Image(q))
    BY <1>2, ImageWhole
  <2>2. /\ LowSect(k) \in Sectors /\ HighSect(k) \in Sectors
        /\ Image(v)[LowSect(k)] \in [Cells(LowSect(k)) -> Digits]
        /\ Image(v)[HighSect(k)] \in [Cells(HighSect(k)) -> Digits]
        /\ Image(q)[LowSect(k)] \in [Cells(LowSect(k)) -> Digits]
        /\ Image(q)[HighSect(k)] \in [Cells(HighSect(k)) -> Digits]
        /\ <<k, "lo">> \in Cells(LowSect(k)) /\ <<k, "hi">> \in Cells(HighSect(k))
    BY <2>1, CellSects DEF Whole
  <2>3. <<k, "lo">> # <<c, "hi">> /\ <<k, "hi">> # <<c, "lo">>
        /\ (k # c => <<k, "lo">> # <<c, "lo">> /\ <<k, "hi">> # <<c, "hi">>)
    OBVIOUS
  <2>4. Image(w)[LowSect(k)][<<k, "lo">>] = Image(q)[LowSect(k)][<<k, "lo">>]
    BY <1>5, <2>1, <2>2, <2>3 DEF Whole, StoredCell
  <2>5. Image(q)[LowSect(k)][<<k, "lo">>]
          = IF k = c THEN low ELSE Image(v)[LowSect(k)][<<k, "lo">>]
    BY <1>2, <2>1, <2>2, <2>3 DEF Whole, StoredCell
  <2>6. Image(w)[HighSect(k)][<<k, "hi">>]
          = IF k = c THEN high ELSE Image(q)[HighSect(k)][<<k, "hi">>]
    BY <1>5, <2>1, <2>2, <2>3 DEF Whole, StoredCell
  <2>7. Image(q)[HighSect(k)][<<k, "hi">>] = Image(v)[HighSect(k)][<<k, "hi">>]
    BY <1>2, <2>1, <2>2, <2>3 DEF Whole, StoredCell
  <2>. QED  BY <2>4, <2>5, <2>6, <2>7, <1>0 DEF FatOn
<1>. QED  BY <1>2, <1>3, <1>5, <1>6, <1>7 DEF w

-----------------------------------------------------------------------------
\* The chains that run within the set of clusters L of a disk d: no link leads
\* out of L or to a free cluster, and no two lead to the same.  Then chains
\* that begin at different clusters to which no link leads never meet.
Linear(d, L) ==
    /\ L \subseteq Clusters
    /\ \A c \in L : FatOn(d, c) # 0 /\ (FatOn(d, c) \in Clusters => FatOn(d, c) \in L)
    /\ \A c, e \in L : FatOn(d, c) = FatOn(d, e) /\ FatOn(d, c) \in Clusters => c = e

\* No link in L leads to c.
IsHead(d, L, c) == c \in L /\ \A e \in L : FatOn(d, e) # c

\* The free count, when it is known, is the number of free clusters.
FreeIn(d) == {c \in Clusters : FatOn(d, c) = 0}
Counts(v) ==
    /\ v.free \in 0 .. NumClusters \cup {Unknown}
    /\ v.free <= NumClusters => v.free = Cardinality(FreeIn(Image(v)))

\* The numbers, in one place.
LEMMA ClusterNumbers ==
    /\ NumClusters \in 2 .. 12 /\ EOC = 15 /\ Unknown = 99 /\ HalfBase = 4
    /\ Clusters = 2 .. NumClusters + 1 /\ n_fatent = NumClusters + 2
    /\ EOC \notin Clusters /\ 0 \notin Clusters
  BY DEF EOC, HalfBase, Clusters, n_fatent, Unknown

\* There are at most as many free clusters as clusters.
LEMMA FreeFinite ==
    ASSUME NEW d
    PROVE  /\ IsFiniteSet(FreeIn(d)) /\ Cardinality(FreeIn(d)) \in 0 .. NumClusters
<1>1. IsFiniteSet(Clusters) /\ Cardinality(Clusters) = NumClusters
  BY ClusterNumbers, FS_Interval
<1>2. FreeIn(d) \subseteq Clusters
  BY DEF FreeIn
<1>. QED  BY <1>1, <1>2, FS_Subset, FS_CardinalityType, ClusterNumbers

\* create_chain takes a free cluster and links it behind the end of a chain, or
\* begins a chain with it: the chains still do not meet, no other entry of the
\* FAT has changed, and the free count is still right.
THEOREM TakeFreeKeepsChains ==
    ASSUME NEW v, WindowOK(v), NEW L, Linear(Image(v), L),
           NEW c \in L \cup {0}, c # 0 => FatOn(Image(v), c) >= n_fatent,
           v.ret \in Clusters, FatOn(Image(v), v.ret) = 0
    PROVE  LET w == TakeFree(v, c)
           IN /\ WindowOK(w) /\ w.ret = v.ret
              /\ Linear(Image(w), L \cup {v.ret})
              /\ FatOn(Image(w), v.ret) = EOC
              /\ c # 0 => FatOn(Image(w), c) = v.ret
              /\ \A k \in Clusters \ {c, v.ret} : FatOn(Image(w), k) = FatOn(Image(v), k)
              /\ Counts(v) => Counts(w)
<1> DEFINE n == v.ret
           p == put_fat(v, n, EOC)
           q == Linked(p, c, n)
           w == TakeFree(v, c)
<1>0. n \in Clusters /\ n \notin L /\ c # n /\ n \in 0 .. EOC /\ EOC \in 0 .. EOC
  BY ClusterNumbers DEF Linear
<1>1. /\ WindowOK(p) /\ p.free = v.free /\ p.ret = n
      /\ FatOn(Image(p), n) = EOC
      /\ \A k \in Clusters \ {n} : FatOn(Image(p), k) = FatOn(Image(v), k)
  BY <1>0, PutWrites
<1>2. w = [q EXCEPT !.last = n, !.free = IF @ <= NumClusters THEN @ - 1 ELSE @]
  BY DEF TakeFree
<1> HIDE DEF p, w
<1>3. /\ WindowOK(q) /\ q.free = v.free /\ q.ret = n
      /\ \A k \in Clusters : FatOn(Image(q), k) = CASE k = n -> EOC
                                                   [] k = c -> n
                                                   [] OTHER -> FatOn(Image(v), k)
  <2>1. CASE c = 0
    BY <2>1, <1>0, <1>1, ClusterNumbers DEF Linked
  <2>2. CASE c # 0
    <3>1. c \in Clusters
      BY <2>2 DEF Linear
    <3>2. q = put_fat(p, c, n)
      BY <2>2 DEF Linked
    <3> HIDE DEF q, n
    <3>3. /\ WindowOK(q) /\ q.free = p.free /\ q.ret = p.ret
          /\ FatOn(Image(q), c) = n
          /\ \A k \in Clusters \ {c} : FatOn(Image(q), k) = FatOn(Image(p), k)
      <4>1. n \in 0 .. EOC /\ WindowOK(p)
        BY <1>0, <1>1
      <4>. QED  BY <3>1, <3>2, <4>1, PutWrites
    <3>. QED  BY <1>0, <1>1, <3>1, <3>3
  <2>. QED  BY <2>1, <2>2
<1> HIDE DEF q
<1>4. /\ WindowOK(w) /\ Image(w) = Image(q) /\ w.ret = n
      /\ w.free = IF v.free <= NumClusters THEN v.free - 1 ELSE v.free
  BY <1>2, <1>3 DEF WindowOK, Shape, Coherent, Image
<1>5. /\ FatOn(Image(w), n) = EOC
      /\ c # 0 => FatOn(Image(w), c) = n
      /\ \A k \in Clusters \ {c, n} : FatOn(Image(w), k) = FatOn(Image(v), k)
  BY <1>0, <1>3, <1>4 DEF Linear
<1> HIDE DEF n
<1>6. Linear(Image(w), L \cup {n})
  <2>1. \A e \in L : /\ e \in Clusters /\ e # n
                    /\ FatOn(Image(v), e) # 0 /\ FatOn(Image(v), e) # n
                    /\ e # c => FatOn(Image(w), e) = FatOn(Image(v), e)
    BY <1>0, <1>5 DEF Linear
  <2>2. ASSUME NEW e \in L \cup {n}
        PROVE  /\ FatOn(Image(w), e) # 0
               /\ FatOn(Image(w), e) \in Clusters => FatOn(Image(w), e) \in L \cup {n}
    BY <1>0, <1>5, <2>1, ClusterNumbers DEF Linear
  <2>3. ASSUME NEW e \in L \cup {n}, NEW g \in L \cup {n},
               FatOn(Image(w), e) = FatOn(Image(w), g), FatOn(Image(w), e) \in Clusters
        PROVE  e = g
    BY <1>0, <1>5, <2>1, <2>3, ClusterNumbers DEF Linear
  <2>. QED  BY <1>0, <2>2, <2>3 DEF Linear
<1>7. ASSUME Counts(v) PROVE Counts(w)
  <2>1. FreeIn(Image(w)) = FreeIn(Image(v)) \ {n} /\ n \in FreeIn(Image(v))
    <3>1. c # 0 => FatOn(Image(v), c) # 0 /\ FatOn(Image(w), c) # 0
      BY <1>0, <1>5, ClusterNumbers DEF Linear
    <3>2. FatOn(Image(w), n) # 0 /\ FatOn(Image(v), n) = 0
      BY <1>5, ClusterNumbers DEF n
    <3>. QED  BY <1>0, <1>5, <3>1, <3>2, ClusterNumbers DEF FreeIn
  <2>2. Cardinality(FreeIn(Image(w))) = Cardinality(FreeIn(Image(v))) - 1
    BY <2>1, FreeFinite, FS_RemoveElement
  <2>. QED  BY <1>4, <1>7, <2>2, FreeFinite, ClusterNumbers DEF Counts
<1>. QED  BY <1>4, <1>5, <1>6, <1>7 DEF w, n

\* remove_chain frees a chain from its head: what is left of the chains does not
\* meet, the next cluster is a head in its turn, no other entry has changed, and
\* the free count is still right (the code's bound never keeps it from growing).
THEOREM ReleaseKeepsChains ==
    ASSUME NEW v, WindowOK(v), NEW L, Linear(Image(v), L),
           NEW c, IsHead(Image(v), L, c)
    PROVE  LET w == Release(v, c)
               next == FatOn(Image(v), c)
           IN /\ WindowOK(w)
              /\ Linear(Image(w), L \ {c})
              /\ FatOn(Image(w), c) = 0
              /\ next \in Clusters => IsHead(Image(w), L \ {c}, next)
              /\ \A k \in Clusters \ {c} : FatOn(Image(w), k) = FatOn(Image(v), k)
              /\ Counts(v) => Counts(w)
<1> DEFINE p == put_fat(v, c, 0)
           w == Release(v, c)
<1>0. c \in L /\ c \in Clusters /\ 0 \in 0 .. EOC
  BY ClusterNumbers DEF IsHead, Linear
<1>1. /\ WindowOK(p) /\ p.free = v.free
      /\ \A k \in Clusters : FatOn(Image(p), k) = IF k = c THEN 0 ELSE FatOn(Image(v), k)
  BY <1>0, PutWrites
<1>2. w = [p EXCEPT !.free = IF @ < NumClusters THEN @ + 1 ELSE @]
  BY DEF Release
<1> HIDE DEF p, w
<1>3. /\ WindowOK(w) /\ Image(w) = Image(p)
      /\ w.free = IF v.free < NumClusters THEN v.free + 1 ELSE v.free
  BY <1>1, <1>2 DEF WindowOK, Shape, Coherent, Image
<1>4. /\ FatOn(Image(w), c) = 0
      /\ \A k \in Clusters \ {c} : FatOn(Image(w), k) = FatOn(Image(v), k)
  BY <1>0, <1>1, <1>3
<1>5. Linear(Image(w), L \ {c})
  BY <1>0, <1>4 DEF Linear, IsHead
<1>6. FatOn(Image(v), c) \in Clusters => IsHead(Image(w), L \ {c}, FatOn(Image(v), c))
  BY <1>0, <1>4 DEF Linear, IsHead
<1>7. ASSUME Counts(v) PROVE Counts(w)
  <2>1. FreeIn(Image(w)) = FreeIn(Image(v)) \cup {c} /\ c \notin FreeIn(Image(v))
    BY <1>0, <1>4 DEF FreeIn, Linear
  <2>2. Cardinality(FreeIn(Image(w))) = Cardinality(FreeIn(Image(v))) + 1
    BY <2>1, FreeFinite, FS_AddElement
  <2>. QED  BY <1>3, <1>7, <2>2, FreeFinite, ClusterNumbers DEF Counts
<1>. QED  BY <1>3, <1>4, <1>5, <1>6, <1>7 DEF w

\* f_truncate cuts a chain behind the cluster p: what follows is a chain of its
\* own, which remove_chain may free, and the clusters up to p stay as they are.
THEOREM CutKeepsChains ==
    ASSUME NEW v, WindowOK(v), NEW L, Linear(Image(v), L),
           NEW p \in L, FatOn(Image(v), p) \in Clusters
    PROVE  LET w == put_fat(v, p, EOC)
           IN /\ WindowOK(w)
              /\ Linear(Image(w), L)
              /\ FatOn(Image(w), p) = EOC
              /\ IsHead(Image(w), L, FatOn(Image(v), p))
              /\ \A k \in Clusters \ {p} : FatOn(Image(w), k) = FatOn(Image(v), k)
              /\ Counts(v) => Counts(w)
<1> DEFINE w == put_fat(v, p, EOC)
<1>0. p \in Clusters /\ EOC \in 0 .. EOC
  BY ClusterNumbers DEF Linear
<1>1. /\ WindowOK(w) /\ w.free = v.free
      /\ FatOn(Image(w), p) = EOC
      /\ \A k \in Clusters \ {p} : FatOn(Image(w), k) = FatOn(Image(v), k)
  BY <1>0, PutWrites
<1> HIDE DEF w
<1>2. Linear(Image(w), L) /\ IsHead(Image(w), L, FatOn(Image(v), p))
  BY <1>0, <1>1, ClusterNumbers DEF Linear, IsHead
<1>3. FreeIn(Image(w)) = FreeIn(Image(v))
  BY <1>0, <1>1, ClusterNumbers DEF FreeIn, Linear
<1>. QED  BY <1>0, <1>1, <1>2, <1>3 DEF Counts, w

-----------------------------------------------------------------------------
\* The volume: the disk is good before, between and after the writes of a call.

\* Induction over the rounds of a loop.
LEMMA LeastOne ==
    ASSUME NEW T, T \subseteq Nat, T # {}
    PROVE  \E x \in T : \A y \in T : x <= y
<1>1. \E x \in T : \A y \in T : ~(<<y, x>> \in OpToRel(<, Nat))
  BY NatLessThanWellFounded, WFMin
<1>2. \E x \in T : \A y \in T : ~(y < x)
  BY <1>1 DEF OpToRel
<1>. QED  BY <1>2

\* What holds before the first round and is kept by each holds after every one.
LEMMA Rounds ==
    ASSUME NEW k \in Nat, NEW T, 0 \in T, \A i \in 1 .. k : i - 1 \in T => i \in T
    PROVE  \A i \in 0 .. k : i \in T
<1> SUFFICES ASSUME (0 .. k) \ T # {} PROVE FALSE
  OBVIOUS
<1>1. PICK i \in (0 .. k) \ T : \A j \in (0 .. k) \ T : i <= j
  <2>1. (0 .. k) \ T \subseteq Nat
    OBVIOUS
  <2>. QED  BY <2>1, LeastOne
<1>. QED  BY <1>1

\* Least finds the first round of a loop that searches.
LEMMA LeastIs ==
    ASSUME NEW T, T \subseteq Nat, T # {}
    PROVE  Least(T) \in T /\ \A y \in T : Least(T) <= y
  BY LeastOne DEF Least

-----------------------------------------------------------------------------
\* The sectors that are not data, the slots and the entries of the directory.
Reserved == FatSectors \cup DirSectors
DataSects == database .. database + NumClusters - 1
SlotsIn(s) == {j \in Slots : SlotSect(j) = s}
EntryRecs == [name : Names \cup {End, Deleted}, clu : Clusters \cup {0}, size : Nat]

\* The FAT and the directory of a disk.
Table(d) == [c \in Clusters |-> FatOn(d, c)]
Dir(d) == [i \in Slots |-> Entry(d, i)]

\* No entry of the FAT is 1; no entry of the directory is behind its end, no
\* name is listed twice (but one of which K says so), and the sizes K promised
\* to the files are kept.
NoOnes(t) == \A c \in Clusters : t[c] # 1
Ended(e) == \A i, j \in Slots : i < j /\ e[i].name = End => e[j].name = End
Once(e, n) == \A i, j \in Slots : e[i].name = n /\ e[j].name = n => i = j
Distinct(e, K) == \A n \in Names : K[n] # Twice => Once(e, n)
Holds(e, n, k) == \E i \in Slots : e[i].name = n /\ e[i].size >= k
Promise(e, K) == \A n \in Names : K[n] >= 0 => Holds(e, n, K[n])
Typed(d) ==
    /\ Whole(d)
    /\ \A s \in DirSectors : d[s] \in [SlotsIn(s) -> EntryRecs]
DirGood(e, K) == Ended(e) /\ Distinct(e, K) /\ Promise(e, K)
Good(d, K) == Typed(d) /\ NoOnes(Table(d)) /\ DirGood(Dir(d), K)

\* The disk d becomes D as the sectors of q are written, and is good all along.
IsLog(q) == \E S : q \in Seq(S)
Steps(T, q) == \A k \in 1 .. Len(q) : T[k] = [T[k - 1] EXCEPT ![q[k][1]] = q[k][2]]
Runs(T, d, q, D, K) ==
    /\ T[0] = d /\ T[Len(q)] = D
    /\ \A k \in 0 .. Len(q) : Good(T[k], K)
    /\ Steps(T, q)
Timeline(d, q, D, K) == IsLog(q) /\ \E T : Runs(T, d, q, D, K)

\* The record of a call that began on disk d.
Fields == {"disk", "log", "win", "free", "last", "ret", "f", "out"}
WinOK(d, w) ==
    /\ {"sect", "buf", "dirty"} \subseteq DOMAIN w
    /\ w.dirty \in BOOLEAN
    /\ w.sect \in Reserved \cup {0}
    /\ w.dirty => w.sect # 0
    /\ ~w.dirty /\ w.sect # 0 => w.buf = d[w.sect]
OK(v, d, K) ==
    /\ Fields \subseteq DOMAIN v
    /\ WinOK(v.disk, v.win)
    /\ Good(Image(v), K)
    /\ Timeline(d, v.log, v.disk, K)

\* The slots whose entry has not reached the disk.
Late(d, w) == {i \in Slots : Entry(d, i) # Entry(Overlaid(d, w), i)}
Lag(v) == Late(v.disk, v.win)

\* What a step that is not about the directory leaves alone.
Calm(v, w) ==
    /\ w.f = v.f
    /\ Dir(Image(w)) = Dir(Image(v))
    /\ Lag(w) \subseteq Lag(v)
    /\ Counts(v) => Counts(w)
\* And one that is not about the FAT either.
Quiet(v, w) ==
    /\ w.f = v.f /\ w.free = v.free
    /\ Dir(Image(w)) = Dir(Image(v)) /\ Table(Image(w)) = Table(Image(v))
    /\ Lag(w) \subseteq Lag(v)

-----------------------------------------------------------------------------
\* Where the parts of the volume lie.
LEMMA Places ==
    /\ fatbase = 1 /\ dirbase = 3 /\ database = 3 + DirSects /\ DirSects \in Nat \ {0}
    /\ NumClusters \in 2 .. 12 /\ HalfBase = 4 /\ EOC = 15
    /\ FatSectors = {1, 2} /\ DirSectors = 3 .. database - 1
    /\ Sectors = 1 .. database + NumClusters - 1
    /\ Sectors = Reserved \cup DataSects
    /\ Reserved \cap DataSects = {} /\ FatSectors \cap DirSectors = {} /\ 0 \notin Sectors
    /\ Reserved \subseteq Sectors /\ DataSects \subseteq Sectors
  BY DEF fatbase, dirbase, database, FatSectors, DirSectors, Sectors, Reserved, DataSects,
         EOC, HalfBase

\* Every slot lies in a sector of the directory.
LEMMA SlotPlace ==
    /\ NumSlots \in Nat \ {0} /\ Slots \subseteq Nat /\ Slots = 0 .. NumSlots - 1
    /\ \A i \in Slots : SlotSect(i) \in DirSectors /\ i \in SlotsIn(SlotSect(i))
<1>1. DirSects \in Nat \ {0} /\ EntriesPerSect \in Nat \ {0}
  BY VolumeAssumption
<1>2. DirSects * EntriesPerSect \in Nat \ {0}
  BY <1>1
<1>3. ASSUME NEW i \in Nat, i < DirSects * EntriesPerSect
      PROVE  i \div EntriesPerSect \in 0 .. DirSects - 1
  <2> DEFINE q == i \div EntriesPerSect
             m == i % EntriesPerSect
  <2>1. q \in Int /\ m \in 0 .. EntriesPerSect - 1 /\ i = q * EntriesPerSect + m
    BY <1>1
  <2> HIDE DEF q, m
  <2>2. q >= 0
    <3>1. q < 0 => q * EntriesPerSect <= -EntriesPerSect
      BY <1>1, <2>1
    <3>. QED  BY <1>1, <2>1, <3>1
  <2>3. q < DirSects
    <3>1. q >= DirSects => q * EntriesPerSect >= DirSects * EntriesPerSect
      BY <1>1, <2>1, <2>2
    <3>. QED  BY <1>1, <1>2, <1>3, <2>1, <2>2, <3>1
  <2>. QED  BY <2>1, <2>2, <2>3, <1>1 DEF q
<1>4. ASSUME NEW i \in Slots
      PROVE  SlotSect(i) \in DirSectors
  <2>1. i \in Nat /\ i < DirSects * EntriesPerSect
    BY <1>2 DEF Slots, NumSlots
  <2>2. i \div EntriesPerSect \in 0 .. DirSects - 1
    BY <1>3, <2>1
  <2>. QED  BY <2>2, Places DEF SlotSect
<1>. QED  BY <1>2, <1>4 DEF Slots, NumSlots, SlotsIn

\* A call that has written nothing.
LEMMA TimelineEmpty ==
    ASSUME NEW d, NEW K, Good(d, K)
    PROVE  Timeline(d, <<>>, d, K)
<1> DEFINE T == [k \in {0} |-> d]
<1>1. T[0] = d
  OBVIOUS
<1> HIDE DEF T
<1>2. Runs(T, d, <<>>, d, K)
  BY <1>1 DEF Runs, Steps
<1>3. <<>> \in Seq({})
  OBVIOUS
<1>. QED  BY <1>2, <1>3 DEF Timeline, IsLog

\* The disk is good before the first write of a call and after its last.
LEMMA TimelineEnds ==
    ASSUME NEW d, NEW q, NEW D, NEW K, Timeline(d, q, D, K)
    PROVE  /\ Good(d, K) /\ Good(D, K)
           /\ q = <<>> => D = d
<1>1. PICK T : Runs(T, d, q, D, K)
  BY DEF Timeline
<1>2. Len(q) \in Nat
  BY DEF Timeline, IsLog
<1>. QED  BY <1>1, <1>2 DEF Runs

\* A call writes one sector more, and the disk is good with it.
LEMMA TimelineAppend ==
    ASSUME NEW d, NEW q, NEW D, NEW K, Timeline(d, q, D, K), NEW s, NEW x,
           Good([D EXCEPT ![s] = x], K)
    PROVE  Timeline(d, Append(q, <<s, x>>), [D EXCEPT ![s] = x], K)
<1>1. PICK T : Runs(T, d, q, D, K)
  BY DEF Timeline
<1>2. PICK S : q \in Seq(S)
  BY DEF Timeline, IsLog
<1> DEFINE n == Len(q)
           e == <<s, x>>
           q2 == Append(q, e)
           D2 == [D EXCEPT ![s] = x]
           T2 == [k \in 0 .. n + 1 |-> IF k = n + 1 THEN D2 ELSE T[k]]
<1>3. n \in Nat
  BY <1>2
<1>4. q2 \in Seq(S \cup {e})
  <2>1. q \in Seq(S \cup {e})
    BY <1>2
  <2>. QED  BY <2>1
<1>5. Len(q2) = n + 1 /\ q2[n + 1] = e /\ \A k \in 1 .. n : q2[k] = q[k]
  BY <1>2
<1> HIDE DEF q2
<1>6. \A k \in 0 .. n : T2[k] = T[k]
  BY <1>3
<1>7. T2[n + 1] = D2
  BY <1>3
<1> HIDE DEF T2
<1>8. Runs(T2, d, q2, D2, K)
  <2>1. T2[0] = d /\ T2[Len(q2)] = D2
    BY <1>1, <1>3, <1>5, <1>6, <1>7 DEF Runs
  <2>2. \A k \in 0 .. Len(q2) : Good(T2[k], K)
    BY <1>1, <1>3, <1>5, <1>6, <1>7 DEF Runs
  <2>3. ASSUME NEW k \in 1 .. Len(q2)
        PROVE  T2[k] = [T2[k - 1] EXCEPT ![q2[k][1]] = q2[k][2]]
    <3>1. CASE k = n + 1
      <4>1. T2[k - 1] = D
        BY <1>1, <1>3, <1>6, <3>1 DEF Runs
      <4>2. q2[k][1] = s /\ q2[k][2] = x
        BY <1>5, <3>1
      <4>. QED  BY <1>7, <3>1, <4>1, <4>2
    <3>2. CASE k # n + 1
      <4>1. k \in 1 .. n /\ k - 1 \in 0 .. n /\ k \in 0 .. n
        BY <1>3, <1>5, <3>2
      <4>2. T[k] = [T[k - 1] EXCEPT ![q[k][1]] = q[k][2]]
        BY <1>1, <4>1 DEF Runs, Steps
      <4>. QED  BY <1>5, <1>6, <4>1, <4>2
    <3>. QED  BY <3>1, <3>2
  <2>. QED  BY <2>1, <2>2, <2>3 DEF Runs, Steps
<1>. QED  BY <1>4, <1>8 DEF Timeline, IsLog, q2

\* The first sector of the queue reaches the disk.
LEMMA TimelineShift ==
    ASSUME NEW d, NEW q, NEW D, NEW K, Timeline(d, q, D, K), q # <<>>
    PROVE  Timeline([d EXCEPT ![Head(q)[1]] = Head(q)[2]], Tail(q), D, K)
<1>1. PICK T : Runs(T, d, q, D, K)
  BY DEF Timeline
<1>2. PICK S : q \in Seq(S)
  BY DEF Timeline, IsLog
<1> DEFINE n == Len(q)
           q2 == Tail(q)
           d2 == [d EXCEPT ![Head(q)[1]] = Head(q)[2]]
           T2 == [k \in 0 .. n - 1 |-> T[k + 1]]
<1>3. /\ n \in Nat \ {0} /\ Head(q) = q[1] /\ q2 \in Seq(S) /\ Len(q2) = n - 1
      /\ \A k \in 1 .. n - 1 : q2[k] = q[k + 1]
  BY <1>2
<1> HIDE DEF q2
<1>4. \A k \in 0 .. n - 1 : T2[k] = T[k + 1]
  BY <1>3
<1> HIDE DEF T2
<1>0. ASSUME NEW j \in 1 .. n, NEW i, i = j - 1
      PROVE  T[j] = [T[i] EXCEPT ![q[j][1]] = q[j][2]]
  BY <1>0, <1>1 DEF Runs, Steps
<1>5. Runs(T2, d2, q2, D, K)
  <2>1. T2[0] = d2
    <3>1. 1 \in 1 .. n /\ 0 = 1 - 1 /\ 0 \in 0 .. n - 1 /\ 0 + 1 = 1
      BY <1>3
    <3>2. T[1] = [T[0] EXCEPT ![q[1][1]] = q[1][2]]
      BY <1>0, <3>1
    <3>3. T2[0] = T[1]
      BY <1>4, <3>1
    <3>. QED  BY <1>1, <1>3, <3>2, <3>3 DEF Runs
  <2>2. T2[Len(q2)] = D /\ \A k \in 0 .. Len(q2) : Good(T2[k], K)
    BY <1>1, <1>3, <1>4 DEF Runs
  <2>3. ASSUME NEW k \in 1 .. Len(q2)
        PROVE  T2[k] = [T2[k - 1] EXCEPT ![q2[k][1]] = q2[k][2]]
    <3>1. k + 1 \in 1 .. n /\ k = (k + 1) - 1 /\ k \in 0 .. n - 1 /\ k - 1 \in 0 .. n - 1 /\ k \in 1 .. n - 1
      BY <1>3
    <3>2. T[k + 1] = [T[k] EXCEPT ![q[k + 1][1]] = q[k + 1][2]]
      BY <1>0, <3>1
    <3>3. T2[k] = T[k + 1] /\ T2[k - 1] = T[k] /\ q2[k] = q[k + 1]
      BY <1>3, <1>4, <3>1
    <3>. QED  BY <3>2, <3>3
  <2>. QED  BY <2>1, <2>2, <2>3 DEF Runs, Steps
<1>. QED  BY <1>3, <1>5 DEF Timeline, IsLog, q2

-----------------------------------------------------------------------------
\* The window.

\* A quiet step is a calm one; and both may be chained.
LEMMA QuietCalm ==
    ASSUME NEW v, NEW w, Quiet(v, w)
    PROVE  Calm(v, w)
<1>1. FreeIn(Image(w)) = FreeIn(Image(v))
  <2>1. \A c \in Clusters : Table(Image(w))[c] = Table(Image(v))[c]
    BY DEF Quiet
  <2>2. \A c \in Clusters : FatOn(Image(w), c) = FatOn(Image(v), c)
    BY <2>1 DEF Table
  <2>. QED  BY <2>2 DEF FreeIn
<1>. QED  BY <1>1 DEF Quiet, Calm, Counts

\* Two quiet steps are a quiet one.
LEMMA QuietTrans ==
    ASSUME NEW v, NEW w, NEW u, Quiet(v, w), Quiet(w, u)
    PROVE  Quiet(v, u)
  BY DEF Quiet

\* Two calm steps are a calm one.
LEMMA CalmTrans ==
    ASSUME NEW v, NEW w, NEW u, Calm(v, w), Calm(w, u)
    PROVE  Calm(v, u)
  BY DEF Calm

\* A change of the fields that are not about the volume.
LEMMA SameVolume ==
    ASSUME NEW v, NEW d, NEW K, OK(v, d, K), NEW w, DOMAIN w = DOMAIN v,
           w.disk = v.disk, w.log = v.log, w.win = v.win
    PROVE  /\ OK(w, d, K) /\ Image(w) = Image(v) /\ Lag(w) = Lag(v)
           /\ w.f = v.f /\ w.free = v.free => Quiet(v, w)
<1>1. Image(w) = Image(v) /\ Lag(w) = Lag(v)
  BY DEF Image, Lag
<1>. QED  BY <1>1 DEF OK, Quiet

\* What OK says of the disk, of the image and of the window.
LEMMA ReadOK ==
    ASSUME NEW v, NEW d, NEW K, OK(v, d, K)
    PROVE  /\ Typed(v.disk) /\ Typed(Image(v)) /\ Good(v.disk, K)
           /\ v.win.sect # 0 => v.win.sect \in Reserved /\ Image(v)[v.win.sect] = v.win.buf
           /\ WindowOK(v)
<1>1. Typed(v.disk) /\ Typed(Image(v)) /\ Good(v.disk, K)
  BY TimelineEnds DEF OK, Good
<1>2. /\ v.disk = [s \in Sectors |-> v.disk[s]] /\ WinOK(v.disk, v.win)
  BY <1>1 DEF OK, Typed, Whole
<1>3. v.win.sect # 0 => v.win.sect \in Reserved /\ Image(v)[v.win.sect] = v.win.buf
  BY <1>2, Places DEF WinOK, Image, Overlaid
<1>4. v.win.sect \in FatSectors => v.win.buf \in [Cells(v.win.sect) -> Digits]
  BY <1>1, <1>3, Places DEF Typed, Whole
<1>5. Coherent(v)
  BY <1>2, <1>4, Places DEF Coherent, WinOK, Reserved
<1>6. Shape(v)
  BY <1>2 DEF OK, Fields, WinOK, Shape
<1>. QED  BY <1>1, <1>3, <1>5, <1>6 DEF WindowOK, Typed

\* Nothing lags when the disk holds what the calls see.
LEMMA LagImage ==
    ASSUME NEW w, w.disk = Image(w)
    PROVE  Lag(w) = {}
  BY DEF Lag, Late, Image

\* sync_window brings the disk up to date.
LEMMA SyncOK ==
    ASSUME NEW v, NEW d, NEW K, OK(v, d, K)
    PROVE  LET w == sync_window(v)
           IN /\ OK(w, d, K) /\ Quiet(v, w) /\ ~w.win.dirty
              /\ Image(w) = Image(v) /\ w.disk = Image(v) /\ Lag(w) = {}
              /\ w.ret = v.ret /\ w.win.sect = v.win.sect
<1> DEFINE w == sync_window(v)
<1>0. Fields \subseteq DOMAIN v /\ {"sect", "buf", "dirty"} \subseteq DOMAIN v.win
  BY DEF OK, WinOK
<1>1. CASE v.win.dirty
  <2>1. /\ w.disk = [v.disk EXCEPT ![v.win.sect] = v.win.buf]
        /\ w.log = Append(v.log, <<v.win.sect, v.win.buf>>)
        /\ w.win.dirty = FALSE /\ w.win.sect = v.win.sect /\ w.win.buf = v.win.buf
        /\ DOMAIN w.win = DOMAIN v.win /\ DOMAIN w = DOMAIN v
        /\ w.f = v.f /\ w.free = v.free /\ w.ret = v.ret
    BY <1>0, <1>1 DEF sync_window, disk_write, Fields
  <2> HIDE DEF w
  <2>2. w.disk = Image(v) /\ Image(w) = Image(v)
    BY <2>1, <1>1 DEF Image, Overlaid
  <2>3. Lag(w) = {}
    BY <2>2, LagImage
  <2>4. Timeline(d, w.log, w.disk, K)
    BY <2>1, <2>2, TimelineAppend DEF OK
  <2>5. w.win.sect # 0 => w.win.buf = w.disk[w.win.sect]
    BY <2>1, <2>2, ReadOK
  <2>6. OK(w, d, K)
    BY <2>1, <2>2, <2>4, <2>5 DEF OK, WinOK
  <2>. QED  BY <2>1, <2>2, <2>3, <2>6 DEF Quiet, w
<1>2. CASE ~v.win.dirty
  <2>1. w = v /\ v.disk = Image(v)
    BY <1>2 DEF sync_window, Image, Overlaid
  <2>. QED  BY <1>2, <2>1, LagImage DEF Quiet
<1>. QED  BY <1>1, <1>2 DEF OK, WinOK

\* move_window: the volume reads the same, and the window lies on s.
LEMMA MoveOK ==
    ASSUME NEW v, NEW d, NEW K, OK(v, d, K), NEW s \in Reserved
    PROVE  LET w == move_window(v, s)
           IN /\ OK(w, d, K) /\ Quiet(v, w) /\ Image(w) = Image(v)
              /\ w.win.sect = s /\ w.win.buf = Image(v)[s]
              /\ w.ret = v.ret
<1>0. s # 0
  BY Places
<1>1. CASE s = v.win.sect
  BY <1>0, <1>1, ReadOK DEF move_window, Quiet
<1>2. CASE s # v.win.sect
  <2> DEFINE u == sync_window(v)
             w == Load(u, s)
  <2>1. /\ OK(u, d, K) /\ Quiet(v, u) /\ u.disk = Image(v) /\ Image(u) = Image(v)
        /\ u.ret = v.ret /\ ~u.win.dirty
    BY SyncOK
  <2> HIDE DEF u
  <2>2. /\ w.disk = u.disk /\ w.win = [sect |-> s, buf |-> u.disk[s], dirty |-> FALSE]
        /\ w.free = u.free /\ w.ret = u.ret /\ w.f = u.f /\ w.log = u.log
        /\ DOMAIN w = DOMAIN u
    BY <2>1 DEF Load, OK, Fields
  <2> HIDE DEF w
  <2>3. Image(w) = Image(v) /\ w.disk = Image(w)
    BY <2>1, <2>2 DEF Image, Overlaid
  <2>4. Lag(w) = {}
    BY <2>3, LagImage
  <2>5. WinOK(w.disk, w.win)
    BY <2>2 DEF WinOK
  <2>6. OK(w, d, K)
    BY <2>1, <2>2, <2>3, <2>5 DEF OK
  <2>. QED  BY <1>2, <2>1, <2>2, <2>3, <2>4, <2>6 DEF move_window, w, u, Quiet
<1>. QED  BY <1>1, <1>2

\* A store into the window.
LEMMA PokeOK ==
    ASSUME NEW v, NEW d, NEW K, OK(v, d, K), v.win.sect # 0, NEW k, NEW x,
           Good(StoredCell(Image(v), v.win.sect, k, x), K)
    PROVE  LET w == Poke(v, k, x)
           IN /\ OK(w, d, K) /\ Image(w) = StoredCell(Image(v), v.win.sect, k, x)
              /\ w.f = v.f /\ w.free = v.free /\ w.ret = v.ret
              /\ w.win.sect = v.win.sect /\ w.disk = v.disk /\ w.win.dirty
<1> DEFINE w == Poke(v, k, x)
<1>1. /\ w.disk = v.disk /\ w.win.sect = v.win.sect /\ w.win.dirty = TRUE
      /\ w.win.buf = [v.win.buf EXCEPT ![k] = x]
      /\ w.log = v.log /\ w.f = v.f /\ w.free = v.free /\ w.ret = v.ret
      /\ DOMAIN w = DOMAIN v /\ DOMAIN w.win = DOMAIN v.win
  BY DEF Poke, OK, Fields, WinOK
<1> HIDE DEF w
<1>2. /\ v.disk = [s \in Sectors |-> v.disk[s]] /\ Image(v) = [s \in Sectors |-> Image(v)[s]]
      /\ v.win.sect \in Sectors /\ Image(v)[v.win.sect] = v.win.buf
  BY ReadOK, Places DEF Typed, Whole
<1>3. Image(w) = [v.disk EXCEPT ![v.win.sect] = [v.win.buf EXCEPT ![k] = x]]
  BY <1>1 DEF Image, Overlaid
<1>4. Image(w) = [Image(v) EXCEPT ![v.win.sect] = [@ EXCEPT ![k] = x]]
  <2>1. CASE v.win.dirty
    BY <2>1, <1>2, <1>3 DEF Image, Overlaid
  <2>2. CASE ~v.win.dirty
    BY <2>2, <1>2, <1>3 DEF Image, Overlaid
  <2>. QED  BY <2>1, <2>2
<1>5. Image(w) = StoredCell(Image(v), v.win.sect, k, x)
  BY <1>4 DEF StoredCell
<1>6. WinOK(w.disk, w.win)
  BY <1>1 DEF OK, WinOK
<1>7. OK(w, d, K)
  BY <1>1, <1>5, <1>6 DEF OK
<1>. QED  BY <1>1, <1>5, <1>7 DEF w

-----------------------------------------------------------------------------
\* Data sectors are neither the FAT's nor the directory's.
LEMMA SameParts ==
    ASSUME NEW d, NEW D, Typed(d), D = [s \in Sectors |-> D[s]], \A s \in Reserved : D[s] = d[s]
    PROVE  /\ Typed(D) /\ Table(D) = Table(d) /\ Dir(D) = Dir(d)
           /\ \A i \in Slots : Entry(D, i) = Entry(d, i)
           /\ \A K : Good(d, K) => Good(D, K)
<1>1. Typed(D)
  BY DEF Typed, Whole, Reserved
<1>2. ASSUME NEW c \in Clusters PROVE FatOn(D, c) = FatOn(d, c)
  <2>1. LowSect(c) \in Reserved /\ HighSect(c) \in Reserved
    BY CellSects DEF Reserved
  <2>. QED  BY <2>1 DEF FatOn
<1>3. \A i \in Slots : Entry(D, i) = Entry(d, i)
  BY SlotPlace DEF Entry, Reserved
<1>4. Table(D) = Table(d) /\ Dir(D) = Dir(d)
  BY <1>2, <1>3 DEF Table, Dir
<1>. QED  BY <1>1, <1>3, <1>4 DEF Good

\* A write to a data sector concerns neither the FAT nor the directory.
LEMMA DataOK ==
    ASSUME NEW v, NEW d, NEW K, OK(v, d, K), NEW s \in DataSects \cup {0}, NEW x
    PROVE  LET w == disk_write(v, s, x)
           IN OK(w, d, K) /\ Quiet(v, w) /\ w.ret = v.ret
<1> DEFINE w == disk_write(v, s, x)
<1>1. /\ w.disk = [v.disk EXCEPT ![s] = x] /\ w.log = Append(v.log, <<s, x>>)
      /\ w.win = v.win /\ w.f = v.f /\ w.free = v.free /\ w.ret = v.ret
      /\ DOMAIN w = DOMAIN v
  BY DEF disk_write, OK, Fields
<1> HIDE DEF w
<1>2. /\ Typed(v.disk) /\ Good(v.disk, K)
      /\ v.disk = [t \in Sectors |-> v.disk[t]] /\ Typed(Image(v))
      /\ WinOK(v.disk, v.win) /\ Good(Image(v), K)
  BY ReadOK DEF Typed, Whole, OK
<1>3. s \notin Reserved
  BY Places
<1>4. /\ w.disk = [t \in Sectors |-> w.disk[t]]
      /\ \A t \in Reserved : w.disk[t] = v.disk[t]
  BY <1>1, <1>2, <1>3, Places
<1>5. /\ Good(w.disk, K) /\ \A i \in Slots : Entry(w.disk, i) = Entry(v.disk, i)
  BY <1>2, <1>4, SameParts
<1>6. /\ Image(w) = [t \in Sectors |-> Image(w)[t]]
      /\ \A t \in Reserved : Image(w)[t] = Image(v)[t]
  <2>1. CASE v.win.dirty
    BY <1>1, <1>2, <1>4, <2>1, Places DEF Image, Overlaid
  <2>2. CASE ~v.win.dirty
    BY <1>1, <1>2, <1>4, <2>2, Places DEF Image, Overlaid
  <2>. QED  BY <2>1, <2>2
<1>7. /\ Good(Image(w), K) /\ Table(Image(w)) = Table(Image(v)) /\ Dir(Image(w)) = Dir(Image(v))
      /\ \A i \in Slots : Entry(Image(w), i) = Entry(Image(v), i)
  BY <1>2, <1>6, SameParts
<1>8. Lag(w) \subseteq Lag(v)
  BY <1>5, <1>7 DEF Lag, Late, Image
<1>9. WinOK(w.disk, w.win)
  BY <1>1, <1>2, <1>4, Places DEF WinOK
<1>10. Timeline(d, w.log, w.disk, K)
  <2>1. Timeline(d, v.log, v.disk, K)
    BY DEF OK
  <2>2. Good([v.disk EXCEPT ![s] = x], K)
    BY <1>1, <1>5
  <2>. QED  BY <1>1, <2>1, <2>2, TimelineAppend
<1>. QED  BY <1>1, <1>7, <1>8, <1>9, <1>10 DEF OK, Quiet, w

-----------------------------------------------------------------------------
\* The digits of the FAT.

\* The two digits of an entry of the FAT.
Lo(d, c) == d[LowSect(c)][<<c, "lo">>]
Hi(d, c) == d[HighSect(c)][<<c, "hi">>]
DigitSect(c, h) == IF h = "lo" THEN LowSect(c) ELSE HighSect(c)

\* An entry of the FAT and its two digits.
LEMMA DigitsOf ==
    ASSUME NEW d, Typed(d), NEW c \in Clusters
    PROVE  /\ Lo(d, c) \in 0 .. 3 /\ Hi(d, c) \in 0 .. 3 /\ FatOn(d, c) = Lo(d, c) + 4 * Hi(d, c)
           /\ FatOn(d, c) \in 0 .. 15
<1>1. /\ LowSect(c) \in FatSectors /\ HighSect(c) \in FatSectors
      /\ <<c, "lo">> \in Cells(LowSect(c)) /\ <<c, "hi">> \in Cells(HighSect(c))
  BY CellSects
<1>2. /\ d[LowSect(c)] \in [Cells(LowSect(c)) -> Digits]
      /\ d[HighSect(c)] \in [Cells(HighSect(c)) -> Digits]
  BY <1>1 DEF Typed, Whole
<1>3. Lo(d, c) \in Digits /\ Hi(d, c) \in Digits
  BY <1>1, <1>2 DEF Lo, Hi
<1>4. FatOn(d, c) = Lo(d, c) + 4 * Hi(d, c)
  BY Places DEF FatOn, Lo, Hi
<1>. QED  BY <1>3, <1>4, Places DEF Digits

\* What storing the digit x in the cell h of the cluster c comes to.
DigitStored(d, c, h, x) ==
    LET D == StoredCell(d, DigitSect(c, h), <<c, h>>, x)
    IN /\ Typed(D) /\ Dir(D) = Dir(d)
       /\ \A i \in Slots : Entry(D, i) = Entry(d, i)
       /\ \A k \in Clusters : /\ Lo(D, k) = IF k = c /\ h = "lo" THEN x ELSE Lo(d, k)
                              /\ Hi(D, k) = IF k = c /\ h = "hi" THEN x ELSE Hi(d, k)

\* A store of one digit of one entry.
LEMMA StoreDigit ==
    ASSUME NEW d, Typed(d), NEW c \in Clusters, NEW h \in {"lo", "hi"}, NEW x \in Digits
    PROVE  DigitStored(d, c, h, x)
<1> DEFINE s == DigitSect(c, h)
           D == StoredCell(d, s, <<c, h>>, x)
<1>1. s \in FatSectors /\ <<c, h>> \in Cells(s) /\ s \in Sectors
  BY CellSects DEF DigitSect
<1>2. /\ d = [t \in Sectors |-> d[t]] /\ \A t \in FatSectors : d[t] \in [Cells(t) -> Digits]
  BY DEF Typed, Whole
<1>3. /\ D = [t \in Sectors |-> D[t]]
      /\ D[s] = [d[s] EXCEPT ![<<c, h>>] = x]
      /\ \A t \in Sectors \ {s} : D[t] = d[t]
  BY <1>1, <1>2 DEF StoredCell
<1> HIDE DEF D, s
<1>4. \A t \in FatSectors : D[t] \in [Cells(t) -> Digits]
  <2>1. D[s] \in [Cells(s) -> Digits]
    BY <1>1, <1>2, <1>3
  <2>2. ASSUME NEW t \in FatSectors, t # s PROVE D[t] \in [Cells(t) -> Digits]
    <3>1. t \in Sectors \ {s}
      BY <2>2, Places DEF Reserved
    <3>. QED  BY <3>1, <1>2, <1>3
  <2>. QED  BY <2>1, <2>2
<1>5. \A t \in DirSectors : D[t] = d[t] /\ t \in Sectors
  BY <1>1, <1>3, Places DEF Reserved
<1>6. Typed(D)
  BY <1>3, <1>4, <1>5 DEF Typed, Whole
<1>7. \A i \in Slots : Entry(D, i) = Entry(d, i)
  BY <1>5, SlotPlace DEF Entry
<1>8. ASSUME NEW t \in FatSectors, NEW y \in Cells(t)
      PROVE  D[t][y] = IF t = s /\ y = <<c, h>> THEN x ELSE d[t][y]
  <2>1. t \in Sectors /\ DOMAIN d[t] = Cells(t)
    BY <1>2, Places
  <2>. QED  BY <1>3, <2>1
<1>9. ASSUME NEW k \in Clusters
      PROVE  /\ Lo(D, k) = IF k = c /\ h = "lo" THEN x ELSE Lo(d, k)
             /\ Hi(D, k) = IF k = c /\ h = "hi" THEN x ELSE Hi(d, k)
  <2>1. /\ LowSect(k) \in FatSectors /\ HighSect(k) \in FatSectors
        /\ <<k, "lo">> \in Cells(LowSect(k)) /\ <<k, "hi">> \in Cells(HighSect(k))
    BY CellSects
  <2>2. <<k, "lo">> = <<c, h>> <=> k = c /\ h = "lo"
    OBVIOUS
  <2>3. <<k, "hi">> = <<c, h>> <=> k = c /\ h = "hi"
    OBVIOUS
  <2>4. (k = c /\ h = "lo" => LowSect(k) = s) /\ (k = c /\ h = "hi" => HighSect(k) = s)
    BY DEF s, DigitSect
  <2>5. Lo(D, k) = IF k = c /\ h = "lo" THEN x ELSE Lo(d, k)
    BY <1>8, <2>1, <2>2, <2>4 DEF Lo
  <2>6. Hi(D, k) = IF k = c /\ h = "hi" THEN x ELSE Hi(d, k)
    BY <1>8, <2>1, <2>3, <2>4 DEF Hi
  <2>. QED  BY <2>5, <2>6
<1>10. Dir(D) = Dir(d)
  BY <1>7 DEF Dir
<1>. QED  BY <1>6, <1>7, <1>9, <1>10 DEF D, s, DigitStored

\* get_fat answers what the FAT says, and never 1 for a cluster.
LEMMA GetOK ==
    ASSUME NEW v, NEW d, NEW K, OK(v, d, K), NEW c
    PROVE  LET w == get_fat(v, c)
           IN /\ OK(w, d, K) /\ Quiet(v, w)
              /\ w.ret \in 0 .. EOC
              /\ c \notin Clusters => w.ret = 1
              /\ c \in Clusters => w.ret = Table(Image(v))[c] /\ w.ret # 1
<1> DEFINE w == get_fat(v, c)
<1>1. CASE c \notin Clusters
  <2>1. w = [v EXCEPT !.ret = 1]
    BY <1>1 DEF get_fat
  <2>2. /\ w.disk = v.disk /\ w.log = v.log /\ w.win = v.win /\ w.f = v.f
        /\ w.free = v.free /\ DOMAIN w = DOMAIN v /\ w.ret = 1
    BY <2>1 DEF OK, Fields
  <2>. QED  BY <1>1, <2>2, SameVolume, Places
<1>2. CASE c \in Clusters
  <2> DEFINE p == move_window(v, LowSect(c))
             q == AddLow(p, c)
             r == move_window(q, HighSect(c))
  <2>0. LowSect(c) \in Reserved /\ HighSect(c) \in Reserved
    BY <1>2, CellSects DEF Reserved
  <2>1. OK(p, d, K) /\ Quiet(v, p) /\ Image(p) = Image(v) /\ p.win.buf = Image(v)[LowSect(c)]
    BY <2>0, MoveOK
  <2> HIDE DEF p
  <2>2. /\ q.disk = p.disk /\ q.log = p.log /\ q.win = p.win /\ q.f = p.f
        /\ q.free = p.free /\ DOMAIN q = DOMAIN p /\ q.ret = Lo(Image(v), c)
    BY <2>1 DEF AddLow, Cell, OK, Fields, Lo
  <2> HIDE DEF q
  <2>3. OK(q, d, K) /\ Quiet(p, q) /\ Image(q) = Image(v)
    BY <2>1, <2>2, SameVolume
  <2>4. /\ OK(r, d, K) /\ Quiet(q, r) /\ Image(r) = Image(v) /\ r.win.buf = Image(v)[HighSect(c)]
        /\ r.ret = q.ret
    BY <2>0, <2>3, MoveOK
  <2>5. w = AddHigh(r, c)
    BY <1>2 DEF get_fat, q, p
  <2> HIDE DEF r, w
  <2>6. /\ w.disk = r.disk /\ w.log = r.log /\ w.win = r.win /\ w.f = r.f
        /\ w.free = r.free /\ DOMAIN w = DOMAIN r
        /\ w.ret = Lo(Image(v), c) + HalfBase * Hi(Image(v), c)
    BY <2>2, <2>4, <2>5 DEF AddHigh, Cell, OK, Fields, Hi
  <2>7. OK(w, d, K) /\ Quiet(r, w)
    BY <2>4, <2>6, SameVolume
  <2>8. Quiet(v, w)
    BY <2>1, <2>3, <2>4, <2>7, QuietTrans
  <2>9. /\ w.ret = Table(Image(v))[c] /\ w.ret \in 0 .. EOC
    BY <1>2, <2>6, DigitsOf, ReadOK, Places DEF Table
  <2>10. Table(Image(v))[c] # 1
    BY <1>2 DEF OK, Good, NoOnes
  <2>. QED  BY <1>2, <2>7, <2>8, <2>9, <2>10 DEF w
<1>. QED  BY <1>1, <1>2

\* An entry with a low digit other than 1, or with a high digit, is not 1.
LEMMA NotOne ==
    ASSUME NEW l \in 0 .. 3, NEW m \in 0 .. 3, NEW h \in 0 .. 3, l = 1 => m + 4 * h >= 4
    PROVE  l + 4 * h # 1
  OBVIOUS

\* A link whose low digit is 1 is only ever stored over an entry with a high
\* digit: the entry is not 1 between the stores of its two digits.
SafeOver(o, x) == x # 1 /\ (x % HalfBase = 1 => o >= HalfBase)

\* put_fat sets its entry; the disk is good between the two stores as well.
THEOREM PutOK ==
    ASSUME NEW v, NEW d, NEW K, OK(v, d, K), NEW c \in Clusters, NEW x \in 0 .. EOC,
           SafeOver(Table(Image(v))[c], x)
    PROVE  LET w == put_fat(v, c, x)
           IN /\ OK(w, d, K)
              /\ Table(Image(w)) = [Table(Image(v)) EXCEPT ![c] = x]
              /\ Dir(Image(w)) = Dir(Image(v)) /\ Lag(w) \subseteq Lag(v)
              /\ w.f = v.f /\ w.free = v.free /\ w.ret = v.ret
<1> DEFINE low == x % HalfBase
           high == x \div HalfBase
           p == move_window(v, LowSect(c))
           q == Poke(p, <<c, "lo">>, low)
           r == move_window(q, HighSect(c))
           w == put_fat(v, c, x)
           D == Image(v)
           D1 == StoredCell(D, LowSect(c), <<c, "lo">>, low)
           D2 == StoredCell(D1, HighSect(c), <<c, "hi">>, high)
<1>0. /\ low \in Digits /\ high \in Digits /\ low + HalfBase * high = x
      /\ low = 1 => Table(Image(v))[c] >= HalfBase
      /\ x # 1
  BY Places DEF Digits, SafeOver
<1>9. w = Poke(r, <<c, "hi">>, high)
  BY DEF put_fat
<1> HIDE DEF low, high
<1>1. LowSect(c) \in Reserved /\ HighSect(c) \in Reserved /\ 0 \notin Reserved
  BY CellSects, Places DEF Reserved
<1>2. Typed(D) /\ Good(D, K) /\ DirGood(Dir(D), K) /\ NoOnes(Table(D))
  BY ReadOK DEF OK, Good
<1> HIDE DEF D
<1>3. /\ Typed(D1) /\ Dir(D1) = Dir(D)
      /\ \A i \in Slots : Entry(D1, i) = Entry(D, i)
      /\ \A k \in Clusters : /\ Lo(D1, k) = IF k = c THEN low ELSE Lo(D, k)
                             /\ Hi(D1, k) = Hi(D, k)
  <2> DEFINE h == "lo"
             E == StoredCell(D, DigitSect(c, h), <<c, h>>, low)
  <2>1. LowSect(c) = DigitSect(c, h) /\ h \in {"lo", "hi"} /\ h = "lo" /\ h # "hi"
    BY DEF DigitSect
  <2>3. E = D1
    BY <2>1 DEF D1
  <2> HIDE DEF h
  <2>4. DigitStored(D, c, h, low)
    BY <1>0, <1>2, <2>1, StoreDigit
  <2>2. /\ Typed(E) /\ Dir(E) = Dir(D)
        /\ \A i \in Slots : Entry(E, i) = Entry(D, i)
        /\ \A k \in Clusters : /\ Lo(E, k) = IF k = c /\ h = "lo" THEN low ELSE Lo(D, k)
                               /\ Hi(E, k) = IF k = c /\ h = "hi" THEN low ELSE Hi(D, k)
    BY <2>4 DEF DigitStored, E
  <2> HIDE DEF E
  <2>. QED  BY <2>1, <2>2, <2>3
<1> HIDE DEF D1
<1>4. /\ Typed(D2) /\ Dir(D2) = Dir(D)
      /\ \A i \in Slots : Entry(D2, i) = Entry(D1, i)
      /\ \A k \in Clusters : /\ Lo(D2, k) = Lo(D1, k)
                             /\ Hi(D2, k) = IF k = c THEN high ELSE Hi(D1, k)
  <2> DEFINE h == "hi"
             E == StoredCell(D1, DigitSect(c, h), <<c, h>>, high)
  <2>1. HighSect(c) = DigitSect(c, h) /\ h \in {"lo", "hi"} /\ h = "hi" /\ h # "lo"
    BY DEF DigitSect
  <2>3. E = D2
    BY <2>1 DEF D2
  <2> HIDE DEF h
  <2>4. DigitStored(D1, c, h, high)
    BY <1>0, <1>3, <2>1, StoreDigit
  <2>2. /\ Typed(E) /\ Dir(E) = Dir(D1)
        /\ \A i \in Slots : Entry(E, i) = Entry(D1, i)
        /\ \A k \in Clusters : /\ Lo(E, k) = IF k = c /\ h = "lo" THEN high ELSE Lo(D1, k)
                               /\ Hi(E, k) = IF k = c /\ h = "hi" THEN high ELSE Hi(D1, k)
    BY <2>4 DEF DigitStored, E
  <2> HIDE DEF E
  <2>. QED  BY <1>3, <2>1, <2>2, <2>3
<1> HIDE DEF D2
<1>5. Good(D1, K)
  <2>1. ASSUME NEW k \in Clusters PROVE FatOn(D1, k) # 1
    <3>1. FatOn(D, k) # 1 /\ (low = 1 => FatOn(D, c) >= 4)
      BY <1>0, <1>2, Places DEF NoOnes, Table, D
    <3>2. /\ FatOn(D1, k) = Lo(D1, k) + 4 * Hi(D1, k) /\ FatOn(D, k) = Lo(D, k) + 4 * Hi(D, k)
          /\ Lo(D, k) \in 0 .. 3 /\ Hi(D, k) \in 0 .. 3
      BY <1>2, <1>3, DigitsOf
    <3>3. low \in 0 .. 3
      BY <1>0, Places DEF Digits
    <3>4. k = c => FatOn(D1, k) = low + 4 * Hi(D, k)
      BY <1>3, <3>2
    <3>5. k # c => FatOn(D1, k) = FatOn(D, k)
      BY <1>3, <3>2
    <3>6. CASE k = c
      BY <3>1, <3>2, <3>3, <3>4, <3>6, NotOne
    <3>. QED  BY <3>1, <3>5, <3>6
  <2>. QED  BY <1>2, <1>3, <2>1 DEF Good, NoOnes, Table
<1>6. \A k \in Clusters : FatOn(D2, k) = IF k = c THEN x ELSE FatOn(D, k)
  <2>1. ASSUME NEW k \in Clusters PROVE FatOn(D2, k) = IF k = c THEN x ELSE FatOn(D, k)
    <3>2. /\ FatOn(D2, k) = Lo(D2, k) + 4 * Hi(D2, k) /\ FatOn(D, k) = Lo(D, k) + 4 * Hi(D, k)
      BY <1>2, <1>4, DigitsOf
    <3>. QED  BY <1>0, <1>3, <1>4, <3>2, Places
  <2>. QED  BY <2>1
<1>7. Table(D2) = [Table(D) EXCEPT ![c] = x]
  BY <1>6 DEF Table
<1>8. Good(D2, K)
  <2>1. \A k \in Clusters : FatOn(D2, k) # 1
    BY <1>0, <1>2, <1>6 DEF NoOnes, Table
  <2>. QED  BY <1>2, <1>4, <2>1 DEF Good, NoOnes, Table
<1>10. OK(p, d, K) /\ Quiet(v, p) /\ Image(p) = D /\ p.win.sect = LowSect(c) /\ p.ret = v.ret
  BY <1>1, MoveOK DEF D
<1> HIDE DEF p
<1>11. /\ OK(q, d, K) /\ Image(q) = D1 /\ q.f = p.f /\ q.free = p.free /\ q.ret = p.ret
       /\ q.disk = p.disk
  <2>1. D1 = StoredCell(Image(p), p.win.sect, <<c, "lo">>, low) /\ p.win.sect # 0
    BY <1>1, <1>10 DEF D1
  <2>. QED  BY <1>5, <1>10, <2>1, PokeOK
<1> HIDE DEF q
<1>12. OK(r, d, K) /\ Quiet(q, r) /\ Image(r) = D1 /\ r.win.sect = HighSect(c) /\ r.ret = q.ret
  BY <1>1, <1>11, MoveOK
<1> HIDE DEF r
<1>13. /\ OK(w, d, K) /\ Image(w) = D2 /\ w.f = r.f /\ w.free = r.free /\ w.ret = r.ret
       /\ w.disk = r.disk
  <2>1. D2 = StoredCell(Image(r), r.win.sect, <<c, "hi">>, high) /\ r.win.sect # 0
    BY <1>1, <1>12 DEF D2
  <2>. QED  BY <1>8, <1>9, <1>12, <2>1, PokeOK
<1> HIDE DEF w
<1>14. Lag(w) \subseteq Lag(v)
  <2>1. Lag(q) = Lag(p)
    BY <1>3, <1>10, <1>11 DEF Lag, Late, Image
  <2>2. Lag(w) = Lag(r)
    BY <1>4, <1>12, <1>13 DEF Lag, Late, Image
  <2>. QED  BY <1>10, <1>12, <2>1, <2>2 DEF Quiet
<1>. QED  BY <1>4, <1>7, <1>10, <1>11, <1>12, <1>13, <1>14 DEF Quiet, D, w

-----------------------------------------------------------------------------
\* Clusters are taken and freed.

\* A cluster is free when its entry is 0.
LEMMA FreeOf ==
    ASSUME NEW d, NEW c \in Clusters
    PROVE  c \in FreeIn(d) <=> Table(d)[c] = 0
  BY DEF FreeIn, Table

\* The end of create_chain: the cluster found is taken and linked behind c.
LEMMA LinkOK ==
    ASSUME NEW v, NEW d, NEW K, OK(v, d, K), NEW c \in Clusters \cup {0},
           v.ret \in Clusters => Table(Image(v))[v.ret] = 0,
           c # 0 => Table(Image(v))[c] >= n_fatent
    PROVE  LET w == TakeFree(v, c)
           IN OK(w, d, K) /\ Calm(v, w) /\ w.ret = v.ret
<1> DEFINE n == v.ret
           t == Table(Image(v))
           p == put_fat(v, n, EOC)
           q == Linked(p, c, n)
           w == TakeFree(v, c)
<1>1. CASE n \notin Clusters
  BY <1>1 DEF TakeFree, Calm
<1>2. CASE n \in Clusters
  <2>0. /\ c # n /\ n \in 0 .. EOC /\ EOC \in 0 .. EOC
        /\ n # 1 /\ n # 0 /\ EOC # 0 /\ n_fatent >= HalfBase /\ EOC # 0 /\ n # 0
    BY <1>2, ClusterNumbers
  <2>1. /\ OK(p, d, K) /\ Table(Image(p)) = [t EXCEPT ![n] = EOC] /\ Dir(Image(p)) = Dir(Image(v))
        /\ Lag(p) \subseteq Lag(v) /\ p.f = v.f /\ p.free = v.free /\ p.ret = n
    <3>1. SafeOver(Table(Image(v))[n], EOC)
      BY ClusterNumbers DEF SafeOver
    <3>. QED  BY <1>2, <2>0, <3>1, PutOK
  <2>2. w = [q EXCEPT !.last = n, !.free = IF @ <= NumClusters THEN @ - 1 ELSE @]
    BY <1>2 DEF TakeFree
  <2> HIDE DEF p, w
  <2>3. t = [k \in Clusters |-> t[k]]
    BY DEF Table
  <2> HIDE DEF t, n
  <2>4. /\ OK(q, d, K) /\ Dir(Image(q)) = Dir(Image(v))
        /\ Lag(q) \subseteq Lag(v) /\ q.f = v.f /\ q.free = v.free /\ q.ret = n
        /\ \A k \in Clusters : Table(Image(q))[k] = IF k = n THEN EOC ELSE IF k = c THEN n ELSE t[k]
    <3>1. CASE c = 0
      BY <3>1, <2>1, <2>3, <1>2, ClusterNumbers DEF Linked
    <3>2. CASE c # 0
      <4>1. q = put_fat(p, c, n) /\ c \in Clusters
        BY <3>2 DEF Linked
      <4>2. Table(Image(p))[c] = t[c] /\ t[c] >= n_fatent /\ t[c] \in Nat
        <5>1. t[c] \in 0 .. 15
          BY <4>1, DigitsOf, ReadOK DEF t, Table
        <5>. QED  BY <5>1, <4>1, <2>0, <2>1, <2>3, <3>2 DEF t
      <4> HIDE DEF q
      <4>3. /\ OK(q, d, K) /\ Table(Image(q)) = [Table(Image(p)) EXCEPT ![c] = n]
            /\ Dir(Image(q)) = Dir(Image(p))
            /\ Lag(q) \subseteq Lag(p) /\ q.f = p.f /\ q.free = p.free /\ q.ret = p.ret
        <5>1. SafeOver(Table(Image(p))[c], n)
          BY <4>2, <2>0, ClusterNumbers DEF SafeOver
        <5>2. OK(p, d, K) /\ n \in 0 .. EOC
          BY <2>0, <2>1
        <5>. QED  BY <4>1, <5>1, <5>2, PutOK
      <4>. QED  BY <4>1, <4>3, <2>0, <2>1, <2>3
    <3>. QED  BY <3>1, <3>2
  <2> HIDE DEF q
  <2>5. /\ w.disk = q.disk /\ w.log = q.log /\ w.win = q.win /\ w.f = q.f /\ w.ret = q.ret
        /\ DOMAIN w = DOMAIN q
        /\ w.free = IF v.free <= NumClusters THEN v.free - 1 ELSE v.free
    BY <2>2, <2>4 DEF OK, Fields
  <2>6. OK(w, d, K) /\ Image(w) = Image(q) /\ Lag(w) = Lag(q)
    BY <2>4, <2>5, SameVolume
  <2>7. ASSUME Counts(v) PROVE Counts(w)
    <3>1. FreeIn(Image(w)) = FreeIn(Image(v)) \ {n}
      <4>1. ASSUME NEW k \in Clusters
            PROVE  Table(Image(w))[k] = 0 <=> Table(Image(v))[k] = 0 /\ k # n
        <5>1. c # 0 => t[c] # 0
          BY ClusterNumbers, <2>0 DEF t
        <5>2. t = Table(Image(v)) /\ Table(Image(w)) = Table(Image(q))
          BY <2>6 DEF t
        <5>3. Table(Image(q))[k] = 0 <=> t[k] = 0 /\ k # n
          BY <5>1, <2>0, <2>4, ClusterNumbers
        <5>. QED  BY <5>2, <5>3
      <4>2. \A k \in Clusters : k \in FreeIn(Image(w)) <=> k \in FreeIn(Image(v)) /\ k # n
        BY <4>1, FreeOf
      <4>. QED  BY <4>2 DEF FreeIn
    <3>2. n \in FreeIn(Image(v))
      BY <1>2, FreeOf DEF n
    <3>3. Cardinality(FreeIn(Image(w))) = Cardinality(FreeIn(Image(v))) - 1
      BY <3>1, <3>2, FreeFinite, FS_RemoveElement
    <3>. QED  BY <2>5, <2>7, <3>3, FreeFinite, ClusterNumbers DEF Counts
  <2>. QED  BY <2>4, <2>5, <2>6, <2>7 DEF Calm, w, n
<1>. QED  BY <1>1, <1>2

\* A cluster in use is freed.
LEMMA ReleaseOK ==
    ASSUME NEW v, NEW d, NEW K, OK(v, d, K), NEW c \in Clusters, Table(Image(v))[c] # 0
    PROVE  LET w == Release(v, c)
           IN OK(w, d, K) /\ Calm(v, w) /\ w.ret = v.ret
<1> DEFINE p == put_fat(v, c, 0)
           w == Release(v, c)
<1>1. /\ OK(p, d, K) /\ Table(Image(p)) = [Table(Image(v)) EXCEPT ![c] = 0]
      /\ Dir(Image(p)) = Dir(Image(v))
      /\ Lag(p) \subseteq Lag(v) /\ p.f = v.f /\ p.free = v.free /\ p.ret = v.ret
  <2>1. 0 \in 0 .. EOC /\ SafeOver(Table(Image(v))[c], 0)
    BY Places DEF SafeOver
  <2>. QED  BY <2>1, PutOK
<1>2. w = [p EXCEPT !.free = IF @ < NumClusters THEN @ + 1 ELSE @]
  BY DEF Release
<1> HIDE DEF p, w
<1>3. /\ w.disk = p.disk /\ w.log = p.log /\ w.win = p.win /\ w.f = p.f /\ w.ret = p.ret
      /\ DOMAIN w = DOMAIN p
      /\ w.free = IF v.free < NumClusters THEN v.free + 1 ELSE v.free
  BY <1>1, <1>2 DEF OK, Fields
<1>4. OK(w, d, K) /\ Image(w) = Image(p) /\ Lag(w) = Lag(p)
  BY <1>1, <1>3, SameVolume
<1>5. ASSUME Counts(v) PROVE Counts(w)
  <2>1. FreeIn(Image(w)) = FreeIn(Image(v)) \cup {c}
    <3>1. \A k \in Clusters : Table(Image(w))[k] = 0 <=> Table(Image(v))[k] = 0 \/ k = c
      BY <1>1, <1>4 DEF Table
    <3>2. \A k \in Clusters : k \in FreeIn(Image(w)) <=> k \in FreeIn(Image(v)) \/ k = c
      BY <3>1, FreeOf
    <3>. QED  BY <3>2 DEF FreeIn
  <2>2. c \notin FreeIn(Image(v))
    BY FreeOf
  <2>3. Cardinality(FreeIn(Image(w))) = Cardinality(FreeIn(Image(v))) + 1
    BY <2>1, <2>2, FreeFinite, FS_AddElement
  <2>. QED  BY <1>3, <1>5, <2>3, FreeFinite, ClusterNumbers DEF Counts
<1>. QED  BY <1>1, <1>3, <1>4, <1>5 DEF Calm, w

-----------------------------------------------------------------------------
\* CTRL_TRIM writes sectors of the data.
TrimStep(u, c) == disk_write(u, clust2sect(c), Erased)
TrimRun(r, v, a, k) == r = [i \in 0 .. k |-> IF i = 0 THEN v ELSE TrimStep(r[i - 1], a + i - 1)]

\* The loop of CTRL_TRIM, as a run of steps.
LEMMA TrimRounds ==
    ASSUME NEW v, NEW a \in Nat, NEW k \in Nat, NEW b, k = b - a + 1
    PROVE  \E r : TrimRun(r, v, a, k) /\ Trim(v, a, b) = r[k]
<1> DEFINE T == {n \in 0 .. k : \E g : TrimRun(g, v, a, n)}
<1>1. 0 \in T
  <2>1. TrimRun([i \in 0 .. 0 |-> v], v, a, 0)
    BY DEF TrimRun
  <2>. QED  BY <2>1
<1>2. ASSUME NEW n \in 1 .. k, n - 1 \in T PROVE n \in T
  <2>1. PICK g : TrimRun(g, v, a, n - 1)
    BY <1>2
  <2> DEFINE h == [i \in 0 .. n |-> IF i = n THEN TrimStep(g[n - 1], a + n - 1) ELSE g[i]]
  <2>2. TrimRun(h, v, a, n)
    BY <2>1 DEF TrimRun
  <2> HIDE DEF h
  <2>. QED  BY <2>2
<1> HIDE DEF T
<1>3. k \in T
  BY <1>1, <1>2, Rounds
<1>4. Trim(v, a, b) = (CHOOSE g : TrimRun(g, v, a, k))[k]
  BY DEF Trim, TrimStep, TrimRun
<1>. QED  BY <1>3, <1>4 DEF T

\* The sector of a cluster is a data sector; what is no cluster has none.
LEMMA ClusterSect ==
    ASSUME NEW c \in Int
    PROVE  clust2sect(c) \in DataSects \cup {0} /\ (clust2sect(c) # 0 <=> c \in Clusters)
  BY Places, ClusterNumbers DEF clust2sect, DataSects

\* CTRL_TRIM erases data only.
LEMMA TrimOK ==
    ASSUME NEW v, NEW d, NEW K, OK(v, d, K), NEW a \in Nat, NEW b \in Nat, a <= b
    PROVE  LET w == Trim(v, a, b) IN OK(w, d, K) /\ Quiet(v, w) /\ w.ret = v.ret
<1> DEFINE k == b - a + 1
<1>2. k \in Nat
  OBVIOUS
<1>1. PICK r : TrimRun(r, v, a, k) /\ Trim(v, a, b) = r[k]
  BY <1>2, TrimRounds
<1>6. r[0] = v /\ \A i \in 1 .. k : r[i] = TrimStep(r[i - 1], a + i - 1)
  BY <1>1, <1>2 DEF TrimRun
<1> DEFINE T == {i \in 0 .. k : OK(r[i], d, K) /\ Quiet(v, r[i]) /\ r[i].ret = v.ret}
<1>3. 0 \in T
  BY <1>6, <1>2 DEF Quiet
<1>4. ASSUME NEW i \in 1 .. k, i - 1 \in T PROVE i \in T
  <2> DEFINE u == r[i - 1]
  <2>1. OK(u, d, K) /\ Quiet(v, u) /\ u.ret = v.ret
    BY <1>4
  <2>2. r[i] = disk_write(u, clust2sect(a + i - 1), Erased)
    BY <1>6 DEF TrimStep
  <2>3. clust2sect(a + i - 1) \in DataSects \cup {0}
    BY ClusterSect
  <2> HIDE DEF u
  <2>4. OK(r[i], d, K) /\ Quiet(u, r[i]) /\ r[i].ret = u.ret
    BY <2>1, <2>2, <2>3, DataOK
  <2>5. Quiet(v, r[i])
    BY <2>1, <2>4, QuietTrans
  <2>. QED  BY <1>2, <2>1, <2>4, <2>5
<1>5. k \in T
  <2> HIDE DEF T
  <2>. QED  BY <1>2, <1>3, <1>4, Rounds
<1>. QED  BY <1>1, <1>5

-----------------------------------------------------------------------------
\* remove_chain.

\* The result is another one.
LEMMA RetOK ==
    ASSUME NEW v, NEW d, NEW K, OK(v, d, K), NEW x
    PROVE  LET w == [v EXCEPT !.ret = x]
           IN OK(w, d, K) /\ Quiet(v, w) /\ Calm(v, w) /\ w.ret = x
<1> DEFINE w == [v EXCEPT !.ret = x]
<1>1. /\ w.disk = v.disk /\ w.log = v.log /\ w.win = v.win /\ w.f = v.f
      /\ w.free = v.free /\ DOMAIN w = DOMAIN v /\ w.ret = x
  BY DEF OK, Fields
<1> HIDE DEF w
<1>2. OK(w, d, K) /\ Quiet(v, w)
  BY <1>1, SameVolume
<1>. QED  BY <1>1, <1>2, QuietCalm DEF w

\* The state of the loop of remove_chain.
Freeing(r, v, d, K) ==
    /\ {"v", "going"} \subseteq DOMAIN r
    /\ OK(r.v, d, K) /\ Calm(v, r.v)
    /\ r.going \in BOOLEAN
    /\ r.going => r.at \in Clusters /\ r.from \in Clusters /\ r.from <= r.at

\* A round of remove_chain.
LEMMA FreeRoundOK ==
    ASSUME NEW v, NEW d, NEW K, NEW r, Freeing(r, v, d, K), r.going
    PROVE  Freeing(FreeRound(r), v, d, K) /\ FreeRound(r).v.ret = 0
<1> DEFINE got == get_fat(r.v, r.at)
           next == got.ret
           freed == Release(got, r.at)
           run == Trim(freed, r.from, r.at)
           a == [freed EXCEPT !.ret = 0]
           b == [run EXCEPT !.ret = 0]
           w == FreeRound(r)
<1>0. /\ r.at \in Clusters /\ r.from \in Clusters /\ r.from <= r.at /\ OK(r.v, d, K)
      /\ Calm(v, r.v) /\ {"v", "going"} \subseteq DOMAIN r /\ r.at \in Nat /\ r.from \in Nat
  BY ClusterNumbers DEF Freeing
<1>9. w = CASE next \in {0, 1} -> [r EXCEPT !.v = got, !.going = FALSE]
            [] next = r.at + 1 -> [v |-> a, at |-> next, from |-> r.from,
                                   going |-> next < n_fatent]
            [] OTHER -> [v |-> b, at |-> next, from |-> next, going |-> next < n_fatent]
  BY DEF FreeRound
<1>1. /\ OK(got, d, K) /\ Quiet(r.v, got) /\ next \in 0 .. EOC /\ next # 1
      /\ next = Table(Image(r.v))[r.at]
  BY <1>0, GetOK
<1>2. Calm(v, got) /\ Table(Image(got))[r.at] = next
  BY <1>0, <1>1, QuietCalm, CalmTrans DEF Quiet
<1> HIDE DEF got
<1>3. CASE next = 0
  <2>1. w = [r EXCEPT !.v = got, !.going = FALSE]
    BY <1>0, <1>3, <1>9, ClusterNumbers
  <2>2. w.v = got /\ w.going = FALSE /\ DOMAIN w = DOMAIN r
    BY <1>0, <2>1
  <2>. QED  BY <1>0, <1>1, <1>2, <1>3, <2>2 DEF Freeing
<1>4. CASE next # 0
  <2>1. OK(freed, d, K) /\ Calm(got, freed)
    BY <1>0, <1>1, <1>2, <1>4, ReleaseOK
  <2> HIDE DEF freed
  <2>2. OK(a, d, K) /\ Calm(freed, a) /\ a.ret = 0
    BY <2>1, RetOK
  <2>3. OK(run, d, K) /\ Calm(freed, run)
    BY <1>0, <2>1, TrimOK, QuietCalm
  <2> HIDE DEF run
  <2>4. OK(b, d, K) /\ Calm(run, b) /\ b.ret = 0
    BY <2>3, RetOK
  <2>5. Calm(v, a) /\ Calm(v, b)
    BY <1>2, <2>1, <2>2, <2>3, <2>4, CalmTrans
  <2> HIDE DEF a, b
  <2>6. /\ next < n_fatent => next \in Clusters
        /\ next \in Int
    <3>1. \A y \in 0 .. EOC : y # 0 /\ y # 1 /\ y < n_fatent => y \in Clusters
      BY ClusterNumbers
    <3>. QED  BY <1>1, <1>4, <3>1
  <2> HIDE DEF next
  <2>7. CASE next = r.at + 1
    <3>1. w = [v |-> a, at |-> next, from |-> r.from, going |-> next < n_fatent]
      BY <1>1, <1>4, <1>9, <2>7
    <3>2. /\ w.v = a /\ w.at = next /\ w.from = r.from /\ (w.going <=> next < n_fatent)
          /\ w.going \in BOOLEAN /\ {"v", "going"} \subseteq DOMAIN w
      <4> DEFINE on == next < n_fatent
      <4>1. on \in BOOLEAN
        OBVIOUS
      <4> HIDE DEF on, w
      <4>. QED  BY <3>1, <4>1 DEF on
    <3> HIDE DEF w
    <3>3. w.going => w.at \in Clusters /\ w.from \in Clusters /\ w.from <= w.at
      BY <1>0, <2>6, <2>7, <3>2
    <3>4. Freeing(w, v, d, K) /\ w.v.ret = 0
      BY <2>2, <2>4, <2>5, <3>2, <3>3 DEF Freeing
    <3>. QED  BY <3>4 DEF w
  <2>8. CASE next # r.at + 1
    <3>1. w = [v |-> b, at |-> next, from |-> next, going |-> next < n_fatent]
      BY <1>1, <1>4, <1>9, <2>8
    <3>2. /\ w.v = b /\ w.at = next /\ w.from = next /\ (w.going <=> next < n_fatent)
          /\ w.going \in BOOLEAN /\ {"v", "going"} \subseteq DOMAIN w
      <4> DEFINE on == next < n_fatent
      <4>1. on \in BOOLEAN
        OBVIOUS
      <4> HIDE DEF on, w
      <4>. QED  BY <3>1, <4>1 DEF on
    <3> HIDE DEF w
    <3>3. w.going => w.at \in Clusters /\ w.from \in Clusters /\ w.from <= w.at
      BY <1>0, <2>6, <3>2
    <3>4. Freeing(w, v, d, K) /\ w.v.ret = 0
      BY <2>2, <2>4, <2>5, <3>2, <3>3 DEF Freeing
    <3>. QED  BY <3>4 DEF w
  <2>. QED  BY <2>7, <2>8
<1>. QED  BY <1>3, <1>4

FreeStep(r) == IF r.going THEN FreeRound(r) ELSE r
FreeStart(v, c) == [v |-> v, at |-> c, from |-> c, going |-> TRUE]
FreeRun(r, v, c, k) ==
    r = [i \in 0 .. k |-> IF i = 0 THEN FreeStart(v, c) ELSE FreeStep(r[i - 1])]

\* The loop of remove_chain, as a run of rounds.
LEMMA FreeRounds ==
    ASSUME NEW v, NEW c
    PROVE  \E r : FreeRun(r, v, c, n_fatent) /\ FreeFrom(v, c) = r[n_fatent].v
<1> DEFINE T == {n \in 0 .. n_fatent : \E g : FreeRun(g, v, c, n)}
<1>0. n_fatent \in Nat
  BY ClusterNumbers
<1>1. 0 \in T
  <2>1. FreeRun([i \in 0 .. 0 |-> FreeStart(v, c)], v, c, 0)
    BY DEF FreeRun
  <2>. QED  BY <2>1, <1>0
<1>2. ASSUME NEW n \in 1 .. n_fatent, n - 1 \in T PROVE n \in T
  <2>1. PICK g : FreeRun(g, v, c, n - 1)
    BY <1>2
  <2> DEFINE h == [i \in 0 .. n |-> IF i = n THEN FreeStep(g[n - 1]) ELSE g[i]]
  <2>2. FreeRun(h, v, c, n)
    BY <2>1, <1>0 DEF FreeRun
  <2> HIDE DEF h
  <2>. QED  BY <2>2, <1>0
<1> HIDE DEF T
<1>3. n_fatent \in T
  BY <1>0, <1>1, <1>2, Rounds
<1>4. FreeFrom(v, c) = (CHOOSE g : FreeRun(g, v, c, n_fatent))[n_fatent].v
  BY DEF FreeFrom, FreeStep, FreeStart, FreeRun
<1>. QED  BY <1>3, <1>4 DEF T

\* remove_chain frees what is in use: the free count stays right, and no error
\* is met.
LEMMA FreeFromOK ==
    ASSUME NEW v, NEW d, NEW K, OK(v, d, K), NEW c \in Clusters
    PROVE  LET w == FreeFrom(v, c) IN OK(w, d, K) /\ Calm(v, w) /\ w.ret = 0
<1>1. PICK r : FreeRun(r, v, c, n_fatent) /\ FreeFrom(v, c) = r[n_fatent].v
  BY FreeRounds
<1>2. n_fatent \in Nat \ {0}
  BY ClusterNumbers
<1>3. /\ r[0] = FreeStart(v, c)
      /\ \A i \in 1 .. n_fatent : r[i] = FreeStep(r[i - 1])
  BY <1>1, <1>2 DEF FreeRun
<1> DEFINE In(i) == Freeing(r[i], v, d, K) /\ (i = 0 => r[i].going) /\ (i # 0 => r[i].v.ret = 0)
           T == {i \in 0 .. n_fatent : In(i)}
<1>4. 0 \in T
  <2>1. Calm(v, v) /\ c \in Nat
    BY ClusterNumbers DEF Calm
  <2>2. In(0)
    BY <1>3, <2>1 DEF Freeing, FreeStart
  <2>. QED  BY <2>2, <1>2
<1>5. ASSUME NEW i \in 1 .. n_fatent, i - 1 \in T PROVE i \in T
  <2> DEFINE u == r[i - 1]
  <2>1. Freeing(u, v, d, K) /\ (u.going \/ u.v.ret = 0)
    BY <1>5
  <2>2. r[i] = IF u.going THEN FreeRound(u) ELSE u
    BY <1>3 DEF FreeStep
  <2> HIDE DEF u
  <2>3. Freeing(r[i], v, d, K) /\ r[i].v.ret = 0
    BY <2>1, <2>2, FreeRoundOK
  <2>. QED  BY <1>2, <2>3
<1>6. n_fatent \in T
  <2> HIDE DEF T
  <2>. QED  BY <1>2, <1>4, <1>5, Rounds
<1>. QED  BY <1>1, <1>2, <1>6 DEF Freeing

\* remove_chain, whatever chain it is given.
THEOREM RemoveOK ==
    ASSUME NEW v, NEW d, NEW K, OK(v, d, K), NEW c,
           NEW p, p = 0 \/ (p \in Clusters /\ Table(Image(v))[p] # 0)
    PROVE  LET w == remove_chain(v, c, p)
           IN OK(w, d, K) /\ Calm(v, w) /\ w.ret = IF c \in Clusters THEN 0 ELSE 1
<1>1. CASE c \notin Clusters
  BY <1>1, RetOK DEF remove_chain
<1>2. CASE c \in Clusters
  <2> DEFINE q == IF p = 0 THEN v ELSE put_fat(v, p, EOC)
  <2>1. OK(q, d, K) /\ Calm(v, q)
    <3>1. CASE p = 0
      BY <3>1 DEF Calm
    <3>2. CASE p # 0
      <4>1. /\ OK(q, d, K)
            /\ Table(Image(q)) = [Table(Image(v)) EXCEPT ![p] = EOC]
            /\ Dir(Image(q)) = Dir(Image(v)) /\ Lag(q) \subseteq Lag(v)
            /\ q.f = v.f /\ q.free = v.free
        <5>1. EOC \in 0 .. EOC /\ SafeOver(Table(Image(v))[p], EOC)
          BY ClusterNumbers DEF SafeOver
        <5>. QED  BY <3>2, <5>1, PutOK
      <4> HIDE DEF q
      <4>2. FreeIn(Image(q)) = FreeIn(Image(v))
        <5>1. \A k \in Clusters : Table(Image(q))[k] = 0 <=> Table(Image(v))[k] = 0
          BY <3>2, <4>1, ClusterNumbers DEF Table
        <5>2. \A k \in Clusters : k \in FreeIn(Image(q)) <=> k \in FreeIn(Image(v))
          BY <5>1, FreeOf
        <5>. QED  BY <5>2 DEF FreeIn
      <4>. QED  BY <4>1, <4>2 DEF Calm, Counts
    <3>. QED  BY <3>1, <3>2
  <2>2. remove_chain(v, c, p) = FreeFrom(q, c)
    BY <1>2 DEF remove_chain
  <2> HIDE DEF q
  <2>3. LET w == FreeFrom(q, c) IN OK(w, d, K) /\ Calm(q, w) /\ w.ret = 0
    BY <1>2, <2>1, FreeFromOK
  <2>. QED  BY <1>2, <2>1, <2>2, <2>3, CalmTrans
<1>. QED  BY <1>1, <1>2

-----------------------------------------------------------------------------
\* The loops that look for free clusters.

\* A loop that looks up the clusters t[1], t[2], ... in the FAT.
LookRun(r, v, t, k) == r = [i \in 0 .. k |-> IF i = 0 THEN v ELSE get_fat(r[i - 1], t[i])]

\* A loop that looks the clusters of t up, one after the other.
LEMMA LookRounds ==
    ASSUME NEW v, NEW t, NEW k \in Nat
    PROVE  \E r : LookRun(r, v, t, k)
<1> DEFINE T == {n \in 0 .. k : \E g : LookRun(g, v, t, n)}
<1>1. 0 \in T
  <2>1. LookRun([i \in 0 .. 0 |-> v], v, t, 0)
    BY DEF LookRun
  <2>. QED  BY <2>1
<1>2. ASSUME NEW n \in 1 .. k, n - 1 \in T PROVE n \in T
  <2>1. PICK g : LookRun(g, v, t, n - 1)
    BY <1>2
  <2> DEFINE h == [i \in 0 .. n |-> IF i = n THEN get_fat(g[n - 1], t[n]) ELSE g[i]]
  <2>2. LookRun(h, v, t, n)
    BY <2>1 DEF LookRun
  <2> HIDE DEF h
  <2>. QED  BY <2>2
<1> HIDE DEF T
<1>3. k \in T
  BY <1>1, <1>2, Rounds
<1>. QED  BY <1>3 DEF T

\* Such a loop changes nothing, and finds what the FAT says.
LEMMA LookOK ==
    ASSUME NEW v, NEW d, NEW K, OK(v, d, K), NEW t, NEW k \in Nat,
           \A i \in 1 .. k : t[i] \in Clusters, NEW r, LookRun(r, v, t, k)
    PROVE  /\ \A i \in 0 .. k : OK(r[i], d, K) /\ Quiet(v, r[i])
           /\ \A i \in 1 .. k : r[i].ret = Table(Image(v))[t[i]]
<1>1. r[0] = v /\ \A i \in 1 .. k : r[i] = get_fat(r[i - 1], t[i])
  BY DEF LookRun
<1> DEFINE In(i) == OK(r[i], d, K) /\ Quiet(v, r[i])
           T == {i \in 0 .. k : In(i)}
<1>2. 0 \in T
  BY <1>1 DEF Quiet
<1>3. ASSUME NEW i \in 1 .. k, In(i - 1)
      PROVE  In(i) /\ r[i].ret = Table(Image(v))[t[i]]
  <2> DEFINE u == r[i - 1]
  <2>1. OK(u, d, K) /\ Quiet(v, u)
    BY <1>3
  <2>2. r[i] = get_fat(u, t[i]) /\ t[i] \in Clusters
    BY <1>1
  <2> HIDE DEF u
  <2>3. OK(r[i], d, K) /\ Quiet(u, r[i]) /\ r[i].ret = Table(Image(u))[t[i]]
    BY <2>1, <2>2, GetOK
  <2>4. Quiet(v, r[i])
    BY <2>1, <2>3, QuietTrans
  <2>. QED  BY <2>1, <2>3, <2>4 DEF Quiet
<1>4. \A i \in 0 .. k : i \in T
  <2>1. \A i \in 1 .. k : i - 1 \in T => i \in T
    BY <1>3
  <2> HIDE DEF T
  <2>. QED  BY <1>2, <2>1, Rounds
<1>5. \A i \in 1 .. k : r[i].ret = Table(Image(v))[t[i]]
  <2>1. ASSUME NEW i \in 1 .. k PROVE In(i - 1)
    <3>1. i - 1 \in 0 .. k
      OBVIOUS
    <3>. QED  BY <1>4, <3>1
  <2> HIDE DEF In
  <2>. QED  BY <2>1, <1>3
<1>. QED  BY <1>4, <1>5

\* The search of create_chain is such a loop.
LEMMA TestedLooks ==
    ASSUME NEW v, NEW scl
    PROVE  LookRun(Tested(v, scl), v, [i \in 1 .. NumClusters |-> Candidate(scl, i)], NumClusters)
<1> DEFINE t == [i \in 1 .. NumClusters |-> Candidate(scl, i)]
           Is(g) == g = [i \in 0 .. NumClusters |->
                           IF i = 0 THEN v ELSE get_fat(g[i - 1], Candidate(scl, i))]
<1>0. NumClusters \in Nat
  BY ClusterNumbers
<1>1. ASSUME NEW g PROVE Is(g) <=> LookRun(g, v, t, NumClusters)
  <2> DEFINE A == [i \in 0 .. NumClusters |-> IF i = 0 THEN v ELSE get_fat(g[i - 1], Candidate(scl, i))]
             B == [i \in 0 .. NumClusters |-> IF i = 0 THEN v ELSE get_fat(g[i - 1], t[i])]
  <2>1. \A i \in 1 .. NumClusters : t[i] = Candidate(scl, i)
    OBVIOUS
  <2>2. \A i \in 0 .. NumClusters : i # 0 => i \in 1 .. NumClusters
    BY <1>0
  <2> HIDE DEF t
  <2>3. A = B
    BY <2>1, <2>2
  <2>. QED  BY <2>3 DEF LookRun
<1>2. \E g : Is(g)
  BY <1>0, <1>1, LookRounds
<1>3. Tested(v, scl) = CHOOSE g : Is(g)
  BY DEF Tested
<1> HIDE DEF Is
<1>. QED  BY <1>1, <1>2, <1>3

\* So is the count of f_getfree.
LEMMA InspectedLooks ==
    ASSUME NEW v
    PROVE  LookRun(Inspected(v), v, [i \in 1 .. NumClusters |-> i + 1], NumClusters)
<1> DEFINE t == [i \in 1 .. NumClusters |-> i + 1]
           Is(g) == g = [i \in 0 .. NumClusters |-> IF i = 0 THEN v ELSE get_fat(g[i - 1], i + 1)]
<1>0. NumClusters \in Nat
  BY ClusterNumbers
<1>1. ASSUME NEW g PROVE Is(g) <=> LookRun(g, v, t, NumClusters)
  <2> DEFINE A == [i \in 0 .. NumClusters |-> IF i = 0 THEN v ELSE get_fat(g[i - 1], i + 1)]
             B == [i \in 0 .. NumClusters |-> IF i = 0 THEN v ELSE get_fat(g[i - 1], t[i])]
  <2>1. \A i \in 1 .. NumClusters : t[i] = i + 1
    OBVIOUS
  <2>2. \A i \in 0 .. NumClusters : i # 0 => i \in 1 .. NumClusters
    BY <1>0
  <2> HIDE DEF t
  <2>3. A = B
    BY <2>1, <2>2
  <2>. QED  BY <2>3 DEF LookRun
<1>2. \E g : Is(g)
  BY <1>0, <1>1, LookRounds
<1>3. Inspected(v) = CHOOSE g : Is(g)
  BY DEF Inspected
<1> HIDE DEF Is
<1>. QED  BY <1>1, <1>2, <1>3

\* The search of create_chain looks at every cluster.
LEMMA Candidates ==
    ASSUME NEW scl \in 1 .. n_fatent - 1
    PROVE  /\ \A i \in 1 .. NumClusters : Candidate(scl, i) \in Clusters
           /\ \A c \in Clusters : \E i \in 1 .. NumClusters : Candidate(scl, i) = c
<1>1. \A i \in 1 .. NumClusters : Candidate(scl, i) \in Clusters
  BY ClusterNumbers DEF Candidate
<1>2. ASSUME NEW c \in Clusters
      PROVE  \E i \in 1 .. NumClusters : Candidate(scl, i) = c
  <2>1. CASE c > scl
    <3>1. c - scl \in 1 .. NumClusters /\ Candidate(scl, c - scl) = c
      BY <2>1, ClusterNumbers DEF Candidate
    <3>. QED  BY <3>1
  <2>2. CASE c <= scl
    <3>1. c - scl + NumClusters \in 1 .. NumClusters /\ Candidate(scl, c - scl + NumClusters) = c
      BY <2>2, ClusterNumbers DEF Candidate
    <3>. QED  BY <3>1
  <2>. QED  BY <2>1, <2>2, ClusterNumbers
<1>. QED  BY <1>1, <1>2

\* The search of create_chain, from whatever cluster it starts, finds a free
\* cluster when there is one, and changes nothing.
THEOREM SearchIsComplete ==
    ASSUME NEW v, NEW d, NEW K, OK(v, d, K), NEW scl \in 1 .. n_fatent - 1
    PROVE  LET w == FindFree(v, scl)
           IN /\ OK(w, d, K) /\ Quiet(v, w)
              /\ w.ret \in Clusters \cup {0}
              /\ w.ret \in Clusters => FatOn(Image(v), w.ret) = 0
              /\ w.ret = 0 => FreeIn(Image(v)) = {}
<1> DEFINE w == FindFree(v, scl)
           r == Tested(v, scl)
           t == [i \in 1 .. NumClusters |-> Candidate(scl, i)]
           hits == {i \in 1 .. NumClusters : r[i].ret \in {0, 1}}
           hit == Least(hits)
           tab == Table(Image(v))
<1>0. NumClusters \in Nat /\ 0 \notin Clusters
  BY ClusterNumbers
<1>1. LookRun(r, v, t, NumClusters)
  BY TestedLooks
<1>2. /\ \A i \in 0 .. NumClusters : OK(r[i], d, K) /\ Quiet(v, r[i])
      /\ \A i \in 1 .. NumClusters : r[i].ret = tab[t[i]] /\ t[i] = Candidate(scl, i)
  <2>1. \A i \in 1 .. NumClusters : t[i] \in Clusters
    BY Candidates
  <2>2. \A i \in 1 .. NumClusters : t[i] = Candidate(scl, i)
    OBVIOUS
  <2> HIDE DEF r, t
  <2>. QED  BY <1>0, <1>1, <2>1, <2>2, LookOK
<1>3. w = IF hits = {} THEN [r[NumClusters] EXCEPT !.ret = 0]
          ELSE IF r[hit].ret = 0 THEN [r[hit] EXCEPT !.ret = Candidate(scl, hit)] ELSE r[hit]
  BY DEF FindFree
<1>4. ASSUME NEW i \in 1 .. NumClusters
      PROVE  r[i].ret = FatOn(Image(v), Candidate(scl, i)) /\ r[i].ret # 1
             /\ Candidate(scl, i) \in Clusters
  <2>1. Candidate(scl, i) \in Clusters
    BY Candidates
  <2>2. tab[Candidate(scl, i)] # 1
    BY <2>1 DEF OK, Good, NoOnes
  <2> HIDE DEF r, t
  <2>. QED  BY <1>2, <2>1, <2>2 DEF Table
<1> HIDE DEF r, w, tab, t
<1>5. CASE hits = {}
  <2>1. NumClusters \in 0 .. NumClusters
    BY <1>0
  <2>2. OK(w, d, K) /\ Quiet(v, w) /\ w.ret = 0
    BY <1>2, <1>3, <1>5, <2>1, RetOK, QuietTrans
  <2>3. ASSUME NEW c \in Clusters PROVE FatOn(Image(v), c) # 0
    <3>1. PICK i \in 1 .. NumClusters : Candidate(scl, i) = c
      BY Candidates
    <3>. QED  BY <1>4, <1>5, <3>1
  <2>. QED  BY <1>0, <2>2, <2>3 DEF w, FreeIn
<1>6. CASE hits # {}
  <2>1. hit \in hits
    BY <1>6, LeastIs, <1>0
  <2> HIDE DEF hit
  <2>2. hit \in 1 .. NumClusters /\ r[hit].ret = 0 /\ hit \in 0 .. NumClusters
    BY <1>4, <2>1
  <2>3. w = [r[hit] EXCEPT !.ret = Candidate(scl, hit)]
    BY <1>3, <1>6, <2>2 DEF hit
  <2>4. OK(w, d, K) /\ Quiet(v, w) /\ w.ret = Candidate(scl, hit)
    BY <1>2, <2>2, <2>3, RetOK, QuietTrans
  <2>. QED  BY <1>0, <1>4, <2>2, <2>4 DEF w
<1>. QED  BY <1>5, <1>6

\* The answers of get_fat, as create_chain tells them apart.
LEMMA Answers ==
    ASSUME NEW y \in 0 .. EOC
    PROVE  /\ y \in Int /\ n_fatent \in Int
           /\ y >= 2 /\ y < n_fatent => y \in Clusters /\ ~(y < 2)
           /\ y >= n_fatent => ~(y < 2) /\ ~(y < n_fatent)
           /\ y < 2 \/ (y >= 2 /\ y < n_fatent) \/ y >= n_fatent
  BY ClusterNumbers

\* create_chain: the free count stays right, and the answer is a cluster, 0 for
\* a full volume or 1 for a chain that is broken.
THEOREM CreateOK ==
    ASSUME NEW v, NEW d, NEW K, OK(v, d, K), NEW c
    PROVE  LET w == create_chain(v, c)
           IN OK(w, d, K) /\ Calm(v, w) /\ w.ret \in Clusters \cup {0, 1}
<1>0. ASSUME NEW u, OK(u, d, K), NEW scl \in 1 .. n_fatent - 1, NEW e \in Clusters \cup {0},
             e # 0 => Table(Image(u))[e] >= n_fatent
      PROVE  LET w == TakeFree(FindFree(u, scl), e)
             IN OK(w, d, K) /\ Calm(u, w) /\ w.ret \in Clusters \cup {0}
  <2> DEFINE g == FindFree(u, scl)
  <2>1. /\ OK(g, d, K) /\ Quiet(u, g) /\ g.ret \in Clusters \cup {0}
        /\ g.ret \in Clusters => FatOn(Image(u), g.ret) = 0
    BY <1>0, SearchIsComplete
  <2> HIDE DEF g
  <2>2. /\ g.ret \in Clusters => Table(Image(g))[g.ret] = 0
        /\ e # 0 => Table(Image(g))[e] >= n_fatent
    BY <1>0, <2>1 DEF Quiet, Table
  <2>3. LET w == TakeFree(g, e) IN OK(w, d, K) /\ Calm(g, w) /\ w.ret = g.ret
    BY <2>1, <2>2, LinkOK
  <2>4. Calm(u, g)
    BY <2>1, QuietCalm
  <2>5. Calm(u, TakeFree(g, e))
    BY <2>3, <2>4, CalmTrans
  <2>. QED  BY <2>1, <2>3, <2>5 DEF g
<1>1. CASE c = 0
  <2> DEFINE scl == IF v.last \in 1 .. n_fatent - 1 THEN v.last ELSE 1
  <2>1. scl \in 1 .. n_fatent - 1
    BY ClusterNumbers
  <2>2. create_chain(v, c) = TakeFree(FindFree(v, scl), 0)
    BY <1>1 DEF create_chain, NewChain
  <2> HIDE DEF scl
  <2>. QED  BY <1>0, <2>1, <2>2
<1>2. CASE c # 0
  <2> DEFINE u == get_fat(v, c)
             w == create_chain(v, c)
  <2>1. /\ OK(u, d, K) /\ Quiet(v, u) /\ u.ret \in 0 .. EOC
        /\ c \notin Clusters => u.ret = 1
        /\ c \in Clusters => u.ret = Table(Image(v))[c] /\ u.ret # 1
    BY GetOK
  <2>2. w = IF u.ret < 2 THEN [u EXCEPT !.ret = 1]
            ELSE IF u.ret < n_fatent THEN u ELSE TakeFree(FindFree(u, c), c)
    BY <1>2 DEF create_chain, Stretch
  <2> HIDE DEF u, w
  <2>3. Calm(v, u)
    BY <2>1, QuietCalm
  <2>4. CASE u.ret < 2
    <3>1. w = [u EXCEPT !.ret = 1]
      BY <2>2, <2>4
    <3>2. OK(w, d, K) /\ Calm(u, w) /\ w.ret = 1
      BY <2>1, <3>1, RetOK
    <3>3. Calm(v, w)
      BY <2>3, <3>2, CalmTrans
    <3>. QED  BY <3>2, <3>3 DEF w
  <2>5. CASE u.ret >= 2 /\ u.ret < n_fatent
    <3>1. w = u /\ u.ret \in Clusters
      BY <2>1, <2>2, <2>5, Answers
    <3>. QED  BY <2>1, <2>3, <3>1 DEF w
  <2>6. CASE u.ret >= n_fatent
    <3>1. w = TakeFree(FindFree(u, c), c)
      BY <2>1, <2>2, <2>6, Answers
    <3>2. c \in Clusters /\ c \in 1 .. n_fatent - 1
      BY <2>1, <2>6, ClusterNumbers
    <3>3. Table(Image(u))[c] >= n_fatent
      BY <2>1, <2>6, <3>2 DEF Quiet
    <3>4. OK(w, d, K) /\ Calm(u, w) /\ w.ret \in Clusters \cup {0}
      BY <1>0, <2>1, <3>1, <3>2, <3>3
    <3>5. Calm(v, w)
      BY <2>3, <3>4, CalmTrans
    <3>. QED  BY <3>4, <3>5 DEF w
  <2>. QED  BY <2>1, <2>4, <2>5, <2>6, Answers
<1>. QED  BY <1>1, <1>2

\* f_getfree counts the free clusters.
THEOREM GetFreeCounts ==
    ASSUME NEW v, NEW d, NEW K, OK(v, d, K)
    PROVE  LET w == CountFree(v)
           IN OK(w, d, K) /\ Calm(v, w) /\ w.free = Cardinality(FreeIn(Image(w)))
<1> DEFINE w == CountFree(v)
           r == Inspected(v)
           t == [i \in 1 .. NumClusters |-> i + 1]
           bad == {i \in 1 .. NumClusters : r[i].ret = 1}
           last == IF bad = {} THEN NumClusters ELSE Least(bad)
           S == {i \in 1 .. NumClusters : r[i].ret = 0}
           u == r[NumClusters]
<1>0. NumClusters \in Nat /\ \A i \in 1 .. NumClusters : t[i] \in Clusters /\ t[i] = i + 1
  BY ClusterNumbers
<1>1. LookRun(r, v, t, NumClusters)
  BY InspectedLooks
<1> HIDE DEF r, t
<1>2. /\ \A i \in 0 .. NumClusters : OK(r[i], d, K) /\ Quiet(v, r[i])
      /\ \A i \in 1 .. NumClusters : r[i].ret = Table(Image(v))[t[i]]
  BY <1>0, <1>1, LookOK
<1>3. ASSUME NEW i \in 1 .. NumClusters
      PROVE  i + 1 \in Clusters /\ r[i].ret = FatOn(Image(v), i + 1) /\ r[i].ret # 1
  <2>1. i + 1 \in Clusters /\ r[i].ret = Table(Image(v))[i + 1]
    BY <1>0, <1>2
  <2>2. Table(Image(v))[i + 1] # 1
    BY <2>1 DEF OK, Good, NoOnes
  <2>. QED  BY <2>1, <2>2 DEF Table
<1>4. bad = {}
  BY <1>3
<1>5. w = [u EXCEPT !.free = Cardinality(S)]
  <2>1. w = [r[last] EXCEPT !.free = Cardinality({i \in 1 .. last : r[i].ret = 0})]
    BY DEF CountFree, r
  <2>2. last = NumClusters
    BY <1>4
  <2> HIDE DEF w, last
  <2>. QED  BY <2>1, <2>2
<1> HIDE DEF w
<1>6. OK(u, d, K) /\ Quiet(v, u)
  BY <1>0, <1>2
<1> HIDE DEF u
<1>7. /\ w.disk = u.disk /\ w.log = u.log /\ w.win = u.win /\ w.f = u.f
      /\ DOMAIN w = DOMAIN u /\ w.free = Cardinality(S)
  BY <1>5, <1>6 DEF OK, Fields
<1>8. OK(w, d, K) /\ Image(w) = Image(u) /\ Lag(w) = Lag(u)
  BY <1>6, <1>7, SameVolume
<1>9. FreeIn(Image(w)) = FreeIn(Image(v))
  <2>1. Calm(v, u)
    BY <1>6, QuietCalm
  <2>2. \A c \in Clusters : Table(Image(u))[c] = Table(Image(v))[c]
    BY <1>6 DEF Quiet
  <2>3. \A c \in Clusters : FatOn(Image(u), c) = FatOn(Image(v), c)
    BY <2>2 DEF Table
  <2>. QED  BY <1>8, <2>3 DEF FreeIn
<1>10. Cardinality(S) = Cardinality(FreeIn(Image(v)))
  <2> DEFINE F == FreeIn(Image(v))
             g == [i \in S |-> i + 1]
  <2>1. g \in Bijection(S, F)
    <3>1. \A i \in S : g[i] \in F
      BY <1>3 DEF FreeIn
    <3>2. \A i, j \in S : g[i] = g[j] => i = j
      OBVIOUS
    <3>3. \A c \in F : \E i \in S : g[i] = c
      <4>1. ASSUME NEW c \in F PROVE \E i \in S : g[i] = c
        <5>1. c \in Clusters /\ FatOn(Image(v), c) = 0
          BY <4>1 DEF FreeIn
        <5>2. c - 1 \in 1 .. NumClusters /\ (c - 1) + 1 = c
          BY <5>1, ClusterNumbers
        <5>3. c - 1 \in S
          BY <1>3, <5>1, <5>2
        <5>. QED  BY <5>2, <5>3
      <4>. QED  BY <4>1
    <3>4. DOMAIN g = S /\ g = [i \in S |-> g[i]]
      OBVIOUS
    <3> HIDE DEF F, S, g
    <3>5. g \in [S -> F]
      BY <3>1, <3>4
    <3>. QED  BY <3>2, <3>3, <3>5, Fun_IsBij
  <2>2. IsFiniteSet(F)
    BY FreeFinite
  <2>3. IsFiniteSet(S)
    <3>1. IsFiniteSet(1 .. NumClusters) /\ S \in SUBSET (1 .. NumClusters)
      BY <1>0, FS_Interval
    <3> HIDE DEF S
    <3>. QED  BY <3>1, FS_Subset
  <2> HIDE DEF S, F
  <2>. QED  BY <2>1, <2>2, <2>3, FS_Bijection DEF ExistsBijection, F
<1>. QED  BY <1>6, <1>7, <1>8, <1>9, <1>10, FreeFinite, ClusterNumbers
       DEF Calm, Quiet, Counts, w

\* f_getfree: the free count, and nothing else, may change.
LEMMA GetFreeOK ==
    ASSUME NEW v, NEW d, NEW K, OK(v, d, K)
    PROVE  LET w == f_getfree(v) IN OK(w, d, K) /\ Calm(v, w)
<1>1. CASE v.free <= NumClusters
  BY <1>1 DEF f_getfree, Calm
<1>2. CASE ~(v.free <= NumClusters)
  BY <1>2, GetFreeCounts DEF f_getfree
<1>. QED  BY <1>1, <1>2

-----------------------------------------------------------------------------
\* The directory.

\* The markers of the directory are not names.
LEMMA NamesApart ==
    End \notin Names /\ Deleted \notin Names /\ End # Deleted
  BY VolumeAssumption DEF End, Deleted

\* What an entry of the directory holds.
LEMMA EntryIn ==
    ASSUME NEW d, Typed(d), NEW i \in Slots
    PROVE  /\ Dir(d)[i] \in EntryRecs /\ Dir(d)[i] = Entry(d, i)
           /\ Dir(d)[i].name \in Names \cup {End, Deleted}
           /\ Dir(d)[i].clu \in Clusters \cup {0} /\ Dir(d)[i].size \in Nat
<1>1. SlotSect(i) \in DirSectors /\ i \in SlotsIn(SlotSect(i))
  BY SlotPlace
<1>2. d[SlotSect(i)] \in [SlotsIn(SlotSect(i)) -> EntryRecs]
  BY <1>1 DEF Typed
<1>3. Entry(d, i) \in EntryRecs
  BY <1>1, <1>2 DEF Entry
<1>4. Dir(d)[i] = Entry(d, i)
  BY DEF Dir
<1>. QED  BY <1>3, <1>4 DEF EntryRecs

\* The window lies on the sector of slot i.
LEMMA WindowEntry ==
    ASSUME NEW v, NEW d, NEW K, OK(v, d, K), NEW i \in Slots, v.win.sect = SlotSect(i)
    PROVE  EntryAt(v, i) = Dir(Image(v))[i] /\ v.win.sect # 0
<1>1. v.win.sect # 0
  BY SlotPlace, Places
<1>2. Image(v)[v.win.sect] = v.win.buf
  BY <1>1, ReadOK
<1>. QED  BY <1>1, <1>2 DEF EntryAt, Dir, Entry

\* One entry of the directory changes.
Changes(v, w, i, e) ==
    /\ w.f = v.f
    /\ Dir(Image(w)) = [Dir(Image(v)) EXCEPT ![i] = e]
    /\ Lag(w) \subseteq Lag(v) \cup {i}
    /\ Counts(v) => Counts(w)

\* A calm step before or after a change of one entry.
LEMMA CalmChanges ==
    ASSUME NEW v, NEW w, NEW u, NEW i, NEW e
    PROVE  /\ Calm(v, w) /\ Changes(w, u, i, e) => Changes(v, u, i, e)
           /\ Changes(v, w, i, e) /\ Calm(w, u) => Changes(v, u, i, e)
  BY DEF Calm, Changes

\* A store into the sector of slot i changes that entry only.
LEMMA StoreEntry ==
    ASSUME NEW d, Typed(d), NEW i \in Slots, NEW e \in EntryRecs
    PROVE  LET D == StoredCell(d, SlotSect(i), i, e)
           IN /\ Typed(D) /\ Table(D) = Table(d)
              /\ Dir(D) = [Dir(d) EXCEPT ![i] = e]
              /\ \A j \in Slots : j # i => Entry(D, j) = Entry(d, j)
<1> DEFINE s == SlotSect(i)
           D == StoredCell(d, s, i, e)
<1>1. s \in DirSectors /\ i \in SlotsIn(s) /\ s \in Sectors /\ s \notin FatSectors
  BY SlotPlace, Places DEF Reserved
<1>2. /\ d = [t \in Sectors |-> d[t]] /\ \A t \in FatSectors : d[t] \in [Cells(t) -> Digits]
      /\ \A t \in DirSectors : d[t] \in [SlotsIn(t) -> EntryRecs]
  BY DEF Typed, Whole
<1>3. /\ D = [t \in Sectors |-> D[t]]
      /\ D[s] = [d[s] EXCEPT ![i] = e]
      /\ \A t \in Sectors \ {s} : D[t] = d[t]
  BY <1>1, <1>2 DEF StoredCell
<1> HIDE DEF D, s
<1>4. ASSUME NEW t \in FatSectors PROVE D[t] = d[t]
  <2>1. t \in Sectors \ {s}
    BY <1>1, Places DEF Reserved
  <2>. QED  BY <2>1, <1>3
<1>5. ASSUME NEW t \in DirSectors PROVE D[t] \in [SlotsIn(t) -> EntryRecs]
  <2>1. CASE t = s
    BY <2>1, <1>1, <1>2, <1>3
  <2>2. CASE t # s
    <3>1. t \in Sectors \ {s}
      BY <2>2, Places DEF Reserved
    <3>. QED  BY <3>1, <1>2, <1>3
  <2>. QED  BY <2>1, <2>2
<1>6. Typed(D)
  BY <1>2, <1>3, <1>4, <1>5 DEF Typed, Whole
<1>7. Table(D) = Table(d)
  <2>1. ASSUME NEW c \in Clusters PROVE FatOn(D, c) = FatOn(d, c)
    <3>1. LowSect(c) \in FatSectors /\ HighSect(c) \in FatSectors
      BY CellSects
    <3>. QED  BY <1>4, <3>1 DEF FatOn
  <2>. QED  BY <2>1 DEF Table
<1>8. ASSUME NEW j \in Slots PROVE Entry(D, j) = IF j = i THEN e ELSE Entry(d, j)
  <2>1. SlotSect(j) \in DirSectors /\ j \in SlotsIn(SlotSect(j)) /\ SlotSect(j) \in Sectors
    BY SlotPlace, Places DEF Reserved
  <2>2. CASE SlotSect(j) = s
    <3>1. DOMAIN d[s] = SlotsIn(s)
      BY <1>1, <1>2
    <3>. QED  BY <1>1, <1>3, <2>1, <2>2, <3>1 DEF Entry
  <2>3. CASE SlotSect(j) # s
    <3>1. j # i
      BY <2>3 DEF s
    <3>. QED  BY <1>3, <2>1, <2>3, <3>1 DEF Entry
  <2>. QED  BY <2>2, <2>3
<1>9. Dir(D) = [Dir(d) EXCEPT ![i] = e]
  BY <1>8 DEF Dir
<1>. QED  BY <1>6, <1>7, <1>8, <1>9 DEF D, s

\* A store of an entry through the window.
LEMMA PokeEntry ==
    ASSUME NEW v, NEW d, NEW K, OK(v, d, K), NEW i \in Slots, v.win.sect = SlotSect(i),
           NEW e \in EntryRecs, DirGood([Dir(Image(v)) EXCEPT ![i] = e], K)
    PROVE  LET w == Poke(v, i, e)
           IN /\ OK(w, d, K) /\ Changes(v, w, i, e) /\ w.ret = v.ret
              /\ w.win.sect = v.win.sect
<1> DEFINE w == Poke(v, i, e)
           D == StoredCell(Image(v), SlotSect(i), i, e)
<1>1. Typed(Image(v)) /\ NoOnes(Table(Image(v))) /\ v.win.sect # 0
  BY WindowEntry, ReadOK DEF OK, Good
<1>2. /\ Typed(D) /\ Table(D) = Table(Image(v))
      /\ Dir(D) = [Dir(Image(v)) EXCEPT ![i] = e]
      /\ \A j \in Slots : j # i => Entry(D, j) = Entry(Image(v), j)
  BY <1>1, StoreEntry
<1> HIDE DEF D
<1>3. Good(D, K)
  BY <1>1, <1>2 DEF Good
<1>4. D = StoredCell(Image(v), v.win.sect, i, e)
  BY DEF D
<1>5. /\ OK(w, d, K) /\ Image(w) = D
      /\ w.f = v.f /\ w.free = v.free /\ w.ret = v.ret
      /\ w.win.sect = v.win.sect /\ w.disk = v.disk
  BY <1>1, <1>3, <1>4, PokeOK
<1> HIDE DEF w
<1>6. Lag(w) \subseteq Lag(v) \cup {i}
  BY <1>2, <1>5 DEF Lag, Late, Image
<1>7. FreeIn(Image(w)) = FreeIn(Image(v))
  <2>1. \A c \in Clusters : Table(D)[c] = Table(Image(v))[c]
    BY <1>2
  <2>2. \A c \in Clusters : FatOn(D, c) = FatOn(Image(v), c)
    BY <2>1 DEF Table
  <2>. QED  BY <1>5, <2>2 DEF FreeIn
<1>. QED  BY <1>2, <1>5, <1>6, <1>7 DEF Changes, Counts, w

-----------------------------------------------------------------------------
\* The walk over the slots.
WalkRun(r, v, k) == r = [i \in 0 .. k |-> IF i = 0 THEN v ELSE move_window(r[i - 1], SlotSect(i - 1))]

\* The walk over the slots, as a run of moves of the window.
LEMMA WalkRounds ==
    ASSUME NEW v
    PROVE  WalkRun(Looked(v), v, NumSlots)
<1> DEFINE T == {n \in 0 .. NumSlots : \E g : WalkRun(g, v, n)}
<1>0. NumSlots \in Nat
  BY SlotPlace
<1>1. 0 \in T
  <2>1. WalkRun([i \in 0 .. 0 |-> v], v, 0)
    BY DEF WalkRun
  <2>. QED  BY <2>1, <1>0
<1>2. ASSUME NEW n \in 1 .. NumSlots, n - 1 \in T PROVE n \in T
  <2>1. PICK g : WalkRun(g, v, n - 1)
    BY <1>2
  <2> DEFINE h == [i \in 0 .. n |-> IF i = n THEN move_window(g[n - 1], SlotSect(n - 1)) ELSE g[i]]
  <2>2. WalkRun(h, v, n)
    BY <2>1, <1>0 DEF WalkRun
  <2> HIDE DEF h
  <2>. QED  BY <2>2, <1>0
<1> HIDE DEF T
<1>3. NumSlots \in T
  BY <1>0, <1>1, <1>2, Rounds
<1>4. Looked(v) = CHOOSE g : WalkRun(g, v, NumSlots)
  BY DEF Looked, WalkRun
<1>. QED  BY <1>3, <1>4 DEF T

\* The walk changes nothing, and sees each entry as it is.
LEMMA LookedOK ==
    ASSUME NEW v, NEW d, NEW K, OK(v, d, K)
    PROVE  LET r == Looked(v)
           IN /\ \A i \in 0 .. NumSlots : OK(r[i], d, K) /\ Quiet(v, r[i])
              /\ \A i \in 1 .. NumSlots : /\ r[i].win.sect = SlotSect(i - 1)
                                          /\ EntryAt(r[i], i - 1) = Dir(Image(v))[i - 1]
<1> DEFINE r == Looked(v)
<1>0. NumSlots \in Nat
  BY SlotPlace
<1>1. r[0] = v /\ \A i \in 1 .. NumSlots : r[i] = move_window(r[i - 1], SlotSect(i - 1))
  BY <1>0, WalkRounds DEF WalkRun
<1> HIDE DEF r
<1> DEFINE In(i) == OK(r[i], d, K) /\ Quiet(v, r[i])
           T == {i \in 0 .. NumSlots : In(i)}
<1>2. 0 \in T
  BY <1>0, <1>1 DEF Quiet
<1>3. ASSUME NEW i \in 1 .. NumSlots, In(i - 1)
      PROVE  /\ In(i) /\ r[i].win.sect = SlotSect(i - 1)
             /\ EntryAt(r[i], i - 1) = Dir(Image(v))[i - 1]
  <2> DEFINE u == r[i - 1]
             j == i - 1
  <2>0. j \in Slots
    BY <1>0, SlotPlace
  <2>1. OK(u, d, K) /\ Quiet(v, u)
    BY <1>3
  <2>2. r[i] = move_window(u, SlotSect(j)) /\ SlotSect(j) \in Reserved
    BY <1>1, <2>0, SlotPlace DEF Reserved
  <2> HIDE DEF u, j
  <2>3. OK(r[i], d, K) /\ Quiet(u, r[i]) /\ r[i].win.sect = SlotSect(j)
    BY <2>1, <2>2, MoveOK
  <2>4. Quiet(v, r[i])
    BY <2>1, <2>3, QuietTrans
  <2>5. EntryAt(r[i], j) = Dir(Image(r[i]))[j]
    BY <2>0, <2>3, WindowEntry
  <2>. QED  BY <2>1, <2>3, <2>4, <2>5 DEF Quiet, j
<1>4. \A i \in 0 .. NumSlots : i \in T
  <2>1. \A i \in 1 .. NumSlots : i - 1 \in T => i \in T
    BY <1>3
  <2> HIDE DEF T
  <2>. QED  BY <1>0, <1>2, <2>1, Rounds
<1>5. ASSUME NEW i \in 1 .. NumSlots
      PROVE  r[i].win.sect = SlotSect(i - 1) /\ EntryAt(r[i], i - 1) = Dir(Image(v))[i - 1]
  <2>1. i - 1 \in 0 .. NumSlots
    BY <1>0
  <2>2. In(i - 1)
    BY <1>4, <2>1
  <2> HIDE DEF In
  <2>. QED  BY <2>2, <1>3
<1>. QED  BY <1>4, <1>5 DEF r

\* No slot before j has a name in S.
NoneBefore(e, j, S) == \A i \in Slots : i < j => e[i].name \notin S

\* How a walk ends: at the first slot with a name in wanted, if none of stops
\* comes first.
WalkEnds(w, e, wanted, stops) ==
    \/ /\ w.ret = NoSlot
       /\ \/ NoneBefore(e, NumSlots, wanted \cup stops)
          \/ \E j \in Slots : e[j].name \in stops /\ NoneBefore(e, j, wanted \cup stops)
    \/ /\ w.ret \in Slots /\ e[w.ret].name \in wanted
       /\ NoneBefore(e, w.ret, wanted \cup stops)
       /\ w.win.sect = SlotSect(w.ret)

\* How a walk ends.
LEMMA WalkOK ==
    ASSUME NEW v, NEW d, NEW K, OK(v, d, K), NEW wanted, NEW stops
    PROVE  LET w == Walk(v, wanted, stops)
           IN OK(w, d, K) /\ Quiet(v, w) /\ WalkEnds(w, Dir(Image(v)), wanted, stops)
<1> DEFINE w == Walk(v, wanted, stops)
           e == Dir(Image(v))
           r == Looked(v)
           hits == {i \in 1 .. NumSlots : EntryAt(r[i], i - 1).name \in wanted \cup stops}
           hit == Least(hits)
<1>0. NumSlots \in Nat /\ Slots = 0 .. NumSlots - 1
  BY SlotPlace
<1>1. /\ \A i \in 0 .. NumSlots : OK(r[i], d, K) /\ Quiet(v, r[i])
      /\ \A i \in 1 .. NumSlots : r[i].win.sect = SlotSect(i - 1) /\ EntryAt(r[i], i - 1) = e[i - 1]
  BY LookedOK
<1>2. w = IF hits = {} THEN [r[NumSlots] EXCEPT !.ret = NoSlot]
          ELSE [r[hit] EXCEPT !.ret = IF EntryAt(r[hit], hit - 1).name \in wanted THEN hit - 1
                                      ELSE NoSlot]
  BY DEF Walk
<1> HIDE DEF r, w, e
<1>3. CASE hits = {}
  <2>1. OK(w, d, K) /\ Quiet(v, w) /\ w.ret = NoSlot
    <3>1. NumSlots \in 0 .. NumSlots
      BY <1>0
    <3>. QED  BY <1>1, <1>2, <1>3, <3>1, RetOK, QuietTrans
  <2>2. ASSUME NEW j \in Slots PROVE e[j].name \notin wanted \cup stops
    <3>1. j + 1 \in 1 .. NumSlots /\ (j + 1) - 1 = j
      BY <1>0
    <3>2. EntryAt(r[j + 1], (j + 1) - 1) = e[j]
      BY <1>1, <3>1
    <3>3. EntryAt(r[j + 1], (j + 1) - 1).name \notin wanted \cup stops
      BY <1>3, <3>1
    <3>. QED  BY <3>2, <3>3
  <2>. QED  BY <2>1, <2>2 DEF NoneBefore, WalkEnds, w, e
<1>4. CASE hits # {}
  <2>1. hit \in hits /\ \A i \in hits : hit <= i
    <3>1. hits \subseteq Nat
      BY <1>0
    <3> HIDE DEF hits
    <3>. QED  BY <1>4, <3>1, LeastIs
  <2> DEFINE j == hit - 1
             u == r[hit]
  <2> HIDE DEF hit
  <2>2. /\ hit \in 1 .. NumSlots /\ hit \in 0 .. NumSlots /\ j \in Slots
        /\ EntryAt(u, j) = e[j] /\ u.win.sect = SlotSect(j)
        /\ e[j].name \in wanted \cup stops
    BY <1>0, <1>1, <2>1
  <2>3. NoneBefore(e, j, wanted \cup stops)
    <3>1. ASSUME NEW i \in Slots, i < j PROVE e[i].name \notin wanted \cup stops
      <4>1. i + 1 \in 1 .. NumSlots /\ (i + 1) - 1 = i /\ ~(hit <= i + 1)
        BY <1>0, <2>2, <3>1
      <4>2. EntryAt(r[i + 1], (i + 1) - 1) = e[i]
        BY <1>1, <4>1
      <4>3. EntryAt(r[i + 1], (i + 1) - 1).name \notin wanted \cup stops
        BY <2>1, <4>1
      <4>. QED  BY <4>2, <4>3
    <3>. QED  BY <3>1 DEF NoneBefore
  <2>4. w = [u EXCEPT !.ret = IF e[j].name \in wanted THEN j ELSE NoSlot]
    BY <1>2, <1>4, <2>2 DEF hit
  <2>5. OK(u, d, K) /\ Quiet(v, u)
    BY <1>1, <2>2
  <2> HIDE DEF u, j
  <2>6. /\ OK(w, d, K) /\ Quiet(v, w) /\ w.ret = (IF e[j].name \in wanted THEN j ELSE NoSlot)
        /\ w.win = u.win
    <3>1. w.win = u.win
      BY <2>4, <2>5 DEF OK, Fields
    <3>. QED  BY <2>4, <2>5, <3>1, RetOK, QuietTrans
  <2>7. CASE e[j].name \in wanted
    BY <2>2, <2>3, <2>6, <2>7 DEF WalkEnds, w, e
  <2>8. CASE e[j].name \notin wanted
    BY <2>2, <2>3, <2>6, <2>8 DEF WalkEnds, w, e
  <2>. QED  BY <2>7, <2>8
<1>. QED  BY <1>3, <1>4

-----------------------------------------------------------------------------
\* Names are found, entered and removed.

\* dir_find finds the entry of that name when there is one.
THEOREM FindOK ==
    ASSUME NEW v, NEW d, NEW K, OK(v, d, K), NEW n \in Names
    PROVE  LET w == dir_find(v, n)
               e == Dir(Image(v))
           IN /\ OK(w, d, K) /\ Quiet(v, w)
              /\ \/ w.ret = NoSlot /\ \A i \in Slots : e[i].name # n
                 \/ w.ret \in Slots /\ e[w.ret].name = n /\ w.win.sect = SlotSect(w.ret)
<1> DEFINE w == dir_find(v, n)
           e == Dir(Image(v))
<1> DEFINE W == {n}
           S == {End}
<1>1. w = Walk(v, W, S)
  BY DEF dir_find
<1> HIDE DEF W, S
<1>0. OK(w, d, K) /\ Quiet(v, w) /\ WalkEnds(w, e, W, S)
  BY <1>1, WalkOK
<1> HIDE DEF w, e
<1>2. /\ OK(w, d, K) /\ Quiet(v, w)
      /\ \/ /\ w.ret = NoSlot
            /\ \/ NoneBefore(e, NumSlots, {n} \cup {End})
               \/ \E j \in Slots : e[j].name \in {End} /\ NoneBefore(e, j, {n} \cup {End})
         \/ /\ w.ret \in Slots /\ e[w.ret].name \in {n}
            /\ NoneBefore(e, w.ret, {n} \cup {End})
            /\ w.win.sect = SlotSect(w.ret)
  BY <1>0 DEF WalkEnds, W, S
<1>3. Ended(e)
  BY DEF OK, Good, DirGood, e
<1>4. Slots = 0 .. NumSlots - 1 /\ NumSlots \in Nat
  BY SlotPlace
<1>5. CASE NoneBefore(e, NumSlots, {n} \cup {End})
  <2>1. \A i \in Slots : e[i].name # n
    BY <1>4, <1>5 DEF NoneBefore
  <2>. QED  BY <1>2, <2>1 DEF w, e
<1>6. ASSUME NEW j \in Slots, e[j].name \in {End}, NoneBefore(e, j, {n} \cup {End})
      PROVE  \A i \in Slots : e[i].name # n
  <2>1. ASSUME NEW i \in Slots PROVE e[i].name # n
    <3>1. CASE i < j
      BY <1>6, <3>1 DEF NoneBefore
    <3>2. CASE i = j
      BY <1>6, <3>2, NamesApart
    <3>3. CASE i > j
      <4>1. e[i].name = End
        BY <1>3, <1>6, <3>3, <1>4 DEF Ended
      <4>. QED  BY <4>1, NamesApart
    <3>. QED  BY <1>4, <3>1, <3>2, <3>3
  <2>. QED  BY <2>1
<1>. QED  BY <1>2, <1>5, <1>6 DEF w, e

\* A free slot: Deleted, or the end with names in front of it only.
Vacant(e, i) == e[i].name \in {End, Deleted} /\ NoneBefore(e, i, {End, Deleted})

\* dir_alloc finds the first vacant slot, unless there is none.
LEMMA AllocOK ==
    ASSUME NEW v, NEW d, NEW K, OK(v, d, K)
    PROVE  LET w == dir_alloc(v)
           IN /\ OK(w, d, K) /\ Quiet(v, w)
              /\ \/ w.ret = NoSlot
                 \/ w.ret \in Slots /\ Vacant(Dir(Image(v)), w.ret) /\ w.win.sect = SlotSect(w.ret)
<1> DEFINE w == dir_alloc(v)
           e == Dir(Image(v))
<1> DEFINE W == {End, Deleted}
           S == {}
<1>1. w = Walk(v, W, S)
  BY DEF dir_alloc
<1>2. W \cup S = W /\ \A y : y \notin S
  OBVIOUS
<1> HIDE DEF W, S
<1>3. OK(w, d, K) /\ Quiet(v, w) /\ WalkEnds(w, e, W, S)
  BY <1>1, WalkOK
<1> HIDE DEF w, e
<1>. QED  BY <1>2, <1>3 DEF Vacant, WalkEnds, W, w, e

\* A new name in a vacant slot keeps the directory good; so does a name that
\* goes and is not promised.
NewName(e, n) == \A j \in Slots : e[j].name # n

\* A new name in the first vacant slot leaves a good directory; so does one of
\* which nothing is said.
LEMMA NameEnters ==
    ASSUME NEW e, NEW K, DirGood(e, K), DOMAIN e = Slots, NEW i \in Slots, Vacant(e, i), NEW x,
           x.name \in Names, K[x.name] = Twice \/ NewName(e, x.name)
    PROVE  DirGood([e EXCEPT ![i] = x], K)
<1> DEFINE f == [e EXCEPT ![i] = x]
<1>1. f[i] = x /\ \A j \in Slots : j # i => f[j] = e[j]
  OBVIOUS
<1> HIDE DEF f
<1>2. e[i].name \notin Names /\ x.name # End
  BY NamesApart DEF Vacant
<1>3. Ended(f)
  BY <1>1, <1>2 DEF DirGood, Ended, Vacant, NoneBefore
<1>4. Distinct(f, K)
  <2> SUFFICES ASSUME NEW n \in Names, K[n] # Twice PROVE Once(f, n)
    BY DEF Distinct
  <2>1. Once(e, n)
    BY DEF DirGood, Distinct
  <2>2. x.name = n => NewName(e, n)
    OBVIOUS
  <2>. QED  BY <1>1, <2>1, <2>2 DEF Once, NewName
<1>5. ASSUME NEW n \in Names, K[n] >= 0 PROVE Holds(f, n, K[n])
  <2>1. PICK j \in Slots : e[j].name = n /\ e[j].size >= K[n]
    BY <1>5 DEF DirGood, Promise, Holds
  <2>2. j # i
    BY <1>2, <2>1
  <2>. QED  BY <1>1, <2>1, <2>2 DEF Holds
<1>. QED  BY <1>3, <1>4, <1>5 DEF DirGood, Promise, f

\* So does the removal of a name to which nothing is promised.
LEMMA NameGoes ==
    ASSUME NEW e, NEW K, DirGood(e, K), DOMAIN e = Slots, NEW i \in Slots, NEW x,
           x.name = Deleted, e[i].name \in Names, ~(K[e[i].name] >= 0)
    PROVE  DirGood([e EXCEPT ![i] = x], K)
<1> DEFINE f == [e EXCEPT ![i] = x]
<1>1. f[i] = x /\ \A j \in Slots : j # i => f[j] = e[j]
  OBVIOUS
<1> HIDE DEF f
<1>2. Ended(f)
  BY <1>1, NamesApart DEF DirGood, Ended
<1>3. Distinct(f, K)
  <2> SUFFICES ASSUME NEW n \in Names, K[n] # Twice PROVE Once(f, n)
    BY DEF Distinct
  <2>1. Once(e, n) /\ x.name # n
    BY NamesApart DEF DirGood, Distinct
  <2>. QED  BY <1>1, <2>1 DEF Once
<1>4. ASSUME NEW n \in Names, K[n] >= 0 PROVE Holds(f, n, K[n])
  <2>1. PICK j \in Slots : e[j].name = n /\ e[j].size >= K[n]
    BY <1>4 DEF DirGood, Promise, Holds
  <2>. QED  BY <1>1, <1>4, <2>1 DEF Holds
<1>. QED  BY <1>2, <1>3, <1>4 DEF DirGood, Promise, f

\* An entry that keeps its name, and at least the size promised.
LEMMA NameStays ==
    ASSUME NEW e, NEW K, DirGood(e, K), DOMAIN e = Slots, NEW i \in Slots, NEW x,
           x.name = e[i].name, e[i].name \in Names, K[x.name] >= 0 => x.size >= K[x.name]
    PROVE  DirGood([e EXCEPT ![i] = x], K)
<1> DEFINE f == [e EXCEPT ![i] = x]
<1>1. f[i] = x /\ \A j \in Slots : j # i => f[j] = e[j]
  OBVIOUS
<1> HIDE DEF f
<1>2. \A j \in Slots : f[j].name = e[j].name
  BY <1>1
<1>3. Ended(f) /\ Distinct(f, K)
  BY <1>2 DEF DirGood, Ended, Distinct, Once
<1>4. ASSUME NEW n \in Names, K[n] >= 0 PROVE Holds(f, n, K[n])
  <2>1. PICK j \in Slots : e[j].name = n /\ e[j].size >= K[n]
    BY <1>4 DEF DirGood, Promise, Holds
  <2>. QED  BY <1>1, <1>4, <2>1 DEF Holds
<1>. QED  BY <1>3, <1>4 DEF DirGood, Promise, f

\* dir_register enters a new name, or finds no slot for it.
LEMMA RegisterOK ==
    ASSUME NEW v, NEW d, NEW K, OK(v, d, K), NEW n \in Names,
           K[n] = Twice \/ \A i \in Slots : Dir(Image(v))[i].name # n
    PROVE  LET w == dir_register(v, n)
               x == [name |-> n, clu |-> 0, size |-> 0]
           IN /\ OK(w, d, K)
              /\ \/ w.ret = NoSlot /\ Quiet(v, w)
                 \/ /\ w.ret \in Slots /\ Dir(Image(v))[w.ret].name \in {End, Deleted}
                    /\ w.win.sect = SlotSect(w.ret)
                    /\ Changes(v, w, w.ret, x)
<1> DEFINE w == dir_register(v, n)
           x == [name |-> n, clu |-> 0, size |-> 0]
           u == dir_alloc(v)
<1>1. /\ OK(u, d, K) /\ Quiet(v, u)
      /\ \/ u.ret = NoSlot
         \/ u.ret \in Slots /\ Vacant(Dir(Image(v)), u.ret) /\ u.win.sect = SlotSect(u.ret)
  BY AllocOK
<1>2. w = IF u.ret = NoSlot THEN u ELSE Poke(u, u.ret, x)
  BY DEF dir_register, Fill
<1>3. x \in EntryRecs /\ x.name = n
  BY ClusterNumbers DEF EntryRecs
<1>0. NoSlot \notin Slots
  BY SlotPlace DEF NoSlot
<1> HIDE DEF u, w, x
<1>4. CASE u.ret = NoSlot
  BY <1>1, <1>2, <1>4 DEF w
<1>5. CASE u.ret # NoSlot
  <2>1. w = Poke(u, u.ret, x) /\ u.ret \in Slots /\ u.win.sect = SlotSect(u.ret)
    BY <1>1, <1>2, <1>5
  <2>2. Dir(Image(u)) = Dir(Image(v)) /\ Calm(v, u)
    BY <1>1, QuietCalm DEF Quiet
  <2>3. DirGood([Dir(Image(u)) EXCEPT ![u.ret] = x], K)
    <3>1. DirGood(Dir(Image(u)), K) /\ DOMAIN Dir(Image(u)) = Slots
      BY <1>1 DEF OK, Good, Dir
    <3>2. Vacant(Dir(Image(u)), u.ret)
      BY <1>1, <1>5, <2>2
    <3>3. x.name \in Names /\ (K[x.name] = Twice \/ \A i \in Slots : Dir(Image(u))[i].name # x.name)
      BY <1>3, <2>2
    <3> DEFINE i == u.ret
               e == Dir(Image(u))
    <3>4. i \in Slots /\ Vacant(e, i) /\ DirGood(e, K) /\ DOMAIN e = Slots
      BY <2>1, <3>1, <3>2
    <3>6. K[x.name] = Twice \/ NewName(e, x.name)
      BY <3>3 DEF NewName
    <3> HIDE DEF i, e
    <3>5. DirGood([e EXCEPT ![i] = x], K)
      BY <3>3, <3>4, <3>6, NameEnters
    <3>. QED  BY <3>5 DEF i, e
  <2>4. OK(w, d, K) /\ Changes(u, w, u.ret, x) /\ w.ret = u.ret /\ w.win.sect = u.win.sect
    BY <1>1, <1>3, <2>1, <2>3, PokeEntry
  <2>5. Changes(v, w, u.ret, x)
    BY <2>2, <2>4, CalmChanges
  <2>. QED  BY <1>1, <1>5, <2>1, <2>4, <2>5 DEF w, x, Vacant
<1>. QED  BY <1>4, <1>5

\* dir_remove takes out a name to which nothing is promised.
LEMMA DirRemoveOK ==
    ASSUME NEW v, NEW d, NEW K, OK(v, d, K), NEW i \in Slots,
           Dir(Image(v))[i].name \in Names, ~(K[Dir(Image(v))[i].name] >= 0)
    PROVE  LET w == dir_remove(v, i)
               x == [NoEntry EXCEPT !.name = Deleted]
           IN OK(w, d, K) /\ Changes(v, w, i, x) /\ w.ret = v.ret /\ w.win.sect = SlotSect(i)
<1> DEFINE w == dir_remove(v, i)
           x == [NoEntry EXCEPT !.name = Deleted]
           u == move_window(v, SlotSect(i))
<1>1. w = Poke(u, i, x)
  BY DEF dir_remove
<1>2. x \in EntryRecs /\ x.name = Deleted
  BY ClusterNumbers DEF EntryRecs, NoEntry
<1>3. SlotSect(i) \in Reserved
  BY SlotPlace DEF Reserved
<1>4. OK(u, d, K) /\ Quiet(v, u) /\ u.win.sect = SlotSect(i) /\ u.ret = v.ret
  BY <1>3, MoveOK
<1> HIDE DEF u, w, x
<1>5. Dir(Image(u)) = Dir(Image(v)) /\ Calm(v, u)
  BY <1>4, QuietCalm DEF Quiet
<1>6. DirGood([Dir(Image(u)) EXCEPT ![i] = x], K)
  <2>1. DirGood(Dir(Image(u)), K) /\ DOMAIN Dir(Image(u)) = Slots
    BY <1>4 DEF OK, Good, Dir
  <2>. QED  BY <1>2, <1>5, <2>1, NameGoes
<1>7. OK(w, d, K) /\ Changes(u, w, i, x) /\ w.ret = u.ret /\ w.win.sect = u.win.sect
  BY <1>1, <1>2, <1>4, <1>6, PokeEntry
<1>8. Changes(v, w, i, x)
  BY <1>5, <1>7, CalmChanges
<1>. QED  BY <1>4, <1>7, <1>8 DEF w, x

\* The start and the size of the entry under the window.
LEMMA SetStartOK ==
    ASSUME NEW v, NEW d, NEW K, OK(v, d, K), NEW i \in Slots, v.win.sect = SlotSect(i),
           NEW c \in Clusters \cup {0}, NEW size \in Nat, Dir(Image(v))[i].name \in Names,
           K[Dir(Image(v))[i].name] >= 0 => size >= K[Dir(Image(v))[i].name]
    PROVE  LET w == SetStart(v, i, c, size)
           IN /\ OK(w, d, K) /\ w.ret = v.ret /\ w.win.sect = v.win.sect
              /\ \E x : /\ Changes(v, w, i, x)
                       /\ x.name = Dir(Image(v))[i].name /\ x.clu = c /\ x.size = size
<1> DEFINE w == SetStart(v, i, c, size)
           e == Dir(Image(v))
           x == [e[i] EXCEPT !.clu = c, !.size = size]
<1>1. EntryAt(v, i) = e[i] /\ e[i] \in EntryRecs
  BY WindowEntry, ReadOK, EntryIn
<1>2. DirGood(e, K) /\ DOMAIN e = Slots
  BY DEF OK, Good, Dir
<1>4. w = Poke(v, i, x)
  BY <1>1 DEF SetStart
<1> HIDE DEF e
<1>5. x \in EntryRecs /\ x.name = e[i].name /\ x.clu = c /\ x.size = size
  BY <1>1 DEF EntryRecs
<1> HIDE DEF x, w
<1>6. DirGood([e EXCEPT ![i] = x], K)
  <2>1. e[i].name \in Names /\ (K[x.name] >= 0 => x.size >= K[x.name])
    BY <1>5 DEF e
  <2>. QED  BY <1>2, <1>5, <2>1, NameStays
<1>7. OK(w, d, K) /\ Changes(v, w, i, x) /\ w.ret = v.ret /\ w.win.sect = v.win.sect
  BY <1>4, <1>5, <1>6, PokeEntry DEF e
<1>. QED  BY <1>5, <1>7 DEF e, w

-----------------------------------------------------------------------------
\* f_unlink and f_rename.

\* Promises that are withdrawn.
Weaker(L, K) ==
    \A n \in Names : (L[n] >= 0 => L[n] = K[n]) /\ (L[n] # Twice => K[n] # Twice)
Forgot(K, n) == [K EXCEPT ![n] = IF @ = Twice THEN @ ELSE None]
\* When the entry old is renamed new; onto itself, it may be cut short with the
\* name listed twice.
Passed(K, old, new) == IF old = new THEN [K EXCEPT ![old] = Twice] ELSE Forgot(K, old)

\* Forgetting the promise to one name.
LEMMA ForgotWeaker ==
    ASSUME NEW K \in [Names -> Int], NEW n \in Names
    PROVE  /\ Weaker(Forgot(K, n), K) /\ ~(Forgot(K, n)[n] >= 0)
           /\ Forgot(K, n) \in [Names -> Int]
           /\ \A m \in Names : m # n => Forgot(K, n)[m] = K[m]
  BY DEF Weaker, Forgot, None, Twice

\* The promise to a name that is renamed.
LEMMA PassedWeaker ==
    ASSUME NEW K \in [Names -> Int], NEW old \in Names, NEW new \in Names
    PROVE  LET L == Passed(K, old, new)
           IN /\ Weaker(L, K) /\ ~(L[old] >= 0) /\ L \in [Names -> Int]
              /\ \A m \in Names : m # old => L[m] = K[m]
              /\ old = new => L[old] = Twice
<1>1. CASE old = new
  BY <1>1 DEF Passed, Weaker, Twice
<1>2. CASE old # new
  BY <1>2, ForgotWeaker DEF Passed
<1>. QED  BY <1>1, <1>2

\* A disk that keeps promises keeps fewer.
LEMMA GoodWeaker ==
    ASSUME NEW d, NEW K, Good(d, K), NEW L, Weaker(L, K)
    PROVE  Good(d, L)
<1>1. Promise(Dir(d), L) /\ Distinct(Dir(d), L)
  BY DEF Good, DirGood, Promise, Distinct, Weaker
<1>. QED  BY <1>1 DEF Good, DirGood

\* So does a call.
LEMMA OKWeaker ==
    ASSUME NEW v, NEW d, NEW K, OK(v, d, K), NEW L, Weaker(L, K)
    PROVE  OK(v, d, L)
<1>1. PICK T : Runs(T, d, v.log, v.disk, K)
  BY DEF OK, Timeline
<1>2. Runs(T, d, v.log, v.disk, L)
  BY <1>1, GoodWeaker DEF Runs
<1>3. Timeline(d, v.log, v.disk, L)
  BY <1>2 DEF OK, Timeline
<1>. QED  BY <1>3, GoodWeaker DEF OK

DeletedEntry == [NoEntry EXCEPT !.name = Deleted]

\* A call ends with sync_fs: nothing lags.
LEMMA FinishOK ==
    ASSUME NEW v, NEW d, NEW K, OK(v, d, K), v.ret = 0
    PROVE  LET w == Finish(v) IN OK(w, d, K) /\ Calm(v, w) /\ Lag(w) = {} /\ w.disk = Image(w)
<1>1. Finish(v) = sync_window(v)
  BY DEF Finish, sync_fs
<1>. QED  BY <1>1, SyncOK, QuietCalm

\* f_unlink: nothing happens, or one entry is deleted, on the disk too.
THEOREM UnlinkOK ==
    ASSUME NEW v, NEW d, NEW K, OK(v, d, K), NEW n \in Names, ~(K[n] >= 0), NEW locked
    PROVE  LET w == f_unlink(v, n, locked)
           IN /\ OK(w, d, K)
              /\ \/ Calm(v, w)
                 \/ \E i \in Slots \ locked :
                      /\ Dir(Image(v))[i].name = n
                      /\ Changes(v, w, i, DeletedEntry) /\ Lag(w) = {}
<1> DEFINE u == dir_find(v, n)
           e == Dir(Image(v))
           i == u.ret
           w == f_unlink(v, n, locked)
<1>1. /\ OK(u, d, K) /\ Quiet(v, u)
      /\ \/ i = NoSlot
         \/ i \in Slots /\ e[i].name = n /\ u.win.sect = SlotSect(i)
  BY FindOK
<1>2. w = IF Doomed(u, locked) THEN Remove(u, i, EntryAt(u, i).clu) ELSE u
  BY DEF f_unlink, Unlinked
<1> HIDE DEF u, w
<1>3. Dir(Image(u)) = e /\ Calm(v, u)
  BY <1>1, QuietCalm DEF Quiet
<1>4. CASE ~Doomed(u, locked)
  BY <1>1, <1>2, <1>3, <1>4 DEF w
<1>5. CASE Doomed(u, locked)
  <2>0. i \in Slots \ locked /\ e[i].name = n /\ u.win.sect = SlotSect(i)
    BY <1>1, <1>5 DEF Doomed
  <2> DEFINE cl == EntryAt(u, i).clu
             p == dir_remove(u, i)
             q == Drop(p, cl)
  <2>1. cl \in Clusters \cup {0}
    <3>1. EntryAt(u, i) = Dir(Image(u))[i]
      BY <1>1, <2>0, WindowEntry
    <3>. QED  BY <1>1, <2>0, <3>1, ReadOK, EntryIn
  <2>2. OK(p, d, K) /\ Changes(u, p, i, DeletedEntry)
    <3>1. Dir(Image(u))[i].name \in Names /\ ~(K[Dir(Image(u))[i].name] >= 0)
      BY <1>3, <2>0
    <3>. QED  BY <1>1, <2>0, <3>1, DirRemoveOK DEF DeletedEntry
  <2>3. w = Finish(q)
    BY <1>2, <1>5 DEF Remove
  <2> HIDE DEF p, cl
  <2>4. OK(q, d, K) /\ Calm(p, q) /\ q.ret = 0
    <3>1. CASE cl = 0
      BY <2>2, <3>1, RetOK DEF Drop
    <3>2. CASE cl # 0
      <4>1. q = remove_chain(p, cl, 0) /\ cl \in Clusters
        BY <2>1, <3>2 DEF Drop
      <4>. QED  BY <2>2, <4>1, RemoveOK
    <3>. QED  BY <3>1, <3>2
  <2> HIDE DEF q
  <2>5. OK(w, d, K) /\ Calm(q, w) /\ Lag(w) = {}
    BY <2>3, <2>4, FinishOK
  <2>6. Changes(v, w, i, DeletedEntry)
    BY <1>3, <2>2, <2>4, <2>5, CalmChanges, CalmTrans
  <2>. QED  BY <2>0, <2>5, <2>6 DEF w
<1>. QED  BY <1>4, <1>5

\* The entry i is gone, and the entry j says what it said, under the new name.
Moves(e, f, i, j, old, new) ==
    /\ i # j
    /\ e[i].name = old /\ e[j].name \in {End, Deleted}
    /\ f[j].name = new /\ f[j].size = e[i].size
    /\ f[i].name = Deleted
    /\ \A k \in Slots : k # i /\ k # j => f[k] = e[k]

\* f_rename: nothing happens, or the entry has moved to its new name, which is on
\* the disk.  The promise to the old name is the only one that ends; nothing is said
\* of how often a name is listed that a file is renamed onto from itself, whose new
\* entry is written before the old one goes.
THEOREM RenameOK ==
    ASSUME NEW v, NEW d, NEW K \in [Names -> Int], OK(v, d, K), NEW old \in Names, NEW new \in Names,
           NEW locked
    PROVE  LET w == f_rename(v, old, new, locked)
           IN \/ w.ret # Renamed /\ OK(w, d, K) /\ Calm(v, w)
              \/ /\ w.ret = Renamed /\ OK(w, d, Passed(K, old, new))
                 /\ Lag(w) = {} /\ w.disk = Image(w) /\ w.f = v.f
                 /\ Counts(v) => Counts(w)
                 /\ old # new => ~(K[new] >= 0) /\ NewName(Dir(Image(v)), new)
                 /\ \E i \in Slots \ locked, j \in Slots :
                      Moves(Dir(Image(v)), Dir(Image(w)), i, j, old, new)
<1> DEFINE L == Passed(K, old, new)
           e == Dir(Image(v))
           u == dir_find(v, old)
           i == u.ret
           info == [EntryAt(u, i) EXCEPT !.name = new]
           p == dir_find(u, new)
           q == dir_register(p, new)
           w == f_rename(v, old, new, locked)
<1>0. /\ Weaker(L, K) /\ ~(L[old] >= 0) /\ \A m \in Names : m # old => L[m] = K[m]
      /\ old = new => L[old] = Twice
      /\ NoSlot # Renamed /\ NoSlot \notin Slots /\ Renamed \notin Slots
  BY PassedWeaker, SlotPlace DEF NoSlot, Renamed
<1> HIDE DEF L
<1>1. /\ OK(u, d, K) /\ Quiet(v, u)
      /\ \/ i = NoSlot
         \/ i \in Slots /\ e[i].name = old /\ u.win.sect = SlotSect(i)
  BY FindOK
<1>2. w = IF ~Doomed(u, locked) THEN u ELSE IfNew(p, info, i)
  BY DEF f_rename, Renaming
<1> HIDE DEF u, w
<1>3. Dir(Image(u)) = e /\ Calm(v, u)
  BY <1>1, QuietCalm DEF Quiet
<1>4. CASE ~Doomed(u, locked)
  BY <1>0, <1>1, <1>2, <1>3, <1>4 DEF w
<1>5. CASE Doomed(u, locked)
  <2>0. i \in Slots \ locked /\ e[i].name = old /\ u.win.sect = SlotSect(i)
    BY <1>1, <1>5 DEF Doomed
  <2>1. /\ EntryAt(u, i) = e[i] /\ e[i] \in EntryRecs
    BY <1>1, <1>3, <2>0, WindowEntry, ReadOK, EntryIn
  <2>2. info \in EntryRecs /\ info.name = new /\ info.size = e[i].size
    <3>1. \A y \in EntryRecs : LET z == [y EXCEPT !.name = new]
                               IN z \in EntryRecs /\ z.name = new /\ z.size = y.size
      BY DEF EntryRecs
    <3> HIDE DEF e
    <3>. QED  BY <2>1, <3>1
  <2> HIDE DEF info
  <2>3. /\ OK(p, d, K) /\ Quiet(u, p)
        /\ \/ p.ret = NoSlot /\ \A k \in Slots : e[k].name # new
           \/ p.ret \in Slots /\ e[p.ret].name = new
    BY <1>1, <1>3, FindOK
  <2>4. Calm(v, p) /\ Dir(Image(p)) = e
    BY <1>3, <2>3, QuietCalm, CalmTrans DEF Calm
  <2>5. w = IF p.ret \notin {NoSlot, i} THEN p ELSE Moved(q, info, i)
    <3>1. info.name = new
      BY <2>2
    <3>. QED  BY <1>2, <1>5, <3>1 DEF IfNew
  <2> HIDE DEF p
  <2>6. CASE p.ret \notin {NoSlot, i}
    BY <1>0, <2>3, <2>4, <2>5, <2>6 DEF w
  <2>7. CASE p.ret \in {NoSlot, i}
    <3>1. old # new => \A k \in Slots : e[k].name # new
      BY <1>0, <2>0, <2>3, <2>7
    <3> DEFINE x == [name |-> new, clu |-> 0, size |-> 0]
               j == q.ret
               a0 == dir_alloc(p)
    <3>0. /\ OK(a0, d, K) /\ Quiet(p, a0)
          /\ a0.ret = NoSlot => q = a0
      BY <2>3, AllocOK DEF dir_register, Fill
    <3>2. /\ OK(q, d, L)
          /\ \/ j = NoSlot /\ Quiet(p, q)
             \/ /\ j \in Slots /\ e[j].name \in {End, Deleted}
                /\ q.win.sect = SlotSect(j)
                /\ Changes(p, q, j, x)
      <4>1. OK(p, d, L)
        BY <1>0, <2>3, OKWeaker
      <4>2. L[new] = Twice \/ \A k \in Slots : Dir(Image(p))[k].name # new
        BY <1>0, <2>4, <3>1
      <4>. QED  BY <2>4, <4>1, <4>2, RegisterOK
    <3>6. j = NoSlot => a0.ret = NoSlot
      <4>1. a0.ret # NoSlot => q.ret = a0.ret
        BY DEF dir_register, Fill, Poke
      <4>. QED  BY <4>1
    <3> HIDE DEF a0
    <3>3. x.name = new
      OBVIOUS
    <3> HIDE DEF q, x
    <3>4. CASE j = NoSlot
      <4>1. w = q /\ q = a0
        BY <2>5, <2>7, <3>0, <3>4, <3>6 DEF Moved
      <4>2. Calm(v, a0)
        BY <2>4, <3>0, QuietCalm, CalmTrans
      <4>. QED  BY <1>0, <3>0, <3>4, <4>1, <4>2 DEF w
    <3>5. CASE j # NoSlot
      <4>0. j \in Slots /\ e[j].name \in {End, Deleted} /\ q.win.sect = SlotSect(j)
            /\ Changes(p, q, j, x)
        BY <3>2, <3>5
      <4>1. i # j /\ (old # new => ~(K[new] >= 0) /\ NewName(e, new)) /\ ~(L[new] >= 0)
        <5>1. i # j
          BY <2>0, <4>0, NamesApart
        <5>3. Promise(e, K)
          BY <2>4, <2>3 DEF OK, Good, DirGood
        <5>4. old # new => ~(K[new] >= 0)
          BY <3>1, <5>3 DEF Promise, Holds
        <5>5. ~(L[new] >= 0)
          BY <1>0, <5>4
        <5>. QED  BY <3>1, <5>1, <5>4, <5>5 DEF NewName
      <4> DEFINE a == Poke(q, j, info)
                 b == dir_remove(a, i)
                 c == sync_fs(b)
                 eq == Dir(Image(q))
                 ea == Dir(Image(a))
      <4>2. OK(q, d, L) /\ DOMAIN e = Slots /\ eq = [e EXCEPT ![j] = x]
        BY <2>4, <3>2, <4>0 DEF Changes, Dir
      <4> HIDE DEF eq, e
      <4>3. OK(a, d, L) /\ Changes(q, a, j, info) /\ a.ret = j
        <5>1. DirGood(eq, L) /\ DOMAIN eq = Slots
          BY <4>2 DEF OK, Good, Dir, eq
        <5>2. info.name = eq[j].name /\ eq[j].name \in Names
          BY <2>2, <3>3, <4>0, <4>2
        <5>3. ~(L[info.name] >= 0)
          BY <2>2, <4>1
        <5>4. DirGood([eq EXCEPT ![j] = info], L)
          BY <4>0, <5>1, <5>2, <5>3, NameStays
        <5>5. /\ OK(q, d, L) /\ j \in Slots /\ q.win.sect = SlotSect(j) /\ info \in EntryRecs
              /\ DirGood([Dir(Image(q)) EXCEPT ![j] = info], L)
          BY <2>2, <4>0, <4>2, <5>4 DEF eq
        <5> HIDE DEF j, a
        <5>6. LET y == Poke(q, j, info) IN OK(y, d, L) /\ Changes(q, y, j, info) /\ y.ret = q.ret
          BY <5>5, PokeEntry
        <5>. QED  BY <5>6 DEF a, j
      <4> HIDE DEF a
      <4>4. ea = [eq EXCEPT ![j] = info]
        BY <4>3 DEF Changes, eq
      <4>5. ea[i] = e[i] /\ ea[j] = info /\ DOMAIN ea = Slots
            /\ \A k \in Slots : k # j => ea[k] = e[k]
        BY <2>0, <4>0, <4>1, <4>2, <4>4
      <4>6. OK(b, d, L) /\ Changes(a, b, i, DeletedEntry)
        <5>1. Dir(Image(a))[i].name \in Names /\ ~(L[Dir(Image(a))[i].name] >= 0)
          BY <1>0, <2>0, <4>5 DEF ea
        <5>. QED  BY <2>0, <4>3, <5>1, DirRemoveOK DEF DeletedEntry
      <4> HIDE DEF b
      <4>7. /\ OK(c, d, L) /\ Quiet(b, c) /\ Lag(c) = {} /\ c.disk = Image(b) /\ Image(c) = Image(b)
        BY <4>6, SyncOK DEF sync_fs
      <4> HIDE DEF c
      <4>8. w = [c EXCEPT !.ret = Renamed]
        BY <2>5, <2>7, <3>5 DEF Moved, c, b, a
      <4>9. /\ w.disk = c.disk /\ w.log = c.log /\ w.win = c.win /\ w.f = c.f
            /\ w.free = c.free /\ DOMAIN w = DOMAIN c /\ w.ret = Renamed
        BY <4>7, <4>8 DEF OK, Fields
      <4>10. /\ OK(w, d, L) /\ Image(w) = Image(c) /\ Lag(w) = {} /\ Quiet(c, w)
        BY <4>7, <4>9, SameVolume
      <4>11. Moves(e, Dir(Image(w)), i, j, old, new)
        <5>1. Dir(Image(w)) = [ea EXCEPT ![i] = DeletedEntry]
          BY <4>6, <4>7, <4>10 DEF Changes, ea
        <5>2. DeletedEntry.name = Deleted
          BY DEF DeletedEntry, NoEntry
        <5>. QED  BY <2>0, <2>2, <4>0, <4>1, <4>5, <5>1, <5>2 DEF Moves
      <4>12. w.f = v.f /\ (Counts(v) => Counts(w))
        <5>1. Calm(b, c) /\ Calm(c, w)
          BY <4>7, <4>10, QuietCalm
        <5>. QED  BY <2>4, <4>0, <4>3, <4>6, <5>1 DEF Calm, Changes
      <4>. QED  BY <2>0, <4>0, <4>1, <4>7, <4>9, <4>10, <4>11, <4>12 DEF w, L, e
    <3>. QED  BY <3>4, <3>5
  <2>. QED  BY <2>6, <2>7
<1>. QED  BY <1>4, <1>5

-----------------------------------------------------------------------------
\* The calls on a file: what a step of them may do.

\* A file object, and what a call on it keeps.
FileFields == {"open", "name", "slot", "sclust", "clust", "fptr", "size", "sect", "buf",
               "dirty", "modified", "err", "cut"}
FileTyped(f) ==
    /\ FileFields \subseteq DOMAIN f
    /\ f.open = TRUE /\ f.name \in Names /\ f.slot \in Slots
    /\ f.sclust \in Clusters \cup {0} /\ f.sect \in DataSects \cup {0}
    /\ f.fptr \in Nat /\ f.size \in Nat
    /\ {f.dirty, f.modified, f.err, f.cut} \subseteq BOOLEAN
Placed(f) == ~f.err => f.fptr <= f.size
Grows(f, g) ==
    /\ g.name = f.name /\ g.slot = f.slot /\ g.modified = f.modified
    /\ g.size >= f.size /\ (f.err => g.err)
Still(v, w) ==
    /\ Dir(Image(w)) = Dir(Image(v))
    /\ Lag(w) \subseteq Lag(v)
    /\ Counts(v) => Counts(w)
FileOK(v, d, K) == OK(v, d, K) /\ FileTyped(v.f)
Works(v, w, d, K) == FileOK(w, d, K) /\ Still(v, w) /\ Grows(v.f, w.f)
\* The volume is not touched at all.
Same(v, w) ==
    /\ DOMAIN w = DOMAIN v
    /\ w.disk = v.disk /\ w.log = v.log /\ w.win = v.win /\ w.free = v.free

\* Steps of a call on a file may be chained.
LEMMA WorksSelf ==
    ASSUME NEW v, NEW d, NEW K, FileOK(v, d, K)
    PROVE  Works(v, v, d, K)
<1>1. v.f.size >= v.f.size
  BY DEF FileOK, FileTyped
<1>. QED  BY <1>1 DEF Works, Still, Grows

\* The file object only grows.
LEMMA GrowsTrans ==
    ASSUME NEW f, NEW g, NEW h, FileTyped(f), FileTyped(g), FileTyped(h), Grows(f, g), Grows(g, h)
    PROVE  Grows(f, h)
<1>1. h.size >= f.size
  BY DEF FileTyped, Grows
<1>. QED  BY <1>1 DEF Grows

\* Two steps of a call on a file are one.
LEMMA WorksTrans ==
    ASSUME NEW v, NEW w, NEW u, NEW d, NEW K, FileOK(v, d, K), Works(v, w, d, K), Works(w, u, d, K)
    PROVE  Works(v, u, d, K)
<1>1. Grows(v.f, u.f)
  BY GrowsTrans DEF Works, FileOK
<1>2. Still(v, u)
  BY DEF Works, Still
<1>. QED  BY <1>1, <1>2 DEF Works

\* A step on the file object alone.
LEMMA FileStep ==
    ASSUME NEW v, NEW d, NEW K, FileOK(v, d, K), NEW w, Same(v, w),
           FileTyped(w.f), Grows(v.f, w.f)
    PROVE  Works(v, w, d, K)
<1>1. OK(w, d, K) /\ Image(w) = Image(v) /\ Lag(w) = Lag(v)
  BY SameVolume DEF FileOK, Same
<1>2. Still(v, w)
  BY <1>1 DEF Still, Counts, Same
<1>. QED  BY <1>1, <1>2 DEF Works, FileOK

\* A step on the FAT alone.
LEMMA FileCalm ==
    ASSUME NEW v, NEW d, NEW K, FileOK(v, d, K), NEW w, OK(w, d, K), Calm(v, w)
    PROVE  Works(v, w, d, K) /\ w.f = v.f
<1>1. w.f = v.f /\ v.f.size >= v.f.size
  BY DEF Calm, FileOK, FileTyped
<1>. QED  BY <1>1 DEF Works, FileOK, Calm, Still, Grows

-----------------------------------------------------------------------------
\* Moves of the file pointer, the buffer and the error flag.
LEMMA AnyClusterSect ==
    ASSUME NEW c
    PROVE  clust2sect(c) \in DataSects \cup {0} /\ (clust2sect(c) # 0 => c \in Clusters)
<1>1. CASE c \in Clusters
  <2>1. c \in Int
    BY <1>1 DEF Clusters, n_fatent
  <2>. QED  BY <1>1, <2>1, ClusterSect
<1>2. CASE c \notin Clusters
  BY <1>2 DEF clust2sect
<1>. QED  BY <1>1, <1>2

\* A call is given up.
LEMMA AbortOK ==
    ASSUME NEW v, NEW d, NEW K, FileOK(v, d, K)
    PROVE  LET w == Abort(v)
           IN Works(v, w, d, K) /\ w.f.err /\ w.f.size = v.f.size /\ w.f.fptr = v.f.fptr
<1> DEFINE w == Abort(v)
<1>1. Same(v, w) /\ w.f = [v.f EXCEPT !.err = TRUE]
  BY DEF FileOK, OK, Fields, Abort, Same
<1>2. FileTyped(w.f) /\ Grows(v.f, w.f) /\ w.f.err /\ w.f.size = v.f.size /\ w.f.fptr = v.f.fptr
  BY <1>1 DEF FileOK, FileTyped, FileFields, Grows
<1> HIDE DEF w
<1>3. Works(v, w, d, K)
  BY <1>1, <1>2, FileStep
<1>. QED  BY <1>2, <1>3 DEF w

\* What a flush of the buffer leaves alone.
Rests(f, g) ==
    /\ g.size = f.size /\ g.fptr = f.fptr /\ g.err = f.err
    /\ g.sclust = f.sclust /\ g.clust = f.clust

\* The buffer is written back.
LEMMA FlushOK ==
    ASSUME NEW v, NEW d, NEW K, FileOK(v, d, K)
    PROVE  LET w == FlushBuf(v)
           IN Works(v, w, d, K) /\ Rests(v.f, w.f) /\ w.ret = v.ret
<1> DEFINE w == FlushBuf(v)
<1>1. CASE v.f.dirty
  <2> DEFINE u == disk_write(v, v.f.sect, v.f.buf)
  <2>1. OK(u, d, K) /\ Quiet(v, u) /\ u.ret = v.ret
    BY DataOK DEF FileOK, FileTyped
  <2>2. w = [u EXCEPT !.f.dirty = FALSE]
    BY <1>1 DEF FlushBuf
  <2> HIDE DEF u, w
  <2>3. Works(v, u, d, K) /\ u.f = v.f
    BY <2>1, QuietCalm, FileCalm
  <2>4. Same(u, w) /\ w.f = [u.f EXCEPT !.dirty = FALSE] /\ w.ret = u.ret
    BY <2>1, <2>2 DEF OK, Fields, Same
  <2>5. FileTyped(w.f) /\ Grows(u.f, w.f) /\ Rests(v.f, w.f)
    BY <2>3, <2>4 DEF FileOK, FileTyped, FileFields, Grows, Rests
  <2>6. Works(u, w, d, K)
    BY <2>3, <2>4, <2>5, FileStep DEF Works
  <2>7. Works(v, w, d, K)
    BY <2>3, <2>6, WorksTrans
  <2>. QED  BY <2>1, <2>4, <2>5, <2>7 DEF w
<1>2. CASE ~v.f.dirty
  <2>1. w = v
    BY <1>2 DEF FlushBuf
  <2>. QED  BY <2>1, WorksSelf DEF Rests
<1>. QED  BY <1>1, <1>2 DEF FileOK, FileTyped

\* The file pointer moves on, and the size with it.
LEMMA AdvanceOK ==
    ASSUME NEW v, NEW d, NEW K, FileOK(v, d, K), NEW k \in Nat
    PROVE  LET w == Advance(v, k) IN Works(v, w, d, K) /\ Placed(w.f)
<1> DEFINE w == Advance(v, k)
           p == v.f.fptr + k
           s == IF p > v.f.size THEN p ELSE v.f.size
<1>1. Same(v, w) /\ w.f = [v.f EXCEPT !.fptr = p, !.size = s]
  BY DEF FileOK, OK, Fields, FileTyped, FileFields, Advance, Same
<1>2. p \in Nat /\ s \in Nat /\ s >= v.f.size /\ p <= s
  BY DEF FileOK, FileTyped
<1> HIDE DEF p, s
<1>3. FileTyped(w.f) /\ Grows(v.f, w.f) /\ Placed(w.f)
  BY <1>1, <1>2 DEF FileOK, FileTyped, FileFields, Grows, Placed
<1> HIDE DEF w
<1>4. Works(v, w, d, K)
  BY <1>1, <1>3, FileStep
<1>. QED  BY <1>3, <1>4 DEF w

\* Bytes go to the buffer.
LEMMA BufferOK ==
    ASSUME NEW v, NEW d, NEW K, FileOK(v, d, K), NEW k \in Nat, NEW x
    PROVE  LET w == ToBuffer(v, k, x) IN Works(v, w, d, K) /\ Placed(w.f)
<1> DEFINE off == v.f.fptr % SS
           b == [j \in 1 .. SS |-> IF j \in off + 1 .. off + k THEN x ELSE v.f.buf[j]]
           u == [v EXCEPT !.f.buf = b, !.f.dirty = TRUE]
           w == ToBuffer(v, k, x)
<1>1. w = Advance(u, k)
  BY DEF ToBuffer, FileOK, OK, Fields, FileTyped, FileFields
<1> HIDE DEF b, w
<1>2. Same(v, u) /\ u.f = [v.f EXCEPT !.buf = b, !.dirty = TRUE]
  BY DEF FileOK, OK, Fields, FileTyped, FileFields, Same
<1> HIDE DEF u
<1>3. FileTyped(u.f) /\ Grows(v.f, u.f)
  BY <1>2 DEF FileOK, FileTyped, FileFields, Grows
<1>4. Works(v, u, d, K)
  BY <1>2, <1>3, FileStep
<1>5. Works(u, w, d, K) /\ Placed(w.f)
  BY <1>1, <1>4, AdvanceOK DEF Works
<1>6. Works(v, w, d, K)
  BY <1>4, <1>5, WorksTrans
<1>. QED  BY <1>5, <1>6 DEF w

\* A whole sector goes to the disk.
LEMMA ToDiskOK ==
    ASSUME NEW v, NEW d, NEW K, FileOK(v, d, K), NEW s \in DataSects \cup {0}, NEW x
    PROVE  LET w == ToDisk(v, s, x) IN Works(v, w, d, K) /\ Placed(w.f)
<1> DEFINE b == Bytes(x, SS)
           u == disk_write(v, s, b)
           t == IF v.f.sect = s THEN [u EXCEPT !.f.buf = b, !.f.dirty = FALSE] ELSE u
           w == ToDisk(v, s, x)
<1>1. w = Advance(t, SS) /\ SS \in Nat
  BY DEF ToDisk, SS
<1> HIDE DEF b, w
<1>2. OK(u, d, K) /\ Quiet(v, u)
  BY DataOK DEF FileOK
<1> HIDE DEF u
<1>3. Works(v, u, d, K) /\ u.f = v.f
  BY <1>2, QuietCalm, FileCalm
<1>4. Works(u, t, d, K)
  <2>1. CASE v.f.sect = s
    <3>1. Same(u, t) /\ t.f = [u.f EXCEPT !.buf = b, !.dirty = FALSE]
      BY <1>2, <2>1, <1>3 DEF OK, Fields, FileOK, FileTyped, FileFields, Same
    <3> HIDE DEF t
    <3>2. FileTyped(t.f) /\ Grows(u.f, t.f)
      BY <1>3, <3>1 DEF FileOK, FileTyped, FileFields, Grows
    <3>. QED  BY <1>3, <3>1, <3>2, FileStep DEF Works
  <2>2. CASE v.f.sect # s
    BY <1>3, <2>2, WorksSelf DEF Works
  <2>. QED  BY <2>1, <2>2
<1> HIDE DEF t
<1>5. Works(v, t, d, K)
  BY <1>3, <1>4, WorksTrans
<1>6. Works(t, w, d, K) /\ Placed(w.f)
  BY <1>1, <1>5, AdvanceOK DEF Works
<1>7. Works(v, w, d, K)
  BY <1>5, <1>6, WorksTrans
<1>. QED  BY <1>6, <1>7 DEF w

-----------------------------------------------------------------------------
\* f_write.

\* The loop of f_write, after some rounds of a call that began with v.
Writing(r, v, d, K) ==
    /\ {"v", "todo"} \subseteq DOMAIN r
    /\ Works(v, r.v, d, K) /\ Placed(r.v.f) /\ r.todo \in Nat

\* A round of f_write within a sector.
LEMMA WriteInOK ==
    ASSUME NEW v, NEW d, NEW K, FileOK(v, d, K), Placed(v.f), NEW s \in DataSects \cup {0},
           NEW todo \in Nat, NEW x
    PROVE  Writing(WriteIn(v, s, todo, x), v, d, K)
<1> DEFINE load == v.f.sect # s /\ v.f.fptr < v.f.size
           b == IF load THEN v.disk[s] ELSE v.f.buf
           held == [v EXCEPT !.f.sect = s, !.f.buf = b]
           r == WriteIn(v, s, todo, x)
<1>1. CASE s # 0 /\ todo >= SS
  <2>1. r = [v |-> ToDisk(v, s, x), todo |-> todo - SS] /\ todo - SS \in Nat
    BY <1>1 DEF WriteIn, SS
  <2>. QED  BY <2>1, ToDiskOK DEF Writing
<1>2. CASE ~(s # 0 /\ todo >= SS)
  <2>1. r.v = IF s = 0 \/ (load /\ ~Readable(s)) THEN Abort(v) ELSE ToBuffer(held, todo, x)
    BY <1>2 DEF WriteIn, FileOK, OK, Fields, FileTyped, FileFields
  <2>2. r.todo = 0 /\ {"v", "todo"} \subseteq DOMAIN r
    BY <1>2 DEF WriteIn
  <2>3. Same(v, held) /\ held.f = [v.f EXCEPT !.sect = s, !.buf = b]
    BY DEF FileOK, OK, Fields, FileTyped, FileFields, Same
  <2> HIDE DEF r, b, held, load
  <2>4. FileTyped(held.f) /\ Grows(v.f, held.f)
    BY <2>3 DEF FileOK, FileTyped, FileFields, Grows
  <2>5. Works(v, held, d, K)
    BY <2>3, <2>4, FileStep
  <2>6. Works(v, Abort(v), d, K) /\ Placed(Abort(v).f)
    BY AbortOK DEF Placed
  <2>7. Works(v, ToBuffer(held, todo, x), d, K) /\ Placed(ToBuffer(held, todo, x).f)
    <3>1. Works(held, ToBuffer(held, todo, x), d, K) /\ Placed(ToBuffer(held, todo, x).f)
      BY <2>5, BufferOK DEF Works
    <3>. QED  BY <2>5, <3>1, WorksTrans
  <2>8. Writing(r, v, d, K)
    BY <2>1, <2>2, <2>6, <2>7 DEF Writing
  <2>. QED  BY <2>8 DEF r
<1>. QED  BY <1>1, <1>2

\* A round of f_write on a sector boundary.
LEMMA WriteAtOK ==
    ASSUME NEW v, NEW d, NEW K, FileOK(v, d, K), Placed(v.f), NEW c \in Clusters \cup {0, 1},
           NEW todo \in Nat, NEW x
    PROVE  Writing(WriteAt(v, c, todo, x), v, d, K)
<1>0. 0 \notin Clusters /\ 1 \notin Clusters
  BY ClusterNumbers
<1>1. CASE c = 0
  <2>1. WriteAt(v, c, todo, x) = [v |-> v, todo |-> 0]
    BY <1>1 DEF WriteAt
  <2>. QED  BY <2>1, WorksSelf DEF Writing
<1>2. CASE c = 1
  <2>1. WriteAt(v, c, todo, x) = [v |-> Abort(v), todo |-> 0]
    BY <1>2 DEF WriteAt
  <2>2. Works(v, Abort(v), d, K) /\ Placed(Abort(v).f)
    BY AbortOK DEF Placed
  <2>. QED  BY <2>1, <2>2 DEF Writing
<1>3. CASE c \in Clusters
  <2> DEFINE z == IF v.f.sclust = 0 THEN c ELSE v.f.sclust
             u == [v EXCEPT !.f.clust = c, !.f.sclust = z]
             w == FlushBuf(u)
             r == WriteIn(w, clust2sect(c), todo, x)
  <2>1. WriteAt(v, c, todo, x) = r
    BY <1>0, <1>3 DEF WriteAt, FileOK, OK, Fields, FileTyped, FileFields
  <2>2. z \in Clusters \cup {0}
    BY <1>3 DEF FileOK, FileTyped
  <2> HIDE DEF z
  <2>3. Same(v, u) /\ u.f = [v.f EXCEPT !.clust = c, !.sclust = z]
    BY DEF FileOK, OK, Fields, FileTyped, FileFields, Same
  <2> HIDE DEF u, r
  <2>4. FileTyped(u.f) /\ Grows(v.f, u.f) /\ Placed(u.f)
    BY <2>2, <2>3 DEF FileOK, FileTyped, FileFields, Grows, Placed
  <2>5. Works(v, u, d, K)
    BY <2>3, <2>4, FileStep
  <2>6. Works(u, w, d, K) /\ Placed(w.f)
    BY <2>4, <2>5, FlushOK DEF Works, Rests, Placed
  <2> HIDE DEF w
  <2>7. Writing(r, w, d, K)
    <3>1. clust2sect(c) \in DataSects \cup {0}
      BY AnyClusterSect
    <3>. QED  BY <2>6, <3>1, WriteInOK DEF Works, r
  <2>8. Works(v, r.v, d, K)
    BY <2>5, <2>6, <2>7, WorksTrans DEF Writing
  <2>. QED  BY <2>1, <2>7, <2>8 DEF Writing
<1>. QED  BY <1>1, <1>2, <1>3

\* A round of f_write.
LEMMA WriteRoundOK ==
    ASSUME NEW v, NEW d, NEW K, FileOK(v, d, K), NEW r, Writing(r, v, d, K), NEW x
    PROVE  Writing(WriteRound(r, x), v, d, K)
<1> DEFINE u == r.v
           left == SS - (u.f.fptr % SS)
           k == IF left < r.todo THEN left ELSE r.todo
           t == WriteRound(r, x)
<1>0. FileOK(u, d, K) /\ Placed(u.f) /\ r.todo \in Nat /\ Works(v, u, d, K)
  BY DEF Writing, Works
<1>1. left \in 1 .. SS /\ SS = 2 /\ k \in Nat /\ r.todo - k \in Nat
  BY <1>0 DEF FileOK, FileTyped, SS
<1>2. Writing(t, u, d, K)
  <2>1. CASE left < SS
    <3>1. t = [v |-> ToBuffer(u, k, x), todo |-> r.todo - k]
      <4>1. ~(left = SS)
        BY <1>1, <2>1
      <4> HIDE DEF left
      <4>. QED  BY <2>1, <4>1 DEF WriteRound, left
    <3> HIDE DEF t, k, u
    <3>. QED  BY <1>0, <1>1, <3>1, BufferOK DEF Writing
  <2>2. CASE ~(left < SS)
    <3>0. left = SS
      BY <1>1, <2>2
    <3>1. CASE u.f.fptr = 0 /\ u.f.sclust # 0
      <4>1. t = WriteAt(u, u.f.sclust, r.todo, x)
        BY <2>2, <3>0, <3>1 DEF WriteRound
      <4>2. u.f.sclust \in Clusters \cup {0, 1}
        BY <1>0 DEF FileOK, FileTyped
      <4> HIDE DEF t, u
      <4>. QED  BY <1>0, <4>1, <4>2, WriteAtOK
    <3>2. CASE ~(u.f.fptr = 0 /\ u.f.sclust # 0)
      <4> DEFINE c == IF u.f.fptr = 0 THEN 0 ELSE u.f.clust
                 p == create_chain(u, c)
      <4>1. t = WriteAt(p, p.ret, r.todo, x)
        BY <2>2, <3>0, <3>2 DEF WriteRound, WriteNext
      <4> HIDE DEF t, u, c
      <4>2. OK(p, d, K) /\ Calm(u, p) /\ p.ret \in Clusters \cup {0, 1}
        BY <1>0, CreateOK DEF FileOK
      <4> HIDE DEF p
      <4>3. Works(u, p, d, K) /\ p.f = u.f
        BY <1>0, <4>2, FileCalm
      <4>4. Writing(t, p, d, K)
        BY <1>0, <4>1, <4>2, <4>3, WriteAtOK DEF Works
      <4>. QED  BY <1>0, <4>3, <4>4, WorksTrans DEF Writing
    <3>. QED  BY <3>1, <3>2
  <2>. QED  BY <2>1, <2>2
<1>. QED  BY <1>0, <1>2, WorksTrans DEF Writing

WriteStep(r, x) == IF r.todo > 0 THEN WriteRound(r, x) ELSE r
Begin(v, n) == [v |-> v, todo |-> n]
WriteRun(r, v, n, k, x) ==
    r = [i \in 0 .. k |-> IF i = 0 THEN Begin(v, n) ELSE WriteStep(r[i - 1], x)]

\* The loop of f_write, as a run of rounds.
LEMMA WriteRounds ==
    ASSUME NEW v, NEW n \in Nat, NEW x
    PROVE  \E r : WriteRun(r, v, n, n, x) /\ Written(v, n, x) = r[n].v
<1> DEFINE T == {k \in 0 .. n : \E g : WriteRun(g, v, n, k, x)}
<1>1. 0 \in T
  <2>1. WriteRun([i \in 0 .. 0 |-> Begin(v, n)], v, n, 0, x)
    BY DEF WriteRun
  <2>. QED  BY <2>1
<1>2. ASSUME NEW k \in 1 .. n, k - 1 \in T PROVE k \in T
  <2>1. PICK g : WriteRun(g, v, n, k - 1, x)
    BY <1>2
  <2> DEFINE h == [i \in 0 .. k |-> IF i = k THEN WriteStep(g[k - 1], x) ELSE g[i]]
  <2>2. WriteRun(h, v, n, k, x)
    BY <2>1 DEF WriteRun
  <2> HIDE DEF h
  <2>. QED  BY <2>2
<1> HIDE DEF T
<1>3. n \in T
  BY <1>1, <1>2, Rounds
<1>4. Written(v, n, x) = (CHOOSE g : WriteRun(g, v, n, n, x))[n].v
  BY DEF Written, WriteStep, Begin, WriteRun
<1>. QED  BY <1>3, <1>4 DEF T

\* f_write: the object never shrinks, and is marked modified unless it is given up.
LEMMA f_writeOK ==
    ASSUME NEW v, NEW d, NEW K, FileOK(v, d, K), Placed(v.f), NEW n \in Nat, NEW x, ~v.f.err
    PROVE  LET w == f_write(v, n, x)
           IN /\ FileOK(w, d, K) /\ Still(v, w) /\ Placed(w.f)
              /\ w.f.name = v.f.name /\ w.f.slot = v.f.slot /\ w.f.size >= v.f.size
              /\ v.f.modified => w.f.modified
              /\ w.f.err \/ w.f.modified
<1>1. PICK r : WriteRun(r, v, n, n, x) /\ Written(v, n, x) = r[n].v
  BY WriteRounds
<1>2. /\ r[0] = Begin(v, n)
      /\ \A i \in 1 .. n : r[i] = WriteStep(r[i - 1], x)
  BY <1>1 DEF WriteRun
<1> DEFINE T == {i \in 0 .. n : Writing(r[i], v, d, K)}
<1>3. 0 \in T
  BY <1>2, WorksSelf DEF Begin, Writing
<1>4. ASSUME NEW i \in 1 .. n, i - 1 \in T PROVE i \in T
  <2> DEFINE u == r[i - 1]
  <2>1. Writing(u, v, d, K)
    BY <1>4
  <2>2. r[i] = IF u.todo > 0 THEN WriteRound(u, x) ELSE u
    BY <1>2 DEF WriteStep
  <2> HIDE DEF u
  <2>3. Writing(r[i], v, d, K)
    BY <2>1, <2>2, WriteRoundOK
  <2>. QED  BY <2>3
<1>5. n \in T
  <2> HIDE DEF T
  <2>. QED  BY <1>3, <1>4, Rounds
<1> DEFINE u == Written(v, n, x)
           w == f_write(v, n, x)
<1>6. Works(v, u, d, K) /\ Placed(u.f)
  BY <1>1, <1>5 DEF Writing
<1>7. w = MarkModified(u)
  BY DEF f_write
<1> HIDE DEF u, w
<1>8. CASE u.f.err
  BY <1>6, <1>7, <1>8 DEF MarkModified, Works, Grows, w
<1>9. CASE ~u.f.err
  <2>1. Same(u, w) /\ w.f = [u.f EXCEPT !.modified = TRUE]
    BY <1>6, <1>7, <1>9 DEF MarkModified, Works, FileOK, OK, Fields, Same
  <2>2. FileTyped(w.f) /\ w.f.modified = TRUE
        /\ w.f.name = u.f.name /\ w.f.slot = u.f.slot /\ w.f.size = u.f.size /\ Placed(w.f)
    BY <1>6, <2>1 DEF Works, FileOK, FileTyped, FileFields, Placed
  <2>3. OK(w, d, K) /\ Image(w) = Image(u) /\ Lag(w) = Lag(u)
    BY <1>6, <2>1, SameVolume DEF Works, FileOK, Same
  <2>4. Still(u, w)
    BY <2>1, <2>3 DEF Still, Counts, Same
  <2>5. Still(v, w)
    BY <1>6, <2>4 DEF Works, Still
  <2>. QED  BY <1>6, <2>2, <2>3, <2>5 DEF Works, Grows, FileOK, w
<1>. QED  BY <1>8, <1>9, <1>6 DEF Works, FileOK, FileTyped

-----------------------------------------------------------------------------
\* f_read.

\* The loop of f_read: what is to be read lies in the file.
Room(f, n) == ~f.err => f.fptr + n <= f.size
Reading(r, v, d, K) ==
    /\ {"v", "todo"} \subseteq DOMAIN r
    /\ Works(v, r.v, d, K) /\ r.v.f.size = v.f.size
    /\ r.todo \in Nat /\ Room(r.v.f, r.todo)

\* A round that begins where another step left off.
LEMMA ReadingTrans ==
    ASSUME NEW v, NEW w, NEW d, NEW K, FileOK(v, d, K), Works(v, w, d, K), w.f.size = v.f.size,
           NEW r, Reading(r, w, d, K)
    PROVE  Reading(r, v, d, K)
<1>1. Works(v, r.v, d, K)
  BY WorksTrans DEF Reading
<1>. QED  BY <1>1 DEF Reading

\* A read is given up.
LEMMA GivesUp ==
    ASSUME NEW v, NEW d, NEW K, FileOK(v, d, K)
    PROVE  Reading([v |-> Abort(v), todo |-> 0], v, d, K)
<1>1. Works(v, Abort(v), d, K) /\ Abort(v).f.err /\ Abort(v).f.size = v.f.size
  BY AbortOK
<1>. QED  BY <1>1 DEF Reading, Room

\* Bytes are read, and the file pointer stays within the file.
LEMMA TakeOK ==
    ASSUME NEW v, NEW d, NEW K, FileOK(v, d, K), NEW k \in Nat, NEW n \in Nat, k <= n,
           Room(v.f, n), NEW x
    PROVE  Reading([v |-> Take(v, k, x), todo |-> n - k], v, d, K)
<1> DEFINE w == Take(v, k, x)
           p == v.f.fptr + k
           rest == n - k
<1>1. Same(v, w) /\ w.f = [v.f EXCEPT !.fptr = p]
  BY DEF FileOK, OK, Fields, FileTyped, FileFields, Take, Same
<1>2. p \in Nat /\ rest \in Nat
  BY DEF FileOK, FileTyped
<1>3. ~v.f.err => p + rest <= v.f.size
  BY DEF FileOK, FileTyped, Room
<1> HIDE DEF w, p, rest
<1>4. FileTyped(w.f) /\ Grows(v.f, w.f) /\ w.f.size = v.f.size /\ Room(w.f, rest)
  BY <1>1, <1>2, <1>3 DEF FileOK, FileTyped, FileFields, Grows, Room
<1>5. Works(v, w, d, K)
  BY <1>1, <1>4, FileStep
<1>6. Reading([v |-> w, todo |-> rest], v, d, K)
  BY <1>2, <1>4, <1>5 DEF Reading
<1>. QED  BY <1>6 DEF w, rest

\* A round of f_read within a sector.
LEMMA ReadInOK ==
    ASSUME NEW v, NEW d, NEW K, FileOK(v, d, K), NEW s \in DataSects \cup {0},
           NEW n \in Nat, Room(v.f, n)
    PROVE  Reading(ReadIn(v, s, n), v, d, K)
<1> DEFINE held == v.f.sect = s
           direct == IF held /\ v.f.dirty THEN v.f.buf ELSE v.disk[s]
           u == FlushBuf(v)
           loaded == IF held THEN v ELSE [u EXCEPT !.f.buf = v.disk[s], !.f.sect = s]
           bad == ~held /\ ~Readable(s)
           r == ReadIn(v, s, n)
<1>1. r = IF s = 0 THEN [v |-> Abort(v), todo |-> 0]
          ELSE IF n >= SS THEN IF Readable(s) THEN [v |-> Take(v, SS, direct), todo |-> n - SS]
                               ELSE [v |-> Abort(v), todo |-> 0]
          ELSE IF bad THEN [v |-> Abort(u), todo |-> 0]
          ELSE [v |-> Take(loaded, n, SubSeq(loaded.f.buf, 1, n)), todo |-> 0]
  BY DEF ReadIn
<1>2. Works(v, u, d, K) /\ Rests(v.f, u.f)
  BY FlushOK
<1> HIDE DEF r, u
<1>3. CASE s = 0 \/ (n >= SS /\ ~Readable(s))
  BY <1>1, <1>3, GivesUp DEF r
<1>4. CASE s # 0 /\ ~(n >= SS) /\ bad
  <2>1. Reading(r, u, d, K)
    BY <1>1, <1>2, <1>4, GivesUp DEF Works
  <2>. QED  BY <1>2, <2>1, ReadingTrans DEF Rests, r
<1>5. CASE s # 0 /\ n >= SS /\ Readable(s)
  <2>1. r = [v |-> Take(v, SS, direct), todo |-> n - SS] /\ SS \in Nat
    BY <1>1, <1>5 DEF SS
  <2>. QED  BY <1>5, <2>1, TakeOK DEF r
<1>6. CASE s # 0 /\ ~(n >= SS) /\ ~bad
  <2> DEFINE x == SubSeq(loaded.f.buf, 1, n)
  <2>1. r = [v |-> Take(loaded, n, x), todo |-> n - n]
    BY <1>1, <1>6
  <2> HIDE DEF x
  <2>2. Works(v, loaded, d, K) /\ Rests(v.f, loaded.f)
    <3>1. CASE held
      BY <3>1, WorksSelf DEF Rests
    <3>2. CASE ~held
      <4> DEFINE b == v.disk[s]
      <4>1. loaded = [u EXCEPT !.f.buf = b, !.f.sect = s]
        BY <3>2
      <4> HIDE DEF b, loaded
      <4>2. Same(u, loaded) /\ loaded.f = [u.f EXCEPT !.buf = b, !.sect = s]
        BY <1>2, <4>1 DEF Works, FileOK, OK, Fields, FileTyped, FileFields, Same
      <4>3. FileTyped(loaded.f) /\ Grows(u.f, loaded.f) /\ Rests(v.f, loaded.f)
        BY <1>2, <4>2 DEF Works, FileOK, FileTyped, FileFields, Grows, Rests
      <4>4. Works(u, loaded, d, K)
        BY <1>2, <4>2, <4>3, FileStep DEF Works
      <4>. QED  BY <1>2, <4>3, <4>4, WorksTrans
    <3>. QED  BY <3>1, <3>2
  <2> HIDE DEF loaded
  <2>3. Room(loaded.f, n) /\ loaded.f.size = v.f.size
    BY <2>2 DEF Rests, Room
  <2>4. Reading(r, loaded, d, K)
    BY <2>1, <2>2, <2>3, TakeOK DEF Works
  <2>. QED  BY <2>2, <2>3, <2>4, ReadingTrans DEF r
<1>. QED  BY <1>3, <1>4, <1>5, <1>6 DEF r

\* A round of f_read on a sector boundary.
LEMMA ReadAtOK ==
    ASSUME NEW v, NEW d, NEW K, FileOK(v, d, K), v.ret \in 0 .. EOC, NEW n \in Nat, Room(v.f, n)
    PROVE  Reading(ReadAt(v, n), v, d, K)
<1>1. CASE v.ret < 2
  BY <1>1, GivesUp DEF ReadAt
<1>2. CASE ~(v.ret < 2)
  <2> DEFINE u == [v EXCEPT !.f.clust = v.ret]
             s == clust2sect(v.ret)
  <2>1. ReadAt(v, n) = ReadIn(u, s, n)
    BY <1>2 DEF ReadAt
  <2>2. Same(v, u) /\ u.f = [v.f EXCEPT !.clust = v.ret]
    BY DEF FileOK, OK, Fields, Same
  <2> HIDE DEF u
  <2>3. FileTyped(u.f) /\ Grows(v.f, u.f) /\ u.f.size = v.f.size /\ Room(u.f, n)
    BY <2>2 DEF FileOK, FileTyped, FileFields, Grows, Room
  <2>4. Works(v, u, d, K)
    BY <2>2, <2>3, FileStep
  <2>5. s \in DataSects \cup {0}
    BY AnyClusterSect
  <2> HIDE DEF s
  <2>6. Reading(ReadIn(u, s, n), u, d, K)
    BY <2>3, <2>4, <2>5, ReadInOK DEF Works
  <2>. QED  BY <2>1, <2>3, <2>4, <2>6, ReadingTrans
<1>. QED  BY <1>1, <1>2

\* A round of f_read.
LEMMA ReadRoundOK ==
    ASSUME NEW v, NEW d, NEW K, FileOK(v, d, K), NEW r, Reading(r, v, d, K)
    PROVE  Reading(ReadRound(r), v, d, K)
<1> DEFINE u == r.v
           off == u.f.fptr % SS
           k == IF SS - off < r.todo THEN SS - off ELSE r.todo
           t == ReadRound(r)
<1>0. FileOK(u, d, K) /\ r.todo \in Nat /\ Works(v, u, d, K) /\ u.f.size = v.f.size /\ Room(u.f, r.todo)
  BY DEF Reading, Works
<1>1. off \in 0 .. 1 /\ SS = 2 /\ k \in Nat /\ k <= r.todo
  BY <1>0 DEF FileOK, FileTyped, SS
<1>2. Reading(t, u, d, K)
  <2>1. CASE off # 0
    <3> DEFINE x == SubSeq(u.f.buf, off + 1, off + k)
    <3>1. t = [v |-> Take(u, k, x), todo |-> r.todo - k]
      BY <2>1 DEF ReadRound
    <3> HIDE DEF t, k, u, x
    <3>. QED  BY <1>0, <1>1, <3>1, TakeOK
  <2>2. CASE off = 0 /\ u.f.fptr = 0
    <3> DEFINE p == [u EXCEPT !.ret = u.f.sclust]
    <3>1. t = ReadAt(p, r.todo)
      BY <2>2 DEF ReadRound
    <3>2. Same(u, p) /\ p.f = u.f /\ p.ret = u.f.sclust
      BY <1>0 DEF FileOK, OK, Fields, Same
    <3> HIDE DEF p, t, u
    <3>3. Works(u, p, d, K)
      <4>1. FileTyped(p.f) /\ Grows(u.f, p.f)
        BY <1>0, <3>2, WorksSelf DEF FileOK, Works
      <4>. QED  BY <1>0, <3>2, <4>1, FileStep
    <3>4. p.ret \in 0 .. EOC
      <4>1. \A c \in Clusters \cup {0} : c \in 0 .. EOC
        BY ClusterNumbers
      <4>. QED  BY <1>0, <3>2, <4>1 DEF FileOK, FileTyped
    <3>5. Reading(t, p, d, K)
      BY <1>0, <3>1, <3>2, <3>3, <3>4, ReadAtOK DEF Works
    <3>. QED  BY <1>0, <3>2, <3>3, <3>5, ReadingTrans
  <2>3. CASE off = 0 /\ u.f.fptr # 0
    <3> DEFINE p == get_fat(u, u.f.clust)
    <3>1. t = ReadAt(p, r.todo)
      BY <2>3 DEF ReadRound
    <3> HIDE DEF t, u
    <3>2. OK(p, d, K) /\ Calm(u, p) /\ p.ret \in 0 .. EOC
      BY <1>0, GetOK, QuietCalm DEF FileOK
    <3> HIDE DEF p
    <3>3. Works(u, p, d, K) /\ p.f = u.f
      BY <1>0, <3>2, FileCalm
    <3>5. Reading(t, p, d, K)
      BY <1>0, <3>1, <3>2, <3>3, ReadAtOK DEF Works
    <3>. QED  BY <1>0, <3>3, <3>5, ReadingTrans
  <2>. QED  BY <2>1, <2>2, <2>3
<1>. QED  BY <1>0, <1>2, ReadingTrans

ReadStep(r) == IF r.todo > 0 THEN ReadRound(r) ELSE r
ReadRun(r, v, n, k) ==
    r = [i \in 0 .. k |-> IF i = 0 THEN Begin(v, n) ELSE ReadStep(r[i - 1])]

\* The loop of f_read, as a run of rounds.
LEMMA ReadRounds ==
    ASSUME NEW v, NEW n \in Nat
    PROVE  \E r : ReadRun(r, v, n, n) /\ TakeAll(v, n) = r[n].v
<1> DEFINE T == {k \in 0 .. n : \E g : ReadRun(g, v, n, k)}
<1>1. 0 \in T
  <2>1. ReadRun([i \in 0 .. 0 |-> Begin(v, n)], v, n, 0)
    BY DEF ReadRun
  <2>. QED  BY <2>1
<1>2. ASSUME NEW k \in 1 .. n, k - 1 \in T PROVE k \in T
  <2>1. PICK g : ReadRun(g, v, n, k - 1)
    BY <1>2
  <2> DEFINE h == [i \in 0 .. k |-> IF i = k THEN ReadStep(g[k - 1]) ELSE g[i]]
  <2>2. ReadRun(h, v, n, k)
    BY <2>1 DEF ReadRun
  <2> HIDE DEF h
  <2>. QED  BY <2>2
<1> HIDE DEF T
<1>3. n \in T
  BY <1>1, <1>2, Rounds
<1>4. TakeAll(v, n) = (CHOOSE g : ReadRun(g, v, n, n))[n].v
  BY DEF TakeAll, ReadStep, Begin, ReadRun
<1>. QED  BY <1>3, <1>4 DEF T

\* f_read: the size stays, and the file pointer within it.
LEMMA f_readOK ==
    ASSUME NEW v, NEW d, NEW K, FileOK(v, d, K), Placed(v.f), NEW btr \in Nat, ~v.f.err
    PROVE  LET w == f_read(v, btr)
           IN Works(v, w, d, K) /\ w.f.size = v.f.size /\ Placed(w.f)
<1> DEFINE remain == v.f.size - v.f.fptr
           n == IF btr > remain THEN remain ELSE btr
           w == f_read(v, btr)
<1>0. n \in Nat /\ Room(v.f, n)
  BY DEF FileOK, FileTyped, Placed, Room
<1>1. w = TakeAll(v, n)
  BY DEF f_read
<1> HIDE DEF n, w
<1>2. PICK r : ReadRun(r, v, n, n) /\ TakeAll(v, n) = r[n].v
  BY <1>0, ReadRounds
<1>3. /\ r[0] = Begin(v, n)
      /\ \A i \in 1 .. n : r[i] = ReadStep(r[i - 1])
  BY <1>0, <1>2 DEF ReadRun
<1> DEFINE T == {i \in 0 .. n : Reading(r[i], v, d, K)}
<1>4. 0 \in T
  BY <1>0, <1>3, WorksSelf DEF Begin, Reading
<1>5. ASSUME NEW i \in 1 .. n, i - 1 \in T PROVE i \in T
  <2> DEFINE u == r[i - 1]
  <2>1. Reading(u, v, d, K)
    BY <1>5
  <2>2. r[i] = IF u.todo > 0 THEN ReadRound(u) ELSE u
    BY <1>3 DEF ReadStep
  <2> HIDE DEF u
  <2>3. Reading(r[i], v, d, K)
    BY <2>1, <2>2, ReadRoundOK
  <2>. QED  BY <2>3
<1>6. n \in T
  <2> HIDE DEF T
  <2>. QED  BY <1>0, <1>4, <1>5, Rounds
<1>7. Reading(r[n], v, d, K)
  BY <1>6
<1>8. Placed(w.f)
  <2>1. \A a \in Nat, b \in Nat, m \in Nat : a + m <= b => a <= b
    OBVIOUS
  <2>2. w.f.fptr \in Nat /\ w.f.size \in Nat
    BY <1>1, <1>2, <1>7 DEF Reading, Works, FileOK, FileTyped
  <2>. QED  BY <1>1, <1>2, <1>7, <2>1, <2>2 DEF Reading, Room, Placed
<1>. QED  BY <1>1, <1>2, <1>7, <1>8 DEF Reading, w

-----------------------------------------------------------------------------
\* What a call on a file does; the cluster loop of f_lseek.

\* What a write, a read or a seek does to the volume and to its file.
Serves(v, w, d, K) ==
    /\ FileOK(w, d, K) /\ Still(v, w) /\ Placed(w.f)
    /\ w.f.name = v.f.name /\ w.f.slot = v.f.slot /\ w.f.size >= v.f.size
    /\ v.f.modified => w.f.modified
    /\ ~w.f.err /\ ~w.f.modified => ~v.f.err /\ ~v.f.modified /\ w.f.size = v.f.size

\* A call on a file that does nothing.
LEMMA ServesSelf ==
    ASSUME NEW v, NEW d, NEW K, FileOK(v, d, K), Placed(v.f)
    PROVE  Serves(v, v, d, K)
<1>1. v.f.size >= v.f.size
  BY DEF FileOK, FileTyped
<1>. QED  BY <1>1 DEF Serves, Still

\* f_write, also on an object that has been given up.
LEMMA WriteServes ==
    ASSUME NEW v, NEW d, NEW K, FileOK(v, d, K), Placed(v.f), NEW n \in Nat, NEW x
    PROVE  Serves(v, f_write(v, n, x), d, K)
<1>1. CASE v.f.err
  <2>1. f_write(v, n, x) = v
    BY <1>1 DEF f_write
  <2>. QED  BY <2>1, ServesSelf
<1>2. CASE ~v.f.err
  BY <1>2, f_writeOK DEF Serves
<1>. QED  BY <1>1, <1>2 DEF FileOK, FileTyped

\* f_read, also on an object that has been given up.
LEMMA ReadServes ==
    ASSUME NEW v, NEW d, NEW K, FileOK(v, d, K), Placed(v.f), NEW n \in Nat
    PROVE  Serves(v, f_read(v, n), d, K)
<1>1. CASE v.f.err
  <2>1. f_read(v, n) = v
    BY <1>1 DEF f_read
  <2>. QED  BY <2>1, ServesSelf
<1>2. CASE ~v.f.err
  <2> DEFINE w == f_read(v, n)
  <2>1. Works(v, w, d, K) /\ w.f.size = v.f.size /\ Placed(w.f)
    BY <1>2, f_readOK
  <2> HIDE DEF w
  <2>2. Serves(v, w, d, K)
    BY <2>1, <1>2 DEF Works, Grows, Serves
  <2>. QED  BY <2>2 DEF w
<1>. QED  BY <1>1, <1>2 DEF FileOK, FileTyped

-----------------------------------------------------------------------------
\* f_lseek: the clusters are followed, and stretched.
Walks(v, w, d, K) == Works(v, w, d, K) /\ w.f.size = v.f.size /\ w.ret \in Nat
Following(r, v, d, K) ==
    /\ {"v", "todo"} \subseteq DOMAIN r
    /\ Works(v, r.v, d, K) /\ r.v.f.size = v.f.size /\ r.todo \in Nat

\* The file pointer is set.
LEMMA FileMoved ==
    ASSUME NEW v, NEW d, NEW K, FileOK(v, d, K), NEW p \in Nat
    PROVE  LET w == [v EXCEPT !.f.fptr = p]
           IN Works(v, w, d, K) /\ w.f = [v.f EXCEPT !.fptr = p] /\ w.f.size = v.f.size
<1> DEFINE w == [v EXCEPT !.f.fptr = p]
<1>1. Same(v, w) /\ w.f = [v.f EXCEPT !.fptr = p]
  BY DEF FileOK, OK, Fields, Same
<1> HIDE DEF w
<1>2. FileTyped(w.f) /\ Grows(v.f, w.f) /\ w.f.size = v.f.size
  BY <1>1 DEF FileOK, FileTyped, FileFields, Grows
<1>3. Works(v, w, d, K)
  BY <1>1, <1>2, FileStep
<1>. QED  BY <1>1, <1>2, <1>3 DEF w

\* The first and the current cluster are set.
LEMMA FileAt ==
    ASSUME NEW v, NEW d, NEW K, FileOK(v, d, K), NEW c, NEW s \in Clusters \cup {0}
    PROVE  /\ LET w == [v EXCEPT !.f.clust = c]
              IN Works(v, w, d, K) /\ w.f.size = v.f.size /\ w.ret = v.ret
           /\ LET w == [v EXCEPT !.f.sclust = s, !.f.clust = c]
              IN Works(v, w, d, K) /\ w.f.size = v.f.size /\ w.ret = v.ret
<1> DEFINE w == [v EXCEPT !.f.clust = c]
           u == [v EXCEPT !.f.sclust = s, !.f.clust = c]
<1>1. Same(v, w) /\ w.f = [v.f EXCEPT !.clust = c] /\ w.ret = v.ret
  BY DEF FileOK, OK, Fields, Same
<1>2. Same(v, u) /\ u.f = [v.f EXCEPT !.sclust = s, !.clust = c] /\ u.ret = v.ret
  BY DEF FileOK, OK, Fields, Same
<1> HIDE DEF w, u
<1>3. FileTyped(w.f) /\ Grows(v.f, w.f) /\ w.f.size = v.f.size
  BY <1>1 DEF FileOK, FileTyped, FileFields, Grows
<1>4. FileTyped(u.f) /\ Grows(v.f, u.f) /\ u.f.size = v.f.size
  BY <1>2 DEF FileOK, FileTyped, FileFields, Grows
<1>5. Works(v, w, d, K) /\ Works(v, u, d, K)
  BY <1>1, <1>2, <1>3, <1>4, FileStep
<1>. QED  BY <1>1, <1>2, <1>3, <1>4, <1>5 DEF w, u

\* The end of a round of f_lseek.
LEMMA FollowOnOK ==
    ASSUME NEW v, NEW d, NEW K, FileOK(v, d, K), v.ret \in Clusters \cup {0, 1}, NEW n \in Nat
    PROVE  Following(FollowOn(v, n), v, d, K)
<1>0. 0 \notin Clusters /\ 1 \notin Clusters
  BY ClusterNumbers
<1>1. CASE v.ret = 0
  <2>1. FollowOn(v, n) = [v |-> v, todo |-> 0]
    BY <1>1 DEF FollowOn
  <2>. QED  BY <2>1, WorksSelf DEF Following
<1>2. CASE v.ret = 1
  <2>1. FollowOn(v, n) = [v |-> Abort(v), todo |-> 0]
    BY <1>2 DEF FollowOn
  <2>2. Works(v, Abort(v), d, K) /\ Abort(v).f.size = v.f.size
    BY AbortOK
  <2>. QED  BY <2>1, <2>2 DEF Following
<1>3. CASE v.ret \in Clusters
  <2> DEFINE w == [v EXCEPT !.f.clust = v.ret]
  <2>1. FollowOn(v, n) = [v |-> w, todo |-> n]
    BY <1>0, <1>3 DEF FollowOn
  <2>2. Works(v, w, d, K) /\ w.f.size = v.f.size
    BY FileAt
  <2> HIDE DEF w
  <2>. QED  BY <2>1, <2>2 DEF Following
<1>. QED  BY <1>1, <1>2, <1>3

\* A round of the cluster loop of f_lseek.
LEMMA FollowRoundOK ==
    ASSUME NEW v, NEW d, NEW K, FileOK(v, d, K), NEW r, Following(r, v, d, K), r.todo > SS
    PROVE  Following(FollowRound(r), v, d, K)
<1> DEFINE u == r.v
           p == u.f.fptr + SS
           a == [u EXCEPT !.f.fptr = p]
           b == create_chain(a, u.f.clust)
           n == r.todo - SS
<1>0. FileOK(u, d, K) /\ Works(v, u, d, K) /\ u.f.size = v.f.size
  BY DEF Following, Works
<1>1. FollowRound(r) = FollowOn(b, n)
  BY <1>0 DEF FollowRound, FileOK, OK, Fields, FileTyped, FileFields
<1>2. p \in Nat /\ n \in Nat
  BY <1>0 DEF FileOK, FileTyped, Following, SS
<1> HIDE DEF p, n
<1>3. Works(u, a, d, K) /\ a.f.size = u.f.size
  BY <1>0, <1>2, FileMoved
<1> HIDE DEF a, u
<1>4. OK(b, d, K) /\ Calm(a, b) /\ b.ret \in Clusters \cup {0, 1}
  BY <1>3, CreateOK DEF Works, FileOK
<1> HIDE DEF b
<1>5. Works(a, b, d, K) /\ b.f = a.f
  BY <1>3, <1>4, FileCalm DEF Works
<1>6. Works(v, b, d, K) /\ b.f.size = v.f.size
  BY <1>0, <1>3, <1>5, WorksTrans
<1>7. Following(FollowOn(b, n), b, d, K)
  BY <1>2, <1>4, <1>5, FollowOnOK DEF Works
<1>8. Works(v, FollowOn(b, n).v, d, K)
  BY <1>6, <1>7, WorksTrans DEF Following
<1>. QED  BY <1>1, <1>6, <1>7, <1>8 DEF Following

FollowStep(r) == IF r.todo > SS THEN FollowRound(r) ELSE r
FollowRun(r, v, n, k) ==
    r = [i \in 0 .. k |-> IF i = 0 THEN Begin(v, n) ELSE FollowStep(r[i - 1])]

\* The cluster loop of f_lseek, as a run of rounds.
LEMMA FollowRounds ==
    ASSUME NEW v, NEW n \in Nat
    PROVE  \E r : FollowRun(r, v, n, n) /\ Follow(v, n) = Reached(r[n])
<1> DEFINE T == {k \in 0 .. n : \E g : FollowRun(g, v, n, k)}
<1>1. 0 \in T
  <2>1. FollowRun([i \in 0 .. 0 |-> Begin(v, n)], v, n, 0)
    BY DEF FollowRun
  <2>. QED  BY <2>1
<1>2. ASSUME NEW k \in 1 .. n, k - 1 \in T PROVE k \in T
  <2>1. PICK g : FollowRun(g, v, n, k - 1)
    BY <1>2
  <2> DEFINE h == [i \in 0 .. k |-> IF i = k THEN FollowStep(g[k - 1]) ELSE g[i]]
  <2>2. FollowRun(h, v, n, k)
    BY <2>1 DEF FollowRun
  <2> HIDE DEF h
  <2>. QED  BY <2>2
<1> HIDE DEF T
<1>3. n \in T
  BY <1>1, <1>2, Rounds
<1>4. Follow(v, n) = Reached((CHOOSE g : FollowRun(g, v, n, n))[n])
  BY DEF Follow, FollowStep, Begin, FollowRun
<1>. QED  BY <1>3, <1>4 DEF T

\* The cluster loop of f_lseek.
LEMMA FollowOK ==
    ASSUME NEW v, NEW d, NEW K, FileOK(v, d, K), NEW n \in Nat
    PROVE  Walks(v, Follow(v, n), d, K)
<1>1. PICK r : FollowRun(r, v, n, n) /\ Follow(v, n) = Reached(r[n])
  BY FollowRounds
<1>2. /\ r[0] = Begin(v, n)
      /\ \A i \in 1 .. n : r[i] = FollowStep(r[i - 1])
  BY <1>1 DEF FollowRun
<1> DEFINE T == {i \in 0 .. n : Following(r[i], v, d, K)}
<1>3. 0 \in T
  BY <1>2, WorksSelf DEF Begin, Following
<1>4. ASSUME NEW i \in 1 .. n, i - 1 \in T PROVE i \in T
  <2> DEFINE u == r[i - 1]
  <2>1. Following(u, v, d, K)
    BY <1>4
  <2>2. r[i] = IF u.todo > SS THEN FollowRound(u) ELSE u
    BY <1>2 DEF FollowStep
  <2> HIDE DEF u
  <2>3. Following(r[i], v, d, K)
    BY <2>1, <2>2, FollowRoundOK
  <2>. QED  BY <2>3
<1>5. n \in T
  <2> HIDE DEF T
  <2>. QED  BY <1>3, <1>4, Rounds
<1> DEFINE q == r[n]
           w == Reached(q)
<1>6. Following(q, v, d, K)
  BY <1>5
<1> HIDE DEF q
<1>7. Same(q.v, w) /\ w.f = q.v.f /\ w.ret = q.todo
  BY <1>6 DEF Following, Works, FileOK, OK, Fields, Reached, Same
<1> HIDE DEF w
<1>8. Works(q.v, w, d, K)
  <2>1. FileTyped(w.f) /\ Grows(q.v.f, w.f)
    BY <1>6, <1>7, WorksSelf DEF Following, Works, FileOK
  <2>. QED  BY <1>6, <1>7, <2>1, FileStep DEF Following, Works
<1>9. Works(v, w, d, K)
  BY <1>6, <1>8, WorksTrans DEF Following
<1>. QED  BY <1>1, <1>6, <1>7, <1>9 DEF Following, Walks, w, q

-----------------------------------------------------------------------------
\* f_lseek.

\* A walk that begins where another step left off.
LEMMA WalksTrans ==
    ASSUME NEW v, NEW w, NEW u, NEW d, NEW K, FileOK(v, d, K),
           Works(v, w, d, K), w.f.size = v.f.size, Walks(w, u, d, K)
    PROVE  Walks(v, u, d, K)
<1>1. Works(v, u, d, K)
  BY WorksTrans DEF Walks
<1>. QED  BY <1>1 DEF Walks

\* f_lseek from the first cluster of the file.
LEMMA SeekFromOK ==
    ASSUME NEW v, NEW d, NEW K, FileOK(v, d, K), v.ret \in Clusters \cup {0, 1}, NEW n \in Nat
    PROVE  Walks(v, SeekFrom(v, n), d, K)
<1>0. 0 \notin Clusters /\ 1 \notin Clusters
  BY ClusterNumbers
<1>1. CASE v.ret = 1
  <2>1. SeekFrom(v, n) = Abort(v)
    BY <1>1 DEF SeekFrom
  <2>2. Works(v, Abort(v), d, K) /\ Abort(v).f.size = v.f.size /\ Abort(v).ret = 1
    <3>1. Abort(v).ret = 1
      BY <1>1 DEF Abort, FileOK, OK, Fields
    <3>. QED  BY <3>1, AbortOK
  <2>. QED  BY <2>1, <2>2 DEF Walks
<1>2. CASE v.ret = 0
  <2> DEFINE z == 0
             w == [v EXCEPT !.f.clust = z]
  <2>1. SeekFrom(v, n) = w
    BY <1>2 DEF SeekFrom
  <2>2. Works(v, w, d, K) /\ w.f.size = v.f.size /\ w.ret = 0
    <3>1. 0 \in Clusters \cup {0}
      OBVIOUS
    <3> HIDE DEF z
    <3>. QED  BY <1>2, <3>1, FileAt
  <2>. QED  BY <2>1, <2>2 DEF Walks
<1>3. CASE v.ret \in Clusters
  <2> DEFINE w == [v EXCEPT !.f.sclust = v.ret, !.f.clust = v.ret]
  <2>1. SeekFrom(v, n) = Follow(w, n)
    BY <1>0, <1>3 DEF SeekFrom
  <2>2. Works(v, w, d, K) /\ w.f.size = v.f.size
    BY <1>3, FileAt
  <2> HIDE DEF w
  <2>3. Walks(w, Follow(w, n), d, K)
    BY <2>2, FollowOK DEF Works
  <2>. QED  BY <2>1, <2>2, <2>3, WalksTrans
<1>. QED  BY <1>1, <1>2, <1>3

\* f_lseek, up to the cluster reached.
LEMMA SeekStartOK ==
    ASSUME NEW v, NEW d, NEW K, FileOK(v, d, K), NEW n \in Nat
    PROVE  Walks(v, SeekStart(v, n), d, K)
<1> DEFINE p == v.f.fptr
           base == ((p - 1) \div SS) * SS
           a == [v EXCEPT !.f.fptr = base]
           b == [v EXCEPT !.f.fptr = 0]
           near == p > 0 /\ n > base
           c == IF v.f.sclust # 0 THEN [b EXCEPT !.ret = v.f.sclust] ELSE create_chain(b, 0)
           w == SeekStart(v, n)
<1>1. w = IF near THEN Follow(a, n - base) ELSE SeekFrom(c, n)
  BY DEF SeekStart, FileOK, OK, Fields, FileTyped, FileFields
<1>2. p \in Nat /\ (near => base \in Nat /\ n - base \in Nat)
  BY DEF FileOK, FileTyped, SS
<1> HIDE DEF w
<1>3. CASE near
  <2> DEFINE m == n - base
  <2>1. base \in Nat /\ m \in Nat
    BY <1>2, <1>3
  <2>2. w = Follow(a, m)
    BY <1>1, <1>3
  <2> HIDE DEF base, m
  <2>3. Works(v, a, d, K) /\ a.f.size = v.f.size
    BY <2>1, FileMoved
  <2> HIDE DEF a
  <2>4. Walks(a, w, d, K)
    BY <2>1, <2>2, <2>3, FollowOK DEF Works
  <2>. QED  BY <2>3, <2>4, WalksTrans DEF w
<1>4. CASE ~near
  <2>1. w = SeekFrom(c, n)
    BY <1>1, <1>4
  <2>2. Works(v, b, d, K) /\ b.f.size = v.f.size
    BY FileMoved
  <2> HIDE DEF b, near
  <2>3. Works(b, c, d, K) /\ c.f = b.f /\ c.ret \in Clusters \cup {0, 1}
    <3>1. CASE v.f.sclust # 0
      <4>1. OK(c, d, K) /\ Calm(b, c) /\ c.ret = v.f.sclust
        BY <2>2, <3>1, RetOK DEF Works, FileOK
      <4> HIDE DEF c
      <4>2. v.f.sclust \in Clusters \cup {0}
        BY DEF FileOK, FileTyped
      <4>3. FileOK(b, d, K)
        BY <2>2 DEF Works
      <4>4. Works(b, c, d, K) /\ c.f = b.f
        BY <4>1, <4>3, FileCalm
      <4>. QED  BY <4>1, <4>2, <4>4
    <3>2. CASE v.f.sclust = 0
      <4>1. OK(c, d, K) /\ Calm(b, c) /\ c.ret \in Clusters \cup {0, 1}
        BY <2>2, <3>2, CreateOK DEF Works, FileOK
      <4>. QED  BY <2>2, <4>1, FileCalm DEF Works
    <3>. QED  BY <3>1, <3>2
  <2> HIDE DEF c
  <2>4. Walks(c, w, d, K)
    BY <2>1, <2>3, SeekFromOK DEF Works
  <2>5. Works(v, c, d, K) /\ c.f.size = v.f.size
    BY <2>2, <2>3, WorksTrans
  <2>. QED  BY <2>4, <2>5, WalksTrans DEF w
<1>. QED  BY <1>3, <1>4

\* The buffer is loaded.
LEMMA LoadDataOK ==
    ASSUME NEW v, NEW d, NEW K, FileOK(v, d, K), Placed(v.f), NEW s \in DataSects \cup {0}
    PROVE  LET w == LoadData(v, s)
           IN Works(v, w, d, K) /\ w.f.size = v.f.size /\ Placed(w.f)
<1> DEFINE b == v.disk[s]
           u == [v EXCEPT !.f.buf = b, !.f.sect = s]
           w == LoadData(v, s)
<1>1. CASE ~Readable(s)
  <2>1. w = Abort(v)
    BY <1>1 DEF LoadData
  <2>2. Works(v, Abort(v), d, K) /\ Abort(v).f.size = v.f.size /\ Placed(Abort(v).f)
    BY AbortOK DEF Placed
  <2>. QED  BY <2>1, <2>2
<1>2. CASE Readable(s)
  <2>1. w = u
    BY <1>2 DEF LoadData
  <2>2. Same(v, u) /\ u.f = [v.f EXCEPT !.buf = b, !.sect = s]
    BY DEF FileOK, OK, Fields, FileTyped, FileFields, Same
  <2> HIDE DEF u, b, w
  <2>3. FileTyped(u.f) /\ Grows(v.f, u.f) /\ u.f.size = v.f.size /\ Placed(u.f)
    BY <2>2 DEF FileOK, FileTyped, FileFields, Grows, Placed
  <2>4. Works(v, u, d, K)
    BY <2>2, <2>3, FileStep
  <2>. QED  BY <2>1, <2>3, <2>4 DEF w
<1>. QED  BY <1>1, <1>2

\* The buffer is written back and loaded, when it must.
LEMMA SeekLoadOK ==
    ASSUME NEW v, NEW d, NEW K, FileOK(v, d, K), Placed(v.f), NEW s \in DataSects \cup {0}
    PROVE  LET w == SeekLoad(v, s)
           IN Works(v, w, d, K) /\ w.f.size = v.f.size /\ Placed(w.f)
<1> DEFINE stay == v.f.fptr % SS = 0 \/ v.f.sect = s
<1>1. CASE stay
  <2>1. SeekLoad(v, s) = v
    BY <1>1 DEF SeekLoad
  <2>. QED  BY <2>1, WorksSelf
<1>2. CASE ~stay
  <2> DEFINE u == FlushBuf(v)
             w == LoadData(u, s)
  <2>1. SeekLoad(v, s) = w
    BY <1>2 DEF SeekLoad
  <2>2. Works(v, u, d, K) /\ Rests(v.f, u.f)
    BY FlushOK
  <2>3. Placed(u.f) /\ u.f.size = v.f.size
    BY <2>2 DEF Rests, Placed
  <2> HIDE DEF u
  <2>4. Works(u, w, d, K) /\ w.f.size = u.f.size /\ Placed(w.f)
    BY <2>2, <2>3, LoadDataOK DEF Works
  <2> HIDE DEF w
  <2>5. Works(v, w, d, K)
    BY <2>2, <2>4, WorksTrans
  <2>. QED  BY <2>1, <2>3, <2>4, <2>5 DEF w
<1>. QED  BY <1>1, <1>2

\* A seek past the end marks the object modified.
LEMMA SeekGrowOK ==
    ASSUME NEW v, NEW d, NEW K, FileOK(v, d, K), ~v.f.err
    PROVE  Serves(v, SeekGrow(v), d, K)
<1> DEFINE far == ~(v.f.fptr <= v.f.size)
           u == IF v.f.fptr <= v.f.size THEN v
                ELSE [v EXCEPT !.f.size = v.f.fptr, !.f.modified = TRUE]
           s == clust2sect(v.f.clust)
           w == SeekGrow(v)
<1>1. w = SeekLoad(u, s) /\ s \in DataSects \cup {0}
  BY AnyClusterSect DEF SeekGrow
<1> HIDE DEF s
<1>2. Serves(v, u, d, K) /\ (u.f.modified \/ u.f.size = v.f.size)
  <2>1. CASE ~far
    <3>1. u = v /\ Placed(v.f)
      BY <2>1 DEF Placed
    <3> HIDE DEF u
    <3>. QED  BY <3>1, ServesSelf
  <2>2. CASE far
    <3>1. Same(v, u) /\ u.f = [v.f EXCEPT !.size = v.f.fptr, !.modified = TRUE]
      BY <2>2 DEF FileOK, OK, Fields, FileTyped, FileFields, Same
    <3> HIDE DEF u
    <3>2. /\ FileTyped(u.f) /\ Placed(u.f) /\ u.f.modified /\ u.f.size >= v.f.size
          /\ u.f.name = v.f.name /\ u.f.slot = v.f.slot
      <4>1. v.f.fptr \in Nat /\ v.f.fptr <= v.f.fptr /\ v.f.fptr >= v.f.size
        BY <2>2 DEF FileOK, FileTyped
      <4> HIDE DEF far
      <4>. QED  BY <3>1, <4>1 DEF FileOK, FileTyped, FileFields, Placed
    <3>3. OK(u, d, K) /\ Image(u) = Image(v) /\ Lag(u) = Lag(v)
      BY <3>1, SameVolume DEF FileOK, Same
    <3>4. Still(v, u)
      BY <3>1, <3>3 DEF Still, Counts, Same
    <3>. QED  BY <3>2, <3>3, <3>4 DEF Serves, FileOK
  <2>. QED  BY <2>1, <2>2
<1> HIDE DEF u, w
<1>3. Works(u, w, d, K) /\ w.f.size = u.f.size /\ Placed(w.f)
  BY <1>1, <1>2, SeekLoadOK DEF Serves
<1>4. Serves(v, w, d, K)
  <2>1. Still(v, w)
    BY <1>2, <1>3 DEF Serves, Works, Still
  <2>2. /\ w.f.name = v.f.name /\ w.f.slot = v.f.slot /\ w.f.size >= v.f.size
        /\ v.f.modified => w.f.modified
        /\ w.f.modified = u.f.modified
    BY <1>2, <1>3 DEF Serves, Works, Grows
  <2>3. ~w.f.modified => ~v.f.modified /\ w.f.size = v.f.size
    BY <1>2, <1>3, <2>2 DEF Serves
  <2>. QED  BY <1>3, <2>1, <2>2, <2>3 DEF Serves, Works
<1>. QED  BY <1>4 DEF w

\* f_lseek.
LEMMA SeekServes ==
    ASSUME NEW v, NEW d, NEW K, FileOK(v, d, K), Placed(v.f), NEW n \in Nat
    PROVE  Serves(v, f_lseek(v, n), d, K)
<1> DEFINE w == f_lseek(v, n)
<1>1. CASE v.f.err
  <2>1. w = v
    BY <1>1 DEF f_lseek
  <2>. QED  BY <2>1, ServesSelf
<1>2. CASE ~v.f.err /\ n = 0
  <2> DEFINE u == [v EXCEPT !.f.fptr = 0]
  <2>1. w = u
    BY <1>2 DEF f_lseek
  <2>2. Works(v, u, d, K) /\ u.f = [v.f EXCEPT !.fptr = 0]
    BY FileMoved
  <2> HIDE DEF u, w
  <2>3. Serves(v, u, d, K)
    <3>1. u.f.size = v.f.size /\ u.f.err = v.f.err /\ u.f.fptr = 0 /\ u.f.modified = v.f.modified
      BY <2>2 DEF FileOK, FileTyped, FileFields
    <3>2. Placed(u.f)
      BY <3>1 DEF Placed, FileOK, FileTyped
    <3>. QED  BY <1>2, <2>2, <3>1, <3>2 DEF Works, Grows, Serves
  <2>. QED  BY <2>1, <2>3 DEF w
<1>3. CASE ~v.f.err /\ n # 0
  <2> DEFINE u == SeekStart(v, n)
  <2>1. w = SeekEnds(u)
    BY <1>3 DEF f_lseek
  <2>2. Walks(v, u, d, K)
    BY SeekStartOK
  <2> HIDE DEF u, w
  <2>3. CASE u.f.err
    <3>1. w = u
      BY <2>1, <2>3 DEF SeekEnds
    <3>. QED  BY <2>2, <2>3, <3>1 DEF w, Walks, Works, Grows, Serves, Placed
  <2>4. CASE ~u.f.err
    <3> DEFINE p == u.f.fptr + u.ret
               t == [u EXCEPT !.f.fptr = p]
    <3>1. w = SeekGrow(t)
      BY <2>1, <2>2, <2>4 DEF SeekEnds, Walks, Works, FileOK, OK, Fields, FileTyped, FileFields
    <3>2. p \in Nat
      BY <2>2 DEF Walks, Works, FileOK, FileTyped
    <3> HIDE DEF p
    <3>3. Works(u, t, d, K) /\ t.f = [u.f EXCEPT !.fptr = p] /\ t.f.size = u.f.size
      BY <2>2, <3>2, FileMoved DEF Walks, Works
    <3> HIDE DEF t
    <3>4. ~t.f.err /\ t.f.modified = u.f.modified
      BY <2>2, <2>4, <3>3 DEF Walks, Works, FileOK, FileTyped, FileFields
    <3>5. Serves(t, w, d, K)
      BY <3>1, <3>3, <3>4, SeekGrowOK DEF Works
    <3>6. Works(v, t, d, K) /\ t.f.size = v.f.size
      BY <2>2, <3>3, WorksTrans DEF Walks
    <3>7. Still(v, w)
      BY <3>5, <3>6 DEF Serves, Works, Still
    <3>8. Serves(v, w, d, K)
      BY <1>3, <3>5, <3>6, <3>7 DEF Serves, Works, Grows
    <3>. QED  BY <3>8 DEF w
  <2>. QED  BY <2>3, <2>4
<1>. QED  BY <1>1, <1>2, <1>3

-----------------------------------------------------------------------------
\* f_truncate and f_sync.

\* f_truncate may make the file smaller.
Cuts(v, w, d, K) ==
    /\ FileOK(w, d, K) /\ Still(v, w) /\ Placed(w.f)
    /\ w.f.name = v.f.name /\ w.f.slot = v.f.slot
    /\ v.f.modified => w.f.modified
    /\ ~w.f.err /\ ~w.f.modified => ~v.f.err /\ ~v.f.modified /\ w.f.size = v.f.size

\* f_truncate frees what follows the file pointer.
LEMMA CutAtOK ==
    ASSUME NEW v, NEW d, NEW K, FileOK(v, d, K), NEW c
    PROVE  LET w == CutAt(get_fat(v, c), c) IN Works(v, w, d, K) /\ w.f = v.f
<1> DEFINE u == get_fat(v, c)
           w == CutAt(u, c)
<1>0. 1 \notin Clusters
  BY ClusterNumbers
<1>1. /\ OK(u, d, K) /\ Quiet(v, u)
      /\ c \notin Clusters => u.ret = 1
      /\ c \in Clusters => u.ret = Table(Image(v))[c] /\ u.ret # 1
  BY GetOK DEF FileOK
<1> HIDE DEF u
<1>2. Works(v, u, d, K) /\ u.f = v.f
  BY <1>1, QuietCalm, FileCalm
<1>3. OK(w, d, K) /\ Calm(u, w)
  <2>1. CASE u.ret \in Clusters
    <3>1. w = remove_chain(u, u.ret, c)
      BY <1>0, <2>1 DEF CutAt
    <3>2. c \in Clusters /\ Table(Image(u))[c] # 0
      BY <1>0, <1>1, <2>1, ClusterNumbers DEF Quiet
    <3>. QED  BY <1>1, <3>1, <3>2, RemoveOK
  <2>2. CASE u.ret = 1
    <3>1. w = u
      BY <1>0, <2>2 DEF CutAt
    <3>. QED  BY <1>1, <3>1 DEF Calm
  <2>3. CASE u.ret \notin Clusters /\ u.ret # 1
    <3> DEFINE z == 0
    <3>1. w = [u EXCEPT !.ret = z]
      BY <2>3 DEF CutAt
    <3> HIDE DEF z, w
    <3>. QED  BY <1>1, <3>1, RetOK
  <2>. QED  BY <2>1, <2>2, <2>3
<1> HIDE DEF w
<1>4. Works(u, w, d, K) /\ w.f = u.f
  BY <1>2, <1>3, FileCalm DEF Works
<1>5. Works(v, w, d, K)
  BY <1>2, <1>4, WorksTrans
<1>. QED  BY <1>2, <1>4, <1>5 DEF w, u

\* f_truncate writes the buffer.
LEMMA ResizedOK ==
    ASSUME NEW v, NEW d, NEW K, FileOK(v, d, K), Placed(v.f)
    PROVE  LET w == Resized(v) IN Works(v, w, d, K) /\ Placed(w.f)
<1>1. CASE v.ret = 1
  BY <1>1, AbortOK DEF Resized, Placed
<1>2. CASE v.ret # 1
  <2>1. Resized(v) = FlushBuf(v)
    BY <1>2 DEF Resized
  <2>. QED  BY <2>1, FlushOK DEF Rests, Placed
<1>. QED  BY <1>1, <1>2

\* f_truncate: the one call on a file that may shrink it.
LEMMA TruncateCuts ==
    ASSUME NEW v, NEW d, NEW K, FileOK(v, d, K), Placed(v.f)
    PROVE  Cuts(v, f_truncate(v), d, K)
<1> DEFINE w == f_truncate(v)
           idle == v.f.err \/ v.f.fptr >= v.f.size
<1>1. CASE idle
  <2>1. w = v
    BY <1>1 DEF f_truncate
  <2>. QED  BY <2>1 DEF Cuts, Still
<1>2. CASE ~idle
  <2> DEFINE u == [v EXCEPT !.f.size = v.f.fptr, !.f.modified = TRUE, !.f.cut = TRUE]
             t == IF v.f.fptr = 0 THEN remove_chain([u EXCEPT !.f.sclust = 0], v.f.sclust, 0)
                  ELSE CutAt(get_fat(u, v.f.clust), v.f.clust)
  <2>1. w = Resized(t)
    BY <1>2 DEF f_truncate, FileOK, OK, Fields, FileTyped, FileFields
  <2>2. Same(v, u) /\ u.f = [v.f EXCEPT !.size = v.f.fptr, !.modified = TRUE, !.cut = TRUE]
    BY DEF FileOK, OK, Fields, FileTyped, FileFields, Same
  <2> HIDE DEF u, w
  <2>3. /\ FileTyped(u.f) /\ u.f.modified /\ u.f.name = v.f.name /\ u.f.slot = v.f.slot
        /\ Placed(u.f)
    <3>1. v.f.fptr \in Nat /\ v.f.fptr <= v.f.fptr
      BY DEF FileOK, FileTyped
    <3>. QED  BY <2>2, <3>1 DEF FileOK, FileTyped, FileFields, Placed
  <2>4. OK(u, d, K) /\ Image(u) = Image(v) /\ Lag(u) = Lag(v)
    BY <2>2, SameVolume DEF FileOK, Same
  <2>5. FileOK(u, d, K) /\ Still(v, u)
    BY <2>2, <2>3, <2>4 DEF FileOK, Still, Counts, Same
  <2>6. Works(u, t, d, K) /\ Placed(t.f)
    <3>1. CASE v.f.fptr = 0
      <4> DEFINE z == 0
                 p == [u EXCEPT !.f.sclust = z]
                 q == remove_chain(p, v.f.sclust, 0)
      <4>1. t = q
        BY <3>1
      <4>2. z \in Clusters \cup {0}
        OBVIOUS
      <4> HIDE DEF z, t
      <4>3. Same(u, p) /\ p.f = [u.f EXCEPT !.sclust = z]
        BY <2>5 DEF FileOK, OK, Fields, FileTyped, FileFields, Same
      <4> HIDE DEF p
      <4>4. FileTyped(p.f) /\ Grows(u.f, p.f) /\ Placed(p.f)
        <5>1. FileTyped(u.f) /\ Placed(u.f)
          BY <2>3
        <5>. QED  BY <5>1, <4>2, <4>3 DEF FileTyped, FileFields, Grows, Placed
      <4>5. Works(u, p, d, K)
        BY <2>5, <4>3, <4>4, FileStep
      <4>6. OK(q, d, K) /\ Calm(p, q)
        BY <4>5, RemoveOK DEF Works, FileOK
      <4> HIDE DEF q
      <4>7. Works(p, q, d, K) /\ q.f = p.f
        BY <4>5, <4>6, FileCalm DEF Works
      <4>8. Works(u, q, d, K)
        BY <2>5, <4>5, <4>7, WorksTrans
      <4>. QED  BY <4>1, <4>4, <4>7, <4>8
    <3>2. CASE v.f.fptr # 0
      <4>1. t = CutAt(get_fat(u, v.f.clust), v.f.clust)
        BY <3>2
      <4> HIDE DEF t
      <4>2. Works(u, t, d, K) /\ t.f = u.f
        BY <2>5, <4>1, CutAtOK
      <4>. QED  BY <2>3, <4>2
    <3>. QED  BY <3>1, <3>2
  <2> HIDE DEF t
  <2>7. Works(t, w, d, K) /\ Placed(w.f)
    BY <2>1, <2>6, ResizedOK DEF Works
  <2>8. Works(u, w, d, K)
    BY <2>5, <2>6, <2>7, WorksTrans
  <2>9. Still(v, w)
    BY <2>5, <2>8 DEF Works, Still
  <2>10. w.f.modified /\ w.f.name = v.f.name /\ w.f.slot = v.f.slot
    BY <2>3, <2>8 DEF Works, Grows
  <2>11. Cuts(v, w, d, K)
    BY <2>7, <2>8, <2>9, <2>10 DEF Cuts, Works
  <2>. QED  BY <2>11 DEF w
<1>. QED  BY <1>1, <1>2

-----------------------------------------------------------------------------
\* f_sync: the entry of a modified file gets its size, and is on the disk.
THEOREM SyncWrites ==
    ASSUME NEW v, NEW d, NEW K, FileOK(v, d, K), v.f.modified,
           Dir(Image(v))[v.f.slot].name = v.f.name,
           K[v.f.name] >= 0 => v.f.size >= K[v.f.name]
    PROVE  LET w == f_sync(v)
           IN /\ FileOK(w, d, K) /\ Lag(w) = {} /\ w.disk = Image(w)
              /\ Counts(v) => Counts(w)
              /\ w.f.name = v.f.name /\ w.f.slot = v.f.slot /\ w.f.size = v.f.size
              /\ w.f.fptr = v.f.fptr /\ w.f.err = v.f.err /\ ~w.f.modified
              /\ \E x : /\ Dir(Image(w)) = [Dir(Image(v)) EXCEPT ![v.f.slot] = x]
                        /\ x.name = v.f.name /\ x.size = v.f.size
<1> DEFINE a == FlushBuf(v)
           i == v.f.slot
           b == move_window(a, SlotSect(i))
           c == SetStart(b, i, a.f.sclust, v.f.size)
           e == sync_fs(c)
           w == f_sync(v)
<1>1. Works(v, a, d, K) /\ Rests(v.f, a.f)
  BY FlushOK
<1>2. a.f.slot = i /\ a.f.size = v.f.size /\ a.f.name = v.f.name
  BY <1>1 DEF Works, Grows, Rests
<1>3. w = Saved(e)
  <2>1. f_sync(v) = Saved(sync_fs(EntryOf(a)))
    BY DEF f_sync
  <2> HIDE DEF a
  <2>2. OK(b, d, K) /\ Quiet(a, b)
    <3>1. SlotSect(i) \in Reserved
      BY SlotPlace DEF FileOK, FileTyped, Reserved
    <3>. QED  BY <1>1, <3>1, MoveOK DEF Works, FileOK
  <2>3. EntryOf(a) = c
    BY <1>2 DEF EntryOf
  <2>. QED  BY <2>1, <2>3
<1> HIDE DEF a, w
<1>4. i \in Slots /\ SlotSect(i) \in Reserved /\ v.f.name \in Names /\ v.f.size \in Nat
  BY SlotPlace DEF FileOK, FileTyped, Reserved
<1>5. OK(b, d, K) /\ Quiet(a, b) /\ b.win.sect = SlotSect(i)
  BY <1>1, <1>4, MoveOK DEF Works, FileOK
<1> HIDE DEF b
<1>6. Dir(Image(b)) = Dir(Image(v)) /\ b.f = a.f
  BY <1>1, <1>5 DEF Works, Still, Quiet
<1>7. a.f.sclust \in Clusters \cup {0}
  BY <1>1 DEF Works, FileOK, FileTyped
<1>8. /\ OK(c, d, K)
      /\ \E x : Changes(b, c, i, x) /\ x.name = v.f.name /\ x.size = v.f.size
  <2>1. Dir(Image(b))[i].name = v.f.name
    BY <1>6
  <2> DEFINE k == a.f.sclust
             s == v.f.size
  <2>2. k \in Clusters \cup {0} /\ s \in Nat /\ (K[Dir(Image(b))[i].name] >= 0 => s >= K[Dir(Image(b))[i].name])
        /\ Dir(Image(b))[i].name \in Names
    BY <1>4, <1>7, <2>1
  <2> HIDE DEF k, s, i
  <2>3. LET y == SetStart(b, i, k, s)
        IN OK(y, d, K) /\ \E x : Changes(b, y, i, x) /\ x.name = Dir(Image(b))[i].name /\ x.size = s
    BY <1>4, <1>5, <2>2, SetStartOK
  <2>. QED  BY <2>1, <2>3 DEF k, s
<1> HIDE DEF c
<1>9. PICK x : Changes(b, c, i, x) /\ x.name = v.f.name /\ x.size = v.f.size
  BY <1>8
<1>10. OK(e, d, K) /\ Quiet(c, e) /\ Lag(e) = {} /\ e.disk = Image(c) /\ Image(e) = Image(c)
  BY <1>8, SyncOK DEF sync_fs
<1> HIDE DEF e
<1>11. e.f = a.f
  BY <1>6, <1>9, <1>10 DEF Changes, Quiet
<1>12. Same(e, w) /\ w.f = [a.f EXCEPT !.modified = FALSE, !.cut = FALSE]
  BY <1>3, <1>10, <1>11 DEF Saved, OK, Fields, Same
<1>13. /\ FileTyped(w.f) /\ w.f.name = v.f.name /\ w.f.slot = v.f.slot /\ w.f.size = v.f.size
       /\ w.f.fptr = v.f.fptr /\ w.f.err = v.f.err /\ ~w.f.modified
  BY <1>1, <1>2, <1>12 DEF Works, FileOK, FileTyped, FileFields, Rests
<1>14. OK(w, d, K) /\ Image(w) = Image(e) /\ Lag(w) = {} /\ w.disk = Image(w)
  BY <1>10, <1>12, SameVolume DEF Same
<1>15. Dir(Image(w)) = [Dir(Image(v)) EXCEPT ![i] = x]
  BY <1>6, <1>9, <1>10, <1>14 DEF Changes
<1>16. Counts(v) => Counts(w)
  <2>1. Counts(v) => Counts(a)
    BY <1>1 DEF Works, Still
  <2>2. Counts(a) => Counts(b)
    BY <1>5, QuietCalm DEF Calm
  <2>3. Counts(b) => Counts(c)
    BY <1>9 DEF Changes
  <2>4. Counts(c) => Counts(e)
    BY <1>10, QuietCalm DEF Calm
  <2>5. Counts(e) => Counts(w)
    BY <1>12, <1>14 DEF Counts, Same
  <2>. QED  BY <2>1, <2>2, <2>3, <2>4, <2>5
<1>. QED  BY <1>9, <1>13, <1>14, <1>15, <1>16 DEF FileOK, w

-----------------------------------------------------------------------------
\* f_open: the file object.

\* Two changes of one entry are one.
LEMMA ChangesAgain ==
    ASSUME NEW v, NEW w, NEW u, NEW i, NEW x, NEW y, Changes(v, w, i, x), Changes(w, u, i, y)
    PROVE  Changes(v, u, i, y)
<1>1. Dir(Image(u)) = [Dir(Image(v)) EXCEPT ![i] = y]
  BY DEF Changes, Dir
<1>. QED  BY <1>1 DEF Changes

\* FA_OPEN_APPEND: the chain is followed, whatever it says.
EndStep(u) == IF u.ret <= 1 THEN u ELSE get_fat(u, u.ret)
EndRun(r, v, k) == r = [i \in 0 .. k |-> IF i = 0 THEN v ELSE EndStep(r[i - 1])]

\* The walk of FA_OPEN_APPEND, as a run of steps.
LEMMA EndRounds ==
    ASSUME NEW v, NEW size, NEW n \in Nat, n = (size - 1) \div SS
    PROVE  \E r : EndRun(r, v, n) /\ SeekEnd(v, size) = r[n]
<1> DEFINE T == {k \in 0 .. n : \E g : EndRun(g, v, k)}
<1>1. 0 \in T
  <2>1. EndRun([i \in 0 .. 0 |-> v], v, 0)
    BY DEF EndRun
  <2>. QED  BY <2>1
<1>2. ASSUME NEW k \in 1 .. n, k - 1 \in T PROVE k \in T
  <2>1. PICK g : EndRun(g, v, k - 1)
    BY <1>2
  <2> DEFINE h == [i \in 0 .. k |-> IF i = k THEN EndStep(g[k - 1]) ELSE g[i]]
  <2>2. EndRun(h, v, k)
    BY <2>1 DEF EndRun
  <2> HIDE DEF h
  <2>. QED  BY <2>2
<1> HIDE DEF T
<1>3. n \in T
  BY <1>1, <1>2, Rounds
<1>4. SeekEnd(v, size) = (CHOOSE g : EndRun(g, v, n))[n]
  BY DEF SeekEnd, EndStep, EndRun
<1>. QED  BY <1>3, <1>4 DEF T

\* The walk of FA_OPEN_APPEND changes nothing.
LEMMA SeekEndOK ==
    ASSUME NEW v, NEW d, NEW K, OK(v, d, K), NEW size \in Nat \ {0}
    PROVE  LET w == SeekEnd(v, size) IN OK(w, d, K) /\ Quiet(v, w)
<1> DEFINE n == (size - 1) \div SS
<1>0. n \in Nat
  BY DEF SS
<1> HIDE DEF n
<1>1. PICK r : EndRun(r, v, n) /\ SeekEnd(v, size) = r[n]
  BY <1>0, EndRounds DEF n
<1>2. /\ r[0] = v
      /\ \A i \in 1 .. n : r[i] = EndStep(r[i - 1])
  BY <1>0, <1>1 DEF EndRun
<1> DEFINE T == {i \in 0 .. n : OK(r[i], d, K) /\ Quiet(v, r[i])}
<1>3. 0 \in T
  BY <1>0, <1>2 DEF Quiet
<1>4. ASSUME NEW i \in 1 .. n, i - 1 \in T PROVE i \in T
  <2> DEFINE u == r[i - 1]
  <2>1. OK(u, d, K) /\ Quiet(v, u)
    BY <1>4
  <2>2. r[i] = u \/ r[i] = get_fat(u, u.ret)
    BY <1>2 DEF EndStep
  <2> HIDE DEF u
  <2>3. OK(r[i], d, K) /\ Quiet(v, r[i])
    BY <2>1, <2>2, GetOK, QuietTrans
  <2>. QED  BY <1>0, <2>3
<1>5. n \in T
  <2> HIDE DEF T
  <2>. QED  BY <1>0, <1>3, <1>4, Rounds
<1>. QED  BY <1>1, <1>5

\* The file object of slot i, with the name n and the size its entry has.
FileOf(f, i, n, size, modified) ==
    /\ FileTyped(f) /\ Placed(f) /\ ~f.err
    /\ f.slot = i /\ f.name = n /\ f.size = size /\ f.modified = modified

\* Where FA_OPEN_APPEND ends: the object is given up, or placed at its end.
LEMMA LandOK ==
    ASSUME NEW v, NEW d, NEW K, OK(v, d, K), NEW i, NEW n, NEW size, NEW modified,
           FileOf(v.f, i, n, size, modified), NEW inside \in BOOLEAN
    PROVE  LET w == Land(v, size, inside, clust2sect(v.ret))
           IN /\ OK(w, d, K) /\ Still(v, w)
              /\ w.f = NoFile \/ FileOf(w.f, i, n, size, modified)
<1> DEFINE sc == clust2sect(v.ret)
           w == Land(v, size, inside, sc)
           s == IF inside THEN sc ELSE 0
           b == IF inside THEN v.disk[sc] ELSE v.f.buf
           u == [v EXCEPT !.f = NoFile]
           t == [v EXCEPT !.f.fptr = size, !.f.clust = v.ret, !.f.sect = s, !.f.buf = b]
<1>1. s \in DataSects \cup {0}
  BY AnyClusterSect
<1>2. w = u \/ w = t
  BY DEF Land, OK, Fields, FileOf, FileTyped, FileFields
<1> HIDE DEF w, s, b
<1>3. Same(v, u) /\ u.f = NoFile
  BY DEF OK, Fields, Same
<1>4. Same(v, t) /\ t.f = [v.f EXCEPT !.fptr = size, !.clust = v.ret, !.sect = s, !.buf = b]
  BY DEF OK, Fields, Same
<1> HIDE DEF u, t
<1>5. FileOf(t.f, i, n, size, modified)
  <2>1. size \in Nat /\ size <= size
    BY DEF FileOf, FileTyped
  <2>. QED  BY <1>1, <1>4, <2>1 DEF FileOf, FileTyped, FileFields, Placed
<1>6. \A y : Same(v, y) => OK(y, d, K) /\ Image(y) = Image(v) /\ Lag(y) = Lag(v)
  BY SameVolume DEF Same
<1>7. \A y : Same(v, y) => Still(v, y)
  BY <1>6 DEF Still, Counts, Same
<1>. QED  BY <1>2, <1>3, <1>4, <1>5, <1>6, <1>7 DEF w

\* The object that f_open fills in.
LEMMA AttachOK ==
    ASSUME NEW v, NEW d, NEW K, OK(v, d, K), NEW i \in Slots, v.win.sect = SlotSect(i),
           NEW n \in Names, NEW mode, NEW modified \in BOOLEAN
    PROVE  LET w == Attach(v, i, n, mode, modified)
               size == Dir(Image(v))[i].size
           IN /\ OK(w, d, K) /\ Still(v, w)
              /\ w.f = NoFile \/ FileOf(w.f, i, n, size, modified)
              /\ size = 0 => w.f # NoFile
<1> DEFINE size == Dir(Image(v))[i].size
           g == NewFile(v, i, n, modified)
           u == [v EXCEPT !.f = g]
           w == Attach(v, i, n, mode, modified)
<1>1. EntryAt(v, i) = Dir(Image(v))[i] /\ Dir(Image(v))[i].clu \in Clusters \cup {0} /\ size \in Nat
  BY WindowEntry, ReadOK, EntryIn
<1>2. FileOf(g, i, n, size, modified)
  <2>1. g = [open |-> TRUE, name |-> n, slot |-> i, sclust |-> Dir(Image(v))[i].clu, clust |-> 0,
             fptr |-> 0, size |-> size, sect |-> 0, buf |-> Erased,
             dirty |-> FALSE, modified |-> modified, err |-> FALSE, cut |-> FALSE]
    BY <1>1 DEF NewFile
  <2> HIDE DEF g, size
  <2>. QED  BY <1>1, <2>1 DEF FileOf, FileTyped, FileFields, Placed
<1>3. w = IF mode = "append" THEN AtEnd(u) ELSE u
  BY DEF Attach
<1> HIDE DEF g, w, size
<1>4. Same(v, u) /\ u.f = g
  BY DEF OK, Fields, Same
<1> HIDE DEF u
<1>5. OK(u, d, K) /\ Still(v, u)
  <2>1. OK(u, d, K) /\ Image(u) = Image(v) /\ Lag(u) = Lag(v)
    BY <1>4, SameVolume DEF Same
  <2>. QED  BY <1>4, <2>1 DEF Still, Counts, Same
<1>6. g # NoFile
  BY <1>2 DEF FileOf, FileTyped, NoFile
<1>7. CASE mode # "append" \/ size = 0
  <2>1. w = u
    BY <1>2, <1>3, <1>4, <1>7 DEF AtEnd, FileOf
  <2>. QED  BY <1>2, <1>4, <1>5, <1>6, <2>1 DEF w, size
<1>8. CASE mode = "append" /\ size # 0
  <2> DEFINE p == [u EXCEPT !.ret = u.f.sclust]
             q == SeekEnd(p, size)
             inside == size % SS # 0
  <2>1. w = Landed(q) /\ u.f.size = size
    BY <1>2, <1>3, <1>4, <1>8, <1>5 DEF AtEnd, FileOf, OK, Fields
  <2>2. OK(p, d, K) /\ Quiet(u, p)
    BY <1>5, RetOK
  <2> HIDE DEF p
  <2>3. OK(q, d, K) /\ Quiet(p, q)
    BY <1>1, <1>8, <2>2, SeekEndOK
  <2> HIDE DEF q
  <2>4. q.f = g /\ q.f.size = size
    BY <1>2, <1>4, <2>2, <2>3 DEF Quiet, FileOf
  <2>5. w = Land(q, size, inside, clust2sect(q.ret)) /\ inside \in BOOLEAN
    BY <2>1, <2>4 DEF Landed
  <2> HIDE DEF inside
  <2>6. /\ OK(w, d, K) /\ Still(q, w)
        /\ w.f = NoFile \/ FileOf(w.f, i, n, size, modified)
    BY <1>2, <2>3, <2>4, <2>5, LandOK
  <2>7. Calm(u, p) /\ Calm(p, q)
    BY <2>2, <2>3, QuietCalm
  <2>8. Still(v, w)
    BY <1>5, <2>6, <2>7 DEF Still, Calm
  <2>. QED  BY <1>8, <2>6, <2>8 DEF w, size
<1>. QED  BY <1>7, <1>8

-----------------------------------------------------------------------------
\* f_open: the entry.

\* Overwriting a file: its entry is empty before its chain is freed.
LEMMA OpenTruncateOK ==
    ASSUME NEW v, NEW d, NEW K, OK(v, d, K), NEW i \in Slots, v.win.sect = SlotSect(i),
           Dir(Image(v))[i].name \in Names, ~(K[Dir(Image(v))[i].name] >= 0),
           NEW cl \in Clusters \cup {0}
    PROVE  LET w == OpenTruncate(v, i, cl)
           IN /\ OK(w, d, K) /\ w.ret = 0 /\ w.win.sect = SlotSect(i)
              /\ \E x : Changes(v, w, i, x) /\ x.name = Dir(Image(v))[i].name /\ x.size = 0
<1> DEFINE u == SetStart(v, i, 0, 0)
           w == OpenTruncate(v, i, cl)
           n == Dir(Image(v))[i].name
<1>1. OK(u, d, K) /\ u.win.sect = SlotSect(i)
      /\ \E x : Changes(v, u, i, x) /\ x.name = n /\ x.size = 0
  <2> DEFINE z == 0
  <2>1. z \in Clusters \cup {0} /\ z \in Nat
    OBVIOUS
  <2> HIDE DEF z
  <2>2. LET y == SetStart(v, i, z, z)
        IN /\ OK(y, d, K) /\ y.win.sect = v.win.sect
           /\ \E x : Changes(v, y, i, x) /\ x.name = Dir(Image(v))[i].name /\ x.clu = z /\ x.size = z
    BY <2>1, SetStartOK
  <2>. QED  BY <2>2 DEF z
<1>2. w = IF cl = 0 THEN [u EXCEPT !.ret = 0] ELSE Restart(remove_chain(u, cl, 0), i, cl)
  BY DEF OpenTruncate
<1> HIDE DEF u, w
<1>3. PICK x : Changes(v, u, i, x) /\ x.name = n /\ x.size = 0
  BY <1>1
<1>4. OK(w, d, K) /\ Calm(u, w) /\ w.ret = 0 /\ w.win.sect = SlotSect(i)
  <2>1. CASE cl = 0
    <3>1. w = [u EXCEPT !.ret = 0] /\ w.win = u.win
      BY <1>1, <1>2, <2>1 DEF OK, Fields
    <3> DEFINE z == 0
    <3>2. w = [u EXCEPT !.ret = z] /\ z = 0
      BY <3>1
    <3> HIDE DEF z
    <3>. QED  BY <1>1, <3>1, <3>2, RetOK
  <2>2. CASE cl # 0
    <3> DEFINE p == remove_chain(u, cl, 0)
               q == move_window(p, SlotSect(i))
               last == cl - 1
    <3>1. OK(p, d, K) /\ Calm(u, p) /\ p.ret = 0
      BY <1>1, <2>2, RemoveOK
    <3>2. w = [q EXCEPT !.last = last]
      BY <1>2, <2>2, <3>1 DEF Restart
    <3> HIDE DEF p, last
    <3>3. SlotSect(i) \in Reserved
      BY SlotPlace DEF Reserved
    <3>4. OK(q, d, K) /\ Quiet(p, q) /\ q.win.sect = SlotSect(i) /\ q.ret = 0
      BY <3>1, <3>3, MoveOK
    <3> HIDE DEF q
    <3>5. DOMAIN w = DOMAIN q /\ w.disk = q.disk /\ w.log = q.log /\ w.win = q.win
          /\ w.f = q.f /\ w.free = q.free /\ w.ret = q.ret
      BY <3>2, <3>4 DEF OK, Fields
    <3>6. OK(w, d, K) /\ Quiet(q, w)
      BY <3>4, <3>5, SameVolume
    <3>7. Calm(u, w)
      BY <3>1, <3>4, <3>6, QuietCalm, CalmTrans
    <3>. QED  BY <3>4, <3>5, <3>6, <3>7
  <2>. QED  BY <2>1, <2>2
<1>5. Changes(v, w, i, x)
  BY <1>3, <1>4, CalmChanges
<1>. QED  BY <1>3, <1>4, <1>5 DEF w

\* An empty file in slot i, which is opened.
Fresh(v, w, i, n) ==
    /\ FileOf(w.f, i, n, 0, TRUE)
    /\ Lag(w) \subseteq Lag(v) \cup {i}
    /\ Counts(v) => Counts(w)
    /\ \E x : Dir(Image(w)) = [Dir(Image(v)) EXCEPT ![i] = x] /\ x.name = n

\* An entry overwritten gives an object that is empty and modified.
LEMMA OverwriteOK ==
    ASSUME NEW v, NEW d, NEW K, OK(v, d, K), NEW i \in Slots, v.win.sect = SlotSect(i),
           NEW n \in Names, Dir(Image(v))[i].name = n, ~(K[n] >= 0), NEW mode
    PROVE  LET w == Overwrite(v, i, n, mode) IN OK(w, d, K) /\ Fresh(v, w, i, n)
<1> DEFINE cl == EntryAt(v, i).clu
           p == OpenTruncate(v, i, cl)
           w == Overwrite(v, i, n, mode)
           t == TRUE
<1>0. cl \in Clusters \cup {0} /\ i # NoSlot /\ t \in BOOLEAN
  BY WindowEntry, ReadOK, EntryIn, SlotPlace DEF NoSlot
<1> HIDE DEF cl
<1>1. /\ OK(p, d, K) /\ p.ret = 0 /\ p.win.sect = SlotSect(i)
      /\ \E x : Changes(v, p, i, x) /\ x.name = n /\ x.size = 0
  BY <1>0, OpenTruncateOK
<1>2. w = Attach(p, i, n, mode, t)
  BY <1>0, <1>1 DEF Overwrite, Cleared, cl
<1> HIDE DEF p, w, t
<1>3. PICK x : Changes(v, p, i, x) /\ x.name = n /\ x.size = 0
  BY <1>1
<1>4. Dir(Image(p))[i] = x
  BY <1>3 DEF Changes, Dir
<1>5. /\ OK(w, d, K) /\ Still(p, w)
      /\ FileOf(w.f, i, n, 0, t)
  BY <1>0, <1>1, <1>2, <1>3, <1>4, AttachOK
<1>6. Fresh(v, w, i, n)
  BY <1>3, <1>5 DEF Changes, Still, Fresh, t
<1>. QED  BY <1>5, <1>6 DEF w

\* f_open: nothing happens, or a file is opened, which may be empty.
Opens(v, w, n, L, locked) ==
    \E i \in Slots :
        \/ /\ FileOf(w.f, i, n, Dir(Image(v))[i].size, FALSE)
           /\ i \notin locked /\ Dir(Image(v))[i].name = n /\ Still(v, w)
        \/ /\ Fresh(v, w, i, n) /\ ~(L[n] >= 0)
           /\ \/ Dir(Image(v))[i].name \in {End, Deleted}
              \/ Dir(Image(v))[i].name = n /\ i \notin locked

\* f_open of a new name: refused for want of a slot, or a new empty file.
LEMMA CreatedOK ==
    ASSUME NEW v, NEW d, NEW K, OK(v, d, K), NEW n \in Names, NEW mode, NEW locked, NEW L,
           v.f = NoFile, \A i \in Slots : Dir(Image(v))[i].name # n, L[n] = K[n]
    PROVE  LET w == Created(dir_register(v, n), n, mode)
           IN /\ OK(w, d, K)
              /\ (w.f = NoFile /\ Still(v, w)) \/ Opens(v, w, n, L, locked)
<1> DEFINE u == dir_register(v, n)
           i == u.ret
           w == Created(u, n, mode)
           e == [name |-> n, clu |-> 0, size |-> 0]
<1>1. /\ OK(u, d, K)
      /\ \/ i = NoSlot /\ Quiet(v, u)
         \/ /\ i \in Slots /\ Dir(Image(v))[i].name \in {End, Deleted}
            /\ u.win.sect = SlotSect(i)
            /\ Changes(v, u, i, e)
  BY RegisterOK
<1>2. w = Overwrite(u, i, n, mode) /\ e.name = n /\ NoSlot \notin Slots
  BY SlotPlace DEF Created, NoSlot
<1> HIDE DEF u, w, e
<1>3. ~(K[n] >= 0)
  BY DEF OK, Good, DirGood, Promise, Holds
<1>4. CASE i = NoSlot
  <2>1. w = u /\ Calm(v, u)
    BY <1>1, <1>2, <1>4, QuietCalm DEF Overwrite
  <2>2. OK(w, d, K) /\ w.f = NoFile /\ Still(v, w)
    BY <1>1, <2>1 DEF Calm, Still
  <2>. QED  BY <2>2 DEF w, u
<1>5. CASE i # NoSlot
  <2>1. /\ i \in Slots /\ Dir(Image(v))[i].name \in {End, Deleted}
        /\ u.win.sect = SlotSect(i) /\ Changes(v, u, i, e)
    BY <1>1, <1>5
  <2> HIDE DEF i
  <2>2. Dir(Image(u)) = [Dir(Image(v)) EXCEPT ![i] = e] /\ Dir(Image(u))[i].name = n
    BY <1>2, <2>1 DEF Changes, Dir
  <2>3. OK(w, d, K) /\ Fresh(u, w, i, n)
    BY <1>1, <1>2, <1>3, <2>1, <2>2, OverwriteOK
  <2>4. Fresh(v, w, i, n)
    <3>1. PICK x : Dir(Image(w)) = [Dir(Image(u)) EXCEPT ![i] = x] /\ x.name = n
      BY <2>3 DEF Fresh
    <3>2. Dir(Image(w)) = [Dir(Image(v)) EXCEPT ![i] = x]
      BY <2>2, <3>1 DEF Dir
    <3>. QED  BY <2>1, <2>3, <3>1, <3>2 DEF Changes, Fresh
  <2>5. Opens(v, w, n, L, locked)
    BY <1>3, <2>1, <2>4 DEF Opens
  <2>. QED  BY <2>3, <2>5 DEF w, u
<1>. QED  BY <1>4, <1>5

\* f_open: refused, or an object for an entry no other object has open.
THEOREM OpenOK ==
    ASSUME NEW v, NEW d, NEW K \in [Names -> Int], OK(v, d, K), v.f = NoFile, NEW n \in Names,
           NEW mode, NEW locked
    PROVE  LET w == f_open(v, n, mode, locked)
               L == IF mode = "always" THEN Forgot(K, n) ELSE K
           IN \/ OK(w, d, K) /\ w.f = NoFile /\ Still(v, w)
              \/ OK(w, d, L) /\ Opens(v, w, n, L, locked)
<1> DEFINE u == dir_find(v, n)
           i == u.ret
           e == Dir(Image(v))
           w == f_open(v, n, mode, locked)
           L == IF mode = "always" THEN Forgot(K, n) ELSE K
<1>1. /\ OK(u, d, K) /\ Quiet(v, u)
      /\ \/ i = NoSlot /\ \A k \in Slots : e[k].name # n
         \/ i \in Slots /\ e[i].name = n /\ u.win.sect = SlotSect(i)
  BY FindOK
<1>2. w = Found(u, n, mode, locked) /\ NoSlot \notin Slots
  BY SlotPlace DEF f_open, NoSlot
<1>3. Weaker(L, K) /\ (mode = "always" => ~(L[n] >= 0))
  BY ForgotWeaker DEF Weaker
<1> HIDE DEF u, w, L
<1>4. Dir(Image(u)) = e /\ u.f = NoFile /\ Calm(v, u)
  BY <1>1, QuietCalm DEF Quiet
<1>5. \A y : Still(u, y) => Still(v, y)
  BY <1>4 DEF Still, Calm
<1>6. \A y : Opens(u, y, n, L, locked) => Opens(v, y, n, L, locked)
  <2>1. \A y, k : Fresh(u, y, k, n) => Fresh(v, y, k, n)
    BY <1>4 DEF Fresh, Calm
  <2>. QED  BY <1>4, <1>5, <2>1 DEF Opens
<1>7. CASE w = u
  BY <1>1, <1>4, <1>7 DEF w, Calm, Still
<1>8. CASE w # u
  <2>0. i \notin locked
    BY <1>2, <1>8 DEF Found
  <2>1. CASE i = NoSlot
    <3>1. w = Created(dir_register(u, n), n, mode)
      BY <1>2, <1>8, <2>0, <2>1 DEF Found
    <3>2. \A k \in Slots : Dir(Image(u))[k].name # n
      BY <1>1, <1>2, <1>4, <2>1
    <3> DEFINE r == Created(dir_register(u, n), n, mode)
    <3>3. /\ OK(r, d, K)
          /\ (r.f = NoFile /\ Still(u, r)) \/ Opens(u, r, n, K, locked)
      BY <1>1, <1>4, <3>2, CreatedOK
    <3> HIDE DEF r
    <3>4. Opens(u, r, n, K, locked) => Opens(u, r, n, L, locked) /\ OK(r, d, L)
      <4>1. ~(K[n] >= 0) => ~(L[n] >= 0)
        BY <1>3 DEF Weaker
      <4>2. OK(r, d, L)
        BY <1>3, <3>3, OKWeaker
      <4>. QED  BY <4>1, <4>2 DEF Opens
    <3>. QED  BY <1>5, <1>6, <3>1, <3>3, <3>4 DEF w, L, r
  <2>2. CASE i # NoSlot /\ mode = "always"
    <3>1. w = Overwrite(u, i, n, mode)
      BY <1>2, <2>0, <2>2 DEF Found
    <3>2. i \in Slots /\ Dir(Image(u))[i].name = n /\ u.win.sect = SlotSect(i)
      BY <1>1, <1>4, <2>2
    <3>3. OK(u, d, L)
      BY <1>1, <1>3, OKWeaker
    <3>4. ~(L[n] >= 0)
      BY <1>3, <2>2
    <3> HIDE DEF i, e
    <3>5. OK(w, d, L) /\ Fresh(u, w, i, n)
      BY <3>1, <3>2, <3>3, <3>4, OverwriteOK
    <3>6. Opens(u, w, n, L, locked)
      BY <2>0, <3>2, <3>4, <3>5 DEF Opens
    <3>. QED  BY <1>6, <3>5, <3>6 DEF w, L
  <2>3. CASE i # NoSlot /\ mode # "always"
    <3> DEFINE b == FALSE
    <3>1. w = Attach(u, i, n, mode, b) /\ b \in BOOLEAN
      BY <1>2, <2>0, <2>3 DEF Found
    <3>2. i \in Slots /\ Dir(Image(u))[i].name = n /\ u.win.sect = SlotSect(i)
      BY <1>1, <1>4, <2>3
    <3> HIDE DEF i, e, b
    <3>3. /\ OK(w, d, K) /\ Still(u, w)
          /\ w.f = NoFile \/ FileOf(w.f, i, n, Dir(Image(u))[i].size, b)
      BY <1>1, <3>1, <3>2, AttachOK
    <3>4. CASE w.f = NoFile
      BY <1>5, <3>3, <3>4 DEF w
    <3>5. CASE w.f # NoFile
      <4>1. Opens(u, w, n, L, locked)
        BY <2>0, <3>2, <3>3, <3>5 DEF Opens, b
      <4>2. OK(w, d, L)
        BY <1>3, <3>3, OKWeaker
      <4>. QED  BY <1>6, <4>1, <4>2 DEF w, L
    <3>. QED  BY <3>4, <3>5
  <2>. QED  BY <2>1, <2>2, <2>3
<1>. QED  BY <1>7, <1>8

-----------------------------------------------------------------------------
\* The open files, and the inductive invariant.

\* An open file, in the directory e with the promises K: its entry has its
\* name, it is not smaller than promised, and what is not modified is saved.
Backed(f, e, K) ==
    /\ e[f.slot].name = f.name
    /\ K[f.name] >= 0 => f.size >= K[f.name]
    /\ ~f.err /\ ~f.modified => f.size <= e[f.slot].size
FileFits(f, e, K) == FileTyped(f) /\ Placed(f) /\ Backed(f, e, K)

\* The file objects fs: no two have one slot, and an entry that is not on the
\* disk belongs to a modified one.
Apart(fs) == \A g, h \in Handles : fs[g].open /\ fs[h].open /\ fs[g].slot = fs[h].slot => g = h
Owned(fs, lag) == \A i \in lag : \E h \in Handles : fs[h].open /\ fs[h].slot = i /\ fs[h].modified
FilesOK(fs, e, lag, K) ==
    /\ fs = [h \in Handles |-> fs[h]]
    /\ \A h \in Handles : fs[h] = NoFile \/ FileFits(fs[h], e, K)
    /\ Apart(fs) /\ Owned(fs, lag)

\* What FilesOK says of one object.
LEMMA OpenFits ==
    ASSUME NEW fs, NEW e, NEW lag, NEW K, FilesOK(fs, e, lag, K), NEW h \in Handles
    PROVE  /\ fs[h].open \in BOOLEAN
           /\ fs[h].open => FileFits(fs[h], e, K)
           /\ ~fs[h].open => fs[h] = NoFile
<1>1. NoFile.open = FALSE
  BY DEF NoFile
<1>2. CASE fs[h] = NoFile
  BY <1>1, <1>2
<1>3. CASE fs[h] # NoFile
  <2>1. FileFits(fs[h], e, K)
    BY <1>3 DEF FilesOK
  <2>2. fs[h].open = TRUE
    BY <2>1 DEF FileFits, FileTyped
  <2>. QED  BY <2>1, <2>2
<1>. QED  BY <1>2, <1>3

\* The entries of the open files stay.
LEMMA FilesKept ==
    ASSUME NEW fs, NEW e, NEW lag, NEW K, FilesOK(fs, e, lag, K),
           NEW e2, \A h \in Handles : fs[h].open => e2[fs[h].slot] = e[fs[h].slot],
           NEW lag2, lag2 \subseteq lag, NEW L, Weaker(L, K)
    PROVE  FilesOK(fs, e2, lag2, L)
<1>1. ASSUME NEW h \in Handles, fs[h] # NoFile PROVE FileFits(fs[h], e2, L)
  <2> DEFINE f == fs[h]
  <2>1. FileTyped(f) /\ Placed(f) /\ Backed(f, e, K)
    BY <1>1 DEF FilesOK, FileFits
  <2>2. e2[f.slot] = e[f.slot] /\ f.name \in Names
    BY <2>1 DEF FileTyped
  <2> HIDE DEF f
  <2>3. Backed(f, e2, L)
    BY <2>1, <2>2 DEF Backed, Weaker
  <2>. QED  BY <2>1, <2>3 DEF FileFits, f
<1>2. Owned(fs, lag2)
  BY DEF FilesOK, Owned
<1>. QED  BY <1>1, <1>2 DEF FilesOK

\* The file object of handle h becomes g, and its entry may change.
LEMMA FilesSet ==
    ASSUME NEW fs, NEW e, NEW lag, NEW K, FilesOK(fs, e, lag, K), NEW h \in Handles, NEW g,
           \A k \in Handles : fs[k].open /\ fs[k].slot = g.slot => k = h,
           fs[h].open => fs[h].slot = g.slot,
           NEW e2, \A i \in Slots : i # g.slot => e2[i] = e[i],
           NEW L, Weaker(L, K), FileFits(g, e2, L),
           NEW lag2, lag2 \subseteq lag \cup {g.slot}, g.slot \in lag2 => g.modified
    PROVE  FilesOK([fs EXCEPT ![h] = g], e2, lag2, L)
<1> DEFINE fs2 == [fs EXCEPT ![h] = g]
<1>0. g.open = TRUE
  BY DEF FileFits, FileTyped
<1>1. fs2 = [k \in Handles |-> fs2[k]] /\ fs2[h] = g /\ \A k \in Handles : k # h => fs2[k] = fs[k]
  BY DEF FilesOK
<1> HIDE DEF fs2
<1>2. ASSUME NEW k \in Handles, fs2[k] # NoFile PROVE FileFits(fs2[k], e2, L)
  <2>1. CASE k = h
    BY <1>1, <2>1
  <2>2. CASE k # h
    <3> DEFINE f == fs[k]
    <3>1. fs2[k] = f /\ FileTyped(f) /\ Placed(f) /\ Backed(f, e, K)
      BY <1>1, <1>2, <2>2 DEF FilesOK, FileFits
    <3>2. f.slot \in Slots /\ f.slot # g.slot /\ f.name \in Names
      BY <2>2, <3>1 DEF FileTyped
    <3>3. e2[f.slot] = e[f.slot]
      BY <3>2
    <3> HIDE DEF f
    <3>4. Backed(f, e2, L)
      BY <3>1, <3>2, <3>3 DEF Backed, Weaker
    <3>. QED  BY <3>1, <3>4 DEF FileFits
  <2>. QED  BY <2>1, <2>2
<1>3. Apart(fs2)
  BY <1>1 DEF FilesOK, Apart
<1>4. Owned(fs2, lag2)
  <2> SUFFICES ASSUME NEW i \in lag2
               PROVE  \E k \in Handles : fs2[k].open /\ fs2[k].slot = i /\ fs2[k].modified
    BY DEF Owned
  <2>1. CASE i = g.slot
    BY <1>0, <1>1, <2>1
  <2>2. CASE i # g.slot
    <3>1. PICK k \in Handles : fs[k].open /\ fs[k].slot = i /\ fs[k].modified
      BY <2>2 DEF FilesOK, Owned
    <3>2. k # h
      BY <2>2, <3>1
    <3>. QED  BY <1>1, <3>1, <3>2
  <2>. QED  BY <2>1, <2>2
<1>. QED  BY <1>1, <1>2, <1>3, <1>4 DEF FilesOK, fs2

\* The object of handle h is closed.
LEMMA FilesClosed ==
    ASSUME NEW fs, NEW e, NEW lag, NEW K, FilesOK(fs, e, lag, K), NEW h \in Handles,
           fs[h].open => fs[h].slot \notin lag
    PROVE  FilesOK([fs EXCEPT ![h] = NoFile], e, lag, K)
<1> DEFINE fs2 == [fs EXCEPT ![h] = NoFile]
<1>1. fs2 = [k \in Handles |-> fs2[k]] /\ fs2[h] = NoFile /\ \A k \in Handles : k # h => fs2[k] = fs[k]
  BY DEF FilesOK
<1> HIDE DEF fs2
<1>2. ~fs2[h].open
  BY <1>1 DEF NoFile
<1>3. \A k \in Handles : fs2[k] = NoFile \/ FileFits(fs2[k], e, K)
  BY <1>1 DEF FilesOK
<1>4. Apart(fs2)
  BY <1>1, <1>2 DEF FilesOK, Apart
<1>5. Owned(fs2, lag)
  <2> SUFFICES ASSUME NEW i \in lag
               PROVE  \E k \in Handles : fs2[k].open /\ fs2[k].slot = i /\ fs2[k].modified
    BY DEF Owned
  <2>1. PICK k \in Handles : fs[k].open /\ fs[k].slot = i /\ fs[k].modified
    BY DEF FilesOK, Owned
  <2>2. k # h
    BY <2>1
  <2>. QED  BY <1>1, <2>1, <2>2
<1>. QED  BY <1>1, <1>3, <1>4, <1>5 DEF FilesOK, fs2

\* Two objects of one name are one.
LEMMA NameOnce ==
    ASSUME NEW fs, NEW e, NEW lag, NEW K, FilesOK(fs, e, lag, K), Distinct(e, K),
           NEW g \in Handles, NEW h \in Handles, fs[g].open, fs[h].open, fs[g].name = fs[h].name,
           K[fs[g].name] # Twice
    PROVE  g = h
<1>1. /\ e[fs[g].slot].name = fs[g].name /\ e[fs[h].slot].name = fs[h].name
      /\ fs[g].slot \in Slots /\ fs[h].slot \in Slots /\ fs[g].name \in Names
  BY OpenFits DEF FileFits, FileTyped, Backed
<1>2. fs[g].slot = fs[h].slot
  BY <1>1 DEF Distinct, Once
<1>. QED  BY <1>2 DEF FilesOK, Apart

-----------------------------------------------------------------------------
\* What f_sync, f_close and f_rename vouch for, once they return.
Answered(c, fs, v) ==
    c.op \in {"sync", "close", "rename"} =>
        /\ c.name \in Names /\ c.size \in Int
        /\ c.size >= 0 =>
             /\ Holds(Dir(v.disk), c.name, c.size) /\ Holds(Dir(Image(v)), c.name, c.size)
             /\ \A h \in Handles : fs[h].open /\ fs[h].name = c.name => fs[h].size >= c.size
        /\ c.size # Twice => Once(Dir(v.disk), c.name) /\ Once(Dir(Image(v)), c.name)

Serving(v, fs, c, d, K) ==
    /\ OK(v, d, K) /\ Counts(v)
    /\ FilesOK(fs, Dir(Image(v)), Lag(v), K)
    /\ Answered(c, fs, v)
Behind(v) == v.log = queue /\ v.win = vol.win /\ v.free = vol.free

IInv ==
    /\ kept \in [Names -> Int]
    /\ Idle => queue = <<>>
    /\ \E v : Behind(v) /\ Serving(v, files, call, disk, kept)

-----------------------------------------------------------------------------
\* A call of the API begins, and has computed what it will write.

\* A call begins where the last one returned.
LEMMA Starts ==
    ASSUME IInv, Idle, NEW v, Fields \subseteq DOMAIN v, v.disk = disk, v.log = <<>>,
           v.win = vol.win, v.free = vol.free
    PROVE  /\ OK(v, disk, kept) /\ Counts(v)
           /\ FilesOK(files, Dir(Image(v)), Lag(v), kept)
<1>1. PICK u : Behind(u) /\ Serving(u, files, call, disk, kept)
  BY DEF IInv
<1>2. u.log = <<>> /\ u.win = vol.win /\ u.free = vol.free /\ OK(u, disk, kept)
  BY <1>1 DEF IInv, Behind, Serving
<1>3. u.disk = disk
  BY <1>2, TimelineEnds DEF OK
<1>4. Image(v) = Image(u) /\ Lag(v) = Lag(u)
  BY <1>2, <1>3 DEF Image, Lag
<1>5. OK(v, disk, kept)
  BY <1>2, <1>3, <1>4 DEF OK
<1>. QED  BY <1>1, <1>2, <1>4, <1>5 DEF Serving, Counts

\* So does a call on a file.
LEMMA StartsOn ==
    ASSUME IInv, NEW h \in Handles, Idle, files[h].open
    PROVE  LET v == On(h)
           IN /\ FileOK(v, disk, kept) /\ Counts(v) /\ Placed(v.f) /\ v.f = files[h]
              /\ FilesOK(files, Dir(Image(v)), Lag(v), kept)
              /\ v.log = <<>> /\ v.disk = disk
<1> DEFINE v == On(h)
<1>1. /\ Fields \subseteq DOMAIN v /\ v.disk = disk /\ v.log = <<>> /\ v.win = vol.win
      /\ v.free = vol.free /\ v.f = files[h]
  BY DEF On, View, Fields
<1> HIDE DEF v
<1>2. /\ OK(v, disk, kept) /\ Counts(v)
      /\ FilesOK(files, Dir(Image(v)), Lag(v), kept)
  BY <1>1, Starts
<1>3. FileTyped(files[h]) /\ Placed(files[h])
  BY <1>2, OpenFits DEF FileFits
<1>. QED  BY <1>1, <1>2, <1>3 DEF FileOK, v

\* So does a call on a name.
LEMMA StartsView ==
    ASSUME IInv, Idle
    PROVE  LET v == View
           IN /\ OK(v, disk, kept) /\ Counts(v) /\ v.f = NoFile
              /\ FilesOK(files, Dir(Image(v)), Lag(v), kept)
              /\ v.log = <<>> /\ v.disk = disk /\ v.win = vol.win
<1> DEFINE v == View
<1>1. /\ Fields \subseteq DOMAIN v /\ v.disk = disk /\ v.log = <<>> /\ v.win = vol.win
      /\ v.free = vol.free /\ v.f = NoFile
  BY DEF View, Fields
<1> HIDE DEF v
<1>. QED  BY <1>1, Starts DEF v

\* What a call computed and left in the queue keeps the invariant.
LEMMA Resumes ==
    ASSUME NEW c, NEW w, NEW ns, Run(c, w, ns), c # NoCall, kept' \in [Names -> Int],
           OK(w, disk, kept'), Counts(w), FilesOK(files', Dir(Image(w)), Lag(w), kept'),
           Answered(c, files', w)
    PROVE  IInv'
<1>1. w.log = queue' /\ w.win = vol'.win /\ w.free = vol'.free /\ disk' = disk /\ call' = c
  BY DEF Run
<1>2. Serving(w, files', call', disk', kept')
  BY <1>1 DEF Serving
<1>3. ~Idle'
  BY <1>1 DEF Idle
<1>. QED  BY <1>1, <1>2, <1>3 DEF IInv, Behind

Plain == {"open", "append", "always", "write", "read", "seek", "truncate", "unlink", "getfree"}
\* A call that vouches for nothing.
LEMMA PlainCall ==
    ASSUME NEW c, c.op \in Plain, NEW fs, NEW v
    PROVE  c # NoCall /\ Answered(c, fs, v)
<1>1. NoCall.op = "none"
  BY DEF NoCall
<1>. QED  BY <1>1 DEF Plain, Answered

\* A call on a file that vouches for nothing.
LEMMA FileCall ==
    ASSUME IInv, Idle, NEW h \in Handles, files[h].open, NEW w, Cuts(On(h), w, disk, kept),
           NEW op \in {"write", "read", "seek", "truncate"}, OnFile(h, op, w),
           kept' \in [Names -> Int], Weaker(kept', kept),
           kept'[files[h].name] >= 0 => w.f.size >= files[h].size
    PROVE  IInv'
<1> DEFINE v == On(h)
           f == files[h]
           g == w.f
           e == Dir(Image(v))
           c == CASE op \in {"sync", "close"} -> [op |-> op, name |-> files[h].name,
                                           size |-> Vouched(h, w), cut |-> files[h].cut]
                  [] op = "read" -> [op |-> op, file |-> h, at |-> files[h].fptr, out |-> w.out]
                  [] OTHER -> [op |-> op]
<1>1. /\ FileOK(v, disk, kept) /\ Counts(v) /\ v.f = f
      /\ FilesOK(files, e, Lag(v), kept)
  BY StartsOn
<1>2. Run(c, w, {f.name}) /\ files' = [files EXCEPT ![h] = g] /\ c.op \in Plain
  <2>1. Run(c, w, {f.name}) /\ files' = [files EXCEPT ![h] = IF op = "close" THEN NoFile ELSE g]
    BY DEF OnFile
  <2>2. op # "close" /\ op # "sync"
    OBVIOUS
  <2>3. c.op = op
    <3>1. CASE op = "read"
      BY <2>2, <3>1
    <3>2. CASE op # "read"
      BY <2>2, <3>2
    <3>. QED  BY <3>1, <3>2
  <2> HIDE DEF c
  <2>. QED  BY <2>1, <2>2, <2>3 DEF Plain
<1> HIDE DEF v, c
<1>3. /\ OK(w, disk, kept) /\ FileTyped(g) /\ Still(v, w) /\ Placed(g)
      /\ g.name = f.name /\ g.slot = f.slot /\ (f.modified => g.modified)
      /\ ~g.err /\ ~g.modified => ~f.err /\ ~f.modified /\ g.size = f.size
  BY <1>1 DEF Cuts, FileOK, v
<1>4. Counts(w) /\ Dir(Image(w)) = e /\ Lag(w) \subseteq Lag(v) /\ OK(w, disk, kept')
  BY <1>1, <1>3, OKWeaker DEF Still
<1>5. FileFits(f, e, kept)
  BY <1>1, OpenFits
<1> HIDE DEF e
<1>6. FileFits(g, e, kept')
  <2>1. f.name \in Names /\ f.size \in Nat /\ g.size \in Nat
    BY <1>3, <1>5 DEF FileFits, FileTyped
  <2>2. kept'[f.name] >= 0 => kept'[f.name] = kept[f.name] /\ f.size >= kept[f.name]
    BY <1>5, <2>1 DEF FileFits, Backed, Weaker
  <2>3. kept'[f.name] \in Int
    BY <2>1
  <2>4. kept'[g.name] >= 0 => g.size >= kept'[g.name]
    <3> DEFINE a == kept'[f.name]
               b == kept[f.name]
    <3>1. a \in Int /\ f.size \in Nat /\ g.size \in Nat
      BY <2>1, <2>3
    <3>2. a >= 0 => a = b /\ f.size >= b /\ g.size >= f.size
      BY <2>2
    <3> HIDE DEF a, b, f, g
    <3>3. a >= 0 => g.size >= a
      BY <3>1, <3>2
    <3>. QED  BY <1>3, <3>3 DEF a
  <2>5. e[g.slot].name = g.name
    BY <1>3, <1>5 DEF FileFits, Backed
  <2>6. ~g.err /\ ~g.modified => g.size <= e[g.slot].size
    BY <1>3, <1>5 DEF FileFits, Backed
  <2>. QED  BY <1>3, <2>4, <2>5, <2>6 DEF FileFits, Backed
<1>7. g.slot \in Lag(w) => g.modified
  <2>1. g.slot \in Lag(w) => f.modified
    BY <1>1, <1>3, <1>4 DEF FilesOK, Owned, Apart
  <2>. QED  BY <1>3, <2>1
<1>8. \A k \in Handles : files[k].open /\ files[k].slot = g.slot => k = h
  BY <1>1, <1>3 DEF FilesOK, Apart
<1> HIDE DEF f, g
<1>9. FilesOK(files', e, Lag(w), kept')
  <2>1. files[h].open => files[h].slot = g.slot
    BY <1>3 DEF f
  <2>2. Lag(w) \subseteq Lag(v) \cup {g.slot}
    BY <1>4
  <2>. QED  BY <1>1, <1>2, <1>6, <1>7, <1>8, <2>1, <2>2, FilesSet
<1>10. c # NoCall /\ Answered(c, files', w)
  BY <1>2, PlainCall
<1>. QED  BY <1>2, <1>4, <1>9, <1>10, Resumes

-----------------------------------------------------------------------------
\* Calls that vouch for nothing.

\* A call that does not shrink the file.
LEMMA ServesCuts ==
    ASSUME NEW v, NEW w, NEW d, NEW K, Serves(v, w, d, K)
    PROVE  Cuts(v, w, d, K) /\ w.f.size >= v.f.size
  BY DEF Serves, Cuts

\* Such a call keeps the invariant.
LEMMA KeptFile ==
    ASSUME IInv, Idle, NEW h \in Handles, files[h].open, NEW w, Serves(On(h), w, disk, kept),
           NEW op \in {"write", "read", "seek"}, OnFile(h, op, w), UNCHANGED kept
    PROVE  IInv'
<1>1. Cuts(On(h), w, disk, kept) /\ w.f.size >= On(h).f.size /\ On(h).f = files[h]
  BY ServesCuts, StartsOn
<1>2. kept \in [Names -> Int]
  BY DEF IInv
<1>3. Weaker(kept', kept)
  BY DEF Weaker
<1>. QED  BY <1>1, <1>2, <1>3, FileCall

\* f_write keeps the invariant.
LEMMA WriteKeeps ==
    ASSUME IInv, NEW h \in Handles, NEW k \in Nat, NEW x, Write(h, k, x)
    PROVE  IInv'
<1> DEFINE v == On(h)
           w == f_write(v, k, x)
<1>1. Idle /\ files[h].open /\ OnFile(h, "write", w) /\ UNCHANGED kept
  BY DEF Write, May, Keep
<1>2. FileOK(v, disk, kept) /\ Placed(v.f)
  BY <1>1, StartsOn
<1> HIDE DEF v
<1>3. Serves(v, w, disk, kept)
  BY <1>2, WriteServes
<1> HIDE DEF w
<1>. QED  BY <1>1, <1>3, KeptFile DEF v

\* f_read keeps it.
LEMMA ReadKeeps ==
    ASSUME IInv, NEW h \in Handles, NEW k \in Nat, Read(h, k)
    PROVE  IInv'
<1> DEFINE v == On(h)
           w == f_read(v, k)
<1>1. Idle /\ files[h].open /\ OnFile(h, "read", w) /\ UNCHANGED kept
  BY DEF Read, May, Keep
<1>2. FileOK(v, disk, kept) /\ Placed(v.f)
  BY <1>1, StartsOn
<1> HIDE DEF v
<1>3. Serves(v, w, disk, kept)
  BY <1>2, ReadServes
<1> HIDE DEF w
<1>. QED  BY <1>1, <1>3, KeptFile DEF v

\* f_lseek keeps it.
LEMMA SeekKeeps ==
    ASSUME IInv, NEW h \in Handles, NEW p \in Nat, Seek(h, p)
    PROVE  IInv'
<1> DEFINE v == On(h)
           w == f_lseek(v, p)
<1>1. Idle /\ files[h].open /\ OnFile(h, "seek", w) /\ UNCHANGED kept
  BY DEF Seek, May, Keep
<1>2. FileOK(v, disk, kept) /\ Placed(v.f)
  BY <1>1, StartsOn
<1> HIDE DEF v
<1>3. Serves(v, w, disk, kept)
  BY <1>2, SeekServes
<1> HIDE DEF w
<1>. QED  BY <1>1, <1>3, KeptFile DEF v

\* A promise ends.
LEMMA ForgetWeakens ==
    ASSUME IInv, NEW n \in Names, Forget(n)
    PROVE  /\ kept' = Forgot(kept, n) /\ Weaker(kept', kept)
           /\ kept' \in [Names -> Int] /\ ~(kept'[n] >= 0)
<1>1. kept \in [Names -> Int] /\ kept' = Forgot(kept, n)
  BY DEF IInv, Forget, Forgot
<1>. QED  BY <1>1, ForgotWeaker

\* f_truncate keeps the invariant: the promise to the file has ended.
LEMMA TruncateKeeps ==
    ASSUME IInv, NEW h \in Handles, Truncate(h)
    PROVE  IInv'
<1> DEFINE v == On(h)
           w == f_truncate(v)
           n == files[h].name
<1>1. Idle /\ files[h].open /\ OnFile(h, "truncate", w) /\ Forget(n)
  BY DEF Truncate, May
<1>2. FileOK(v, disk, kept) /\ Placed(v.f) /\ n \in Names
  BY <1>1, StartsOn DEF FileOK, FileTyped
<1> HIDE DEF v
<1>3. Cuts(v, w, disk, kept)
  BY <1>2, TruncateCuts
<1> HIDE DEF w
<1>4. Weaker(kept', kept) /\ kept' \in [Names -> Int] /\ ~(kept'[n] >= 0)
  BY <1>1, <1>2, ForgetWeakens
<1>. QED  BY <1>1, <1>3, <1>4, FileCall DEF v

\* f_getfree keeps it.
LEMMA GetFreeKeeps ==
    ASSUME IInv, GetFree
    PROVE  IInv'
<1> DEFINE v == View
           w == f_getfree(v)
           c == [op |-> "getfree"]
<1>1. Idle /\ Run(c, w, {}) /\ UNCHANGED <<kept, files>>
  BY DEF GetFree, Keep
<1>2. /\ OK(v, disk, kept) /\ Counts(v)
      /\ FilesOK(files, Dir(Image(v)), Lag(v), kept)
  BY <1>1, StartsView
<1> HIDE DEF v
<1>3. OK(w, disk, kept) /\ Calm(v, w)
  BY <1>2, GetFreeOK
<1>4. c.op \in Plain
  BY DEF Plain
<1> HIDE DEF w, c
<1>5. Counts(w) /\ Dir(Image(w)) = Dir(Image(v)) /\ Lag(w) \subseteq Lag(v)
  BY <1>2, <1>3 DEF Calm
<1>6. Weaker(kept, kept) /\ kept \in [Names -> Int]
  BY DEF Weaker, IInv
<1>7. FilesOK(files', Dir(Image(w)), Lag(w), kept')
  BY <1>1, <1>2, <1>5, <1>6, FilesKept
<1>8. c # NoCall /\ Answered(c, files', w)
  BY <1>4, PlainCall
<1>. QED  BY <1>1, <1>3, <1>5, <1>6, <1>7, <1>8, Resumes

-----------------------------------------------------------------------------
\* f_sync and f_close.

\* f_sync and f_close: what they vouch for is in the entry, and on the disk.
Saves(h) ==
    LET v == On(h)
        w == f_sync(v)
    IN /\ OK(w, disk, kept) /\ Counts(w) /\ FileFits(w.f, Dir(Image(w)), kept)
       /\ w.f.slot = files[h].slot /\ w.f.slot \notin Lag(w)
       /\ FilesOK([files EXCEPT ![h] = w.f], Dir(Image(w)), Lag(w), kept)
       /\ w.f.name = files[h].name
       /\ Vouched(h, w) \in Int
       /\ Vouched(h, w) >= 0 =>
            /\ Holds(Dir(w.disk), w.f.name, Vouched(h, w))
            /\ Holds(Dir(Image(w)), w.f.name, Vouched(h, w))
            /\ w.f.size >= Vouched(h, w)
       /\ Vouched(h, w) # Twice => kept[w.f.name] # Twice

\* f_sync of a modified object vouches for its size.
LEMMA SavesModified ==
    ASSUME IInv, Idle, NEW h \in Handles, files[h].open, files[h].modified
    PROVE  Saves(h)
<1> DEFINE v == On(h)
           f == files[h]
           e == Dir(Image(v))
           w == f_sync(v)
           g == w.f
           e2 == Dir(Image(w))
           s == Vouched(h, w)
<1>1. /\ FileOK(v, disk, kept) /\ Counts(v) /\ v.f = f
      /\ FilesOK(files, e, Lag(v), kept)
  BY StartsOn
<1>2. FileFits(f, e, kept) /\ f.modified
  BY <1>1, OpenFits
<1>3. f.slot \in Slots /\ f.name \in Names /\ f.size \in Nat /\ e[f.slot].name = f.name
      /\ (kept[f.name] >= 0 => f.size >= kept[f.name]) /\ Placed(f)
  BY <1>2 DEF FileFits, FileTyped, Backed
<1> HIDE DEF v, f
<1>4. /\ FileOK(w, disk, kept) /\ Lag(w) = {} /\ w.disk = Image(w)
      /\ Counts(v) => Counts(w)
      /\ g.name = f.name /\ g.slot = f.slot /\ g.size = f.size
      /\ g.fptr = f.fptr /\ g.err = f.err /\ ~g.modified
      /\ \E x : e2 = [e EXCEPT ![f.slot] = x] /\ x.name = f.name /\ x.size = f.size
  BY <1>1, <1>2, <1>3, SyncWrites
<1>5. s = IF kept[f.name] = Twice THEN Twice ELSE g.size
  BY <1>2 DEF Vouched, f
<1>6. PICK x : e2 = [e EXCEPT ![f.slot] = x] /\ x.name = f.name /\ x.size = f.size
  BY <1>4
<1>7. DOMAIN e = Slots
  BY DEF Dir
<1> HIDE DEF w, g, s, e, e2
<1>8. e2[f.slot] = x /\ \A i \in Slots : i # f.slot => e2[i] = e[i]
  BY <1>3, <1>6, <1>7
<1>9. FileFits(g, e2, kept)
  <2>1. FileTyped(g)
    BY <1>4 DEF FileOK, g
  <2>2. Placed(g)
    BY <1>3, <1>4 DEF Placed
  <2>3. Backed(g, e2, kept)
    <3>1. f.size <= f.size
      BY <1>3
    <3>. QED  BY <1>3, <1>4, <1>6, <1>8, <3>1 DEF Backed
  <2>. QED  BY <2>1, <2>2, <2>3 DEF FileFits
<1>10. s >= 0 => Holds(e2, g.name, s) /\ Holds(Dir(w.disk), g.name, s)
  <2> HAVE s >= 0
  <2>1. f.size >= f.size /\ s = g.size
    BY <1>3, <1>5 DEF Twice
  <2>2. Holds(e2, g.name, s)
    BY <1>3, <1>4, <1>6, <1>8, <2>1 DEF Holds
  <2>. QED  BY <1>4, <2>2 DEF e2
<1>11. FilesOK([files EXCEPT ![h] = g], e2, Lag(w), kept)
  <2>1. \A k \in Handles : files[k].open /\ files[k].slot = g.slot => k = h
    BY <1>1, <1>4 DEF FilesOK, Apart, f
  <2>2. files[h].open => files[h].slot = g.slot
    BY <1>4 DEF f
  <2>3. Lag(w) \subseteq Lag(v) \cup {g.slot} /\ ~(g.slot \in Lag(w)) /\ Weaker(kept, kept)
    BY <1>4 DEF Weaker
  <2>4. \A i \in Slots : i # g.slot => e2[i] = e[i]
    BY <1>4, <1>8
  <2>. QED  BY <1>1, <1>9, <2>1, <2>2, <2>3, <2>4, FilesSet
<1>12. /\ OK(w, disk, kept) /\ Counts(w) /\ g.slot \notin Lag(w)
       /\ g.slot = files[h].slot /\ g.name = files[h].name
  BY <1>1, <1>4 DEF FileOK, f
<1>13. s \in Int /\ (s >= 0 => g.size >= s) /\ (s # Twice => kept[g.name] # Twice)
  BY <1>3, <1>4, <1>5 DEF Twice
<1>. QED  BY <1>9, <1>10, <1>11, <1>12, <1>13 DEF Saves, v, w, g, s, e2

\* f_sync of an object that is not modified writes nothing, and vouches for what its
\* entry says.
LEMMA SavesClean ==
    ASSUME IInv, Idle, NEW h \in Handles, files[h].open, ~files[h].modified
    PROVE  Saves(h)
<1> DEFINE v == On(h)
           f == files[h]
           e == Dir(Image(v))
           w == f_sync(v)
           s == Vouched(h, w)
           n == f.name
<1>0. Saves(h) <=>
       /\ OK(w, disk, kept) /\ Counts(w) /\ FileFits(w.f, Dir(Image(w)), kept)
       /\ w.f.slot = f.slot /\ w.f.slot \notin Lag(w)
       /\ FilesOK([files EXCEPT ![h] = w.f], Dir(Image(w)), Lag(w), kept)
       /\ w.f.name = f.name
       /\ s \in Int
       /\ s >= 0 =>
            /\ Holds(Dir(w.disk), w.f.name, s)
            /\ Holds(Dir(Image(w)), w.f.name, s)
            /\ w.f.size >= s
       /\ s # Twice => kept[w.f.name] # Twice
  BY DEF Saves
<1>1. /\ FileOK(v, disk, kept) /\ Counts(v) /\ v.f = f
      /\ FilesOK(files, e, Lag(v), kept)
  BY StartsOn
<1>2. FileFits(f, e, kept)
  BY <1>1, OpenFits
<1>3. /\ f.slot \in Slots /\ n \in Names /\ f.size \in Nat /\ e[f.slot].name = n
      /\ (kept[n] >= 0 => f.size >= kept[n])
      /\ (~f.err => f.size <= e[f.slot].size)
  BY <1>2 DEF FileFits, FileTyped, Backed
<1>4. w = v
  BY <1>1 DEF f_sync
<1> HIDE DEF w
<1>5. f.slot \notin Lag(v)
  BY <1>1 DEF FilesOK, Owned, Apart
<1>6. s = IF kept[n] = Twice \/ f.err THEN kept[n] ELSE f.size
  BY <1>1, <1>4 DEF Vouched
<1> HIDE DEF v, s
<1>7. s \in Int /\ (s >= 0 => f.size >= s) /\ (s # Twice => kept[n] # Twice)
  <2>1. kept[n] \in Int
    BY <1>3 DEF IInv
  <2>. QED  BY <1>3, <1>6, <2>1
<1>8. s >= 0 => Holds(Dir(v.disk), n, s) /\ Holds(e, n, s)
  <2>1. CASE kept[n] = Twice \/ f.err
    <3>1. Good(v.disk, kept) /\ Good(Image(v), kept)
      BY <1>1, ReadOK DEF FileOK, OK
    <3>. QED  BY <1>3, <1>6, <2>1, <3>1 DEF Good, DirGood, Promise
  <2>2. CASE ~(kept[n] = Twice \/ f.err)
    <3>1. Dir(v.disk)[f.slot] = e[f.slot]
      BY <1>3, <1>5 DEF Lag, Late, Image, Dir
    <3>2. e[f.slot].size \in Nat
      BY <1>1, <1>3, ReadOK, EntryIn DEF FileOK
    <3>3. s = f.size /\ e[f.slot].size >= s
      BY <1>3, <1>6, <2>2, <3>2
    <3>. QED  BY <1>3, <3>1, <3>3 DEF Holds
  <2>. QED  BY <2>1, <2>2
<1>9. FilesOK([files EXCEPT ![h] = v.f], e, Lag(v), kept)
  <2>1. [files EXCEPT ![h] = v.f] = files
    BY <1>1 DEF FilesOK
  <2>. QED  BY <1>1, <2>1
<1>10. /\ OK(v, disk, kept) /\ Counts(v) /\ FileFits(v.f, e, kept)
       /\ v.f.slot = f.slot /\ v.f.slot \notin Lag(v) /\ v.f.name = n
       /\ v.f.size = f.size
  BY <1>1, <1>2, <1>5 DEF FileOK
<1>11. /\ OK(w, disk, kept) /\ Counts(w) /\ FileFits(w.f, Dir(Image(w)), kept)
       /\ w.f.slot = f.slot /\ w.f.slot \notin Lag(w)
       /\ FilesOK([files EXCEPT ![h] = w.f], Dir(Image(w)), Lag(w), kept)
       /\ w.f.name = f.name
       /\ s \in Int
       /\ s >= 0 =>
            /\ Holds(Dir(w.disk), w.f.name, s)
            /\ Holds(Dir(Image(w)), w.f.name, s)
            /\ w.f.size >= s
       /\ s # Twice => kept[w.f.name] # Twice
  BY <1>4, <1>7, <1>8, <1>9, <1>10
<1>. QED  BY <1>0, <1>11

\* f_sync and f_close keep the invariant.
LEMMA SyncKeeps ==
    ASSUME IInv, NEW h \in Handles, SyncFile(h) \/ Close(h)
    PROVE  IInv'
<1> DEFINE v == On(h)
           w == f_sync(v)
           f == files[h]
           s == Vouched(h, w)
           e == Dir(Image(w))
<1>0. PICK op \in {"sync", "close"} : Idle /\ f.open /\ OnFile(h, op, w) /\ UNCHANGED kept
  BY DEF SyncFile, Close, May, Keep
<1> DEFINE c == [op |-> op, name |-> f.name, size |-> s, cut |-> f.cut]
           fs == [files EXCEPT ![h] = IF op = "close" THEN NoFile ELSE w.f]
           fs1 == [files EXCEPT ![h] = w.f]
<1>1. Saves(h)
  BY <1>0, SavesModified, SavesClean, StartsOn DEF FileOK, FileTyped
<1>2. Run(c, w, {f.name}) /\ files' = fs
  BY <1>0 DEF OnFile
<1>3. c.op \in {"sync", "close"} /\ c.name = f.name /\ c.size = s /\ NoCall.op = "none"
  BY DEF NoCall
<1>4. /\ OK(w, disk, kept) /\ Counts(w) /\ FileFits(w.f, e, kept)
      /\ w.f.slot = f.slot /\ w.f.slot \notin Lag(w)
      /\ FilesOK(fs1, e, Lag(w), kept)
      /\ w.f.name = f.name
      /\ s \in Int
      /\ s >= 0 => Holds(Dir(w.disk), f.name, s) /\ Holds(e, f.name, s) /\ w.f.size >= s
      /\ s # Twice => kept[f.name] # Twice
  BY <1>1 DEF Saves
<1>5. files = [k \in Handles |-> files[k]] /\ kept \in [Names -> Int]
  BY <1>0, StartsOn DEF FilesOK, IInv
<1> HIDE DEF v, w, s, c, e
<1>6. fs1[h] = w.f /\ fs1 = [k \in Handles |-> fs1[k]] /\ w.f.open = TRUE /\ w.f.name \in Names
  BY <1>4, <1>5 DEF FileFits, FileTyped
<1>7. FilesOK(fs, e, Lag(w), kept)
  <2>1. CASE op = "close"
    <3>1. fs = [fs1 EXCEPT ![h] = NoFile]
      BY <1>5, <2>1
    <3> HIDE DEF fs, fs1
    <3>. QED  BY <1>4, <1>6, <3>1, FilesClosed
  <2>2. CASE op # "close"
    BY <1>4, <2>2
  <2>. QED  BY <2>1, <2>2
<1>8. ASSUME NEW k \in Handles, fs[k].open, fs[k].name = f.name, s >= 0
      PROVE  fs[k].size >= s
  <2>1. fs[k] = fs1[k]
    BY <1>5, <1>8 DEF NoFile
  <2>2. Distinct(e, kept) /\ kept[f.name] # Twice
    BY <1>4, <1>8 DEF OK, Good, DirGood, Twice, e
  <2> HIDE DEF fs, fs1, f
  <2>3. k = h
    BY <1>4, <1>6, <1>8, <2>1, <2>2, NameOnce
  <2>. QED  BY <1>4, <1>6, <1>8, <2>1, <2>3
<1>9. s # Twice => Once(Dir(w.disk), f.name) /\ Once(e, f.name)
  <2>1. Good(w.disk, kept) /\ Good(Image(w), kept)
    BY <1>4, ReadOK DEF OK
  <2>. QED  BY <1>4, <1>6, <2>1 DEF Good, DirGood, Distinct, e
<1>10. Answered(c, fs, w)
  BY <1>3, <1>4, <1>6, <1>8, <1>9 DEF Answered, e
<1>11. c # NoCall
  BY <1>3
<1>. QED  BY <1>0, <1>2, <1>4, <1>5, <1>7, <1>10, <1>11, Resumes DEF e

-----------------------------------------------------------------------------
\* f_unlink and f_rename as calls.

\* The slots of the open files are locked.
LEMMA LockedSlots ==
    ASSUME NEW h \in Handles, files[h].open
    PROVE  files[h].slot \in Locked
  BY DEF Locked

\* f_unlink keeps it: the promise to the name has ended.
LEMMA UnlinkKeeps ==
    ASSUME IInv, NEW n \in Names, Unlink(n)
    PROVE  IInv'
<1> DEFINE v == View
           w == f_unlink(v, n, Locked)
           c == [op |-> "unlink"]
           L == Forgot(kept, n)
           e == Dir(Image(v))
           idle == w.log = <<>> /\ w.win = vol.win
           S == Locked
<1>1. Idle /\ Run(c, w, {n}) /\ files' = files /\ (IF ~idle THEN Forget(n) ELSE UNCHANGED kept)
  BY DEF Unlink, Keep
<1>2. /\ OK(v, disk, kept) /\ Counts(v)
      /\ FilesOK(files, e, Lag(v), kept)
      /\ v.log = <<>> /\ v.disk = disk /\ v.win = vol.win
  BY <1>1, StartsView
<1>3. kept \in [Names -> Int] /\ Weaker(L, kept) /\ ~(L[n] >= 0) /\ L \in [Names -> Int]
  BY ForgotWeaker DEF IInv
<1>4. ~idle => kept' = L
  BY <1>1 DEF Forget, Forgot
<1>5. \A h \in Handles : files[h].open => files[h].slot \in S
  BY LockedSlots
<1> HIDE DEF v, S, L
<1>6. OK(v, disk, L)
  BY <1>2, <1>3, OKWeaker
<1>7. /\ OK(w, disk, L)
      /\ \/ Calm(v, w)
         \/ \E i \in Slots \ S :
              /\ e[i].name = n
              /\ Changes(v, w, i, DeletedEntry) /\ Lag(w) = {}
  BY <1>3, <1>6, UnlinkOK DEF S
<1>8. c.op \in Plain
  BY DEF Plain
<1> HIDE DEF w, c
<1>9. c # NoCall /\ Answered(c, files', w)
  BY <1>8, PlainCall
<1>10. Counts(w)
  BY <1>2, <1>7 DEF Calm, Changes
<1>11. CASE idle
  <2>1. kept' = kept /\ Weaker(kept, kept)
    BY <1>1, <1>11 DEF Weaker
  <2>2. w.disk = v.disk /\ w.win = v.win
    BY <1>2, <1>7, <1>11, TimelineEnds DEF OK
  <2>3. Image(w) = Image(v) /\ Lag(w) = Lag(v) /\ w.log = v.log
    BY <1>2, <1>11, <2>2 DEF Image, Lag
  <2>4. OK(w, disk, kept)
    BY <1>2, <1>7, <2>2, <2>3 DEF OK
  <2>. QED  BY <1>1, <1>2, <1>3, <1>9, <1>10, <2>1, <2>3, <2>4, Resumes
<1>12. CASE ~idle
  <2>1. kept' = L
    BY <1>4, <1>12
  <2> HIDE DEF idle
  <2>2. FilesOK(files, Dir(Image(w)), Lag(w), L)
    <3>1. CASE Calm(v, w)
      <4>1. Dir(Image(w)) = e /\ Lag(w) \subseteq Lag(v)
        BY <3>1 DEF Calm
      <4>. QED  BY <1>2, <1>3, <4>1, FilesKept
    <3>2. CASE ~Calm(v, w)
      <4>1. PICK i \in Slots \ S : Changes(v, w, i, DeletedEntry) /\ Lag(w) = {}
        BY <1>7, <3>2
      <4> DEFINE e2 == Dir(Image(w))
      <4>2. e2 = [e EXCEPT ![i] = DeletedEntry] /\ Lag(w) \subseteq Lag(v) /\ DOMAIN e = Slots
        BY <4>1 DEF Changes, Dir
      <4> HIDE DEF e2, e
      <4>3. \A h \in Handles : files[h].open => e2[files[h].slot] = e[files[h].slot]
        <5>1. \A h \in Handles : files[h].open => files[h].slot \in Slots
          BY <1>2, OpenFits DEF FileFits, FileTyped
        <5>. QED  BY <1>5, <4>2, <5>1
      <4>4. FilesOK(files, e2, Lag(w), L)
        BY <1>2, <1>3, <4>2, <4>3, FilesKept
      <4>. QED  BY <4>4 DEF e2
    <3>. QED  BY <3>1, <3>2
  <2>. QED  BY <1>1, <1>3, <1>7, <1>9, <1>10, <2>1, <2>2, Resumes
<1>. QED  BY <1>11, <1>12

\* f_rename keeps it: the promise passes to the new name.
LEMMA RenameKeeps ==
    ASSUME IInv, NEW old \in Names, NEW new \in Names, Rename(old, new)
    PROVE  IInv'
<1> DEFINE v == View
           S == Locked
           w == f_rename(v, old, new, S)
           done == w.ret = Renamed
           size == IF done /\ kept[old] >= 0 THEN kept[old] ELSE kept[new]
           c == [op |-> "rename", old |-> old, name |-> new, size |-> size]
           L == Passed(kept, old, new)
           e == Dir(Image(v))
           f == Dir(Image(w))
<1>1. /\ Idle /\ Run(c, w, {old, new}) /\ files' = files
      /\ IF done THEN IF old = new THEN kept' = [kept EXCEPT ![old] = Twice] ELSE Forget(old)
         ELSE UNCHANGED kept
  BY DEF Rename, Keep
<1>2. /\ OK(v, disk, kept) /\ Counts(v)
      /\ FilesOK(files, e, Lag(v), kept)
  BY <1>1, StartsView
<1>3. kept \in [Names -> Int] /\ Weaker(L, kept) /\ L \in [Names -> Int]
  BY PassedWeaker DEF IInv
<1>4. done => kept' = L
  BY <1>1 DEF Forget, Forgot, Passed
<1>5. \A h \in Handles : files[h].open => files[h].slot \in S /\ FileFits(files[h], e, kept)
  BY <1>2, LockedSlots, OpenFits
<1>6. c.op = "rename" /\ c.name = new /\ c.size = size /\ NoCall.op = "none" /\ size \in Int
  BY <1>3 DEF NoCall
<1>7. Promise(e, kept) /\ Distinct(e, kept) /\ DOMAIN e = Slots
  BY <1>2 DEF OK, Good, DirGood, Dir
<1> HIDE DEF v, S, L, c, size
<1>8. \/ w.ret # Renamed /\ OK(w, disk, kept) /\ Calm(v, w)
      \/ /\ w.ret = Renamed /\ OK(w, disk, L)
         /\ Lag(w) = {} /\ w.disk = Image(w)
         /\ Counts(v) => Counts(w)
         /\ old # new => ~(kept[new] >= 0) /\ NewName(e, new)
         /\ \E i \in Slots \ S, j \in Slots : Moves(e, f, i, j, old, new)
  BY <1>2, <1>3, RenameOK DEF L
<1> HIDE DEF w
<1>9. c # NoCall
  BY <1>6
<1>10. CASE ~done
  <2>1. kept' = kept /\ Weaker(kept, kept) /\ size = kept[new]
    BY <1>1, <1>10 DEF Weaker, size
  <2>2. OK(w, disk, kept) /\ f = e /\ Lag(w) \subseteq Lag(v) /\ Counts(w)
    BY <1>2, <1>8, <1>10 DEF Calm
  <2> HIDE DEF e, f
  <2>3. FilesOK(files, f, Lag(w), kept)
    BY <1>2, <2>1, <2>2, FilesKept
  <2>4. size >= 0 => Holds(f, new, size) /\ Holds(Dir(w.disk), new, size)
    <3>1. Good(w.disk, kept)
      BY <2>2, ReadOK
    <3>. QED  BY <1>7, <2>1, <2>2, <3>1 DEF Promise, Good, DirGood
  <2>5. \A h \in Handles : size >= 0 /\ files[h].open /\ files[h].name = new => files[h].size >= size
    BY <1>5, <2>1 DEF FileFits, Backed
  <2>7. size # Twice => Once(f, new) /\ Once(Dir(w.disk), new)
    <3>1. Good(w.disk, kept)
      BY <2>2, ReadOK
    <3>. QED  BY <1>7, <2>1, <2>2, <3>1 DEF Distinct, Good, DirGood
  <2>6. Answered(c, files, w)
    BY <1>6, <2>4, <2>5, <2>7 DEF Answered, f
  <2>. QED  BY <1>1, <1>3, <1>9, <2>1, <2>2, <2>3, <2>6, Resumes DEF f
<1>11. CASE done
  <2>1. kept' = L /\ size = IF kept[old] >= 0 THEN kept[old] ELSE kept[new]
    BY <1>4, <1>11 DEF size
  <2>2. OK(w, disk, L) /\ Lag(w) = {} /\ w.disk = Image(w) /\ Counts(w)
    BY <1>2, <1>8, <1>11
  <2>3. PICK i \in Slots \ S, j \in Slots : Moves(e, f, i, j, old, new)
    BY <1>8, <1>11
  <2>0. (old # new => ~(kept[new] >= 0) /\ NewName(e, new)) /\ ~(Twice >= 0)
    BY <1>8, <1>11 DEF Twice
  <2> HIDE DEF e, f, done
  <2>4. size # Twice => Once(f, new)
    <3> HAVE size # Twice
    <3>1. CASE old # new
      BY <2>0, <2>3, <3>1, NamesApart DEF Moves, NewName, Once
    <3>2. CASE old = new
      <4>1. Once(e, old)
        BY <1>7, <2>0, <2>1, <3>2 DEF Distinct
      <4>. QED  BY <2>3, <3>2, <4>1, NamesApart DEF Moves, Once
    <3>. QED  BY <3>1, <3>2
  <2>5. ASSUME NEW h \in Handles, files[h].open
        PROVE  /\ files[h].slot \in Slots /\ files[h].slot # i /\ files[h].slot # j
               /\ f[files[h].slot] = e[files[h].slot]
               /\ size # Twice => files[h].name # new
    <3> DEFINE k == files[h].slot
    <3>1. k \in Slots /\ k \in S /\ e[k].name = files[h].name /\ files[h].name \in Names
      BY <1>5, <2>5 DEF FileFits, FileTyped, Backed
    <3>2. k # i /\ k # j
      BY <2>3, <3>1, NamesApart DEF Moves
    <3> HIDE DEF k
    <3>3. f[k] = e[k]
      BY <2>3, <3>1, <3>2 DEF Moves
    <3>4. size # Twice => f[k].name # new
      BY <2>3, <2>4, <3>1, <3>2 DEF Moves, Once
    <3>. QED  BY <3>1, <3>2, <3>3, <3>4 DEF k
  <2>6. FilesOK(files, f, Lag(w), L)
    <3>1. Lag(w) \subseteq Lag(v)
      BY <2>2
    <3>. QED  BY <1>2, <1>3, <2>5, <3>1, FilesKept
  <2>7. size >= 0 => Holds(f, new, size)
    <3> HAVE size >= 0
    <3>3. size = kept[old] /\ kept[old] # Twice
      BY <2>0, <2>1
    <3>1. PICK k \in Slots : e[k].name = old /\ e[k].size >= size
      BY <1>7, <3>3 DEF Promise, Holds
    <3>2. k = i
      BY <1>7, <2>3, <3>1, <3>3 DEF Moves, Distinct, Once
    <3>. QED  BY <2>3, <3>1, <3>2 DEF Moves, Holds
  <2>8. Answered(c, files, w)
    <3>1. Dir(w.disk) = f
      BY <2>2 DEF f
    <3>2. size >= 0 => size # Twice
      BY <2>0
    <3>. QED  BY <1>6, <2>4, <2>5, <2>7, <3>1, <3>2 DEF Answered, f
  <2>. QED  BY <1>1, <1>3, <1>9, <2>1, <2>2, <2>6, <2>8, Resumes DEF f
<1>. QED  BY <1>10, <1>11

-----------------------------------------------------------------------------
\* f_open as a call, and what follows a call.

\* f_open keeps it, in each of its modes.
LEMMA OpenKeeps ==
    ASSUME IInv, NEW h \in Handles, NEW n \in Names, NEW mode \in {"existing", "append", "always"},
           Open(h, n, mode)
    PROVE  IInv'
<1> DEFINE v == View
           S == Locked
           o == [View EXCEPT !.f = NoFile]
           w == f_open(v, n, mode, S)
           g == w.f
           op == IF mode = "existing" THEN "open" ELSE mode
           c == [op |-> op]
           e == Dir(Image(v))
           e2 == Dir(Image(w))
           L == IF mode = "always" THEN Forgot(kept, n) ELSE kept
           fs == [files EXCEPT ![h] = g]
<1>0. o = View
  BY DEF View
<1>1. /\ Idle /\ Run(c, w, {n}) /\ files' = fs /\ ~files[h].open
      /\ IF mode = "always" /\ g.open THEN Forget(n) ELSE UNCHANGED kept
  BY <1>0 DEF Open, Keep
<1>2. /\ OK(v, disk, kept) /\ Counts(v) /\ v.f = NoFile
      /\ FilesOK(files, e, Lag(v), kept)
  BY <1>1, StartsView
<1>3. kept \in [Names -> Int] /\ Weaker(L, kept) /\ Weaker(kept, kept) /\ L \in [Names -> Int]
  BY ForgotWeaker DEF IInv, Weaker
<1>4. c.op \in Plain
  BY DEF Plain
<1>5. (g.open => kept' = L) /\ (~g.open => kept' = kept)
  BY <1>1 DEF Forget, Forgot
<1>6. \A k \in Handles : files[k].open => files[k].slot \in S /\ FileFits(files[k], e, kept)
  BY <1>2, LockedSlots, OpenFits
<1>7. Promise(e, kept) /\ DOMAIN e = Slots
  BY <1>2 DEF OK, Good, DirGood, Dir
<1> HIDE DEF v, S, L
<1>8. \/ OK(w, disk, kept) /\ g = NoFile /\ Still(v, w)
      \/ OK(w, disk, L) /\ Opens(v, w, n, L, S)
  BY <1>2, <1>3, OpenOK DEF L
<1> HIDE DEF w, c, op
<1>9. c # NoCall /\ Answered(c, fs, w)
  BY <1>4, PlainCall
<1>10. CASE OK(w, disk, kept) /\ g = NoFile /\ Still(v, w)
  <2>1. kept' = kept
    BY <1>5, <1>10 DEF NoFile
  <2>2. files[h] = NoFile
    BY <1>1, <1>2, OpenFits
  <2>3. fs = files
    BY <1>2, <1>10, <2>2 DEF FilesOK
  <2>4. Counts(w) /\ e2 = e /\ Lag(w) \subseteq Lag(v)
    BY <1>2, <1>10 DEF Still
  <2> HIDE DEF fs, e, e2
  <2>5. FilesOK(fs, e2, Lag(w), kept)
    BY <1>2, <1>3, <2>3, <2>4, FilesKept
  <2>. QED  BY <1>1, <1>3, <1>9, <1>10, <2>1, <2>4, <2>5, Resumes DEF e2
<1>11. CASE OK(w, disk, L) /\ Opens(v, w, n, L, S)
  <2> HIDE DEF g, fs, e, e2
  <2>1. PICK i \in Slots :
          \/ /\ FileOf(g, i, n, e[i].size, FALSE)
             /\ i \notin S /\ e[i].name = n /\ Still(v, w)
          \/ /\ Fresh(v, w, i, n) /\ ~(L[n] >= 0)
             /\ \/ e[i].name \in {End, Deleted}
                \/ e[i].name = n /\ i \notin S
    BY <1>11 DEF Opens, g, e
  <2>2. /\ FileTyped(g) /\ Placed(g) /\ g.slot = i /\ g.name = n /\ Counts(w)
    BY <1>2, <2>1 DEF FileOf, Fresh, Still, g
  <2>3. kept' = L
    BY <1>5, <2>2 DEF FileTyped
  <2>4. /\ \A k \in Slots : k # i => e2[k] = e[k]
        /\ Lag(w) \subseteq Lag(v) \cup {i} /\ (i \in Lag(w) => g.modified)
        /\ FileFits(g, e2, L)
    <3>1. CASE FileOf(g, i, n, e[i].size, FALSE) /\ e[i].name = n /\ i \notin S /\ Still(v, w)
      <4>1. e2 = e /\ Lag(w) \subseteq Lag(v)
        BY <3>1 DEF Still, e, e2
      <4>2. i \notin Lag(v)
        BY <1>2, <1>6, <3>1 DEF FilesOK, Owned
      <4>3. g.size = e[i].size /\ g.size \in Nat
        BY <2>2, <3>1 DEF FileOf, FileTyped
      <4>4. L[n] >= 0 => g.size >= L[n]
        <5>1. ASSUME kept[n] >= 0 PROVE g.size >= kept[n]
          <6>1. PICK k \in Slots : e[k].name = n /\ e[k].size >= kept[n]
            BY <1>7, <5>1 DEF Promise, Holds
          <6>2. Distinct(e, kept) /\ kept[n] # Twice
            BY <1>2, <5>1 DEF OK, Good, DirGood, Twice, e
          <6>3. k = i
            BY <3>1, <6>1, <6>2 DEF Distinct, Once
          <6>. QED  BY <4>3, <6>1, <6>3
        <5>. QED  BY <1>3, <5>1 DEF Weaker
      <4>5. g.size <= e2[i].size
        BY <4>1, <4>3
      <4>6. Backed(g, e2, L)
        BY <2>2, <3>1, <4>1, <4>4, <4>5 DEF Backed
      <4>. QED  BY <2>2, <4>1, <4>2, <4>6 DEF FileFits
    <3>2. CASE Fresh(v, w, i, n) /\ ~(L[n] >= 0)
      <4>1. FileOf(g, i, n, 0, TRUE) /\ Lag(w) \subseteq Lag(v) \cup {i}
        BY <3>2 DEF Fresh, g
      <4>2. PICK x : e2 = [e EXCEPT ![i] = x] /\ x.name = n
        BY <3>2 DEF Fresh, e, e2
      <4>3. e2[i] = x /\ \A k \in Slots : k # i => e2[k] = e[k]
        BY <1>7, <4>2
      <4>4. g.modified
        BY <4>1 DEF FileOf
      <4>5. Backed(g, e2, L)
        BY <2>2, <3>2, <4>2, <4>3, <4>4 DEF Backed
      <4>. QED  BY <2>2, <4>1, <4>3, <4>4, <4>5 DEF FileFits
    <3>. QED  BY <2>1, <3>1, <3>2
  <2>5. \A k \in Handles : files[k].open /\ files[k].slot = g.slot => k = h
    <3> SUFFICES ASSUME NEW k \in Handles, files[k].open PROVE files[k].slot # i
      BY <2>2
    <3>1. /\ files[k].slot \in S /\ e[files[k].slot].name = files[k].name
          /\ files[k].name \in Names
      BY <1>6 DEF FileFits, FileTyped, Backed
    <3>. QED  BY <2>1, <3>1, NamesApart
  <2>6. FilesOK(fs, e2, Lag(w), L)
    <3>1. files[h].open => files[h].slot = g.slot
      BY <1>1
    <3>2. \A k \in Slots : k # g.slot => e2[k] = e[k]
      BY <2>2, <2>4
    <3>3. Lag(w) \subseteq Lag(v) \cup {g.slot} /\ (g.slot \in Lag(w) => g.modified)
      BY <2>2, <2>4
    <3>4. FilesOK([files EXCEPT ![h] = g], e2, Lag(w), L)
      BY <1>2, <1>3, <2>4, <2>5, <3>1, <3>2, <3>3, FilesSet
    <3>. QED  BY <3>4 DEF fs
  <2>. QED  BY <1>1, <1>3, <1>9, <1>11, <2>2, <2>3, <2>6, Resumes DEF e2
<1>. QED  BY <1>8, <1>10, <1>11

-----------------------------------------------------------------------------
\* A sector of the queue reaches the disk.
LEMMA WriteSectorKeeps ==
    ASSUME IInv, WriteSector
    PROVE  IInv'
<1>1. PICK v : Behind(v) /\ Serving(v, files, call, disk, kept)
  BY DEF IInv
<1> DEFINE q == Tail(queue)
           w == [v EXCEPT !.log = q]
<1>2. /\ queue # <<>> /\ disk' = [disk EXCEPT ![Head(queue)[1]] = Head(queue)[2]]
      /\ queue' = q /\ UNCHANGED <<vol, files, call, kept>>
  BY DEF WriteSector
<1>3. /\ DOMAIN w = DOMAIN v /\ w.disk = v.disk /\ w.log = q /\ w.win = v.win /\ w.free = v.free
  BY <1>1 DEF Serving, OK, Fields
<1> HIDE DEF w, q
<1>4. Image(w) = Image(v) /\ Lag(w) = Lag(v)
  BY <1>3 DEF Image, Lag
<1>5. Timeline(disk', w.log, w.disk, kept)
  <2>1. Timeline(disk, queue, v.disk, kept)
    BY <1>1 DEF Serving, OK, Behind
  <2>. QED  BY <1>2, <1>3, <2>1, TimelineShift DEF q
<1>6. OK(w, disk', kept')
  BY <1>1, <1>2, <1>3, <1>4, <1>5 DEF Serving, OK
<1>7. Counts(w) /\ FilesOK(files', Dir(Image(w)), Lag(w), kept') /\ Answered(call', files', w)
  BY <1>1, <1>2, <1>3, <1>4 DEF Serving, Counts, Answered
<1>8. Serving(w, files', call', disk', kept') /\ w.log = queue' /\ w.win = vol'.win /\ w.free = vol'.free
  BY <1>1, <1>2, <1>3, <1>6, <1>7 DEF Serving, Behind
<1>9. ~Idle'
  BY <1>2 DEF IInv, Idle
<1>. QED  BY <1>2, <1>8, <1>9 DEF IInv, Behind

\* The call returns, and what it vouches for is promised.
LEMMA ReturnKeeps ==
    ASSUME IInv, Return
    PROVE  IInv'
<1>1. PICK v : Behind(v) /\ Serving(v, files, call, disk, kept)
  BY DEF IInv
<1> DEFINE vouched == call.op \in {"sync", "close", "rename"}
           n == call.name
           s == call.size
           L == IF vouched THEN [kept EXCEPT ![n] = s] ELSE kept
           e == Dir(Image(v))
<1>2. /\ queue = <<>> /\ kept' = L /\ call' = NoCall
      /\ UNCHANGED <<disk, queue, vol, files>>
  BY DEF Return
<1>3. kept \in [Names -> Int]
  BY DEF IInv
<1>4. /\ OK(v, disk, kept) /\ Counts(v) /\ FilesOK(files, e, Lag(v), kept)
      /\ Answered(call, files, v)
  BY <1>1 DEF Serving
<1>5. v.log = <<>> /\ v.disk = disk
  <2>1. v.log = <<>>
    BY <1>1, <1>2 DEF Behind
  <2>. QED  BY <1>4, <2>1, TimelineEnds DEF OK
<1>6. vouched => /\ n \in Names /\ s \in Int
                 /\ s >= 0 => /\ Holds(Dir(v.disk), n, s) /\ Holds(e, n, s)
                              /\ \A h \in Handles : files[h].open /\ files[h].name = n => files[h].size >= s
                 /\ s # Twice => Once(Dir(v.disk), n) /\ Once(e, n)
  BY <1>4 DEF Answered
<1>7. L \in [Names -> Int]
  BY <1>3, <1>6
<1>8. \A m \in Names : \/ L[m] = kept[m]
                       \/ vouched /\ m = n /\ L[m] = s
  BY <1>3, <1>6
<1> HIDE DEF L
<1>9. ASSUME NEW d, Good(d, kept), vouched /\ s >= 0 => Holds(Dir(d), n, s),
             vouched /\ s # Twice => Once(Dir(d), n)
      PROVE  Good(d, L)
  <2>1. Promise(Dir(d), L)
    BY <1>8, <1>9 DEF Good, DirGood, Promise
  <2>2. Distinct(Dir(d), L)
    BY <1>8, <1>9 DEF Good, DirGood, Distinct
  <2>. QED  BY <1>9, <2>1, <2>2 DEF Good, DirGood
<1>10. Good(disk, L) /\ Good(Image(v), L)
  <2>1. Good(disk, kept) /\ Good(Image(v), kept)
    BY <1>4, <1>5, ReadOK DEF OK
  <2>. QED  BY <1>5, <1>6, <1>9, <2>1
<1>11. OK(v, disk, L)
  <2>1. Timeline(disk, v.log, v.disk, L)
    BY <1>5, <1>10, TimelineEmpty
  <2>. QED  BY <1>4, <1>10, <2>1 DEF OK
<1>12. FilesOK(files, e, Lag(v), L)
  <2>1. ASSUME NEW h \in Handles, files[h] # NoFile
        PROVE  FileFits(files[h], e, L)
    <3>1. FileFits(files[h], e, kept) /\ files[h].name \in Names /\ files[h].open
      BY <1>4, <2>1 DEF FilesOK, FileFits, FileTyped
    <3> HIDE DEF e, n, s, vouched
    <3>2. L[files[h].name] >= 0 => files[h].size >= L[files[h].name]
      <4>1. CASE L[files[h].name] = kept[files[h].name]
        BY <3>1, <4>1 DEF FileFits, Backed
      <4>2. CASE vouched /\ files[h].name = n /\ L[files[h].name] = s
        BY <1>6, <3>1, <4>2
      <4>. QED  BY <1>8, <3>1, <4>1, <4>2
    <3>3. Backed(files[h], e, L)
      BY <3>1, <3>2 DEF FileFits, Backed
    <3>. QED  BY <3>1, <3>3 DEF FileFits
  <2>. QED  BY <1>4, <2>1 DEF FilesOK
<1>13. Answered(NoCall, files, v)
  BY DEF Answered, NoCall
<1>14. Serving(v, files', call', disk', kept') /\ Behind(v)'
  <2>1. Serving(v, files, NoCall, disk, L)
    BY <1>4, <1>11, <1>12, <1>13 DEF Serving
  <2>2. v.log = queue' /\ v.win = vol'.win /\ v.free = vol'.free
    BY <1>1, <1>2 DEF Behind
  <2>. QED  BY <1>2, <2>1, <2>2 DEF Behind
<1>. QED  BY <1>2, <1>7, <1>14 DEF IInv

\* A volume that is mounted on a good disk, with no file open.
LEMMA Mounts ==
    ASSUME NEW d, NEW K, Good(d, K), NEW fs, fs = [h \in Handles |-> NoFile]
    PROVE  \E v : /\ v.log = <<>> /\ v.win = Mounted.win /\ v.free = Mounted.free
                  /\ Serving(v, fs, NoCall, d, K)
<1> DEFINE v == [disk |-> d, log |-> <<>>, win |-> Mounted.win, free |-> Mounted.free,
                 last |-> Mounted.last, ret |-> 0, f |-> NoFile, out |-> <<>>]
<1>1. Mounted.win = NoWindow /\ Mounted.free = Unknown
  BY DEF Mounted
<1>2. /\ Fields \subseteq DOMAIN v /\ v.disk = d /\ v.log = <<>> /\ v.win = NoWindow /\ v.free = Unknown
  BY <1>1 DEF Fields
<1> HIDE DEF v
<1>3. WinOK(v.disk, v.win)
  BY <1>2 DEF WinOK, NoWindow
<1>4. Image(v) = d /\ v.disk = Image(v)
  BY <1>2 DEF Image, Overlaid, NoWindow
<1>5. Lag(v) = {}
  BY <1>4, LagImage
<1>6. OK(v, d, K)
  BY <1>2, <1>3, <1>4, TimelineEmpty DEF OK
<1>7. Counts(v)
  <2>1. ~(Unknown <= NumClusters)
    BY ClusterNumbers
  <2>. QED  BY <1>2, <2>1 DEF Counts
<1>8. FilesOK(fs, Dir(Image(v)), Lag(v), K)
  <2>1. \A h \in Handles : fs[h] = NoFile /\ ~fs[h].open
    BY DEF NoFile
  <2>2. Apart(fs) /\ Owned(fs, Lag(v))
    BY <1>5, <2>1 DEF Apart, Owned
  <2>. QED  BY <2>1, <2>2 DEF FilesOK
<1>9. Answered(NoCall, fs, v)
  BY DEF Answered, NoCall
<1>10. Serving(v, fs, NoCall, d, K)
  BY <1>6, <1>7, <1>8, <1>9 DEF Serving
<1>. QED  BY <1>1, <1>2, <1>10

\* The program is killed: what is on the disk is good, and nothing else is left.
LEMMA KillKeeps ==
    ASSUME IInv, Kill
    PROVE  IInv'
<1>1. /\ queue' = <<>> /\ vol' = Mounted /\ call' = NoCall
      /\ files' = [h \in Handles |-> NoFile] /\ UNCHANGED <<disk, kept>>
  BY DEF Kill
<1>2. Good(disk, kept)
  BY TimelineEnds DEF IInv, Serving, OK
<1>3. \E v : /\ v.log = <<>> /\ v.win = Mounted.win /\ v.free = Mounted.free
             /\ Serving(v, files', NoCall, disk, kept)
  BY <1>1, <1>2, Mounts
<1>. QED  BY <1>1, <1>3 DEF IInv, Behind

-----------------------------------------------------------------------------
\* The theorems about every behaviour.

\* What f_mkfs leaves is good, and promises nothing.
LEMMA FormattedIs ==
    /\ Formatted = [s \in Sectors |-> Formatted[s]]
    /\ \A s \in FatSectors : Formatted[s] = BlankFat(s)
    /\ \A s \in DirSectors : Formatted[s] = [i \in SlotsIn(s) |-> NoEntry]
<1>1. \A s \in FatSectors : s \in Sectors /\ s < dirbase /\ s \notin DirSectors
  BY Places
<1>2. \A s \in DirSectors : s \in Sectors /\ ~(s < dirbase)
  BY Places
<1> DEFINE what(s) == CASE s < dirbase -> BlankFat(s)
                        [] s \in DirSectors -> [i \in {j \in Slots : SlotSect(j) = s} |-> NoEntry]
                        [] OTHER -> Erased
<1>3. Formatted = [s \in Sectors |-> what(s)]
  BY DEF Formatted, Sectors
<1>4. ASSUME NEW s \in FatSectors PROVE what(s) = BlankFat(s)
  BY <1>1
<1>5. ASSUME NEW s \in DirSectors PROVE what(s) = [i \in SlotsIn(s) |-> NoEntry]
  BY <1>2 DEF SlotsIn
<1> HIDE DEF what
<1>. QED  BY <1>1, <1>2, <1>3, <1>4, <1>5

\* It is a good disk, and nothing is promised.
LEMMA FormattedGood ==
    ASSUME NEW K, K = [n \in Names |-> None]
    PROVE  Good(Formatted, K)
<1> DEFINE d == Formatted
<1>1. /\ d = [s \in Sectors |-> d[s]]
      /\ \A s \in FatSectors : d[s] = [k \in Cells(s) |-> 0]
      /\ \A s \in DirSectors : d[s] = [i \in SlotsIn(s) |-> NoEntry]
  BY FormattedIs DEF BlankFat
<1> HIDE DEF d
<1>2. Typed(d)
  <2>1. 0 \in Digits
    BY DEF Digits, HalfBase
  <2>2. NoEntry \in EntryRecs
    BY DEF NoEntry, EntryRecs
  <2>3. \A s \in DirSectors : d[s] \in [SlotsIn(s) -> EntryRecs]
    BY <1>1, <2>2
  <2>4. Whole(d)
    BY <1>1, <2>1 DEF Whole
  <2>. QED  BY <2>3, <2>4 DEF Typed
<1>3. NoOnes(Table(d))
  <2>1. ASSUME NEW c \in Clusters PROVE FatOn(d, c) = 0
    <3>1. ASSUME NEW s \in FatSectors, NEW k \in Cells(s) PROVE d[s][k] = 0
      BY <1>1
    <3>2. d[LowSect(c)][<<c, "lo">>] = 0 /\ d[HighSect(c)][<<c, "hi">>] = 0
      BY <3>1, CellSects
    <3>. QED  BY <3>2 DEF FatOn, HalfBase
  <2>. QED  BY <2>1 DEF NoOnes, Table
<1>4. ASSUME NEW i \in Slots PROVE Dir(d)[i] = NoEntry
  <2> DEFINE s == SlotSect(i)
  <2>1. s \in DirSectors /\ i \in SlotsIn(s)
    BY SlotPlace
  <2>2. Dir(d)[i] = d[s][i]
    BY DEF Dir, Entry
  <2> HIDE DEF s
  <2>3. d[s] = [j \in SlotsIn(s) |-> NoEntry]
    BY <1>1, <2>1
  <2>4. d[s][i] = NoEntry
    BY <2>1, <2>3
  <2>. QED  BY <2>2, <2>4
<1>5. NoEntry.name = End /\ End \notin Names
  BY VolumeAssumption DEF NoEntry
<1> DEFINE e == Dir(d)
<1> HIDE DEF e
<1>6. DirGood(e, K)
  BY <1>4, <1>5 DEF DirGood, Ended, Distinct, Once, Promise, None, e
<1>. QED  BY <1>2, <1>3, <1>6 DEF Good, e, d

\* The volume begins freshly formatted.
LEMMA InitHolds ==
    ASSUME Init
    PROVE  IInv
<1>1. /\ disk = Formatted /\ queue = <<>> /\ vol = Mounted /\ call = NoCall
      /\ files = [h \in Handles |-> NoFile] /\ kept = [n \in Names |-> None]
  BY DEF Init
<1>2. kept \in [Names -> Int]
  BY <1>1 DEF None
<1>3. Good(disk, kept)
  BY <1>1, FormattedGood
<1>4. \E v : /\ v.log = <<>> /\ v.win = Mounted.win /\ v.free = Mounted.free
             /\ Serving(v, files, NoCall, disk, kept)
  BY <1>1, <1>3, Mounts
<1>. QED  BY <1>1, <1>2, <1>4 DEF IInv, Behind

\* Every step keeps the invariant.
LEMMA StepKeeps ==
    ASSUME IInv, [Next]_vars
    PROVE  IInv'
<1>0. Sizes \subseteq Nat /\ 0 .. MaxSize \subseteq Nat
  BY VolumeAssumption DEF Sizes
<1>1. ASSUME NEW h \in Handles, NEW n \in Names, NEW m \in {"existing", "append", "always"},
             Open(h, n, m)
      PROVE  IInv'
  BY <1>1, OpenKeeps
<1>2. ASSUME NEW h \in Handles, NEW k \in Sizes, NEW x, Write(h, k, x)
      PROVE  IInv'
  BY <1>0, <1>2, WriteKeeps
<1>3. ASSUME NEW h \in Handles, NEW k \in Sizes, Read(h, k)
      PROVE  IInv'
  BY <1>0, <1>3, ReadKeeps
<1>4. ASSUME NEW h \in Handles, NEW p \in 0 .. MaxSize, Seek(h, p)
      PROVE  IInv'
  BY <1>0, <1>4, SeekKeeps
<1>5. ASSUME NEW h \in Handles, SyncFile(h) \/ Close(h)
      PROVE  IInv'
  BY <1>5, SyncKeeps
<1>6. ASSUME NEW h \in Handles, Truncate(h)
      PROVE  IInv'
  BY <1>6, TruncateKeeps
<1>7. ASSUME NEW n \in Names, Unlink(n)
      PROVE  IInv'
  BY <1>7, UnlinkKeeps
<1>8. ASSUME NEW old \in Names, NEW new \in Names, Rename(old, new)
      PROVE  IInv'
  BY <1>8, RenameKeeps
<1>9. CASE GetFree
  BY <1>9, GetFreeKeeps
<1>10. CASE WriteSector
  BY <1>10, WriteSectorKeeps
<1>11. CASE Return
  BY <1>11, ReturnKeeps
<1>12. CASE Kill
  BY <1>12, KillKeeps
<1>13. CASE UNCHANGED vars
  BY <1>13 DEF vars, IInv, Idle, Behind, Serving, Answered
<1>. QED
  BY <1>1, <1>2, <1>3, <1>4, <1>5, <1>6, <1>7, <1>8, <1>9, <1>10, <1>11, <1>12, <1>13 DEF Next

\* In every behaviour, whatever the program calls and whenever it is killed, the disk
\* is good and the calls see what the queue will have made of it.  (Good promises that a
\* name is listed once unless kept says Twice: from a rename of the name onto itself until
\* that call returns, and for good when the program is killed before.)
THEOREM VolumeInvariant == Spec => []IInv
<1>1. Init => IInv
  BY InitHolds
<1>2. IInv /\ [Next]_vars => IInv'
  BY StepKeeps
<1>. QED  BY <1>1, <1>2, PTL DEF Spec

\* The invariant counts the free clusters.
LEMMA CountHolds ==
    ASSUME IInv
    PROVE  FreeCount
<1> SUFFICES ASSUME Idle, vol.free <= NumClusters
             PROVE  vol.free = Cardinality({c \in Clusters : FatOn(Seen, c) = 0})
  BY DEF FreeCount
<1>1. PICK v : Behind(v) /\ Serving(v, files, call, disk, kept)
  BY DEF IInv
<1>2. v.log = <<>> /\ v.win = vol.win /\ v.free = vol.free /\ Counts(v)
  BY <1>1 DEF IInv, Behind, Serving
<1>3. v.disk = disk
  BY <1>1, <1>2, TimelineEnds DEF Serving, OK
<1>4. Image(v) = Seen
  BY <1>2, <1>3 DEF Image, Seen
<1>. QED  BY <1>2, <1>4 DEF Counts, FreeIn

\* Between two calls the free count of the FATFS object, once known, is the number of
\* free clusters in the FAT: create_chain, remove_chain and f_getfree keep it right.
THEOREM FreeCountStaysRight == Spec => []FreeCount
<1>1. IInv => FreeCount
  BY CountHolds
<1>. QED  BY <1>1, VolumeInvariant, PTL

\* An entry with a name is listed: no end marker lies before it.
LEMMA Listed ==
    ASSUME NEW d, Ended(Dir(d)), NEW i \in Slots, Entry(d, i).name \in Names
    PROVE  i \in Entries(d)
<1>1. Entry(d, i).name # Deleted /\ Entry(d, i).name # End
  BY VolumeAssumption
<1>2. ASSUME NEW j \in 0 .. i PROVE Entry(d, j).name # End
  <2>1. j \in Slots /\ i \in Nat
    BY SlotPlace
  <2>2. CASE j = i
    BY <1>1, <2>2
  <2>3. CASE j # i
    BY <1>1, <2>1, <2>3 DEF Ended, Dir
  <2>. QED  BY <2>2, <2>3
<1>. QED  BY <1>1, <1>2 DEF Entries, Entry

\* The invariant keeps the promises.
LEMMA PromiseHolds ==
    ASSUME IInv
    PROVE  ClosedFilesSurvive
<1>1. Good(disk, kept)
  BY TimelineEnds DEF IInv, Serving, OK
<1> SUFFICES ASSUME NEW n \in Names, kept[n] >= 0
             PROVE  \E i \in Entries(disk) : Entry(disk, i).name = n /\ Entry(disk, i).size >= kept[n]
  BY DEF ClosedFilesSurvive
<1>2. PICK i \in Slots : Dir(disk)[i].name = n /\ Dir(disk)[i].size >= kept[n]
  BY <1>1 DEF Good, DirGood, Promise, Holds
<1>3. Entry(disk, i).name = n /\ Entry(disk, i).size >= kept[n]
  BY <1>2 DEF Dir
<1>4. i \in Entries(disk)
  BY <1>1, <1>3, Listed DEF Good, DirGood
<1>. QED  BY <1>3, <1>4

\* A file whose f_sync or f_close returned stays on the disk with at least that size,
\* whatever is written, renamed, closed or killed later.
THEOREM ClosedFilesStay == Spec => []ClosedFilesSurvive
<1>1. IInv => ClosedFilesSurvive
  BY PromiseHolds
<1>. QED  BY <1>1, VolumeInvariant, PTL
=============================================================================
