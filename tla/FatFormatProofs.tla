-------------------------- MODULE FatFormatProofs ---------------------------
(***************************************************************************)
(* Theorems about FatFormat, for every drive and every request of a format. *)
(***************************************************************************)
EXTENDS FatFormat, FiniteSetTheorems, TLAPS

(***************************************************************************)
(* Arithmetic.                                                             *)
(***************************************************************************)
ClusterSizes == {1, 2, 4, 8, 16, 32, 64, 128}

\* Division by the size of a cluster.
LEMMA Division ==
    ASSUME NEW x \in Nat, NEW p \in ClusterSizes
    PROVE  /\ x \div p \in Nat /\ (x \div p) * p <= x /\ x < (x \div p) * p + p
           /\ x \div p <= x
           /\ \A y \in Nat : y <= x => y \div p <= x \div p
BY DEF ClusterSizes

\* Rounding up to a multiple of the erase block.
LEMMA Rounding ==
    ASSUME NEW x \in Nat, NEW b \in Powers
    PROVE  /\ Ceil(x, b) * b \in Nat /\ x <= Ceil(x, b) * b /\ Ceil(x, b) * b < x + b
           /\ (Ceil(x, b) * b) % b = 0
           /\ b = 1 => Ceil(x, b) * b = x
BY DEF Powers, Ceil

\* A number below zero is too large a number of clusters for FAT12 and FAT16.
LEMMA Negative ==
    ASSUME NEW x \in Int, NEW p \in ClusterSizes, Dword(x) \div p <= MAX_FAT16
    PROVE  x \in Nat /\ Dword(x) = x
BY DEF Dword, ClusterSizes, MAX_FAT16

\* The tables of cluster sizes, whatever they are looked up with.
LEMMA AutoSizes ==
    ASSUME NEW table, DOMAIN table = 1 .. 6, NEW units
    PROVE  AutoSize(table, units) \in ClusterSizes
<1>. DEFINE S == {i \in DOMAIN table : table[i] <= units}
<1>1. IsFiniteSet(1 .. 6) /\ Cardinality(1 .. 6) = 6
  <2>1. IsFiniteSet(1 .. 6) /\ Cardinality(1 .. 6) = IF 1 > 6 THEN 0 ELSE 6 - 1 + 1
    <3>1. 1 \in Int /\ 6 \in Int
      OBVIOUS
    <3>. QED  BY <3>1, FS_Interval, Zenon
  <2>. QED  BY <2>1
<1>2. IsFiniteSet(S) /\ Cardinality(S) <= 6
  BY <1>1, FS_Subset
<1>3. Cardinality(S) \in Nat
  BY <1>2, FS_CardinalityType
<1>4. Cardinality(S) \in {0, 1, 2, 3, 4, 5, 6}
  BY <1>2, <1>3
<1>. QED  BY <1>4 DEF AutoSize, Doubled, ClusterSizes

(***************************************************************************)
(* The layout.                                                             *)
(***************************************************************************)

\* The sectors of a volume that are not taken by its tables.
Left(l) == sz_vol - l.rsv - l.fat - l.dir

\* The bytes of the FAT of n clusters, as find_volume counts them.
FatBytes(fmt, n) ==
    IF fmt = "FAT32" THEN (n + 2) * 4
    ELSE IF fmt = "FAT16" THEN (n + 2) * 2
    ELSE ((n + 2) * 3) \div 2 + ((n + 2) % 2)

\* What f_mkfs must have seen to, for its layout to be found again.
LayoutOK(l) ==
    /\ l.fmt \in {"FAT12", "FAT16", "FAT32"} /\ l.pau \in ClusterSizes
    /\ l.rsv \in Nat /\ l.rsv > 0 /\ l.rsv < 65536 /\ l.dir = (IF l.fmt = "FAT32" THEN 0 ELSE 8)
    /\ l.fat \in Nat \ {0} /\ (l.fmt # "FAT32" => l.fat < 65536)
    /\ Left(l) \in Nat /\ l.n_clst = Left(l) \div l.pau
    /\ l.fmt = "FAT12" => l.n_clst <= MAX_FAT12
    /\ l.fmt = "FAT16" => l.n_clst > MAX_FAT12 /\ l.n_clst <= MAX_FAT16
    /\ l.fmt = "FAT32" => l.n_clst > MAX_FAT16
    /\ FatBytes(l.fmt, l.n_clst) <= ss * l.fat
    /\ (b_vol + l.rsv + l.fat + l.dir) % sz_blk = 0
    /\ l.n_clst # 0 \/ NoRoom(l)

\* The running call, and the numbers of the drive it is for.
CallOK ==
    /\ sz_vol \in Nat /\ sz_vol >= 128
    /\ call.au \in {0} \cup ClusterSizes
    /\ call.fmt \in {"FAT16", "FAT32"}

\* The disk and the call are records of their fields.
DiskShape ==
    /\ disk = [parts |-> disk.parts, boot |-> disk.boot, fsinfo |-> disk.fsinfo, area |-> disk.area]
    /\ disk.area \in [Areas -> {"erased", "old", "kept", "fresh"}]
CallShape ==
    call = [pc |-> call.pc, opt |-> call.opt, auto |-> call.auto, au |-> call.au,
            fmt |-> call.fmt, lay |-> call.lay, missed |-> call.missed]
Shapes == drive \in Drives /\ DiskShape /\ CallShape

LEMMA BlockSize == sz_blk \in Powers /\ sz_blk \in Nat \ {0}
BY DEF sz_blk, Powers

LEMMA PauSize ==
    ASSUME CallOK
    PROVE  pau \in ClusterSizes
<1>1. DOMAIN cst = 1 .. 6 /\ DOMAIN cst32 = 1 .. 6
  BY DEF cst, cst32
<1>2. CASE call.au # 0
  BY <1>2 DEF CallOK, pau
<1>3. CASE call.au = 0 /\ call.fmt = "FAT32"
  <2>1. pau = AutoSize(cst32, sz_vol \div 131072)
    BY <1>3 DEF pau
  <2>. QED  BY <1>1, <2>1, AutoSizes
<1>4. CASE call.au = 0 /\ call.fmt # "FAT32"
  <2>1. pau = AutoSize(cst, sz_vol \div 4096)
    BY <1>4 DEF pau
  <2>. QED  BY <1>1, <2>1, AutoSizes
<1>. QED  BY <1>2, <1>3, <1>4

\* The bytes that f_mkfs counts for the FAT of n clusters.
Bytes(fmt, n) ==
    IF fmt = "FAT32" THEN 4 * n + 8
    ELSE IF fmt = "FAT16" THEN 2 * n + 4
    ELSE (3 * n + 1) \div 2 + 3

LEMMA BytesSize ==
    ASSUME NEW n \in Nat, NEW fmt
    PROVE  /\ Bytes(fmt, n) \in Nat /\ Bytes(fmt, n) >= 3
           /\ fmt # "FAT32" => Bytes(fmt, n) <= 2 * n + 6
           /\ fmt = "FAT32" => Bytes(fmt, n) = 4 * n + 8
<1>1. CASE fmt = "FAT32"
  BY <1>1 DEF Bytes
<1>2. CASE fmt = "FAT16"
  BY <1>2 DEF Bytes
<1>3. CASE fmt # "FAT32" /\ fmt # "FAT16"
  <2>1. Bytes(fmt, n) = (3 * n + 1) \div 2 + 3
    BY <1>3 DEF Bytes
  <2>. QED  BY <1>3, <2>1
<1>. QED  BY <1>1, <1>2, <1>3

\* The sectors those bytes take.
LEMMA BytesSectors ==
    ASSUME NEW x \in Nat
    PROVE  /\ Ceil(x, ss) \in Nat /\ x <= 2048 * Ceil(x, ss) /\ 2048 * Ceil(x, ss) <= x + 2047
           /\ x > 0 => Ceil(x, ss) > 0
BY DEF Ceil, ss

\* The FAT of n clusters is large enough for any smaller number of them.
LEMMA FatLargeEnough ==
    ASSUME NEW n \in Nat, NEW k \in Nat, k <= n, NEW fmt, NEW fat \in Nat,
           Bytes(fmt, n) <= 2048 * fat
    PROVE  FatBytes(fmt, k) <= ss * fat
<1>1. CASE fmt = "FAT32"
  BY <1>1 DEF FatBytes, Bytes, ss
<1>2. CASE fmt = "FAT16"
  BY <1>2 DEF FatBytes, Bytes, ss
<1>3. CASE fmt # "FAT32" /\ fmt # "FAT16"
  <2>1. ((k + 2) * 3) \div 2 + ((k + 2) % 2) <= (3 * n + 1) \div 2 + 3
    OBVIOUS
  <2>2. Bytes(fmt, n) = (3 * n + 1) \div 2 + 3
    BY <1>3 DEF Bytes
  <2>3. FatBytes(fmt, k) = ((k + 2) * 3) \div 2 + ((k + 2) % 2)
    BY <1>3 DEF FatBytes
  <2>4. FatBytes(fmt, k) <= Bytes(fmt, n)
    BY <2>1, <2>2, <2>3
  <2>5. FatBytes(fmt, k) \in Int /\ Bytes(fmt, n) \in Int
    BY <2>2, <2>3
  <2>. QED  BY <2>4, <2>5 DEF ss
<1>. QED  BY <1>1, <1>2, <1>3

\* The number of sectors of a 16-bit FAT fits its field: the padding is less
\* than 2^15, and the clusters it has room for are not many more than there are.
LEMMA FatFits ==
    ASSUME NEW vol \in Nat, NEW p \in ClusterSizes, NEW n \in Nat, n = vol \div p,
           NEW sectors \in Nat, 2048 * sectors <= 2 * n + 2053,
           NEW pad \in Nat, pad < 32768, NEW fat \in Nat, fat = sectors + pad,
           NEW left \in Nat, left = vol - 1 - fat - 8,
           NEW k \in Nat, k = left \div p, k <= MAX_FAT16
    PROVE  fat < 65536
<1>1. n * p <= vol
  BY Division
<1>2. left < k * p + p
  BY Division
<1>3. k <= 65525
  BY DEF MAX_FAT16
<1>4. n <= 65535 + fat
  <2>1. n * p < k * p + p + fat + 9
    BY <1>1, <1>2 DEF ClusterSizes
  <2>. QED  BY <1>3, <2>1 DEF ClusterSizes
<1>. QED  BY <1>4

\* A layout that f_mkfs goes on with is one that find_volume finds again.
LEMMA FitGood ==
    ASSUME CallOK, ~Unfit(Fit), ~TooFew(Fit), ~TooMany(Fit)
    PROVE  LayoutOK(Fit)
<1>. DEFINE n == sz_vol \div pau
            fmt == IF call.fmt = "FAT32" \/ n > MAX_FAT12 THEN call.fmt ELSE "FAT12"
            bytes == IF fmt = "FAT32" THEN 4 * n + 8
                     ELSE IF fmt = "FAT16" THEN 2 * n + 4
                     ELSE (3 * n + 1) \div 2 + 3
            dir == IF fmt = "FAT32" THEN 0 ELSE (n_rootdir * SZDIRE) \div ss
            rsv == IF fmt = "FAT32" THEN 32 ELSE 1
            sectors == Ceil(bytes, ss)
            b_data == b_vol + rsv + sectors + dir
            pad == Ceil(b_data, sz_blk) * sz_blk - b_data
            fat == sectors + IF fmt = "FAT32" THEN 0 ELSE pad
            rsv2 == rsv + IF fmt = "FAT32" THEN pad ELSE 0
            left == sz_vol - rsv2 - fat - dir
<1>1. /\ Fit.fmt = fmt /\ Fit.pau = pau /\ Fit.guess = n /\ Fit.rsv = rsv2 /\ Fit.fat = fat
      /\ Fit.dir = dir /\ Fit.n_clst = Dword(left) \div pau
      /\ Fit.small = (sz_vol < b_data + pau * 16 - b_vol)
  BY Zenon DEF Fit, Clusters
<1>2. pau \in ClusterSizes /\ sz_vol \in Nat
  BY PauSize DEF CallOK
<1>3. n \in Nat /\ n <= sz_vol /\ n * pau <= sz_vol
  BY <1>2, Division
<1>4. fmt \in {"FAT12", "FAT16", "FAT32"} /\ (fmt = "FAT12" => n <= MAX_FAT12)
  BY <1>3 DEF CallOK, MAX_FAT12
<1>5. bytes = Bytes(fmt, n)
  BY Zenon DEF Bytes
<1>6. dir = (IF fmt = "FAT32" THEN 0 ELSE 8) /\ rsv = (IF fmt = "FAT32" THEN 32 ELSE 1)
  BY DEF n_rootdir, SZDIRE, ss
<1>7. /\ b_data = b_vol + rsv + sectors + dir
      /\ pad = Ceil(b_data, sz_blk) * sz_blk - b_data
      /\ fat = sectors + IF fmt = "FAT32" THEN 0 ELSE pad
      /\ rsv2 = rsv + IF fmt = "FAT32" THEN pad ELSE 0
      /\ left = sz_vol - rsv2 - fat - dir
  BY Zenon
<1>8. sectors = Ceil(bytes, ss) /\ n = sz_vol \div pau
  BY Zenon
<1>. HIDE DEF n, fmt, bytes, dir, rsv, sectors, b_data, pad, fat, rsv2, left
<1>9. /\ bytes \in Nat /\ bytes > 0
      /\ fmt # "FAT32" => bytes <= 2 * n + 6
      /\ fmt = "FAT32" => bytes = 4 * n + 8
  BY <1>3, <1>5, BytesSize
<1>10. sectors \in Nat /\ sectors > 0 /\ bytes <= 2048 * sectors /\ 2048 * sectors <= bytes + 2047
  BY <1>8, <1>9, BytesSectors
<1>11. b_data \in Nat
  BY <1>6, <1>7, <1>10 DEF b_vol
<1>12. sz_blk \in Nat /\ sz_blk <= 32768 /\ sz_blk >= 1 /\ sz_blk \in Powers
  BY BlockSize DEF Powers
<1>13. /\ Ceil(b_data, sz_blk) * sz_blk \in Nat /\ b_data <= Ceil(b_data, sz_blk) * sz_blk
       /\ Ceil(b_data, sz_blk) * sz_blk < b_data + sz_blk
       /\ (Ceil(b_data, sz_blk) * sz_blk) % sz_blk = 0
       /\ sz_blk = 1 => Ceil(b_data, sz_blk) * sz_blk = b_data
  BY <1>11, <1>12, Rounding
<1>. DEFINE up == Ceil(b_data, sz_blk) * sz_blk
<1>14. pad = up - b_data /\ up % sz_blk = 0
  BY <1>7, <1>13
<1>15. up \in Nat /\ b_data <= up /\ up < b_data + sz_blk /\ (sz_blk = 1 => up = b_data)
  BY <1>13
<1>. HIDE DEF up
<1>16. pad \in Nat /\ pad < sz_blk /\ pad < 32768 /\ b_data + pad = up /\ (sz_blk = 1 => pad = 0)
  BY <1>11, <1>12, <1>14, <1>15
<1>17. /\ fat \in Nat /\ fat > 0 /\ sectors <= fat
       /\ rsv2 \in Nat /\ rsv2 > 0 /\ rsv2 < 65536
       /\ b_vol + rsv2 + fat + dir = up /\ dir \in Nat
  <2>1. CASE fmt = "FAT32"
    <3>1. rsv2 = 32 + pad /\ fat = sectors /\ dir = 0 /\ b_data = 95 + sectors
      BY <1>6, <1>7, <1>10, <2>1 DEF b_vol
    <3>2. fat \in Nat /\ fat > 0 /\ sectors <= fat /\ dir \in Nat
      BY <1>10, <3>1
    <3>3. rsv2 \in Nat /\ rsv2 > 0 /\ rsv2 < 65536
      BY <1>16, <3>1
    <3>4. b_vol + rsv2 + fat + dir = up
      BY <1>10, <1>16, <3>1 DEF b_vol
    <3>. QED  BY <3>2, <3>3, <3>4
  <2>2. CASE fmt # "FAT32"
    <3>1. rsv2 = 1 /\ fat = sectors + pad /\ dir = 8 /\ b_data = 72 + sectors
      BY <1>6, <1>7, <1>10, <2>2 DEF b_vol
    <3>2. fat \in Nat /\ fat > 0 /\ sectors <= fat /\ dir \in Nat
      BY <1>10, <1>16, <3>1
    <3>3. rsv2 \in Nat /\ rsv2 > 0 /\ rsv2 < 65536
      BY <3>1
    <3>4. b_vol + rsv2 + fat + dir = up
      BY <1>10, <1>16, <3>1 DEF b_vol
    <3>. QED  BY <3>2, <3>3, <3>4
  <2>. QED  BY <2>1, <2>2
<1>18. left \in Int /\ left <= sz_vol /\ left = sz_vol - rsv2 - fat - dir
  <2>1. left = sz_vol - rsv2 - fat - dir
    BY <1>7, Zenon
  <2>. QED  BY <1>2, <1>17, <2>1
<1>19. left \in Nat /\ Dword(left) = left
  <2>1. CASE fmt = "FAT32"
    <3>1. n > MAX_FAT16
      BY <1>1, <1>3, <2>1 DEF Unfit, MAX_FAT16
    <3>2. 2048 * sectors <= 4 * n + 2055
      BY <1>3, <1>9, <1>10, <2>1
    <3>3. 32 + pad + sectors <= sz_vol
      <4>1. sz_vol \in Nat /\ n \in Nat /\ n <= sz_vol
        BY <1>2, <1>3
      <4>2. sectors \in Nat /\ pad \in Nat /\ pad < 32768
        BY <1>10, <1>16
      <4>. QED  BY ONLY <3>1, <3>2, <4>1, <4>2 DEF MAX_FAT16
    <3>4. left >= 0
      <4>1. rsv2 = 32 + pad /\ fat = sectors /\ dir = 0
        BY <1>6, <1>7, <1>10, <2>1
      <4>. QED  BY <1>2, <1>10, <1>16, <1>18, <3>3, <4>1
    <3>. QED  BY <1>18, <3>4 DEF Dword
  <2>2. CASE fmt # "FAT32"
    <3>1. Dword(left) \div pau <= MAX_FAT16
      <4>1. Dword(left) \div pau \in Int
        BY <1>2, <1>18 DEF Dword, ClusterSizes
      <4>. QED  BY <1>1, <1>4, <2>2, <4>1 DEF TooMany, MAX_FAT12, MAX_FAT16
    <3>. QED  BY <1>2, <1>18, <3>1, Negative
  <2>. QED  BY <2>1, <2>2
<1>. DEFINE k == left \div pau
<1>20. Left(Fit) = left /\ Fit.n_clst = k
  BY <1>1, <1>7, <1>19 DEF Left
<1>21. left <= sz_vol
  BY <1>18
<1>22. k \in Nat /\ k <= n /\ left < k * pau + pau
  BY <1>2, <1>8, <1>19, <1>21, Division
<1>. HIDE DEF k
<1>23. /\ fmt = "FAT12" => k <= MAX_FAT12
       /\ fmt = "FAT16" => k > MAX_FAT12 /\ k <= MAX_FAT16
       /\ fmt = "FAT32" => k > MAX_FAT16
  BY <1>1, <1>20, <1>22 DEF TooFew, TooMany, MAX_FAT12, MAX_FAT16
<1>24. FatBytes(fmt, k) <= ss * fat
  <2>1. Bytes(fmt, n) <= 2048 * fat
    BY <1>5, <1>9, <1>10, <1>17
  <2>. QED  BY <1>3, <1>17, <1>22, <2>1, FatLargeEnough
<1>25. fmt # "FAT32" => fat < 65536
  <2>. SUFFICES ASSUME fmt # "FAT32" PROVE fat < 65536
    OBVIOUS
  <2>1. fat = sectors + pad /\ left = sz_vol - 1 - fat - 8
    BY <1>2, <1>6, <1>7, <1>10, <1>16, <1>17
  <2>2. k <= MAX_FAT16
    BY <1>4, <1>22, <1>23 DEF MAX_FAT12, MAX_FAT16
  <2>3. 2048 * sectors <= 2 * n + 2053
    BY <1>3, <1>9, <1>10
  <2>4. k = left \div pau
    BY DEF k
  <2>. QED  BY <1>2, <1>3, <1>8, <1>10, <1>16, <1>17, <1>19, <1>22, <2>1, <2>2, <2>3, <2>4, FatFits
<1>26. k # 0 \/ NoRoom(Fit)
  <2>. SUFFICES ASSUME k = 0 PROVE NoRoom(Fit)
    OBVIOUS
  <2>1. fmt = "FAT12"
    BY <1>4, <1>23 DEF MAX_FAT12, MAX_FAT16
  <2>2. left < pau
    BY <1>2, <1>19, <1>22 DEF ClusterSizes
  <2>3. ~(sz_vol < b_data + pau * 16 - b_vol)
    BY <1>1 DEF Unfit
  <2>4. pad > 0
    <3>1. pau \in Nat /\ pau >= 1 /\ b_vol = 63
      BY <1>2 DEF ClusterSizes, b_vol
    <3>. QED  BY <1>2, <1>11, <1>16, <1>17, <1>18, <2>2, <2>3, <3>1
  <2>5. sz_blk > 1
    BY <1>12, <1>16, <2>4
  <2>. QED  BY <1>1, <1>20, <2>1, <2>5 DEF NoRoom
<1>. QED  BY <1>1, <1>2, <1>4, <1>6, <1>14, <1>16, <1>17, <1>19, <1>20, <1>23, <1>24, <1>25, <1>26
          DEF LayoutOK

\* The next pass is again about a cluster size that there is.
LEMMA RetryOK ==
    ASSUME CallOK, NEW l, l.pau \in ClusterSizes, CallShape, Retry(l) # NoCall
    PROVE  /\ Retry(l) = [pc |-> call.pc, opt |-> call.opt, auto |-> call.auto, au |-> Retry(l).au,
                          fmt |-> Retry(l).fmt, lay |-> call.lay, missed |-> call.missed]
           /\ Retry(l).au \in {0} \cup ClusterSizes /\ Retry(l).fmt \in {"FAT16", "FAT32"}
<1>1. CASE Retry(l) = [call EXCEPT !.au = l.pau \div 2] /\ l.pau \div 2 # 0
  <2>1. l.pau \div 2 \in ClusterSizes
    BY <1>1 DEF ClusterSizes
  <2>. QED  BY <1>1, <2>1 DEF CallOK, CallShape
<1>2. CASE Retry(l) = AsFat32
  BY <1>2 DEF AsFat32, CallOK, CallShape
<1>3. CASE Retry(l) = Larger(l) /\ l.pau * 2 <= 128
  <2>1. 2 * l.pau \in ClusterSizes
    BY <1>3 DEF ClusterSizes
  <2>. QED  BY <1>3, <2>1 DEF Larger, CallOK, CallShape
<1>. QED  BY <1>1, <1>2, <1>3 DEF Retry

(***************************************************************************)
(* The state.                                                              *)
(***************************************************************************)

\* The layout is a matter of the drive, which no one changes.
LEMMA SameDrive ==
    ASSUME drive' = drive
    PROVE  sz_vol' = sz_vol /\ sz_blk' = sz_blk
BY DEF sz_vol, sz_blk

\* A call is refused or begins with its arguments.
LEMMA Begins ==
    ASSUME NEW r \in Requests, f_mkfs(r.opt, r.au)
    PROVE  /\ call.pc = "idle" /\ drive' = drive /\ disk' = disk
           /\ \/ call' = NoCall
              \/ /\ ~(sz_vol < 128) /\ ~(r.au > 128)
                 /\ \E fmt \in {"FAT16", "FAT32"} :
                      call' = [pc |-> "fit", opt |-> r.opt, auto |-> (r.au = 0), au |-> r.au,
                               fmt |-> fmt, lay |-> NoRecord, missed |-> {}]
           /\ res' # "ok"
<1>. DEFINE fmt == IF "FAT32" \in r.opt /\ "FAT" \notin r.opt THEN "FAT32" ELSE "FAT16"
<1>1. /\ call.pc = "idle" /\ UNCHANGED <<drive, disk>>
      /\ IF sz_vol < 128 THEN Answer("aborted")
         ELSE IF r.au > 128 \/ r.opt \cap {"FAT", "FAT32"} = {} THEN Answer("invalid")
         ELSE /\ call' = [NoCall EXCEPT !.pc = "fit", !.opt = r.opt, !.auto = r.au = 0,
                                        !.au = r.au, !.fmt = fmt]
              /\ res' = "none"
  BY Zenon DEF f_mkfs
<1>2. fmt \in {"FAT16", "FAT32"}
  OBVIOUS
<1>. HIDE DEF fmt
<1>3. ASSUME call' = [NoCall EXCEPT !.pc = "fit", !.opt = r.opt, !.auto = r.au = 0,
                                   !.au = r.au, !.fmt = fmt]
      PROVE  call' = [pc |-> "fit", opt |-> r.opt, auto |-> (r.au = 0), au |-> r.au,
                      fmt |-> fmt, lay |-> NoRecord, missed |-> {}]
  BY <1>3 DEF NoCall
<1>4. Answer("aborted") \/ Answer("invalid") => call' = NoCall /\ res' # "ok"
  BY DEF Answer
<1>. QED  BY <1>1, <1>2, <1>3, <1>4, Zenon

\* A pass answers, or goes on with the layout it found, or tries another.
LEMMA Passes ==
    ASSUME Pass, CallShape
    PROVE  /\ call.pc = "fit" /\ drive' = drive /\ disk' = disk
           /\ \/ call' = NoCall
              \/ /\ ~Unfit(Fit) /\ ~TooFew(Fit) /\ ~TooMany(Fit)
                 /\ call' = [pc |-> "trim", opt |-> call.opt, auto |-> call.auto, au |-> call.au,
                             fmt |-> call.fmt, lay |-> Fit, missed |-> call.missed]
              \/ Retry(Fit) # NoCall /\ call' = Retry(Fit)
           /\ res' \in {res, "aborted"}
<1>1. /\ IF Unfit(Fit) THEN Answer("aborted")
         ELSE IF ~TooFew(Fit) /\ ~TooMany(Fit)
           THEN call' = [call EXCEPT !.pc = "trim", !.lay = Fit] /\ res' = res
         ELSE IF Retry(Fit) = NoCall THEN Answer("aborted")
         ELSE call' = Retry(Fit) /\ res' = res
  BY Zenon DEF Pass
<1>2. call.pc = "fit" /\ drive' = drive /\ disk' = disk
  BY DEF Pass, Untouched
<1>3. ASSUME call' = [call EXCEPT !.pc = "trim", !.lay = Fit]
      PROVE  call' = [pc |-> "trim", opt |-> call.opt, auto |-> call.auto, au |-> call.au,
                     fmt |-> call.fmt, lay |-> Fit, missed |-> call.missed]
  BY <1>3 DEF CallShape
<1>4. Answer("aborted") => call' = NoCall /\ res' = "aborted"
  BY DEF Answer
<1>. QED  BY <1>1, <1>2, <1>3, <1>4, Zenon

\* The call goes to its next stage.
Goes(pc) ==
    call' = [pc |-> pc, opt |-> call.opt, auto |-> call.auto, au |-> call.au,
             fmt |-> call.fmt, lay |-> call.lay, missed |-> call.missed]

LEMMA GoGoes ==
    ASSUME CallShape, NEW pc, Go(pc)
    PROVE  Goes(pc) /\ res' = res
BY DEF CallShape, Go, Goes

\* The same after a failure that is not looked at.
GoesWithout(what, pc) ==
    call' = [pc |-> pc, opt |-> call.opt, auto |-> call.auto, au |-> call.au,
             fmt |-> call.fmt, lay |-> call.lay, missed |-> call.missed \cup {what}]

LEMMA GoWithoutGoes ==
    ASSUME CallShape, NEW what, NEW pc, GoWithout(what, pc)
    PROVE  GoesWithout(what, pc) /\ res' = res
BY DEF CallShape, GoWithout, GoesWithout

\* What a table holds after a trim that did not come to it.
LEMMA NotErased ==
    ASSUME DiskShape, NEW a \in Areas, NEW left \in {"old", "kept"}
    PROVE  Unless(a, left) \in {"erased", left}
BY DEF DiskShape, Unless

\* The disk while it is erased: no boot record, and the tables are erased at last.
LEMMA Trims ==
    ASSUME Trim, Shapes
    PROVE  /\ drive' = drive /\ DiskShape' /\ disk'.parts = disk.parts /\ res' = res
           /\ \/ /\ call.pc = "trim" /\ Goes("trimmed")
                 /\ disk'.boot = NoRecord /\ disk'.fsinfo = NoRecord
              \/ /\ call.pc = "trimmed" /\ Goes("boot")
                 /\ disk'.boot = disk.boot /\ disk'.fsinfo = disk.fsinfo
                 /\ \A a \in Areas : disk'.area[a] = "erased"
<1>1. CASE /\ call.pc = "trim" /\ Go("trimmed")
           /\ \E some \in SUBSET Areas :
                Put([disk EXCEPT !.boot = NoRecord, !.fsinfo = NoRecord,
                                 !.area = [a \in Areas |-> IF a \in some THEN "erased"
                                                           ELSE Unless(a, "old")]])
  <2>1. PICK some \in SUBSET Areas :
          Put([disk EXCEPT !.boot = NoRecord, !.fsinfo = NoRecord,
                           !.area = [a \in Areas |-> IF a \in some THEN "erased"
                                                     ELSE Unless(a, "old")]])
    BY <1>1
  <2>. DEFINE new == [a \in Areas |-> IF a \in some THEN "erased" ELSE Unless(a, "old")]
  <2>2. new \in [Areas -> {"erased", "old", "kept", "fresh"}]
    BY NotErased DEF Shapes
  <2>3. drive' = drive /\ disk' = [disk EXCEPT !.boot = NoRecord, !.fsinfo = NoRecord, !.area = new]
    BY <2>1 DEF Put
  <2>. HIDE DEF new
  <2>4. disk' = [parts |-> disk.parts, boot |-> NoRecord, fsinfo |-> NoRecord, area |-> new]
    BY <2>3 DEF Shapes, DiskShape
  <2>5. Goes("trimmed") /\ res' = res
    BY <1>1, GoGoes DEF Shapes
  <2>. QED  BY <1>1, <2>2, <2>3, <2>4, <2>5 DEF DiskShape
<1>2. CASE /\ call.pc = "trimmed" /\ Go("boot")
           /\ Put([disk EXCEPT !.area = [a \in Areas |-> "erased"]])
  <2>. DEFINE new == [a \in Areas |-> "erased"]
  <2>1. new \in [Areas -> {"erased", "old", "kept", "fresh"}] /\ \A a \in Areas : new[a] = "erased"
    OBVIOUS
  <2>2. drive' = drive /\ disk' = [disk EXCEPT !.area = new]
    BY <1>2 DEF Put
  <2>. HIDE DEF new
  <2>3. disk' = [parts |-> disk.parts, boot |-> disk.boot, fsinfo |-> disk.fsinfo, area |-> new]
    BY <2>2 DEF Shapes, DiskShape
  <2>4. Goes("boot") /\ res' = res
    BY <1>2, GoGoes DEF Shapes
  <2>. QED  BY <1>2, <2>1, <2>2, <2>3, <2>4 DEF DiskShape
<1>. QED  BY <1>1, <1>2 DEF Trim

\* A trim that fails: the records stay, and no table is called old any more.
LEMMA FailedTrims ==
    ASSUME TrimFails, Shapes
    PROVE  /\ drive' = drive /\ DiskShape' /\ res' = res
           /\ call.pc \in {"trim", "trimmed"} /\ GoesWithout("trim", "boot")
           /\ disk'.parts = disk.parts /\ disk'.boot = disk.boot
           /\ \A a \in Areas : disk'.area[a] # "old"
<1>. DEFINE new == [a \in Areas |-> Unless(a, "kept")]
<1>1. new \in [Areas -> {"erased", "old", "kept", "fresh"}] /\ \A a \in Areas : new[a] # "old"
  BY NotErased DEF Shapes
<1>2. drive' = drive /\ disk' = [disk EXCEPT !.area = new]
  BY DEF TrimFails, Put
<1>. HIDE DEF new
<1>3. disk' = [parts |-> disk.parts, boot |-> disk.boot, fsinfo |-> disk.fsinfo, area |-> new]
  BY <1>2 DEF Shapes, DiskShape
<1>4. call.pc \in {"trim", "trimmed"} /\ GoesWithout("trim", "boot") /\ res' = res
  BY GoWithoutGoes DEF TrimFails, Shapes
<1>. QED  BY <1>1, <1>2, <1>3, <1>4 DEF DiskShape

\* Every step of a format leaves the records their fields.
LEMMA ShapesStay ==
    ASSUME Shapes, [Next]_vars
    PROVE  Shapes'
<1>. USE DEF Shapes, DiskShape, CallShape
<1>1. ASSUME NEW r \in Requests, f_mkfs(r.opt, r.au)
      PROVE  Shapes'
  BY <1>1, Begins DEF NoCall
<1>2. ASSUME Pass
      PROVE  Shapes'
  <2>1. call' = NoCall \/ call' = Retry(Fit) \/ CallShape'
    BY <1>2, Passes
  <2>2. CallShape'
    BY <2>1 DEF Retry, Larger, AsFat32, NoCall
  <2>3. drive' = drive /\ disk' = disk
    BY <1>2, Passes
  <2>. QED  BY <2>2, <2>3
<1>3. ASSUME Trim
      PROVE  Shapes'
  BY <1>3, Trims DEF Goes
<1>4. ASSUME Store
      PROVE  Shapes'
  BY <1>4 DEF Store, WriteBoot, WriteFSInfo, WriteTables, WriteParts, Fill, Go, Put, Areas
<1>5. ASSUME Sync \/ WriteFails \/ Kill
      PROVE  Shapes'
  BY <1>5 DEF Sync, WriteFails, Kill, Answer, Untouched, NoCall
<1>6. ASSUME UNCHANGED vars
      PROVE  Shapes'
  BY <1>6 DEF vars
<1>7. ASSUME TrimFails
      PROVE  Shapes'
  BY <1>7, FailedTrims DEF GoesWithout
<1>8. ASSUME WriteFSInfoFails
      PROVE  Shapes'
  BY <1>8, GoWithoutGoes DEF WriteFSInfoFails, GoesWithout, Untouched
<1>. QED  BY <1>1, <1>2, <1>3, <1>4, <1>5, <1>6, <1>7, <1>8 DEF Next, Step

\* The disk after a write of the stages, and the stage that follows.
LEMMA Stores ==
    ASSUME Store, Shapes
    PROVE  /\ drive' = drive /\ DiskShape' /\ res' = res
           /\ \/ /\ call.pc = "boot" /\ Goes(IF call.lay.fmt = "FAT32" THEN "fsinfo" ELSE "head")
                 /\ disk' = [parts |-> disk.parts, boot |-> BootRecord(call.lay),
                             fsinfo |-> disk.fsinfo, area |-> disk.area]
              \/ /\ call.pc = "fsinfo" /\ Goes("head")
                 /\ disk' = [parts |-> disk.parts, boot |-> disk.boot, area |-> disk.area,
                             fsinfo |-> [free_clst |-> call.lay.n_clst - 1, last_clst |-> 2]]
              \/ \E a \in Areas :
                   /\ <<call.pc, a>> \in {<<"head", "head">>, <<"table", "table">>, <<"root", "root">>}
                   /\ Goes(CASE a = "head" -> "table" [] a = "table" -> "root" [] a = "root" -> "parts")
                   /\ disk' = [parts |-> disk.parts, boot |-> disk.boot, fsinfo |-> disk.fsinfo,
                               area |-> [disk.area EXCEPT ![a] = "fresh"]]
              \/ /\ call.pc = "parts" /\ Goes("sync")
                 /\ disk' = [parts |-> [start |-> b_vol, size |-> sz_vol], boot |-> disk.boot,
                             fsinfo |-> disk.fsinfo, area |-> disk.area]
<1>. USE DEF Shapes, DiskShape, Put
<1>1. CASE WriteBoot
  BY <1>1, GoGoes DEF WriteBoot
<1>2. CASE WriteFSInfo
  BY <1>2, GoGoes DEF WriteFSInfo
<1>3. CASE WriteTables
  <2>1. PICK a \in Areas :
          /\ <<call.pc, a>> \in {<<"head", "head">>, <<"table", "table">>, <<"root", "root">>}
          /\ Go(CASE a = "head" -> "table" [] a = "table" -> "root" [] a = "root" -> "parts")
          /\ Fill(a)
    BY <1>3 DEF WriteTables, Areas
  <2>2. disk' = [parts |-> disk.parts, boot |-> disk.boot, fsinfo |-> disk.fsinfo,
                 area |-> [disk.area EXCEPT ![a] = "fresh"]]
    BY <2>1 DEF Fill
  <2>3. DiskShape' /\ drive' = drive
    BY <2>1, <2>2 DEF Fill
  <2>. QED  BY <2>1, <2>2, <2>3, GoGoes
<1>4. CASE WriteParts
  BY <1>4, GoGoes DEF WriteParts
<1>. QED  BY <1>1, <1>2, <1>3, <1>4 DEF Store

(***************************************************************************)
(* The tables.                                                             *)
(***************************************************************************)

\* What is left of an old volume is behind no boot record, and the tables are
\* made one after the other.
AreasInv ==
    /\ \A a \in Areas : disk.area[a] = "old" => disk.boot = NoRecord
    /\ call.pc = "boot" => \A a \in Areas : disk.area[a] # "old"
    /\ call.pc \in {"table", "root", "parts"} => disk.area["head"] = "fresh"
    /\ call.pc \in {"root", "parts"} => disk.area["table"] = "fresh"
    /\ call.pc = "parts" => disk.area["root"] = "fresh"
    /\ call.pc = "sync" \/ res = "ok" => \A a \in Areas : disk.area[a] = "fresh"
    /\ res = "ok" => call.pc = "idle"

LEMMA AreasInit ==
    ASSUME Init
    PROVE  Shapes /\ AreasInv
BY DEF Init, NoCall, Shapes, DiskShape, CallShape, AreasInv

\* The stages of f_mkfs keep the tables so.
LEMMA AreasStep ==
    ASSUME Shapes, AreasInv, [Next]_vars
    PROVE  AreasInv'
<1>. USE DEF AreasInv
<1>1. ASSUME disk' = disk, call'.pc \in {"idle", "fit", "trim"}, res' # "ok"
      PROVE  AreasInv'
  BY <1>1
<1>2. ASSUME NEW r \in Requests, f_mkfs(r.opt, r.au)
      PROVE  AreasInv'
  BY <1>1, <1>2, Begins DEF NoCall
<1>3. CASE Pass
  <2>1. disk' = disk /\ call.pc = "fit"
    BY <1>3, Passes DEF Shapes
  <2>2. call'.pc \in {"idle", "fit", "trim"}
    <3>1. CASE call' = Retry(Fit)
      BY <2>1, <3>1 DEF Retry, Larger, AsFat32, NoCall, Shapes, CallShape
    <3>. QED  BY <1>3, <3>1, Passes DEF NoCall, Shapes
  <2>3. res' # "ok"
    BY <1>3, <2>1, Passes DEF Shapes
  <2>. QED  BY <1>1, <2>1, <2>2, <2>3
<1>4. CASE Trim
  BY <1>4, Trims DEF Goes, Shapes, DiskShape
<1>5. CASE Store
  BY <1>5, Stores DEF Goes, Shapes, DiskShape, Areas
<1>6. CASE Sync \/ WriteFails \/ Kill
  BY <1>1, <1>6 DEF Sync, WriteFails, Kill, Answer, Untouched, NoCall
<1>7. CASE UNCHANGED vars
  BY <1>7 DEF vars
<1>8. CASE TrimFails
  BY <1>8, FailedTrims DEF GoesWithout
<1>9. CASE WriteFSInfoFails
  BY <1>9, GoWithoutGoes DEF WriteFSInfoFails, GoesWithout, Untouched, Shapes
<1>. QED  BY <1>2, <1>3, <1>4, <1>5, <1>6, <1>7, <1>8, <1>9 DEF Next, Step

LEMMA AreasAlways == Spec => [](Shapes /\ AreasInv)
<1>1. Init => Shapes /\ AreasInv
  BY AreasInit
<1>2. Shapes /\ AreasInv /\ [Next]_vars => (Shapes /\ AreasInv)'
  BY ShapesStay, AreasStep
<1>. QED  BY <1>1, <1>2, PTL DEF Spec

\* A volume that mounts has tables of the one that was there before only if the
\* driver's trim failed, and none when f_mkfs answers that all is well, whatever
\* failure it did not look at: for every drive and every request.
THEOREM TablesNeverOld == Spec => []NoOldTables
<1>1. AreasInv => NoOldTables
  BY DEF AreasInv, NoOldTables, Mounts, Found
<1>. QED  BY <1>1, AreasAlways, PTL

\* A volume is mounted for the first time when f_mkfs has written all its tables.
THEOREM FirstMountWhole == Spec => FirstFormatWhole
<1>1. ASSUME Shapes, AreasInv, [Next]_vars
      PROVE  [~Mounts /\ Mounts' /\ disk.parts = NoRecord
              => \A a \in Areas : disk'.area[a] = "fresh"]_vars
  <2>. SUFFICES ASSUME disk.parts = NoRecord, disk'.parts # NoRecord
                PROVE  \A a \in Areas : disk'.area[a] = "fresh"
    BY DEF Mounts, Found
  <2>1. disk' # disk
    OBVIOUS
  <2>2. \A r \in Requests : ~f_mkfs(r.opt, r.au)
    BY <2>1, Begins
  <2>3. ~Pass
    BY <1>1, <2>1, Passes DEF Shapes
  <2>4. ~Trim /\ ~TrimFails
    BY <1>1, Trims, FailedTrims
  <2>5. ~(Sync \/ WriteFSInfoFails \/ WriteFails \/ Kill \/ UNCHANGED vars)
    BY <2>1 DEF Sync, WriteFSInfoFails, WriteFails, Kill, Untouched, vars
  <2>6. Store
    BY <1>1, <2>2, <2>3, <2>4, <2>5 DEF Next, Step
  <2>. QED  BY <1>1, <2>6, Stores DEF AreasInv, Areas
<1>. QED  BY <1>1, AreasAlways, PTL DEF Spec, FirstFormatWhole

(***************************************************************************)
(* The boot record.                                                        *)
(***************************************************************************)

\* The FSINFO sector after f_mkfs has come to it.
Noted(l) ==
    \/ disk.fsinfo = [free_clst |-> l.n_clst - 1, last_clst |-> 2]
    \/ "fsinfo" \in call.missed /\ (disk.fsinfo = NoRecord \/ "trim" \in call.missed)

\* What f_mkfs has written when it has written everything.
Written(l) ==
    /\ disk.boot = BootRecord(l)
    /\ l.fmt = "FAT32" => Noted(l)
    /\ disk.parts = [start |-> b_vol, size |-> sz_vol]

\* The fields of the boot record are wide enough for a layout that is in order.
LEMMA FieldsHold ==
    ASSUME NEW l, LayoutOK(l), Written(l), sz_vol \in Nat, sz_vol >= 128
    PROVE  /\ disk.boot.csize = l.pau /\ disk.boot.nrsv = l.rsv /\ fsize = l.fat /\ tsect = sz_vol
           /\ disk.boot.n_rootdir = (IF l.fmt = "FAT32" THEN 0 ELSE 512)
<1>1. disk.boot.csize = l.pau
  BY DEF Written, BootRecord, LayoutOK, ClusterSizes
<1>2. disk.boot.nrsv = l.rsv
  BY DEF Written, BootRecord, LayoutOK
<1>3. tsect = sz_vol
  BY DEF Written, BootRecord, tsect
<1>4. disk.boot.n_rootdir = (IF l.fmt = "FAT32" THEN 0 ELSE 512)
  BY DEF Written, BootRecord, n_rootdir
<1>5. fsize = l.fat
  <2>1. CASE l.fmt = "FAT32"
    BY <2>1 DEF Written, BootRecord, fsize, LayoutOK
  <2>2. CASE l.fmt # "FAT32"
    <3>1. l.fat \in Nat /\ l.fat > 0 /\ l.fat < 65536
      BY <2>2 DEF LayoutOK
    <3>2. l.fat % 65536 = l.fat
      BY <3>1
    <3>. QED  BY <2>2, <3>1, <3>2 DEF Written, BootRecord, fsize
  <2>. QED  BY <2>1, <2>2
<1>. QED  BY <1>1, <1>2, <1>3, <1>4, <1>5

\* find_volume comes to the numbers that f_mkfs chose.
LEMMA SameNumbers ==
    ASSUME NEW l, LayoutOK(l), Written(l), sz_vol \in Nat, sz_vol >= 128
    PROVE  /\ sysect = l.rsv + l.fat + l.dir /\ tsect - sysect = Left(l)
           /\ nclst = l.n_clst /\ fs_type = l.fmt /\ szbfat = FatBytes(l.fmt, l.n_clst)
<1>1. disk.boot.n_rootdir \div (ss \div SZDIRE) = l.dir
  BY FieldsHold DEF LayoutOK, ss, SZDIRE
<1>2. sysect = l.rsv + l.fat + l.dir
  BY <1>1, FieldsHold DEF sysect
<1>3. tsect - sysect = Left(l)
  BY <1>2, FieldsHold DEF Left, LayoutOK
<1>4. nclst = l.n_clst
  BY <1>3, FieldsHold DEF nclst, LayoutOK
<1>5. l.n_clst \in Nat
  BY Division DEF LayoutOK
<1>6. fs_type = l.fmt
  BY <1>4, <1>5 DEF fs_type, LayoutOK, MAX_FAT12, MAX_FAT16
<1>7. szbfat = FatBytes(l.fmt, l.n_clst)
  BY <1>4, <1>6 DEF szbfat, n_fatent, FatBytes
<1>. QED  BY <1>2, <1>3, <1>4, <1>6, <1>7

\* A volume with a layout that is in order, and a cluster, is mounted with it.
LEMMA WrittenMounts ==
    ASSUME NEW l, LayoutOK(l), ~NoRoom(l), Written(l), sz_vol \in Nat, sz_vol >= 128
    PROVE  /\ Mounts
           /\ fs_type = l.fmt /\ nclst = l.n_clst
           /\ database + nclst * disk.boot.csize <= b_vol + sz_vol
           /\ database % sz_blk = 0
           /\ fs_type = "FAT32" => FreeKnown(call.missed)
<1>1. l.n_clst \in Nat \ {0} /\ l.n_clst * l.pau <= Left(l)
  BY Division DEF LayoutOK
<1>2. Found
  <2>1. disk.parts # NoRecord
    BY DEF Written, NoRecord
  <2>2. disk.boot # NoRecord
    BY DEF Written, BootRecord, NoRecord
  <2>. QED  BY <2>1, <2>2 DEF Found
<1>3. tsect >= sysect /\ nclst # 0
  BY <1>1, SameNumbers, FieldsHold DEF LayoutOK, Left
<1>4. fsize >= Ceil(szbfat, ss)
  <2>. DEFINE bytes == FatBytes(l.fmt, l.n_clst)
  <2>1. bytes \in Nat
    BY <1>1 DEF FatBytes, LayoutOK
  <2>2. bytes <= ss * l.fat /\ l.fat \in Nat /\ fsize = l.fat /\ szbfat = bytes
    BY SameNumbers, FieldsHold DEF LayoutOK
  <2>. HIDE DEF bytes
  <2>3. Ceil(bytes, ss) <= l.fat
    BY <2>1, <2>2 DEF Ceil, ss
  <2>. QED  BY <2>1, <2>2, <2>3 DEF Ceil, ss
<1>5. /\ disk.boot.csize \in Powers /\ disk.boot.n_rootdir % (ss \div SZDIRE) = 0
      /\ disk.boot.nrsv # 0 /\ (fs_type = "FAT32") = (disk.boot.n_rootdir = 0)
  BY SameNumbers, FieldsHold DEF LayoutOK, Powers, ClusterSizes, ss, SZDIRE
<1>6. Mounts
  BY <1>2, <1>3, <1>4, <1>5 DEF Mounts
<1>7. database = b_vol + (l.rsv + l.fat + l.dir)
  BY SameNumbers DEF database, Written
<1>8. database + nclst * disk.boot.csize <= b_vol + sz_vol
  <2>1. nclst * disk.boot.csize <= Left(l)
    BY <1>1, SameNumbers, FieldsHold
  <2>2. l.rsv + l.fat + l.dir + Left(l) = sz_vol /\ l.rsv + l.fat + l.dir \in Nat /\ Left(l) \in Nat
    BY DEF Left, LayoutOK
  <2>3. nclst * disk.boot.csize \in Nat
    BY <1>1, SameNumbers, FieldsHold DEF LayoutOK, ClusterSizes
  <2>. QED  BY <1>7, <2>1, <2>2, <2>3 DEF b_vol
<1>9. database % sz_blk = 0
  <2>1. b_vol + l.rsv + l.fat + l.dir = b_vol + (l.rsv + l.fat + l.dir)
    BY DEF LayoutOK, b_vol
  <2>. QED  BY <1>7, <2>1 DEF LayoutOK
<1>10. fs_type = "FAT32" => FreeKnown(call.missed)
  BY SameNumbers DEF free_clst, Written, Noted, NoRecord, FreeKnown
<1>. QED  BY <1>6, <1>8, <1>9, <1>10, SameNumbers

(***************************************************************************)
(* The stages.                                                             *)
(***************************************************************************)

\* The layout of the call is in order once it is chosen, and every record that
\* the stages up to this one write is on the disk.
StagesInv ==
    /\ call.pc # "idle" => CallOK
    /\ call.pc \notin {"idle", "fit"} => LayoutOK(call.lay)
    /\ call.pc \in {"fsinfo", "head", "table", "root", "parts", "sync"} =>
         disk.boot = BootRecord(call.lay)
    /\ call.pc \in {"trimmed", "boot", "fsinfo"} =>
         disk.fsinfo = NoRecord \/ "trim" \in call.missed
    /\ call.pc \in {"head", "table", "root", "parts", "sync"} /\ call.lay.fmt = "FAT32" =>
         Noted(call.lay)
    /\ call.pc = "sync" => disk.parts = [start |-> b_vol, size |-> sz_vol]

\* A layout remains in order, and its boot record the same.
LEMMA LayoutStays ==
    ASSUME drive' = drive, call'.lay = call.lay
    PROVE  /\ LayoutOK(call.lay) => LayoutOK(call.lay)'
           /\ BootRecord(call.lay)' = BootRecord(call.lay)
BY SameDrive DEF LayoutOK, Left, NoRoom, BootRecord

\* A call goes on to its next stage: its arguments and its layout are the same.
LEMMA StageAfter ==
    ASSUME StagesInv, drive' = drive, NEW pc, call.pc # "idle",
           Goes(pc) \/ \E what : GoesWithout(what, pc)
    PROVE  /\ CallOK' /\ call'.pc = pc /\ call'.lay = call.lay
           /\ Goes(pc) => call'.missed = call.missed
           /\ \A what : GoesWithout(what, pc) => call'.missed = call.missed \cup {what}
           /\ LayoutOK(call.lay) => LayoutOK(call.lay)'
           /\ BootRecord(call.lay)' = BootRecord(call.lay)
<1>1. CASE Goes(pc)
  <2>1. /\ call'.pc = pc /\ call'.lay = call.lay /\ call'.au = call.au /\ call'.fmt = call.fmt
        /\ call'.missed = call.missed
    BY <1>1 DEF Goes
  <2>2. \A what : GoesWithout(what, pc) => call'.missed = call.missed \cup {what}
    BY DEF GoesWithout
  <2>. QED  BY <2>1, <2>2, SameDrive, LayoutStays DEF StagesInv, CallOK
<1>2. CASE ~Goes(pc) /\ \E what : GoesWithout(what, pc)
  <2>1. /\ call'.pc = pc /\ call'.lay = call.lay /\ call'.au = call.au /\ call'.fmt = call.fmt
    BY <1>2 DEF GoesWithout
  <2>2. \A what : GoesWithout(what, pc) => call'.missed = call.missed \cup {what}
    BY DEF GoesWithout
  <2>. QED  BY <1>2, <2>1, <2>2, SameDrive, LayoutStays DEF StagesInv, CallOK
<1>. QED  BY <1>1, <1>2

LEMMA NotedStays ==
    ASSUME UNCHANGED <<call.lay, call.missed, disk.fsinfo>>
    PROVE  Noted(call.lay) => Noted(call.lay)'
BY DEF Noted

\* What a drive answers, and what f_mkfs is asked for.
LEMMA DriveTotal ==
    ASSUME drive \in Drives
    PROVE  drive.total \in Nat
<1>1. drive \in [total : DriveSizes, block : Nat]
  BY FormatAssumption
<1>2. drive.total \in DriveSizes
  BY <1>1
<1>. QED  BY <1>2 DEF DriveSizes

LEMMA RequestSize ==
    ASSUME NEW r \in Requests
    PROVE  r.au \in {0} \cup Powers
<1>1. r \in [opt : SUBSET {"FAT", "FAT32"}, au : {0} \cup Powers]
  BY FormatAssumption
<1>. QED  BY <1>1

\* A stage is reached with the records that it needs.
LEMMA StagesStep ==
    ASSUME Shapes, StagesInv, [Next]_vars
    PROVE  StagesInv'
<1>1. ASSUME call' = NoCall
      PROVE  StagesInv'
  BY <1>1 DEF StagesInv, NoCall
<1>2. ASSUME NEW r \in Requests, f_mkfs(r.opt, r.au)
      PROVE  StagesInv'
  <2>1. CASE call' = NoCall
    BY <1>1, <2>1
  <2>2. CASE call' # NoCall
    <3>1. PICK fmt \in {"FAT16", "FAT32"} :
            call' = [pc |-> "fit", opt |-> r.opt, auto |-> (r.au = 0), au |-> r.au,
                     fmt |-> fmt, lay |-> NoRecord, missed |-> {}]
      BY <1>2, <2>2, Begins
    <3>2. ~(sz_vol < 128) /\ ~(r.au > 128) /\ drive' = drive
      BY <1>2, <2>2, Begins
    <3>3. drive.total \in Nat /\ r.au \in {0} \cup Powers
      BY DriveTotal, RequestSize DEF Shapes
    <3>4. sz_vol \in Nat /\ sz_vol >= 128
      BY <3>2, <3>3 DEF sz_vol, b_vol
    <3>5. r.au \in {0} \cup ClusterSizes
      BY <3>2, <3>3 DEF Powers, ClusterSizes
    <3>6. CallOK'
      BY <3>1, <3>2, <3>4, <3>5, SameDrive DEF CallOK
    <3>. QED  BY <3>1, <3>6 DEF StagesInv
  <2>. QED  BY <2>1, <2>2
<1>3. ASSUME Pass
      PROVE  StagesInv'
  <2>1. call.pc = "fit" /\ drive' = drive /\ disk' = disk /\ CallOK /\ CallShape
    BY <1>3, Passes DEF Shapes, StagesInv
  <2>2. CASE call' = NoCall
    BY <1>1, <2>2
  <2>3. CASE /\ ~Unfit(Fit) /\ ~TooFew(Fit) /\ ~TooMany(Fit)
             /\ call' = [pc |-> "trim", opt |-> call.opt, auto |-> call.auto, au |-> call.au,
                         fmt |-> call.fmt, lay |-> Fit, missed |-> call.missed]
    <3>1. LayoutOK(Fit)
      BY <2>1, <2>3, FitGood
    <3>. DEFINE l == Fit
    <3>2. LayoutOK(l) /\ call'.lay = l /\ call'.pc = "trim"
      BY <2>3, <3>1
    <3>3. CallOK'
      BY <2>1, <2>3, SameDrive DEF CallOK
    <3>. HIDE DEF l
    <3>4. LayoutOK(call.lay)'
      BY <2>1, <3>2, SameDrive DEF LayoutOK, Left, NoRoom
    <3>. QED  BY <3>2, <3>3, <3>4 DEF StagesInv
  <2>4. CASE Retry(Fit) # NoCall /\ call' = Retry(Fit)
    <3>1. Fit.pau \in ClusterSizes
      BY <2>1, PauSize DEF Fit
    <3>2. /\ call'.pc = "fit" /\ call'.au \in {0} \cup ClusterSizes
          /\ call'.fmt \in {"FAT16", "FAT32"}
      BY <2>1, <2>4, <3>1, RetryOK
    <3>3. CallOK'
      BY <2>1, <3>2, SameDrive DEF CallOK
    <3>. QED  BY <3>2, <3>3 DEF StagesInv
  <2>. QED  BY <1>3, <2>1, <2>2, <2>3, <2>4, Passes
<1>4. ASSUME Trim
      PROVE  StagesInv'
  <2>1. CASE call.pc = "trim" /\ Goes("trimmed") /\ disk'.fsinfo = NoRecord
    BY <1>4, <2>1, Trims, StageAfter DEF StagesInv
  <2>2. CASE call.pc = "trimmed" /\ Goes("boot") /\ disk'.fsinfo = disk.fsinfo
    BY <1>4, <2>2, Trims, StageAfter DEF StagesInv
  <2>. QED  BY <1>4, <2>1, <2>2, Trims
<1>5. ASSUME Store
      PROVE  StagesInv'
  <2>1. call.pc # "idle" /\ drive' = drive
    BY <1>5, Stores
  <2>2. CASE /\ call.pc = "boot" /\ Goes(IF call.lay.fmt = "FAT32" THEN "fsinfo" ELSE "head")
             /\ disk' = [parts |-> disk.parts, boot |-> BootRecord(call.lay),
                         fsinfo |-> disk.fsinfo, area |-> disk.area]
    BY <2>1, <2>2, StageAfter DEF StagesInv
  <2>3. CASE /\ call.pc = "fsinfo" /\ Goes("head")
             /\ disk' = [parts |-> disk.parts, boot |-> disk.boot, area |-> disk.area,
                         fsinfo |-> [free_clst |-> call.lay.n_clst - 1, last_clst |-> 2]]
    <3>1. /\ disk'.boot = disk.boot
          /\ disk'.fsinfo = [free_clst |-> call.lay.n_clst - 1, last_clst |-> 2]
      BY <2>3
    <3>2. /\ CallOK' /\ call'.pc = "head" /\ call'.lay = call.lay
          /\ LayoutOK(call.lay) => LayoutOK(call.lay)'
          /\ BootRecord(call.lay)' = BootRecord(call.lay)
      BY <2>1, <2>3, StageAfter
    <3>3. Noted(call.lay)'
      BY <3>1, <3>2 DEF Noted
    <3>. QED  BY <2>3, <3>1, <3>2, <3>3 DEF StagesInv
  <2>4. CASE \E a \in Areas :
               /\ <<call.pc, a>> \in {<<"head", "head">>, <<"table", "table">>, <<"root", "root">>}
               /\ Goes(CASE a = "head" -> "table" [] a = "table" -> "root" [] a = "root" -> "parts")
               /\ disk' = [parts |-> disk.parts, boot |-> disk.boot, fsinfo |-> disk.fsinfo,
                           area |-> [disk.area EXCEPT ![a] = "fresh"]]
    <3>1. PICK pc \in {"table", "root", "parts"} : Goes(pc)
      BY <2>4
    <3>2. call.pc \in {"head", "table", "root"} /\ disk'.boot = disk.boot /\ disk'.fsinfo = disk.fsinfo
      BY <2>4
    <3>3. /\ CallOK' /\ call'.pc = pc /\ call'.lay = call.lay /\ call'.missed = call.missed
          /\ LayoutOK(call.lay) => LayoutOK(call.lay)'
          /\ BootRecord(call.lay)' = BootRecord(call.lay)
      BY <2>1, <3>1, StageAfter
    <3>. QED  BY <3>1, <3>2, <3>3, NotedStays DEF StagesInv
  <2>5. CASE /\ call.pc = "parts" /\ Goes("sync")
             /\ disk' = [parts |-> [start |-> b_vol, size |-> sz_vol], boot |-> disk.boot,
                         fsinfo |-> disk.fsinfo, area |-> disk.area]
    <3>1. b_vol' = b_vol /\ sz_vol' = sz_vol
      BY <2>1, SameDrive DEF b_vol
    <3>2. /\ CallOK' /\ call'.pc = "sync" /\ call'.lay = call.lay /\ call'.missed = call.missed
          /\ LayoutOK(call.lay) => LayoutOK(call.lay)'
          /\ BootRecord(call.lay)' = BootRecord(call.lay)
      BY <2>1, <2>5, StageAfter
    <3>3. disk'.parts = [start |-> b_vol, size |-> sz_vol] /\ UNCHANGED <<disk.boot, disk.fsinfo>>
      BY <2>5
    <3>. QED  BY <2>5, <3>1, <3>2, <3>3, NotedStays DEF StagesInv
  <2>. QED  BY <1>5, <2>2, <2>3, <2>4, <2>5, Stores
<1>8. ASSUME TrimFails
      PROVE  StagesInv'
  <2>1. /\ call.pc \in {"trim", "trimmed"} /\ GoesWithout("trim", "boot") /\ drive' = drive
    BY <1>8, FailedTrims
  <2>2. /\ CallOK' /\ call'.pc = "boot" /\ call'.lay = call.lay
        /\ call'.missed = call.missed \cup {"trim"}
        /\ LayoutOK(call.lay) => LayoutOK(call.lay)'
    BY <2>1, StageAfter
  <2>. QED  BY <2>1, <2>2 DEF StagesInv
<1>9. ASSUME WriteFSInfoFails
      PROVE  StagesInv'
  <2>1. /\ call.pc = "fsinfo" /\ GoesWithout("fsinfo", "head") /\ drive' = drive /\ disk' = disk
    BY <1>9, GoWithoutGoes DEF WriteFSInfoFails, Untouched, Shapes
  <2>2. /\ CallOK' /\ call'.pc = "head" /\ call'.lay = call.lay
        /\ call'.missed = call.missed \cup {"fsinfo"}
        /\ LayoutOK(call.lay) => LayoutOK(call.lay)'
        /\ BootRecord(call.lay)' = BootRecord(call.lay)
    BY <2>1, StageAfter
  <2>. QED  BY <2>1, <2>2 DEF StagesInv, Noted
<1>6. ASSUME Sync \/ WriteFails \/ Kill
      PROVE  StagesInv'
  BY <1>1, <1>6 DEF Sync, WriteFails, Kill, Answer
<1>7. ASSUME UNCHANGED vars
      PROVE  StagesInv'
  <2>1. drive' = drive /\ disk' = disk /\ call' = call
    BY <1>7 DEF vars
  <2>2. CASE call.pc = "idle"
    BY <2>1, <2>2 DEF StagesInv
  <2>3. CASE call.pc # "idle"
    <3>1. Goes(call.pc)
      BY <2>1 DEF Goes, Shapes, CallShape
    <3>2. b_vol' = b_vol /\ sz_vol' = sz_vol
      BY <2>1, SameDrive DEF b_vol
    <3>3. /\ CallOK' /\ call'.pc = call.pc /\ call'.lay = call.lay /\ call'.missed = call.missed
          /\ LayoutOK(call.lay) => LayoutOK(call.lay)'
          /\ BootRecord(call.lay)' = BootRecord(call.lay)
      BY <2>1, <2>3, <3>1, StageAfter
    <3>. QED  BY <2>1, <3>2, <3>3, NotedStays DEF StagesInv
  <2>. QED  BY <2>2, <2>3
<1>. QED  BY <1>2, <1>3, <1>4, <1>5, <1>6, <1>7, <1>8, <1>9 DEF Next, Step

\* What f_mkfs has made, whatever failure it did not look at, is mounted as the
\* volume it chose, if it has a cluster (NoRoom): for every drive with less than
\* 2^31 sectors, every size of its erase blocks and every request.
THEOREM FormatMounts == Spec => []MountsAsFormatted
<1>1. Init => Shapes /\ StagesInv
  BY AreasInit DEF Init, NoCall, StagesInv
<1>2. Shapes /\ StagesInv /\ [Next]_vars => (Shapes /\ StagesInv)'
  BY ShapesStay, StagesStep
<1>3. Shapes /\ StagesInv => MountsAsFormatted
  <2>. SUFFICES ASSUME Shapes, StagesInv, call.pc = "sync", ~NoRoom(call.lay)
                PROVE  MountsAsFormatted
    BY DEF MountsAsFormatted
  <2>1. LayoutOK(call.lay) /\ Written(call.lay) /\ sz_vol \in Nat /\ sz_vol >= 128
    BY DEF StagesInv, Written, CallOK
  <2>2. b_vol + sz_vol = drive.total
    BY DriveTotal DEF Shapes, b_vol, sz_vol
  <2>. QED  BY <2>1, <2>2, WrittenMounts DEF MountsAsFormatted
<1>. QED  BY <1>1, <1>2, <1>3, PTL DEF Spec
=============================================================================
