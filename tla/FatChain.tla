------------------------------ MODULE FatChain -------------------------------
(***************************************************************************)
(* The cluster chains of a FAT volume, as ff.c follows, stretches and      *)
(* frees them through the window of FatWindow.                             *)
(***************************************************************************)
EXTENDS FatWindow

CONSTANT Erased     \* what CTRL_TRIM leaves of a sector

\* A loop is a recursive function of the number of its rounds; a loop that
\* searches may as well go on, for what it does afterwards is not used.
Least(S) == CHOOSE i \in S : \A j \in S : i <= j

\* The search of create_chain for a free cluster behind scl, wrapping once: the
\* clusters it looks at, v after each of them, and how it ends.
Candidate(scl, i) == IF scl + i < n_fatent THEN scl + i ELSE scl + i - NumClusters
Tested(v, scl) ==
    LET after[i \in 0 .. NumClusters] ==
          IF i = 0 THEN v ELSE get_fat(after[i - 1], Candidate(scl, i))
    IN after
FindFree(v, scl) ==
    LET after == Tested(v, scl)
        hits == {i \in 1 .. NumClusters : after[i].ret \in {0, 1}}
        hit == Least(hits)
    IN IF hits = {} THEN [after[NumClusters] EXCEPT !.ret = 0]
       ELSE IF after[hit].ret = 0 THEN [after[hit] EXCEPT !.ret = Candidate(scl, hit)]
       ELSE after[hit]

\* A chain that goes on already, or is broken, is left as it is.
Stretch(v, c) ==
    IF v.ret < 2 THEN [v EXCEPT !.ret = 1]
    ELSE IF v.ret < n_fatent THEN v
    ELSE TakeFree(FindFree(v, c), c)

NewChain(v, scl) == TakeFree(FindFree(v, scl), 0)

create_chain(v, c) ==
    IF c = 0 THEN NewChain(v, IF v.last \in 1 .. n_fatent - 1 THEN v.last ELSE 1)
    ELSE Stretch(get_fat(v, c), c)

\* CTRL_TRIM on the sectors of the clusters a..b, which are contiguous.
Trim(v, a, b) ==
    LET after[i \in 0 .. b - a + 1] ==
          IF i = 0 THEN v ELSE disk_write(after[i - 1], clust2sect(a + i - 1), Erased)
    IN after[b - a + 1]

\* The loop of remove_chain: the contiguous run r.from .. r.at is being freed.
FreeRound(r) ==
    LET got == get_fat(r.v, r.at)
        next == got.ret
        freed == Release(got, r.at)
    IN CASE next \in {0, 1} -> [r EXCEPT !.v = got, !.going = FALSE]
         [] next = r.at + 1 -> [v |-> [freed EXCEPT !.ret = 0], at |-> next, from |-> r.from,
                                going |-> next < n_fatent]
         [] OTHER -> [v |-> [Trim(freed, r.from, r.at) EXCEPT !.ret = 0], at |-> next,
                      from |-> next, going |-> next < n_fatent]
FreeFrom(v, c) ==
    LET round[i \in 0 .. n_fatent] ==
          IF i = 0 THEN [v |-> v, at |-> c, from |-> c, going |-> TRUE]
          ELSE IF round[i - 1].going THEN FreeRound(round[i - 1])
          ELSE round[i - 1]
    IN round[n_fatent].v

remove_chain(v, c, p) ==
    IF c \notin Clusters THEN [v EXCEPT !.ret = 1]
    ELSE FreeFrom(IF p = 0 THEN v ELSE put_fat(v, p, EOC), c)

-----------------------------------------------------------------------------
\* The chains of a disk d.

\* The clusters of the chain from c on; a chain that never ends has them all.
Chain(d, c) ==
    LET links[S \in SUBSET Clusters] ==
          LET T == S \cup ({FatOn(d, k) : k \in S} \cap Clusters)
          IN IF T = S THEN S ELSE links[T]
    IN IF c \in Clusters THEN links[{c}] ELSE {}

\* The k-th cluster of the chain from c on, or 0.
NthCluster(d, c, k) ==
    LET nth[i \in 0 .. k] == IF i = 0 THEN c
                             ELSE IF nth[i - 1] \in Clusters THEN FatOn(d, nth[i - 1]) ELSE 0
    IN nth[k]

\* A disk d with the sectors of q written.
Applied(d, q) ==
    LET after[i \in 0 .. Len(q)] ==
          IF i = 0 THEN d ELSE [after[i - 1] EXCEPT ![q[i][1]] = q[i][2]]
    IN after[Len(q)]
=============================================================================
