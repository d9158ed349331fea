---------------------------- MODULE Fat32Proofs ----------------------------
(***************************************************************************)
(* Proofs about Fat32, for every number of processes, names, directory     *)
(* slots, clusters and clusters of a file, when no window without a lock   *)
(* is entered: Races is FALSE, so that no two calls change the directory   *)
(* at once and none adds or deletes an entry while UpdateInode has a       *)
(* sector in its hands.                                                    *)
(*                                                                         *)
(* The FAT is seen through Q, which gives for each head, the first cluster *)
(* of an entry or of a call, the sequence of its clusters.                 *)
(***************************************************************************)
EXTENDS Fat32, FiniteSetTheorems, WellFoundedInduction, TLAPS

-----------------------------------------------------------------------------
(* The inductive invariant.                                                *)

Used == {s \in Slots : dir[s] # None}

\* The processes whose clus is the only way to its chain.
Holders == {p \in Procs : pc[p] \in {"create", "grow", "unchain"}}

EntryHeads == {dir[s].start : s \in Used}
CallHeads  == {clus[p] : p \in Holders}
Heads == EntryHeads \cup CallHeads

\* Q has a chain of f for each head in H; the chains have no cluster in common,
\* and every cluster that is not free is in one of them.
ChainOf(f, h, q) ==
    /\ q \in Seq(Clusters) /\ Len(q) \in 1 .. MaxLen /\ q[1] = h
    /\ \A i \in 1 .. Len(q) : f[q[i]] = IF i < Len(q) THEN q[i + 1] ELSE EOC

Disjoint(H, Q) ==
    \A h, g \in H : \A i \in 1 .. Len(Q[h]), j \in 1 .. Len(Q[g]) :
        Q[h][i] = Q[g][j] => h = g /\ i = j

Covered(f, H, Q) ==
    \A c \in Clusters : f[c] # 0 => \E h \in H : \E i \in 1 .. Len(Q[h]) : Q[h][i] = c

FatChains(f, H, Q) ==
    /\ \A h \in H : ChainOf(f, h, Q[h])
    /\ Disjoint(H, Q)
    /\ Covered(f, H, Q)

\* A head has one owner.
HeadsApart ==
    /\ \A s, t \in Used : dir[s].start = dir[t].start => s = t
    /\ \A p, q \in Holders : clus[p] = clus[q] => p = q
    /\ \A s \in Used, p \in Holders : dir[s].start # clus[p]

\* The directory in the cache has the entries of the one on the disk.
DirCached ==
    \A s \in Slots : /\ dir[s] = None <=> cached[s] = None
                     /\ dir[s] # None => cached[s].start = dir[s].start

\* What UpdateInode read: its sizes may be old, its clusters are those of now.
SectorCopies ==
    \A p \in Procs, s \in Slots :
        /\ sector[p][s] # None => /\ pc[p] = "update" /\ dir[s] # None
                                 /\ sector[p][s].start = dir[s].start
        /\ pc[p] = "update" /\ dir[s] # None => sector[p][s] # None

SizesFit(Q) ==
    \A s \in Used : /\ dir[s].size <= Len(Q[dir[s].start])
                    /\ cached[s].size <= Len(Q[dir[s].start])
                    /\ \A p \in Procs : sector[p][s] # None =>
                           sector[p][s].size <= Len(Q[dir[s].start])

\* An inode belongs to an entry and knows a place of its chain.
InodeEntry ==
    \A s \in Slots : inode[s] # None => dir[s] # None /\ dir[s].start = inode[s].start

InodePlace(Q) ==
    \A s \in Slots : inode[s] # None =>
        LET q == Q[inode[s].start]
        IN /\ inode[s].logi < Len(q) /\ q[inode[s].logi + 1] = inode[s].clus
           /\ inode[s].size <= Len(q)

\* The clusters below a size, on the disk, in the cache, in what UpdateInode read
\* or in an inode, have been written.
Written(Q) ==
    \A s \in Used : \A i \in 1 .. Len(Q[dir[s].start]) :
        \/ i <= dir[s].size
        \/ i <= cached[s].size
        \/ \E p \in Procs : sector[p][s] # None /\ i <= sector[p][s].size
        \/ inode[s] # None /\ i <= inode[s].size
        => data[Q[dir[s].start][i]] # None

\* What a process in the middle of a call relies on.
Changing ==
    \A p \in Procs :
        /\ pc[p] \in ChangePcs => slot[p] \in Slots /\ clus[p] \in Clusters
        /\ pc[p] = "create" => name[p] \in Names /\ dir[slot[p]] = None
        /\ pc[p] = "mark" => /\ dir[slot[p]] # None /\ dir[slot[p]].start = clus[p]
                             /\ inode[slot[p]] = None

Waiting == \A p \in Procs : pc[p] = "dup" => slot[p] \in Slots /\ inode[slot[p]] # None

BusyPcs == {"read", "grow", "write", "entry", "update"}

Busy ==
    \A p \in Procs :
        pc[p] \in BusyPcs =>
            /\ file[p] \in Slots /\ inode[file[p]] # None
            /\ inode[file[p]].lock = p
            /\ pc[p] \in {"read", "write"} => at[p] = inode[file[p]].logi
            /\ pc[p] = "read" => at[p] < inode[file[p]].size
            /\ pc[p] \in WritePcs => at[p] <= inode[file[p]].size /\ at[p] < MaxLen

Growing(Q) ==
    \A p \in Procs :
        pc[p] = "grow" =>
            /\ clus[p] \in Clusters /\ Len(Q[clus[p]]) = 1
            /\ at[p] = Len(Q[inode[file[p]].start])

\* The references of an inode, and no two calls that change the directory.
Referenced ==
    \A s \in Slots :
        /\ IsFiniteSet(Users(s))
        /\ Users(s) # {} => inode[s] # None /\ inode[s].ref >= Cardinality(Users(s))

ChangesAlone ==
    \A p, q \in Procs : p # q /\ pc[p] \in ChangePcs => pc[q] \notin ChangePcs \cup LookupPcs

FatInv(Q) ==
    /\ TypeOK
    /\ FatChains(fat, Heads, Q) /\ HeadsApart
    /\ DirCached /\ SectorCopies /\ SizesFit(Q)
    /\ InodeEntry /\ InodePlace(Q) /\ Written(Q)
    /\ Changing /\ Waiting /\ Busy /\ Growing(Q)
    /\ Referenced /\ ChangesAlone

-----------------------------------------------------------------------------
(* Sets of numbers.                                                        *)

LEMMA FirstOf ==
    ASSUME NEW S \in SUBSET Nat, S # {}
    PROVE  \E n \in S : \A m \in S : n <= m
<1>1. PICK n \in S : \A m \in S : ~ <<m, n>> \in OpToRel(<, Nat)
  BY NatLessThanWellFounded, WFMin
<1>2. \A m \in S : ~(m < n)
  BY <1>1 DEF OpToRel
<1> QED BY <1>2

LEMMA MinIn ==
    ASSUME NEW S \in SUBSET Nat, S # {}
    PROVE  Min(S) \in S
<1>1. PICK n \in S : \A m \in S : n <= m
  BY FirstOf
<1> QED BY <1>1 DEF Min

\* The constants.
LEMMA Consts ==
    /\ MaxSlot \in Nat \ {0} /\ MaxClus \in Nat /\ MaxClus > 1 /\ MaxLen \in Nat \ {0}
    /\ Slots \in SUBSET Nat /\ Clusters \in SUBSET Nat /\ 0 \notin Clusters
    /\ EOC \in Nat /\ EOC \notin Clusters /\ EOC # 0
    /\ None \notin Nat /\ None \notin Procs /\ None \notin Values
    /\ None \notin Slots /\ None \notin Clusters
BY FatAssumption DEF Slots, Clusters, EOC

-----------------------------------------------------------------------------
(* Chains of the FAT.                                                      *)

\* Following the FAT from a head gives its chain, and then the end mark.
LEMMA PathIs ==
    ASSUME NEW h \in Clusters, NEW q, ChainOf(fat, h, q), NEW j \in 0 .. MaxLen
    PROVE  Path(h)[j] = IF j < Len(q) THEN q[j + 1] ELSE EOC
<1> DEFINE Val(i) == IF i < Len(q) THEN q[i + 1] ELSE EOC
           l[i \in 0 .. MaxLen] == IF i = 0 THEN h ELSE GetFatEntry(l[i - 1])
<1>c. MaxLen \in Nat \ {0} /\ EOC \notin Clusters
  BY Consts
<1>q. q \in Seq(Clusters) /\ Len(q) \in 1 .. MaxLen /\ q[1] = h
      /\ \A i \in 1 .. Len(q) : q[i] \in Clusters /\ fat[q[i]] = IF i < Len(q) THEN q[i + 1] ELSE EOC
  BY <1>c DEF ChainOf
<1>1. Path(h) = l
  BY DEF Path
<1>2. Val(0) = h
  BY <1>q
<1>3. ASSUME NEW i \in 0 .. MaxLen, i # 0
      PROVE  Val(i) = GetFatEntry(Val(i - 1))
  <2>1. CASE i - 1 < Len(q)
    <3>1. i \in 1 .. Len(q)
      BY <1>3, <2>1, <1>q, <1>c
    <3>2. Val(i - 1) = q[i] /\ q[i] \in Clusters
      BY <3>1, <2>1, <1>q
    <3>3. GetFatEntry(q[i]) = Val(i)
      BY <3>1, <3>2, <1>q DEF GetFatEntry
    <3> QED BY <3>2, <3>3
  <2>2. CASE ~(i - 1 < Len(q))
    <3>1. Val(i - 1) = EOC /\ Val(i) = EOC
      BY <2>2, <1>3, <1>q, <1>c
    <3>2. GetFatEntry(EOC) = EOC
      BY <1>c DEF GetFatEntry
    <3> QED BY <3>1, <3>2
  <2> QED BY <2>1, <2>2
<1> DEFINE v == [i \in 0 .. MaxLen |-> Val(i)]
<1> HIDE DEF Val
<1>4. \A i \in 0 .. MaxLen : v[i] = IF i = 0 THEN h ELSE GetFatEntry(v[i - 1])
  <2> TAKE i \in 0 .. MaxLen
  <2>1. CASE i = 0
    BY <2>1, <1>2
  <2>2. CASE i # 0
    <3>1. i - 1 \in 0 .. MaxLen
      BY <2>2, <1>c
    <3> QED BY <2>2, <3>1, <1>3
  <2> QED BY <2>1, <2>2
<1>5. v = [i \in 0 .. MaxLen |-> v[i]]
  OBVIOUS
<1>6. \E u : u = [i \in 0 .. MaxLen |-> IF i = 0 THEN h ELSE GetFatEntry(u[i - 1])]
  <2> HIDE DEF v
  <2>1. v = [i \in 0 .. MaxLen |-> IF i = 0 THEN h ELSE GetFatEntry(v[i - 1])]
    BY <1>4, <1>5
  <2> QED BY <2>1
<1>7. l = [i \in 0 .. MaxLen |-> IF i = 0 THEN h ELSE GetFatEntry(l[i - 1])]
  BY <1>6
<1> HIDE DEF l
<1> DEFINE Off == {i \in 0 .. MaxLen : l[i] # Val(i)}
<1>8. Off = {}
  <2> SUFFICES ASSUME Off # {} PROVE FALSE
    OBVIOUS
  <2>1. Off \in SUBSET Nat
    BY <1>c
  <2>2. PICK n \in Off : \A i \in Off : n <= i
    <3> HIDE DEF Off
    <3> QED BY <2>1, FirstOf
  <2>3. n \in 0 .. MaxLen /\ l[n] # Val(n)
    BY <2>2
  <2>4. l[n] = IF n = 0 THEN h ELSE GetFatEntry(l[n - 1])
    BY <1>7, <2>3
  <2>5. n # 0
    BY <2>3, <2>4, <1>2
  <2>6. n - 1 \in 0 .. MaxLen /\ n - 1 \notin Off
    <3> HIDE DEF Off
    <3> QED BY <2>1, <2>2, <2>3, <2>5, <1>c
  <2>7. l[n - 1] = Val(n - 1)
    BY <2>6
  <2> QED BY <2>3, <2>4, <2>5, <2>7, <1>3
<1> QED BY <1>1, <1>8 DEF Val

\* Chain is the set of the clusters of the sequence, all different.
LEMMA ChainIs ==
    ASSUME NEW h \in Clusters, NEW q, ChainOf(fat, h, q)
    PROVE  Chain(h) = {q[i] : i \in 1 .. Len(q)}
<1>c. MaxLen \in Nat \ {0} /\ EOC \notin Clusters
  BY Consts
<1>q. q \in Seq(Clusters) /\ Len(q) \in 1 .. MaxLen
      /\ \A i \in 1 .. Len(q) : q[i] \in Clusters
  BY <1>c DEF ChainOf
<1>p. \A j \in 0 .. MaxLen : Path(h)[j] = IF j < Len(q) THEN q[j + 1] ELSE EOC
  BY PathIs
<1>0. Chain(h) = {Path(h)[j] : j \in 0 .. MaxLen} \cap Clusters
  BY DEF Chain
<1>1. ASSUME NEW c \in Chain(h) PROVE c \in {q[i] : i \in 1 .. Len(q)}
  <2>1. PICK j \in 0 .. MaxLen : c = Path(h)[j] /\ c \in Clusters
    BY <1>0
  <2>2. j < Len(q) /\ c = q[j + 1]
    BY <2>1, <1>p, <1>c
  <2>3. j + 1 \in 1 .. Len(q)
    BY <2>2, <1>q, <1>c
  <2> QED BY <2>2, <2>3
<1>2. ASSUME NEW i \in 1 .. Len(q) PROVE q[i] \in Chain(h)
  <2>1. i - 1 \in 0 .. MaxLen /\ i - 1 < Len(q) /\ (i - 1) + 1 = i
    BY <1>q, <1>c
  <2>2. Path(h)[i - 1] = q[i]
    BY <2>1, <1>p
  <2> QED BY <2>1, <2>2, <1>q, <1>0
<1> QED BY <1>1, <1>2

\* As many clusters as the sequence is long.
LEMMA ChainCard ==
    ASSUME NEW h \in Clusters, NEW q, ChainOf(fat, h, q),
           \A i, j \in 1 .. Len(q) : q[i] = q[j] => i = j
    PROVE  Cardinality(Chain(h)) = Len(q)
<1>c. MaxLen \in Nat \ {0}
  BY Consts
<1>q. q \in Seq(Clusters) /\ Len(q) \in Nat
  BY <1>c DEF ChainOf
<1> PICK n \in Nat : n = Len(q)
  BY <1>q
<1> DEFINE S == {q[i] : i \in 1 .. n}
           f == [i \in 1 .. n |-> q[i]]
<1>1. f \in Bijection(1 .. n, S)
  <2>1. f \in [1 .. n -> S]
    OBVIOUS
  <2>2. \A i, j \in 1 .. n : f[i] = f[j] => i = j
    OBVIOUS
  <2>3. \A c \in S : \E i \in 1 .. n : f[i] = c
    OBVIOUS
  <2> HIDE DEF f, S
  <2> QED BY <2>1, <2>2, <2>3 DEF Bijection, Injection, Surjection, IsInjective
<1>2. ExistsBijection(1 .. n, S)
  <2> HIDE DEF f, S
  <2> QED BY <1>1 DEF ExistsBijection
<1>3. IsFiniteSet(S)
  <2> HIDE DEF f, S
  <2> QED BY <1>2, FS_NatBijection
<1>4. Cardinality(S) = n
  <2> HIDE DEF f, S
  <2> QED BY <1>2, <1>3, FS_CardinalityType, FS_CountingElements
<1>5. Chain(h) = S
  BY ChainIs
<1> QED BY <1>4, <1>5

\* bmap finds cluster k of a chain from any place of it that it remembers.
LEMMA BmapIs ==
    ASSUME NEW ip \in Inodes, NEW q, ChainOf(fat, ip.start, q),
           ip.logi < Len(q), q[ip.logi + 1] = ip.clus, NEW k \in 0 .. MaxLen, k <= Len(q)
    PROVE  Bmap(ip, k) = IF k < Len(q) THEN q[k + 1] ELSE EOC
<1>c. MaxLen \in Nat \ {0} /\ EOC \notin Clusters
  BY Consts
<1>i. ip.start \in Clusters /\ ip.clus \in Clusters /\ ip.logi \in 0 .. MaxLen
  BY DEF Inodes
<1>q. q \in Seq(Clusters) /\ Len(q) \in 1 .. MaxLen
      /\ \A i \in 1 .. Len(q) : fat[q[i]] = IF i < Len(q) THEN q[i + 1] ELSE EOC
  BY DEF ChainOf
<1>p. \A j \in 0 .. MaxLen : Path(ip.start)[j] = IF j < Len(q) THEN q[j + 1] ELSE EOC
  BY <1>i, PathIs
<1>1. CASE k < ip.logi
  <2>1. BmapFrom(ip, k) = [i |-> 0, c |-> ip.start]
    BY <1>1, <1>i DEF BmapFrom
  <2>2. Bmap(ip, k) = Follow(ip.start, k)
    <3>1. k >= 0 /\ k - 0 = k
      BY <1>c
    <3> QED BY <2>1, <3>1 DEF Bmap
  <2> QED BY <2>2, <1>p DEF Follow
<1>2. CASE k >= ip.logi
  <2>1. BmapFrom(ip, k) = [i |-> ip.logi, c |-> ip.clus]
    BY <1>2, <1>i DEF BmapFrom
  <2>2. Bmap(ip, k) = Follow(ip.clus, k - ip.logi)
    BY <2>1, <1>2 DEF Bmap
  <2> DEFINE n == Len(q) - ip.logi
             r == [i \in 1 .. n |-> q[ip.logi + i]]
  <2>n. n \in 1 .. MaxLen /\ n \in Nat
    BY <1>q, <1>i, <1>c
  <2>3. r \in [1 .. n -> Clusters]
    <3> SUFFICES ASSUME NEW i \in 1 .. n PROVE q[ip.logi + i] \in Clusters
      OBVIOUS
    <3>1. ip.logi + i \in 1 .. Len(q)
      BY <1>q, <1>i, <1>c
    <3> QED BY <3>1, <1>q
  <2>4. r \in Seq(Clusters) /\ Len(r) = n
    <3> HIDE DEF r, n
    <3> QED BY <2>3, <2>n
  <2>5. r[1] = ip.clus
    BY <2>n
  <2>6. \A i \in 1 .. n : fat[r[i]] = IF i < n THEN r[i + 1] ELSE EOC
    <3> TAKE i \in 1 .. n
    <3>1. ip.logi + i \in 1 .. Len(q) /\ (ip.logi + i < Len(q) <=> i < n)
      BY <1>q, <1>i, <1>c
    <3>2. fat[q[ip.logi + i]] = IF i < n THEN q[ip.logi + i + 1] ELSE EOC
      BY <3>1, <1>q
    <3>3. i < n => i + 1 \in 1 .. n /\ ip.logi + (i + 1) = ip.logi + i + 1
      BY <2>n, <1>i, <1>c
    <3> QED BY <3>2, <3>3
  <2> HIDE DEF r
  <2>7. ChainOf(fat, ip.clus, r)
    BY <2>4, <2>5, <2>6, <2>n DEF ChainOf
  <2>8. k - ip.logi \in 0 .. MaxLen
    BY <1>2, <1>i, <1>c
  <2>9. Follow(ip.clus, k - ip.logi) = IF k - ip.logi < n THEN r[(k - ip.logi) + 1] ELSE EOC
    BY <2>7, <2>8, <2>4, <1>i, PathIs DEF Follow
  <2>10. k - ip.logi < n <=> k < Len(q)
    BY <1>q, <1>i, <1>c
  <2>11. CASE k < Len(q)
    <3>1. (k - ip.logi) + 1 \in 1 .. n /\ ip.logi + ((k - ip.logi) + 1) = k + 1
      BY <2>11, <1>2, <1>q, <1>i, <1>c
    <3>2. r[(k - ip.logi) + 1] = q[k + 1]
      BY <3>1 DEF r
    <3> QED BY <3>2, <2>11, <2>10, <2>9, <2>2
  <2> QED BY <2>2, <2>9, <2>10, <2>11
<1>3. k < ip.logi \/ k >= ip.logi
  BY <1>i, <1>c
<1> QED BY <1>1, <1>2, <1>3

FatType == [Clusters -> Clusters \cup {0, EOC}]

\* The three changes of the FAT as relations, with the chains R they lead to.
Marked(f, c, g) == g = [f EXCEPT ![c] = EOC]
Linked(f, a, c, g) == g = [f EXCEPT ![a] = c]
Freed(f, S, g) == g = [x \in Clusters |-> IF x \in S THEN 0 ELSE f[x]]

MoreChains(g, H, c, Q, R) ==
    /\ c \notin H
    /\ \A h \in H : R[h] = Q[h] /\ \A i \in 1 .. Len(Q[h]) : Q[h][i] # c
    /\ Len(R[c]) = 1
    /\ FatChains(g, H \cup {c}, R)

LongerChain(g, H, b, c, Q, R) ==
    /\ \A h \in H : h # b /\ h # c => R[h] = Q[h]
    /\ Len(R[b]) = Len(Q[b]) + 1 /\ R[b][Len(Q[b]) + 1] = c
    /\ \A i \in 1 .. Len(Q[b]) : R[b][i] = Q[b][i]
    /\ FatChains(g, H \ {c}, R)

FewerChains(g, H, c, Q) ==
    /\ FatChains(g, H \ {c}, Q)
    /\ \A h \in H : h # c => \A i \in 1 .. Len(Q[h]) : g[Q[h][i]] # 0

\* A free cluster is marked and becomes a chain of its own.
LEMMA ChainsAlloc ==
    ASSUME NEW f \in FatType, NEW H \in SUBSET Clusters, NEW Q, FatChains(f, H, Q),
           NEW c \in Clusters, f[c] = 0, NEW g, Marked(f, c, g)
    PROVE  \E R : MoreChains(g, H, c, Q, R)
<1> PICK R : /\ R = [h \in H \cup {c} |-> IF h = c THEN <<c>> ELSE Q[h]]
             /\ g = [f EXCEPT ![c] = EOC]
  BY DEF Marked
<1>c. MaxLen \in Nat \ {0} /\ EOC \notin Clusters /\ EOC # 0 /\ 0 \notin Clusters
  BY Consts
<1>q. \A h \in H : /\ Q[h] \in Seq(Clusters) /\ Len(Q[h]) \in 1 .. MaxLen /\ Q[h][1] = h
                   /\ \A i \in 1 .. Len(Q[h]) :
                         /\ Q[h][i] \in Clusters
                         /\ f[Q[h][i]] = IF i < Len(Q[h]) THEN Q[h][i + 1] ELSE EOC
  BY <1>c DEF FatChains, ChainOf
<1>1. ASSUME NEW h \in H, NEW i \in 1 .. Len(Q[h]) PROVE f[Q[h][i]] # 0
  <2>1. Len(Q[h]) \in Nat
    BY <1>q
  <2>2. i < Len(Q[h]) => i + 1 \in 1 .. Len(Q[h])
    BY <2>1
  <2> QED BY <2>2, <1>q, <1>c
<1>2. \A h \in H : \A i \in 1 .. Len(Q[h]) : Q[h][i] # c
  BY <1>1
<1>3. c \notin H
  <2> SUFFICES ASSUME c \in H PROVE FALSE
    OBVIOUS
  <2>1. 1 \in 1 .. Len(Q[c]) /\ Q[c][1] = c
    BY <1>q, <1>c
  <2> QED BY <2>1, <1>2
<1>4. (\A h \in H : R[h] = Q[h]) /\ R[c] = <<c>>
  BY <1>3
<1>5. Len(R[c]) = 1 /\ R[c] \in Seq(Clusters) /\ R[c][1] = c
  BY <1>4
<1>6. \A h \in H \cup {c} : ChainOf(g, h, R[h])
  <2>1. ChainOf(g, c, R[c])
    <3>1. \A i \in 1 .. Len(R[c]) : i = 1 /\ R[c][i] = c
      BY <1>5
    <3>2. g[c] = EOC
      BY DEF FatType
    <3> QED BY <3>1, <3>2, <1>5, <1>c DEF ChainOf
  <2>2. ASSUME NEW h \in H PROVE ChainOf(g, h, R[h])
    <3>1. \A i \in 1 .. Len(Q[h]) : g[Q[h][i]] = f[Q[h][i]]
      BY <1>2, <1>q DEF FatType
    <3> QED BY <3>1, <1>4, <1>q DEF ChainOf
  <2> QED BY <2>1, <2>2
<1>7. Disjoint(H \cup {c}, R)
  <2> SUFFICES ASSUME NEW h \in H \cup {c}, NEW k \in H \cup {c},
                      NEW i \in 1 .. Len(R[h]), NEW j \in 1 .. Len(R[k]),
                      R[h][i] = R[k][j]
               PROVE  h = k /\ i = j
    BY DEF Disjoint
  <2>0. \A m \in 1 .. Len(R[c]) : m = 1 /\ R[c][m] = c
    BY <1>5
  <2>1. CASE h = c /\ k = c
    BY <2>1, <2>0
  <2>2. CASE h = c /\ k \in H
    BY <2>2, <2>0, <1>2, <1>4
  <2>3. CASE h \in H /\ k = c
    BY <2>3, <2>0, <1>2, <1>4
  <2>4. CASE h \in H /\ k \in H
    <3>1. R[h] = Q[h] /\ R[k] = Q[k]
      BY <2>4, <1>4
    <3>2. \A a \in 1 .. Len(Q[h]), b \in 1 .. Len(Q[k]) : Q[h][a] = Q[k][b] => h = k /\ a = b
      BY <2>4 DEF FatChains, Disjoint
    <3>3. i \in 1 .. Len(Q[h]) /\ j \in 1 .. Len(Q[k]) /\ Q[h][i] = Q[k][j]
      BY <3>1
    <3> QED BY <3>2, <3>3
  <2> QED BY <2>1, <2>2, <2>3, <2>4
<1>8. Covered(g, H \cup {c}, R)
  <2> SUFFICES ASSUME NEW x \in Clusters, g[x] # 0
               PROVE  \E h \in H \cup {c} : \E i \in 1 .. Len(R[h]) : R[h][i] = x
    BY DEF Covered
  <2>1. CASE x = c
    <3>1. 1 \in 1 .. Len(R[c]) /\ R[c][1] = x
      BY <2>1, <1>5
    <3> QED BY <3>1
  <2>2. CASE x # c
    <3>1. f[x] # 0
      BY <2>2 DEF FatType
    <3>2. PICK h \in H : \E i \in 1 .. Len(Q[h]) : Q[h][i] = x
      BY <3>1 DEF FatChains, Covered
    <3> QED BY <3>2, <1>4
  <2> QED BY <2>1, <2>2
<1>9. FatChains(g, H \cup {c}, R)
  BY <1>6, <1>7, <1>8 DEF FatChains
<1> QED BY <1>2, <1>3, <1>4, <1>5, <1>9 DEF MoreChains

\* A chain of one cluster is linked to the last cluster of another.
LEMMA ChainsLink ==
    ASSUME NEW f \in FatType, NEW H \in SUBSET Clusters, NEW Q, FatChains(f, H, Q),
           NEW c \in H, Len(Q[c]) = 1, NEW b \in H, b # c, Len(Q[b]) < MaxLen,
           NEW g, g = [f EXCEPT ![Q[b][Len(Q[b])]] = c],
           NEW R, R = [h \in H \ {c} |-> IF h = b THEN Append(Q[b], c) ELSE Q[h]]
    PROVE  /\ \A h \in H \ {b, c} : R[h] = Q[h]
           /\ R[b] = Append(Q[b], c)
           /\ FatChains(g, H \ {c}, R)
<1>c. MaxLen \in Nat \ {0} /\ EOC \notin Clusters /\ EOC # 0 /\ 0 \notin Clusters
  BY Consts
<1>q. \A h \in H : /\ Q[h] \in Seq(Clusters) /\ Len(Q[h]) \in 1 .. MaxLen /\ Q[h][1] = h
                   /\ \A i \in 1 .. Len(Q[h]) :
                         /\ Q[h][i] \in Clusters
                         /\ f[Q[h][i]] = IF i < Len(Q[h]) THEN Q[h][i + 1] ELSE EOC
  BY <1>c DEF FatChains, ChainOf
<1> PICK n \in 1 .. MaxLen : n = Len(Q[b])
  BY <1>q
<1> PICK l : l = Q[b][n]
  OBVIOUS
<1>n. n \in Nat /\ n \in 1 .. n /\ n + 1 \in 1 .. MaxLen /\ n < n + 1
  BY <1>c
<1>l. l \in Clusters /\ f[l] = EOC
  BY <1>n, <1>q
<1>g. g \in [Clusters -> Clusters \cup {0, EOC}] /\ g[l] = c
      /\ \A x \in Clusters : x # l => g[x] = f[x]
  BY <1>l DEF FatType
<1>d. \A h, k \in H : \A i \in 1 .. Len(Q[h]), j \in 1 .. Len(Q[k]) :
         Q[h][i] = Q[k][j] => h = k /\ i = j
  BY DEF FatChains, Disjoint
<1>1. (\A h \in H \ {b, c} : R[h] = Q[h]) /\ R[b] = Append(Q[b], c)
  OBVIOUS
<1>2. /\ R[b] \in Seq(Clusters) /\ Len(R[b]) = n + 1 /\ R[b][n + 1] = c
      /\ \A i \in 1 .. n : R[b][i] = Q[b][i]
  BY <1>1, <1>q, <1>n
<1>3. Q[c][1] = c /\ f[c] = EOC /\ c \in Clusters
  BY <1>q
<1>4. c # l
  <2>1. 1 \in 1 .. Len(Q[c])
    OBVIOUS
  <2> QED BY <2>1, <1>3, <1>n, <1>d
<1>5. ChainOf(g, b, R[b])
  <2>1. ASSUME NEW i \in 1 .. n + 1
        PROVE  g[R[b][i]] = IF i < n + 1 THEN R[b][i + 1] ELSE EOC
    <3>1. CASE i = n + 1
      BY <3>1, <1>2, <1>3, <1>4, <1>g, <1>n
    <3>2. CASE i = n
      BY <3>2, <1>2, <1>g, <1>n
    <3>3. CASE i < n
      <4>1. i \in 1 .. n /\ i + 1 \in 1 .. n /\ i # n /\ i < n + 1
        BY <3>3, <1>n
      <4>2. R[b][i] = Q[b][i] /\ R[b][i + 1] = Q[b][i + 1]
        BY <4>1, <1>2
      <4>3. Q[b][i] # l /\ Q[b][i] \in Clusters
        BY <4>1, <1>n, <1>d, <1>q
      <4>4. f[Q[b][i]] = Q[b][i + 1]
        BY <4>1, <3>3, <1>q
      <4> QED BY <4>1, <4>2, <4>3, <4>4, <1>g
    <3> QED BY <3>1, <3>2, <3>3, <1>n
  <2>2. R[b][1] = b
    BY <1>2, <1>q, <1>n
  <2> QED BY <2>1, <2>2, <1>2, <1>n DEF ChainOf
<1>6. ASSUME NEW h \in H \ {b, c} PROVE ChainOf(g, h, R[h])
  <2>1. \A i \in 1 .. Len(Q[h]) : Q[h][i] # l /\ Q[h][i] \in Clusters
    BY <1>6, <1>n, <1>d, <1>q
  <2>2. \A i \in 1 .. Len(Q[h]) : g[Q[h][i]] = f[Q[h][i]]
    BY <2>1, <1>g
  <2> QED BY <2>2, <1>1, <1>q DEF ChainOf
<1>7. \A h \in H \ {c} : ChainOf(g, h, R[h])
  BY <1>5, <1>6
\* Where a cluster of the new chains was before.
<1>8. ASSUME NEW h \in H \ {c}, NEW i \in 1 .. Len(R[h])
      PROVE  \/ h = b /\ i = n + 1 /\ R[h][i] = Q[c][1]
             \/ i \in 1 .. Len(Q[h]) /\ R[h][i] = Q[h][i]
  <2>1. CASE h = b
    <3>1. i = n + 1 \/ i \in 1 .. n
      BY <2>1, <1>2, <1>n
    <3> QED BY <3>1, <2>1, <1>2, <1>3
  <2>2. CASE h # b
    BY <2>2, <1>1
  <2> QED BY <2>1, <2>2
<1>9. Disjoint(H \ {c}, R)
  <2> SUFFICES ASSUME NEW h \in H \ {c}, NEW k \in H \ {c},
                      NEW i \in 1 .. Len(R[h]), NEW j \in 1 .. Len(R[k]),
                      R[h][i] = R[k][j]
               PROVE  h = k /\ i = j
    BY DEF Disjoint
  <2>0. 1 \in 1 .. Len(Q[c])
    OBVIOUS
  <2>1. CASE h = b /\ i = n + 1 /\ R[h][i] = Q[c][1]
    BY <2>1, <2>0, <1>8, <1>d
  <2>2. CASE k = b /\ j = n + 1 /\ R[k][j] = Q[c][1]
    BY <2>2, <2>0, <1>8, <1>d
  <2>3. CASE i \in 1 .. Len(Q[h]) /\ R[h][i] = Q[h][i]
             /\ j \in 1 .. Len(Q[k]) /\ R[k][j] = Q[k][j]
    BY <2>3, <1>d
  <2> QED BY <2>1, <2>2, <2>3, <1>8
<1>10. Covered(g, H \ {c}, R)
  <2> SUFFICES ASSUME NEW x \in Clusters, g[x] # 0
               PROVE  \E h \in H \ {c} : \E i \in 1 .. Len(R[h]) : R[h][i] = x
    BY DEF Covered
  <2>0. n + 1 \in 1 .. Len(R[b]) /\ R[b][n + 1] = c
    BY <1>2, <1>n
  <2>1. f[x] # 0
    BY <1>g, <1>l, <1>c
  <2>2. PICK h \in H : \E i \in 1 .. Len(Q[h]) : Q[h][i] = x
    BY <2>1 DEF FatChains, Covered
  <2>3. PICK i \in 1 .. Len(Q[h]) : Q[h][i] = x
    BY <2>2
  <2>4. CASE h = c
    <3>0. Len(Q[h]) = 1
      BY <2>4
    <3>1. i = 1
      BY <3>0
    <3> QED BY <3>1, <2>3, <2>4, <2>0, <1>3
  <2>5. CASE h = b
    <3>1. i \in 1 .. Len(R[b]) /\ R[b][i] = x
      BY <2>5, <2>3, <1>2, <1>n
    <3> QED BY <3>1
  <2>6. CASE h \in H \ {b, c}
    BY <2>6, <2>3, <1>1
  <2> QED BY <2>4, <2>5, <2>6
<1> QED BY <1>1, <1>7, <1>9, <1>10 DEF FatChains

\* The clusters of a chain are freed.
LEMMA ChainsFree ==
    ASSUME NEW f \in FatType, NEW H \in SUBSET Clusters, NEW Q, FatChains(f, H, Q),
           NEW c \in H, NEW g, Freed(f, {Q[c][i] : i \in 1 .. Len(Q[c])}, g)
    PROVE  FewerChains(g, H, c, Q)
<1>g. g = [x \in Clusters |-> IF x \in {Q[c][i] : i \in 1 .. Len(Q[c])} THEN 0 ELSE f[x]]
  BY DEF Freed
<1> USE <1>g
<1>c. MaxLen \in Nat \ {0} /\ EOC \notin Clusters /\ EOC # 0 /\ 0 \notin Clusters
  BY Consts
<1>q. \A h \in H : /\ Q[h] \in Seq(Clusters) /\ Len(Q[h]) \in 1 .. MaxLen /\ Q[h][1] = h
                   /\ \A i \in 1 .. Len(Q[h]) :
                         /\ Q[h][i] \in Clusters
                         /\ f[Q[h][i]] = IF i < Len(Q[h]) THEN Q[h][i + 1] ELSE EOC
  BY <1>c DEF FatChains, ChainOf
<1>d. \A h, k \in H : \A i \in 1 .. Len(Q[h]), j \in 1 .. Len(Q[k]) :
         Q[h][i] = Q[k][j] => h = k /\ i = j
  BY DEF FatChains, Disjoint
<1>1. ASSUME NEW h \in H \ {c}, NEW i \in 1 .. Len(Q[h])
      PROVE  g[Q[h][i]] = f[Q[h][i]] /\ f[Q[h][i]] # 0
  <2>1. Q[h][i] \notin {Q[c][j] : j \in 1 .. Len(Q[c])}
    BY <1>d
  <2>2. Len(Q[h]) \in Nat
    BY <1>q
  <2>3. i < Len(Q[h]) => i + 1 \in 1 .. Len(Q[h])
    BY <2>2
  <2> QED BY <2>1, <2>3, <1>q, <1>c
<1>2. \A h \in H \ {c} : ChainOf(g, h, Q[h])
  BY <1>1, <1>q DEF ChainOf
<1>3. Disjoint(H \ {c}, Q)
  BY <1>d DEF Disjoint
<1>4. Covered(g, H \ {c}, Q)
  <2> SUFFICES ASSUME NEW x \in Clusters, g[x] # 0
               PROVE  \E h \in H \ {c} : \E i \in 1 .. Len(Q[h]) : Q[h][i] = x
    BY DEF Covered
  <2>1. f[x] # 0 /\ x \notin {Q[c][i] : i \in 1 .. Len(Q[c])}
    OBVIOUS
  <2>2. PICK h \in H : \E i \in 1 .. Len(Q[h]) : Q[h][i] = x
    BY <2>1 DEF FatChains, Covered
  <2> QED BY <2>1, <2>2
<1>5. FatChains(g, H \ {c}, Q)
  BY <1>2, <1>3, <1>4 DEF FatChains
<1> QED BY <1>1, <1>5 DEF FewerChains

LEMMA LinkedChains ==
    ASSUME NEW f \in FatType, NEW H \in SUBSET Clusters, NEW Q, FatChains(f, H, Q),
           NEW c \in H, Len(Q[c]) = 1, NEW b \in H, b # c, Len(Q[b]) < MaxLen,
           NEW g, Linked(f, Q[b][Len(Q[b])], c, g)
    PROVE  \E R : LongerChain(g, H, b, c, Q, R)
<1> PICK R : R = [h \in H \ {c} |-> IF h = b THEN Append(Q[b], c) ELSE Q[h]]
  OBVIOUS
<1>1. g = [f EXCEPT ![Q[b][Len(Q[b])]] = c]
  BY DEF Linked
<1>2. /\ \A h \in H \ {b, c} : R[h] = Q[h]
      /\ R[b] = Append(Q[b], c)
      /\ FatChains(g, H \ {c}, R)
  BY <1>1, ChainsLink
<1> PICK q : q = Q[b]
  OBVIOUS
<1>3. q \in Seq(Clusters) /\ c \in Clusters
  BY DEF FatChains, ChainOf
<1>4. /\ Len(Append(q, c)) = Len(q) + 1 /\ Append(q, c)[Len(q) + 1] = c
      /\ \A i \in 1 .. Len(q) : Append(q, c)[i] = q[i]
  BY <1>3
<1>5. /\ Len(R[b]) = Len(q) + 1 /\ R[b][Len(q) + 1] = c
      /\ \A i \in 1 .. Len(q) : R[b][i] = q[i]
  BY <1>2, <1>4
<1> QED BY <1>2, <1>5 DEF LongerChain

-----------------------------------------------------------------------------
(* What the invariant says about the heads, and what follows from it.      *)

LEMMA HeadsAre ==
    ASSUME TypeOK, Changing, NEW Q, Growing(Q)
    PROVE  /\ Heads \in SUBSET Clusters
           /\ \A s \in Used : s \in Slots /\ dir[s] \in Entries /\ dir[s].start \in Heads
           /\ \A p \in Holders : p \in Procs /\ clus[p] \in Heads
<1>1. \A s \in Used : s \in Slots /\ dir[s] \in Entries /\ dir[s].start \in Clusters
  BY DEF TypeOK, Used, Entries
<1>2. \A p \in Holders : p \in Procs /\ clus[p] \in Clusters
  BY DEF Holders, Changing, ChangePcs, Growing
<1>3. \A s \in Used : dir[s].start \in EntryHeads
  BY DEF EntryHeads
<1>4. \A p \in Holders : clus[p] \in CallHeads
  BY DEF CallHeads
<1>5. EntryHeads \subseteq Clusters
  BY <1>1 DEF EntryHeads
<1>6. CallHeads \subseteq Clusters
  BY <1>2 DEF CallHeads
<1> QED BY <1>1, <1>2, <1>3, <1>4, <1>5, <1>6 DEF Heads

\* The chain q of a head h.
GoodChain(h, q) ==
    /\ ChainOf(fat, h, q)
    /\ q \in Seq(Clusters) /\ Len(q) \in 1 .. MaxLen /\ Len(q) \in Nat
    /\ q[1] = h
    /\ \A i \in 1 .. Len(q) : q[i] \in Clusters /\ fat[q[i]] # 0
    /\ \A i, j \in 1 .. Len(q) : q[i] = q[j] => i = j
    /\ Chain(h) = {q[i] : i \in 1 .. Len(q)}
    /\ Cardinality(Chain(h)) = Len(q)
    /\ \A j \in 0 .. MaxLen : Follow(h, j) = IF j < Len(q) THEN q[j + 1] ELSE EOC

LEMMA HeadChain ==
    ASSUME NEW H \in SUBSET Clusters, NEW Q, FatChains(fat, H, Q), NEW h \in H
    PROVE  GoodChain(h, Q[h])
<1>c. MaxLen \in Nat \ {0} /\ EOC # 0 /\ 0 \notin Clusters /\ h \in Clusters
  BY Consts
<1>1. ChainOf(fat, h, Q[h])
  BY DEF FatChains
<1>2. Q[h] \in Seq(Clusters) /\ Len(Q[h]) \in 1 .. MaxLen /\ Len(Q[h]) \in Nat /\ Q[h][1] = h
  BY <1>1, <1>c DEF ChainOf
<1>3. \A i \in 1 .. Len(Q[h]) : Q[h][i] \in Clusters /\ fat[Q[h][i]] # 0
  <2> TAKE i \in 1 .. Len(Q[h])
  <2>1. i < Len(Q[h]) => i + 1 \in 1 .. Len(Q[h])
    BY <1>2
  <2>2. fat[Q[h][i]] = IF i < Len(Q[h]) THEN Q[h][i + 1] ELSE EOC
    BY <1>1 DEF ChainOf
  <2> QED BY <2>1, <2>2, <1>2, <1>c
<1>4. \A i, j \in 1 .. Len(Q[h]) : Q[h][i] = Q[h][j] => i = j
  BY DEF FatChains, Disjoint
<1>5. Chain(h) = {Q[h][i] : i \in 1 .. Len(Q[h])} /\ Cardinality(Chain(h)) = Len(Q[h])
  BY <1>1, <1>4, <1>c, ChainIs, ChainCard
<1>6. \A j \in 0 .. MaxLen : Follow(h, j) = IF j < Len(Q[h]) THEN Q[h][j + 1] ELSE EOC
  BY <1>1, <1>c, PathIs DEF Follow
<1> QED BY <1>1, <1>2, <1>3, <1>4, <1>5, <1>6 DEF GoodChain

LEMMA OwnedByInv ==
    ASSUME NEW Q, FatInv(Q)
    PROVE  ClustersOwned
<1>c. MaxLen \in Nat \ {0}
  BY Consts
<1>h. /\ Heads \in SUBSET Clusters
      /\ \A s \in Used : s \in Slots /\ dir[s] \in Entries /\ dir[s].start \in Heads
      /\ \A p \in Holders : p \in Procs /\ clus[p] \in Heads
  BY HeadsAre DEF FatInv
<1>f. FatChains(fat, Heads, Q)
  BY DEF FatInv
<1>k. \A h \in Heads : /\ Chain(h) = {Q[h][i] : i \in 1 .. Len(Q[h])}
                       /\ Cardinality(Chain(h)) = Len(Q[h]) /\ Len(Q[h]) \in Nat
                       /\ \A i \in 1 .. Len(Q[h]) : fat[Q[h][i]] # 0
  <2>1. \A h \in Heads : GoodChain(h, Q[h])
    BY <1>h, <1>f, HeadChain
  <2> QED BY <2>1 DEF GoodChain
<1>d. \A h, g \in Heads : h # g => Chain(h) \cap Chain(g) = {}
  <2> SUFFICES ASSUME NEW h \in Heads, NEW g \in Heads, NEW c \in Chain(h), c \in Chain(g)
               PROVE  h = g
    OBVIOUS
  <2>1. PICK i \in 1 .. Len(Q[h]) : c = Q[h][i]
    BY <1>k
  <2>2. PICK j \in 1 .. Len(Q[g]) : c = Q[g][j]
    BY <1>k
  <2> QED BY <2>1, <2>2, <1>f DEF FatChains, Disjoint
<1>1. ChainsApart
  <2> DEFINE ch == [s \in Used |-> Chain(dir[s].start)]
  <2>1. Used = {s \in Slots : cached[s] # None}
    BY DEF FatInv, DirCached, Used
  <2>2. ASSUME NEW s \in Used
        PROVE  /\ \A c \in ch[s] : fat[c] # 0
               /\ cached[s].start = dir[s].start
               /\ {dir[s].size, cached[s].size} \subseteq 0 .. Cardinality(ch[s])
               /\ \A t \in Used \ {s} : ch[s] \cap ch[t] = {}
    <3> PICK h \in Heads : h = dir[s].start
      BY <1>h
    <3>1. ch[s] = Chain(h)
      OBVIOUS
    <3>2. \A c \in ch[s] : fat[c] # 0
      BY <3>1, <1>k
    <3>3. cached[s].start = dir[s].start
      BY <1>h DEF FatInv, DirCached, Used
    <3>4. dir[s].size \in 0 .. MaxLen /\ cached[s].size \in 0 .. MaxLen
      <4>1. cached[s] \in Entries
        BY <2>1 DEF FatInv, TypeOK
      <4> QED BY <4>1, <1>h DEF Entries
    <3>5. dir[s].size <= Len(Q[h]) /\ cached[s].size <= Len(Q[h])
      BY DEF FatInv, SizesFit
    <3>6. {dir[s].size, cached[s].size} \subseteq 0 .. Cardinality(ch[s])
      BY <3>1, <3>4, <3>5, <1>k, <1>c
    <3>7. \A t \in Used \ {s} : ch[s] \cap ch[t] = {}
      <4> TAKE t \in Used \ {s}
      <4>1. dir[t].start # h /\ dir[t].start \in Heads
        BY <1>h DEF FatInv, HeadsApart
      <4> QED BY <4>1, <3>1, <1>d
    <3> QED BY <3>2, <3>3, <3>6, <3>7
  <2>3. Used = {s \in Slots : dir[s] # None}
    BY DEF Used
  <2> HIDE DEF Used
  <2> QED BY <2>1, <2>2, <2>3 DEF ChainsApart
<1>2. NoClusterLost
  <2> SUFFICES ASSUME NEW c \in Clusters, fat[c] # 0
               PROVE  \/ \E s \in Slots : dir[s] # None /\ c \in Chain(dir[s].start)
                      \/ \E p \in Procs : /\ pc[p] \in {"create", "grow", "unchain"}
                                          /\ c \in Chain(clus[p])
    BY DEF NoClusterLost
  <2>1. PICK h \in Heads : \E i \in 1 .. Len(Q[h]) : Q[h][i] = c
    BY <1>f DEF FatChains, Covered
  <2>2. c \in Chain(h)
    BY <2>1, <1>k
  <2>3. (\E s \in Used : h = dir[s].start) \/ (\E p \in Holders : h = clus[p])
    BY DEF Heads, EntryHeads, CallHeads
  <2> QED BY <2>2, <2>3 DEF Used, Holders
<1> QED BY <1>1, <1>2 DEF ClustersOwned, FatInv

LEMMA PlaceByInv ==
    ASSUME NEW Q, FatInv(Q)
    PROVE  PlaceRemembered /\ ReadsWritten /\ OpenFilesAlive
<1>c. MaxLen \in Nat \ {0} /\ None \notin Slots
  BY Consts
<1>h. /\ Heads \in SUBSET Clusters
      /\ \A s \in Used : s \in Slots /\ dir[s] \in Entries /\ dir[s].start \in Heads
  BY HeadsAre DEF FatInv
<1>f. FatChains(fat, Heads, Q)
  BY DEF FatInv
<1>i. ASSUME NEW s \in Slots, inode[s] # None
      PROVE  /\ s \in Used /\ inode[s] \in Inodes /\ inode[s].start = dir[s].start
             /\ inode[s].start \in Heads /\ inode[s].logi \in 0 .. MaxLen
             /\ inode[s].logi < Len(Q[inode[s].start])
             /\ Q[inode[s].start][inode[s].logi + 1] = inode[s].clus
             /\ inode[s].size \in 0 .. MaxLen
             /\ inode[s].size <= Len(Q[inode[s].start])
  <2>1. s \in Used /\ inode[s].start = dir[s].start
    BY <1>i DEF FatInv, InodeEntry, Used
  <2>2. inode[s] \in Inodes
    BY <1>i DEF FatInv, TypeOK
  <2> QED BY <2>1, <2>2, <1>h, <1>i DEF FatInv, InodePlace, Inodes
<1>1. PlaceRemembered
  BY <1>i, <1>h, <1>f, HeadChain DEF PlaceRemembered, GoodChain
<1>2. ReadsWritten
  <2> SUFFICES ASSUME NEW p \in Procs, pc[p] = "read"
               PROVE  data[inode[file[p]].clus] # None
    BY DEF ReadsWritten
  <2> PICK s \in Slots : s = file[p]
    BY DEF FatInv, Busy, BusyPcs
  <2>1. inode[s] # None /\ at[p] = inode[s].logi /\ at[p] < inode[s].size
    BY DEF FatInv, Busy, BusyPcs
  <2> PICK q : q = Q[dir[s].start]
    OBVIOUS
  <2>2. Len(q) \in Nat
    BY <1>h, <1>f, <1>i, <2>1, HeadChain DEF GoodChain
  <2>3. inode[s].logi + 1 \in 1 .. Len(q) /\ inode[s].logi + 1 <= inode[s].size
    <3>1. /\ inode[s].logi \in 0 .. MaxLen /\ inode[s].logi < Len(q)
          /\ inode[s].size \in 0 .. MaxLen
      BY <2>1, <1>i
    <3> PICK l : l = inode[s].logi
      OBVIOUS
    <3> PICK z : z = inode[s].size
      OBVIOUS
    <3>2. l < z /\ l \in 0 .. MaxLen /\ z \in 0 .. MaxLen /\ l < Len(q)
      BY <3>1, <2>1
    <3>3. \A i, j, n \in Nat : i < j /\ i < n => i + 1 \in 1 .. n /\ i + 1 <= j
      OBVIOUS
    <3>4. l \in Nat /\ z \in Nat
      BY <3>2, <1>c
    <3>5. l + 1 \in 1 .. Len(q) /\ l + 1 <= z
      BY <3>2, <3>3, <3>4, <2>2, Zenon
    <3> QED BY <3>5
  <2> QED BY <2>1, <2>3, <1>i DEF FatInv, Written
<1>3. OpenFilesAlive
  BY <1>i DEF FatInv, Referenced, OpenFilesAlive, Used
<1> QED BY <1>1, <1>2, <1>3

LEMMA FatInit == Init => \E Q : FatInv(Q)
<1> SUFFICES ASSUME Init PROVE FatInv(<<>>)
  OBVIOUS
<1>c. MaxLen \in Nat \ {0}
  BY Consts
<1>1. TypeOK
  BY <1>c DEF Init, TypeOK, Pcs, NoDir
<1>2. Used = {} /\ Holders = {}
  BY DEF Init, Used, Holders, NoDir
<1>3. Heads = {}
  BY <1>2 DEF Heads, EntryHeads, CallHeads
<1>4. FatChains(fat, Heads, <<>>)
  BY <1>3 DEF Init, FatChains, Disjoint, Covered
<1>5. \A s \in Slots : Users(s) = {}
  BY Consts DEF Init, Users
<1>6. Referenced
  BY <1>5, FS_EmptySet DEF Referenced
<1>7. HeadsApart /\ SizesFit(<<>>) /\ Written(<<>>)
  BY <1>2 DEF HeadsApart, SizesFit, Written
<1>8. DirCached /\ SectorCopies /\ InodeEntry /\ InodePlace(<<>>)
  BY DEF Init, NoDir, DirCached, SectorCopies, InodeEntry, InodePlace
<1>9. Changing /\ Waiting /\ Busy /\ Growing(<<>>) /\ ChangesAlone
  BY DEF Init, Changing, Waiting, Busy, Growing, ChangesAlone, ChangePcs, BusyPcs
<1> QED BY <1>1, <1>4, <1>6, <1>7, <1>8, <1>9 DEF FatInv

-----------------------------------------------------------------------------
(* What a step may rely on.                                                *)

FatFacts(Q) ==
    /\ Heads \in SUBSET Clusters
    /\ \A s \in Used : /\ s \in Slots /\ dir[s] \in Entries /\ dir[s].start \in Heads
                       /\ cached[s] \in Entries /\ cached[s].start = dir[s].start
    /\ \A p \in Holders : p \in Procs /\ clus[p] \in Heads
    /\ \A h \in Heads : GoodChain(h, Q[h])
    /\ \A s \in Slots : inode[s] # None =>
           /\ inode[s] \in Inodes /\ s \in Used
           /\ inode[s].start = dir[s].start /\ inode[s].start \in Heads

LEMMA Facts ==
    ASSUME NEW Q, FatInv(Q)
    PROVE  FatFacts(Q)
<1>1. /\ Heads \in SUBSET Clusters
      /\ \A s \in Used : s \in Slots /\ dir[s] \in Entries /\ dir[s].start \in Heads
      /\ \A p \in Holders : p \in Procs /\ clus[p] \in Heads
  BY HeadsAre DEF FatInv
<1>2. \A h \in Heads : GoodChain(h, Q[h])
  BY <1>1, HeadChain DEF FatInv
<1>3. \A s \in Used : cached[s] \in Entries /\ cached[s].start = dir[s].start
  BY <1>1 DEF FatInv, TypeOK, DirCached, Used
<1>4. \A s \in Slots : inode[s] # None =>
           /\ inode[s] \in Inodes /\ s \in Used
           /\ inode[s].start = dir[s].start /\ inode[s].start \in Heads
  BY <1>1 DEF FatInv, TypeOK, InodeEntry, Used
<1> QED BY <1>1, <1>2, <1>3, <1>4 DEF FatFacts

\* bmap, for the cluster of an inode that a call may ask for.
LEMMA BmapFacts ==
    ASSUME NEW Q, FatInv(Q), NEW s \in Slots, inode[s] # None,
           NEW k \in 0 .. MaxLen, k <= Len(Q[inode[s].start])
    PROVE  Bmap(inode[s], k) = IF k < Len(Q[inode[s].start])
                               THEN Q[inode[s].start][k + 1] ELSE EOC
<1>1. inode[s] \in Inodes /\ GoodChain(inode[s].start, Q[inode[s].start])
  BY Facts DEF FatFacts
<1>2. /\ inode[s].logi < Len(Q[inode[s].start])
      /\ Q[inode[s].start][inode[s].logi + 1] = inode[s].clus
  BY DEF FatInv, InodePlace
<1> PICK ip : ip = inode[s]
  OBVIOUS
<1> QED BY <1>1, <1>2, BmapIs DEF GoodChain

LEMMA SizeFits ==
    ASSUME NEW Q, FatInv(Q), NEW s \in Slots, inode[s] # None
    PROVE  /\ inode[s].size \in 0 .. MaxLen /\ inode[s].size <= Len(Q[inode[s].start])
           /\ Len(Q[inode[s].start]) \in 1 .. MaxLen
BY Facts DEF FatFacts, FatInv, InodePlace, Inodes, GoodChain

-----------------------------------------------------------------------------
(* The parts of the invariant that do not speak of chains.                 *)

Inside == ChangePcs \cup LookupPcs

\* Where a step takes a process, as far as the directory is concerned.
PcMoves(p) ==
    \E l \in Pcs :
        /\ pc' = [pc EXCEPT ![p] = l]
        /\ \/ l \notin Inside
           \/ pc[p] \in ChangePcs
           \/ pc[p] \in LookupPcs /\ l \in LookupPcs
           \/ MayChange(p)
           \/ MayLookup(p) /\ l \in LookupPcs

LEMMA PcSteps ==
    ASSUME TypeOK, NEW p \in Procs, OpenStep(p) \/ InodeStep(p) \/ UnlinkStep(p)
    PROVE  PcMoves(p) \/ pc' = pc
<1>p. pc \in [Procs -> Pcs]
  BY DEF TypeOK
<1> USE DEF PcMoves, Inside, Pcs, ChangePcs, LookupPcs, WritePcs, Goto
<1>1. ASSUME NEW n \in Names, OpenCreate(p, n) PROVE PcMoves(p)
  BY <1>1 DEF OpenCreate, Hang
<1>2. ASSUME NEW n \in Names, Open(p, n) PROVE PcMoves(p)
  BY <1>2 DEF Open
<1>3. CASE CreateEntry(p)
  BY <1>3 DEF CreateEntry
<1>4. CASE NamexLock(p)
  BY <1>4 DEF NamexLock
<1>5. CASE LookupFails(p)
  BY <1>5 DEF LookupFails, Return
<1>6. CASE LookupBuilds(p)
  BY <1>6 DEF LookupBuilds, Opened, Return
<1>7. CASE LookupFinds(p)
  BY <1>7 DEF LookupFinds, Opened, Return
<1>8. CASE LookupSleeps(p)
  BY <1>8 DEF LookupSleeps
<1>9. CASE LookupWakes(p)
  BY <1>9 DEF LookupWakes, Opened, Return
<1>10. CASE Close(p) \/ Exit(p)
  BY <1>10 DEF Close, Exit, procVars
<1>11. ASSUME NEW k \in 0 .. MaxLen - 1, Read(p, k) \/ Write(p, k) PROVE PcMoves(p)
  BY <1>11 DEF Read, Write
<1>12. ASSUME NEW k \in 0 .. MaxLen - 1, WriteGrow(p, k) PROVE PcMoves(p)
  BY <1>12 DEF WriteGrow, Hang
<1>13. ASSUME NEW v \in Values, WriteBlock(p, v) PROVE PcMoves(p)
  BY <1>13 DEF WriteBlock
<1>14. CASE ReadDone(p)
  BY <1>14 DEF ReadDone, Return
<1>15. CASE Grow(p)
  BY <1>15 DEF Grow
<1>16. CASE UpdateRead(p) \/ UpdateWrite(p)
  BY <1>16 DEF UpdateRead, UpdateWrite, Return
<1>17. ASSUME NEW n \in Names, Unlink(p, n) PROVE PcMoves(p)
  BY <1>17 DEF Unlink
<1>18. CASE MarkEntryDeleted(p)
  BY <1>18 DEF MarkEntryDeleted
<1>19. CASE FreeChain(p)
  BY <1>19 DEF FreeChain, Return
<1> QED
  BY <1>1, <1>2, <1>3, <1>4, <1>5, <1>6, <1>7, <1>8, <1>9, <1>10, <1>11, <1>12,
     <1>13, <1>14, <1>15, <1>16, <1>17, <1>18, <1>19
     DEF OpenStep, InodeStep, UnlinkStep

LEMMA ChangesAloneStep ==
    ASSUME Races = FALSE, TypeOK, ChangesAlone, NEW p \in Procs,
           OpenStep(p) \/ InodeStep(p) \/ UnlinkStep(p)
    PROVE  ChangesAlone'
<1>1. CASE pc' = pc
  BY <1>1 DEF ChangesAlone
<1>2. CASE PcMoves(p)
  <2>1. PICK l \in Pcs :
           /\ pc' = [pc EXCEPT ![p] = l]
           /\ \/ l \notin Inside
              \/ pc[p] \in ChangePcs
              \/ pc[p] \in LookupPcs /\ l \in LookupPcs
              \/ MayChange(p)
              \/ MayLookup(p) /\ l \in LookupPcs
    BY <1>2 DEF PcMoves
  <2>2. /\ pc'[p] = l /\ \A q \in Procs \ {p} : pc'[q] = pc[q]
    BY <2>1 DEF TypeOK
  <2>3. ChangePcs \cap LookupPcs = {}
    BY DEF ChangePcs, LookupPcs
  <2> HIDE DEF ChangePcs, LookupPcs
  <2>4. \/ l \notin Inside
        \/ \A q \in Procs \ {p} : pc[q] \notin Inside
        \/ l \in LookupPcs /\ \A q \in Procs \ {p} : pc[q] \notin ChangePcs
    BY <2>1, <2>3 DEF MayChange, MayLookup, ChangesAlone, Inside
  <2> QED BY <2>2, <2>3, <2>4 DEF ChangesAlone, Inside
<1> QED BY <1>1, <1>2, PcSteps

-----------------------------------------------------------------------------
(* What a step of a process changes.                                       *)

\* Nobody else's variables.
Local(p) ==
    \A q \in Procs \ {p} :
        /\ pc'[q] = pc[q] /\ name'[q] = name[q] /\ slot'[q] = slot[q]
        /\ clus'[q] = clus[q] /\ at'[q] = at[q] /\ file'[q] = file[q]

ProcTypes ==
    /\ file \in [Procs -> Slots \cup {None}]
    /\ pc \in [Procs -> Pcs]
    /\ name \in [Procs -> Names \cup {None}]
    /\ slot \in [Procs -> Slots \cup {None}]
    /\ clus \in [Procs -> Clusters \cup {None}]
    /\ at \in [Procs -> 0 .. MaxLen]

LEMMA LocalStep ==
    ASSUME TypeOK, NEW p \in Procs, OpenStep(p) \/ InodeStep(p) \/ UnlinkStep(p)
    PROVE  Local(p)
<1>t. ProcTypes
  BY DEF TypeOK, ProcTypes
<1> USE <1>t DEF Local, Goto, ProcTypes
<1>1. ASSUME NEW n \in Names, OpenCreate(p, n) PROVE Local(p)
  BY <1>1 DEF OpenCreate, Hang, AllocCluster
<1>2. ASSUME NEW n \in Names, Open(p, n) PROVE Local(p)
  BY <1>2 DEF Open
<1>3. CASE CreateEntry(p)
  BY <1>3 DEF CreateEntry
<1>4. CASE NamexLock(p)
  BY <1>4 DEF NamexLock
<1>5. CASE LookupFails(p)
  BY <1>5 DEF LookupFails, Return
<1>6. CASE LookupBuilds(p)
  BY <1>6 DEF LookupBuilds, Opened, Return
<1>7. CASE LookupFinds(p)
  BY <1>7 DEF LookupFinds, Opened, Return
<1>8. CASE LookupSleeps(p)
  BY <1>8 DEF LookupSleeps
<1>9. CASE LookupWakes(p)
  BY <1>9 DEF LookupWakes, Opened, Return
<1>10. CASE Close(p) \/ Exit(p)
  BY <1>10 DEF Close, Exit, procVars
<1>11. ASSUME NEW k \in 0 .. MaxLen - 1, Read(p, k) \/ Write(p, k) PROVE Local(p)
  BY <1>11 DEF Read, Write
<1>12. ASSUME NEW k \in 0 .. MaxLen - 1, WriteGrow(p, k) PROVE Local(p)
  BY <1>12 DEF WriteGrow, Hang, AllocCluster
<1>13. ASSUME NEW v \in Values, WriteBlock(p, v) PROVE Local(p)
  BY <1>13 DEF WriteBlock
<1>14. CASE ReadDone(p)
  BY <1>14 DEF ReadDone, Return
<1>15. CASE Grow(p)
  BY <1>15 DEF Grow
<1>16. CASE UpdateRead(p) \/ UpdateWrite(p)
  BY <1>16 DEF UpdateRead, UpdateWrite, Return
<1>17. ASSUME NEW n \in Names, Unlink(p, n) PROVE Local(p)
  BY <1>17 DEF Unlink
<1>18. CASE MarkEntryDeleted(p)
  BY <1>18 DEF MarkEntryDeleted
<1>19. CASE FreeChain(p)
  BY <1>19 DEF FreeChain, Return
<1> QED
  BY <1>1, <1>2, <1>3, <1>4, <1>5, <1>6, <1>7, <1>8, <1>9, <1>10, <1>11, <1>12,
     <1>13, <1>14, <1>15, <1>16, <1>17, <1>18, <1>19
     DEF OpenStep, InodeStep, UnlinkStep

\* The fields of an inode after an assignment to some of them.
SameFile(x, y) ==
    /\ x.name = y.name /\ x.start = y.start /\ x.size = y.size
    /\ x.logi = y.logi /\ x.clus = y.clus

LEMMA WithRef ==
    ASSUME NEW ip \in Inodes, NEW r \in Nat, NEW x, x = [ip EXCEPT !.ref = r]
    PROVE  x \in Inodes /\ x.ref = r /\ x.lock = ip.lock /\ SameFile(x, ip)
BY DEF Inodes, SameFile

LEMMA WithLock ==
    ASSUME NEW ip \in Inodes, NEW l \in Procs \cup {None}, NEW x, x = [ip EXCEPT !.lock = l]
    PROVE  x \in Inodes /\ x.ref = ip.ref /\ x.lock = l /\ SameFile(x, ip)
BY DEF Inodes, SameFile

LEMMA WithSize ==
    ASSUME NEW ip \in Inodes, NEW z \in 0 .. MaxLen, NEW x, x = [ip EXCEPT !.size = z]
    PROVE  /\ x \in Inodes /\ x.ref = ip.ref /\ x.lock = ip.lock
           /\ x.name = ip.name /\ x.start = ip.start /\ x.size = z
           /\ x.logi = ip.logi /\ x.clus = ip.clus
BY DEF Inodes

\* The directory: only Create, Unlink and the update of a size write it.
LEMMA DirSteps ==
    ASSUME NEW p \in Procs, OpenStep(p) \/ InodeStep(p) \/ UnlinkStep(p)
    PROVE  \/ UNCHANGED <<dir, cached>>
           \/ CreateEntry(p) \/ UpdateWrite(p) \/ MarkEntryDeleted(p)
<1> USE DEF diskVars
<1>1. ASSUME NEW n \in Names, OpenCreate(p, n) \/ Open(p, n) \/ Unlink(p, n)
      PROVE  UNCHANGED <<dir, cached>>
  BY <1>1 DEF OpenCreate, Open, Unlink
<1>2. ASSUME \/ NamexLock(p) \/ LookupFails(p) \/ LookupBuilds(p)
             \/ LookupFinds(p) \/ LookupSleeps(p) \/ LookupWakes(p)
      PROVE  UNCHANGED <<dir, cached>>
  BY <1>2 DEF NamexLock, LookupFails, LookupBuilds, LookupFinds, LookupSleeps,
              LookupWakes, Opened
<1>3. ASSUME Close(p) \/ Exit(p) \/ ReadDone(p) \/ Grow(p) \/ UpdateRead(p) \/ FreeChain(p)
      PROVE  UNCHANGED <<dir, cached>>
  BY <1>3 DEF Close, Exit, ReadDone, Grow, UpdateRead, FreeChain
<1>4. ASSUME NEW k \in 0 .. MaxLen - 1, Read(p, k) \/ Write(p, k) \/ WriteGrow(p, k)
      PROVE  UNCHANGED <<dir, cached>>
  BY <1>4 DEF Read, Write, WriteGrow
<1>5. ASSUME NEW v \in Values, WriteBlock(p, v) PROVE UNCHANGED <<dir, cached>>
  BY <1>5 DEF WriteBlock
<1> QED
  BY <1>1, <1>2, <1>3, <1>4, <1>5 DEF OpenStep, InodeStep, UnlinkStep

\* p works on the inode of its open file, which it has locked or locks.
Uses(p, x) ==
    /\ file[p] \in Slots /\ inode[file[p]] # None /\ inode[file[p]] \in Inodes
    /\ inode[file[p]].lock \in {None, p}
    /\ inode' = [inode EXCEPT ![file[p]] = x]
    /\ x \in Inodes /\ x # None /\ x.start = inode[file[p]].start
    /\ x.name = inode[file[p]].name
    /\ x.ref = inode[file[p]].ref /\ x.lock \in {None, p}
    /\ file' = file

ChainOfFile(Q, p) == Q[inode[file[p]].start]

\* An idle process may start on its file.
LEMMA ReadyFacts ==
    ASSUME TypeOK, NEW p \in Procs, Ready(p)
    PROVE  /\ pc[p] = "idle" /\ file[p] \in Slots
           /\ inode[file[p]] # None /\ inode[file[p]] \in Inodes
           /\ inode[file[p]].lock = None
BY DEF TypeOK, Ready

\* A read, or a write of a cluster that exists, remembers the place.
Placed(Q, p, k, x) ==
    /\ pc[p] = "idle" /\ inode[file[p]].lock = None
    /\ x.lock = p /\ x.size = inode[file[p]].size
    /\ k < Len(ChainOfFile(Q, p)) /\ x.logi = k /\ x.clus = ChainOfFile(Q, p)[k + 1]

LEMMA PlacedBy ==
    ASSUME NEW Q, FatInv(Q), NEW p \in Procs, NEW k \in 0 .. MaxLen - 1,
           Read(p, k) \/ Write(p, k)
    PROVE  \E x : Uses(p, x) /\ Placed(Q, p, k, x)
<1>c. MaxLen \in Nat \ {0} /\ EOC \notin Clusters
  BY Consts
<1>1. /\ pc[p] = "idle" /\ file[p] \in Slots
      /\ inode[file[p]] # None /\ inode[file[p]] \in Inodes
      /\ inode[file[p]].lock = None
  BY ReadyFacts DEF FatInv, Read, Write
<1> PICK s \in Slots : s = file[p]
  BY <1>1
<1> PICK ip \in Inodes : ip = inode[s]
  BY <1>1
<1> PICK q : q = Q[ip.start]
  OBVIOUS
<1>2. ip.size \in 0 .. MaxLen /\ ip.size <= Len(q) /\ Len(q) \in 1 .. MaxLen
      /\ GoodChain(ip.start, q)
  BY <1>1, SizeFits, Facts DEF FatFacts
<1>3. k \in 0 .. MaxLen /\ k <= Len(q)
  <2>1. k <= ip.size
    BY <1>2, <1>c DEF Read, Write, Readable
  <2> QED BY <2>1, <1>2, <1>c
<1>4. Bmap(ip, k) = IF k < Len(q) THEN q[k + 1] ELSE EOC
  BY <1>3, <1>1, BmapFacts
<1>5. k < Len(q)
  <2>1. CASE Read(p, k)
    <3>1. k < ip.size
      BY <2>1 DEF Read, Readable
    <3> QED BY <3>1, <1>2, <1>c
  <2>2. CASE Write(p, k)
    <3>1. Bmap(ip, k) # EOC
      BY <2>2 DEF Write
    <3> QED BY <3>1, <1>4
  <2> QED BY <2>1, <2>2
<1>6. k + 1 \in 1 .. Len(q)
  BY <1>5, <1>2, <1>c
<1>7. Bmap(ip, k) = q[k + 1] /\ q[k + 1] \in Clusters
  BY <1>4, <1>5, <1>6, <1>2 DEF GoodChain
<1> PICK c \in Clusters : c = Bmap(ip, k)
  BY <1>7
<1> PICK x : x = [ip EXCEPT !.lock = p, !.logi = k, !.clus = c]
  OBVIOUS
<1>8. inode' = [inode EXCEPT ![s] = x] /\ file' = file
  BY DEF Read, Write
<1>9. /\ x \in Inodes /\ x.ref = ip.ref /\ x.lock = p
      /\ x.name = ip.name /\ x.start = ip.start /\ x.size = ip.size
      /\ x.logi = k /\ x.clus = c
  BY <1>3 DEF Inodes
<1> QED BY <1>1, <1>5, <1>7, <1>8, <1>9, NoneAssumption DEF Uses, Placed, ChainOfFile

\* A write to the cluster after the last one.
AtEnd(Q, p, k, x) ==
    /\ pc[p] = "idle" /\ inode[file[p]].lock = None
    /\ x.lock = p /\ SameFile(x, inode[file[p]])
    /\ k = inode[file[p]].size /\ k = Len(ChainOfFile(Q, p))

LEMMA AtEndBy ==
    ASSUME NEW Q, FatInv(Q), NEW p \in Procs, NEW k \in 0 .. MaxLen - 1, WriteGrow(p, k)
    PROVE  \E x : Uses(p, x) /\ AtEnd(Q, p, k, x)
<1>c. MaxLen \in Nat \ {0} /\ EOC \notin Clusters
  BY Consts
<1>1. /\ pc[p] = "idle" /\ file[p] \in Slots
      /\ inode[file[p]] # None /\ inode[file[p]] \in Inodes
      /\ inode[file[p]].lock = None
  BY ReadyFacts DEF FatInv, WriteGrow
<1> PICK s \in Slots : s = file[p]
  BY <1>1
<1> PICK ip \in Inodes : ip = inode[s]
  BY <1>1
<1> PICK q : q = Q[ip.start]
  OBVIOUS
<1>2. ip.size \in 0 .. MaxLen /\ ip.size <= Len(q) /\ Len(q) \in 1 .. MaxLen
      /\ GoodChain(ip.start, q)
  BY <1>1, SizeFits, Facts DEF FatFacts
<1>3. k <= ip.size /\ Bmap(ip, k) = EOC
  BY DEF WriteGrow
<1>4. k \in 0 .. MaxLen /\ k <= Len(q)
  BY <1>2, <1>3, <1>c
<1>5. Bmap(ip, k) = IF k < Len(q) THEN q[k + 1] ELSE EOC
  BY <1>4, <1>1, BmapFacts
<1>6. ASSUME k < Len(q) PROVE FALSE
  <2>1. k + 1 \in 1 .. Len(q)
    BY <1>6, <1>2, <1>c
  <2> QED BY <2>1, <1>2, <1>3, <1>5, <1>6, <1>c DEF GoodChain
<1>7. k = ip.size /\ k = Len(q)
  BY <1>6, <1>2, <1>3, <1>4, <1>c
<1> DEFINE x == [ip EXCEPT !.lock = p]
<1>8. inode' = [inode EXCEPT ![s] = x] /\ file' = file
  BY <1>1 DEF WriteGrow, TypeOK
<1>9. x \in Inodes /\ x.ref = ip.ref /\ x.lock = p /\ SameFile(x, ip)
  BY WithLock
<1> HIDE DEF x
<1> QED BY <1>1, <1>7, <1>8, <1>9, NoneAssumption DEF Uses, AtEnd, ChainOfFile, SameFile

\* A process in a call on its file.
LEMMA BusyFacts ==
    ASSUME TypeOK, Busy, NEW p \in Procs, pc[p] \in BusyPcs
    PROVE  /\ file[p] \in Slots
           /\ inode[file[p]] # None /\ inode[file[p]] \in Inodes
           /\ inode[file[p]].lock = p
BY DEF TypeOK, Busy

\* The end of a read, and of a write after its entry was written.
Unlocks(p, x) == x.lock = None /\ SameFile(x, inode[file[p]])

LEMMA UnlocksBy ==
    ASSUME TypeOK, Busy, NEW p \in Procs, ReadDone(p) \/ UpdateWrite(p)
    PROVE  \E x : Uses(p, x) /\ Unlocks(p, x)
<1>1. /\ file[p] \in Slots
      /\ inode[file[p]] # None /\ inode[file[p]] \in Inodes
      /\ inode[file[p]].lock = p
  BY BusyFacts DEF ReadDone, UpdateWrite, BusyPcs
<1> PICK ip \in Inodes : ip = inode[file[p]]
  BY <1>1
<1> DEFINE x == [ip EXCEPT !.lock = None]
<1>2. inode' = [inode EXCEPT ![file[p]] = x] /\ file' = file
  BY DEF ReadDone, UpdateWrite, Unlock
<1>3. x \in Inodes /\ x.ref = ip.ref /\ x.lock = None /\ SameFile(x, ip)
  BY WithLock
<1> HIDE DEF x
<1> QED BY <1>1, <1>2, <1>3, NoneAssumption DEF Uses, Unlocks, SameFile

\* The new cluster is the place.
Grown(p, x) ==
    /\ x.lock = p /\ x.size = inode[file[p]].size
    /\ x.logi = at[p] /\ x.clus = clus[p]

LEMMA GrownBy ==
    ASSUME NEW Q, FatInv(Q), NEW p \in Procs, Grow(p)
    PROVE  \E x : Uses(p, x) /\ Grown(p, x)
<1>1. /\ file[p] \in Slots
      /\ inode[file[p]] # None /\ inode[file[p]] \in Inodes
      /\ inode[file[p]].lock = p
  BY BusyFacts DEF Grow, BusyPcs, FatInv
<1>2. clus[p] \in Clusters /\ at[p] \in 0 .. MaxLen
  BY DEF FatInv, Growing, Grow, TypeOK
<1> PICK ip \in Inodes : ip = inode[file[p]]
  BY <1>1
<1> PICK k \in 0 .. MaxLen : k = at[p]
  BY <1>2
<1> PICK c \in Clusters : c = clus[p]
  BY <1>2
<1> PICK x : x = [ip EXCEPT !.logi = k, !.clus = c]
  OBVIOUS
<1>3. inode' = [inode EXCEPT ![file[p]] = x] /\ file' = file
  BY DEF Grow
<1>4. /\ x \in Inodes /\ x.ref = ip.ref /\ x.lock = ip.lock
      /\ x.name = ip.name /\ x.start = ip.start /\ x.size = ip.size
      /\ x.logi = k /\ x.clus = c
  BY DEF Inodes
<1> QED BY <1>1, <1>3, <1>4, NoneAssumption DEF Uses, Grown

\* The size follows the write.
Sized(p, x) ==
    /\ x.lock = p /\ x.size = SizeAfter(inode[file[p]].size, at[p])
    /\ x.logi = inode[file[p]].logi /\ x.clus = inode[file[p]].clus

LEMMA SizedBy ==
    ASSUME NEW Q, FatInv(Q), NEW p \in Procs, NEW v \in Values, WriteBlock(p, v)
    PROVE  \E x : Uses(p, x) /\ Sized(p, x)
<1>c. MaxLen \in Nat \ {0}
  BY Consts
<1>1. /\ file[p] \in Slots
      /\ inode[file[p]] # None /\ inode[file[p]] \in Inodes
      /\ inode[file[p]].lock = p
  BY BusyFacts DEF WriteBlock, BusyPcs, FatInv
<1>2. at[p] \in 0 .. MaxLen /\ at[p] < MaxLen
  BY DEF FatInv, Busy, BusyPcs, WritePcs, WriteBlock, TypeOK
<1> PICK ip \in Inodes : ip = inode[file[p]]
  BY <1>1
<1>3. SizeAfter(ip.size, at[p]) \in 0 .. MaxLen
  BY <1>2, <1>c DEF SizeAfter, Inodes
<1> DEFINE x == [ip EXCEPT !.size = SizeAfter(ip.size, at[p])]
<1>4. inode' = [inode EXCEPT ![file[p]] = x] /\ file' = file
  BY DEF WriteBlock
<1>5. /\ x \in Inodes /\ x.ref = ip.ref /\ x.lock = ip.lock
      /\ x.name = ip.name /\ x.start = ip.start /\ x.size = SizeAfter(ip.size, at[p])
      /\ x.logi = ip.logi /\ x.clus = ip.clus
  BY <1>3, WithSize
<1> HIDE DEF x
<1> QED BY <1>1, <1>4, <1>5, NoneAssumption DEF Uses, Sized

\* The match of namei and of unlinkat.
LEMMA MatchFacts ==
    ASSUME TypeOK, NEW n, NEW R, Matches(n, R) # {}
    PROVE  /\ Min(Matches(n, R)) \in Slots /\ cached[Min(Matches(n, R))] # None
           /\ cached[Min(Matches(n, R))] \in Entries
<1>1. Matches(n, R) \in SUBSET Nat /\ Matches(n, R) \subseteq Slots
  BY Consts DEF Matches
<1>2. Min(Matches(n, R)) \in Matches(n, R)
  BY <1>1, MinIn
<1> QED BY <1>2 DEF Matches, TypeOK

\* A new inode, built from the entry in the cache.
Builds(p, s, x) ==
    /\ s \in Slots /\ inode[s] = None /\ cached[s] # None /\ cached[s] \in Entries
    /\ inode' = [inode EXCEPT ![s] = x] /\ x \in Inodes /\ x # None
    /\ x.start = cached[s].start /\ x.size = cached[s].size /\ x.ref = 1
    /\ x.logi = 0 /\ x.clus = cached[s].start /\ x.lock = None
    /\ pc[p] = "search"
    /\ file' = [file EXCEPT ![p] = s]

LEMMA BuildsBy ==
    ASSUME TypeOK, NEW p \in Procs, LookupBuilds(p)
    PROVE  \E s, x : Builds(p, s, x)
<1>c. MaxLen \in Nat \ {0}
  BY Consts
<1> PICK s : s = Min(Found(name[p]))
  OBVIOUS
<1>1. s \in Slots /\ cached[s] # None /\ cached[s] \in Entries
  BY MatchFacts DEF LookupBuilds, Found
<1> PICK e \in Entries : e = cached[s]
  BY <1>1
<1> PICK x : x = [name |-> e.name, start |-> e.start, size |-> e.size, ref |-> 1,
                  logi |-> 0, clus |-> e.start, lock |-> None]
  OBVIOUS
<1>2. /\ x \in Inodes /\ x.start = e.start /\ x.size = e.size /\ x.ref = 1
      /\ x.logi = 0 /\ x.clus = e.start /\ x.lock = None
  BY <1>c DEF Inodes, Entries
<1>3. /\ pc[p] = "search" /\ inode[s] = None /\ inode' = [inode EXCEPT ![s] = x]
      /\ file' = [file EXCEPT ![p] = s]
  BY DEF LookupBuilds, Opened
<1> QED BY <1>1, <1>2, <1>3, NoneAssumption DEF Builds

\* One more reference.
Dups(p, s, x) ==
    /\ s \in Slots /\ inode[s] # None /\ inode[s] \in Inodes /\ inode[s].lock = None
    /\ inode' = [inode EXCEPT ![s] = x] /\ x \in Inodes /\ x # None
    /\ SameFile(x, inode[s]) /\ x.ref = inode[s].ref + 1 /\ x.lock = None
    /\ pc[p] \in {"search", "dup"}
    /\ file' = [file EXCEPT ![p] = s]

LEMMA DupsBy ==
    ASSUME TypeOK, Waiting, NEW p \in Procs, LookupFinds(p) \/ LookupWakes(p)
    PROVE  \E s, x : Dups(p, s, x)
<1>1. \E s \in Slots : /\ inode[s] # None /\ inode[s].lock = None /\ Dup(s)
                       /\ file' = [file EXCEPT ![p] = s]
                       /\ pc[p] \in {"search", "dup"}
  <2>1. CASE LookupFinds(p)
    <3> PICK s : s = Min(Found(name[p]))
      OBVIOUS
    <3>1. s \in Slots
      BY <2>1, MatchFacts DEF LookupFinds, Found
    <3> QED BY <3>1, <2>1 DEF LookupFinds, Opened
  <2>2. CASE LookupWakes(p)
    <3>1. slot[p] \in Slots /\ inode[slot[p]] # None /\ pc[p] = "dup"
      BY <2>2 DEF LookupWakes, Waiting
    <3> QED BY <3>1, <2>2 DEF LookupWakes, Opened
  <2> QED BY <2>1, <2>2
<1>2. PICK s \in Slots : /\ inode[s] # None /\ inode[s].lock = None /\ Dup(s)
                         /\ file' = [file EXCEPT ![p] = s]
                         /\ pc[p] \in {"search", "dup"}
  BY <1>1
<1>3. inode[s] \in Inodes
  BY <1>2 DEF TypeOK
<1> PICK ip \in Inodes : ip = inode[s]
  BY <1>3
<1> PICK r \in Nat : r = ip.ref + 1
  BY DEF Inodes
<1> PICK x : x = [ip EXCEPT !.ref = r]
  OBVIOUS
<1>4. x \in Inodes /\ x.ref = r /\ x.lock = ip.lock /\ SameFile(x, ip)
  BY WithRef
<1>5. inode' = [inode EXCEPT ![s] = x]
  BY <1>2 DEF Dup, TypeOK
<1> QED BY <1>2, <1>3, <1>4, <1>5, NoneAssumption DEF Dups

\* close, which deletes the inode with its last reference.
Closes(p, x) ==
    /\ file[p] \in Slots /\ inode[file[p]] # None /\ inode[file[p]] \in Inodes
    /\ inode[file[p]].lock = None /\ pc[p] = "idle"
    /\ \A q \in Procs : pc[q] = "dup" => slot[q] # file[p]
    /\ inode' = [inode EXCEPT ![file[p]] = x]
    /\ \/ x = None /\ inode[file[p]].ref = 1
       \/ /\ x \in Inodes /\ x # None /\ SameFile(x, inode[file[p]])
          /\ x.ref = inode[file[p]].ref - 1 /\ x.lock = None
    /\ file' = [file EXCEPT ![p] = None]

LEMMA ClosesBy ==
    ASSUME Races = FALSE, TypeOK, Referenced, NEW p \in Procs, Close(p)
    PROVE  \E x : Closes(p, x)
<1>1. /\ pc[p] = "idle" /\ file[p] \in Slots
      /\ inode[file[p]] # None /\ inode[file[p]] \in Inodes
      /\ inode[file[p]].lock = None
  BY ReadyFacts DEF Close
<1> PICK s \in Slots : s = file[p]
  BY <1>1
<1> PICK ip \in Inodes : ip = inode[s]
  BY <1>1
<1>2. ip.ref \in Nat /\ ip.ref # 0
  <2>1. p \in Users(s) /\ IsFiniteSet(Users(s)) /\ ip.ref >= Cardinality(Users(s))
    BY DEF Users, Referenced
  <2>2. Cardinality(Users(s)) \in Nat /\ Cardinality(Users(s)) # 0
    BY <2>1, FS_CardinalityType, FS_EmptySet
  <2>3. ip.ref \in Nat
    BY DEF Inodes
  <2> QED BY <2>1, <2>2, <2>3
<1>3. \A q \in Procs : pc[q] = "dup" => slot[q] # s
  BY DEF Close
<1>4. file' = [file EXCEPT ![p] = None]
  BY DEF Close
<1>5. CASE ip.ref = 1
  <2>1. inode' = [inode EXCEPT ![s] = None]
    BY <1>5 DEF Close
  <2> QED BY <1>1, <1>3, <1>4, <1>5, <2>1 DEF Closes
<1>6. CASE ip.ref # 1
  <2> PICK r \in Nat : r = ip.ref - 1
    BY <1>2
  <2> PICK x : x = [ip EXCEPT !.ref = r]
    OBVIOUS
  <2>1. x \in Inodes /\ x.ref = r /\ x.lock = ip.lock /\ SameFile(x, ip)
    BY WithRef
  <2>2. inode' = [inode EXCEPT ![s] = [ip EXCEPT !.ref = ip.ref - 1]]
    BY <1>6 DEF Close
  <2> QED BY <1>1, <1>3, <1>4, <2>1, <2>2, NoneAssumption DEF Closes
<1> QED BY <1>5, <1>6

\* What a step does to the inodes and to the open files.
InodeMoves(p) ==
    \/ inode' = inode /\ file' = file
    \/ inode' = inode /\ file' = [file EXCEPT ![p] = None]
    \/ \E s, x : Builds(p, s, x) \/ Dups(p, s, x)
    \/ \E x : Closes(p, x) \/ Uses(p, x)

LEMMA InodeSteps ==
    ASSUME Races = FALSE, NEW Q, FatInv(Q), NEW p \in Procs,
           OpenStep(p) \/ InodeStep(p) \/ UnlinkStep(p)
    PROVE  InodeMoves(p)
<1>t. TypeOK /\ Busy /\ Waiting /\ Referenced
  BY DEF FatInv
<1>1. ASSUME NEW n \in Names, OpenCreate(p, n) \/ Open(p, n) \/ Unlink(p, n)
      PROVE  inode' = inode /\ file' = file
  BY <1>1 DEF OpenCreate, Open, Unlink
<1>2. ASSUME CreateEntry(p) \/ NamexLock(p) \/ LookupFails(p) \/ LookupSleeps(p)
      PROVE  inode' = inode /\ file' = file
  BY <1>2 DEF CreateEntry, NamexLock, LookupFails, LookupSleeps
<1>3. ASSUME UpdateRead(p) \/ MarkEntryDeleted(p) \/ FreeChain(p)
      PROVE  inode' = inode /\ file' = file
  BY <1>3 DEF UpdateRead, MarkEntryDeleted, FreeChain
<1>4. ASSUME Exit(p)
      PROVE  inode' = inode /\ file' = [file EXCEPT ![p] = None]
  BY <1>4 DEF Exit
<1>5. CASE LookupBuilds(p)
  BY <1>5, <1>t, BuildsBy DEF InodeMoves
<1>6. CASE LookupFinds(p) \/ LookupWakes(p)
  BY <1>6, <1>t, DupsBy DEF InodeMoves
<1>7. CASE Close(p)
  BY <1>7, <1>t, ClosesBy DEF InodeMoves
<1>8. ASSUME NEW k \in 0 .. MaxLen - 1, Read(p, k) \/ Write(p, k)
      PROVE  \E x : Uses(p, x)
  BY <1>8, PlacedBy
<1>9. ASSUME NEW k \in 0 .. MaxLen - 1, WriteGrow(p, k)
      PROVE  \E x : Uses(p, x)
  BY <1>9, AtEndBy
<1>10. ASSUME NEW v \in Values, WriteBlock(p, v)
      PROVE  \E x : Uses(p, x)
  BY <1>10, SizedBy
<1>11. ASSUME ReadDone(p) \/ UpdateWrite(p) PROVE \E x : Uses(p, x)
  BY <1>11, <1>t, UnlocksBy
<1>12. ASSUME Grow(p) PROVE \E x : Uses(p, x)
  BY <1>12, GrownBy
<1> QED
  BY <1>1, <1>2, <1>3, <1>4, <1>5, <1>6, <1>7, <1>8, <1>9, <1>10, <1>11, <1>12
     DEF OpenStep, InodeStep, UnlinkStep, InodeMoves

-----------------------------------------------------------------------------
(* Types.                                                                  *)

LEMMA AllocFacts ==
    ASSUME FreeClusters # {}
    PROVE  Min(FreeClusters) \in Clusters /\ fat[Min(FreeClusters)] = 0
<1>1. FreeClusters \in SUBSET Nat
  BY Consts DEF FreeClusters
<1>2. Min(FreeClusters) \in FreeClusters
  BY <1>1, MinIn
<1> QED BY <1>2 DEF FreeClusters

LEMMA SlotFacts ==
    ASSUME \E s \in Slots : cached[s] = None
    PROVE  /\ Min({s \in Slots : cached[s] = None}) \in Slots
           /\ cached[Min({s \in Slots : cached[s] = None})] = None
<1> DEFINE S == {s \in Slots : cached[s] = None}
<1>1. S \in SUBSET Nat /\ S # {}
  BY Consts
<1>2. Min(S) \in S
  <2> HIDE DEF S
  <2> QED BY <1>1, MinIn
<1> QED BY <1>2

LEMMA ProcTypesStep ==
    ASSUME Races = FALSE, NEW Q, FatInv(Q), NEW p \in Procs,
           OpenStep(p) \/ InodeStep(p) \/ UnlinkStep(p)
    PROVE  ProcTypes'
<1>c. MaxLen \in Nat \ {0}
  BY Consts
<1>t. ProcTypes
  BY DEF TypeOK, ProcTypes, FatInv
<1>y. TypeOK /\ cached \in [Slots -> Entries \cup {None}]
  BY DEF FatInv, TypeOK
<1>r. ASSUME Return(p) PROVE /\ pc' \in [Procs -> Pcs] /\ name' \in [Procs -> Names \cup {None}]
                             /\ slot' \in [Procs -> Slots \cup {None}]
                             /\ clus' \in [Procs -> Clusters \cup {None}]
                             /\ at' \in [Procs -> 0 .. MaxLen]
  BY <1>r, <1>t, <1>c DEF Return, Goto, ProcTypes, Pcs
<1>s. ASSUME NEW n, NEW R, Matches(n, R) # {}
      PROVE  Min(Matches(n, R)) \in Slots /\ cached[Min(Matches(n, R))].start \in Clusters
  BY <1>s, <1>y, MatchFacts DEF Entries
<1> USE <1>t DEF Goto, ProcTypes
<1>1. ASSUME NEW n \in Names, OpenCreate(p, n) PROVE ProcTypes'
  <2>1. Min({s \in Slots : cached[s] = None}) \in Slots
    BY <1>1, SlotFacts DEF OpenCreate
  <2> PICK m \in Slots : m = Min({s \in Slots : cached[s] = None})
    BY <2>1
  <2>2. /\ name' = [name EXCEPT ![p] = n] /\ slot' = [slot EXCEPT ![p] = m]
        /\ file' = file /\ at' = at
    BY <1>1 DEF OpenCreate
  <2>3. CASE FreeClusters # {} /\ AllocCluster(p) /\ pc' = [pc EXCEPT ![p] = "create"]
    <3>1. clus' \in [Procs -> Clusters \cup {None}]
      BY <2>3, AllocFacts DEF AllocCluster
    <3> QED BY <2>2, <2>3, <3>1 DEF Pcs, ChangePcs
  <2>4. CASE Hang(p)
    BY <2>2, <2>4 DEF Hang, Pcs
  <2> QED BY <1>1, <2>3, <2>4 DEF OpenCreate
<1>2. ASSUME NEW n \in Names, Open(p, n) PROVE ProcTypes'
  BY <1>2 DEF Open, Pcs, LookupPcs
<1>3. CASE CreateEntry(p)
  BY <1>3 DEF CreateEntry, Pcs, LookupPcs
<1>4. CASE NamexLock(p)
  BY <1>4 DEF NamexLock, Pcs, LookupPcs
<1>5. CASE LookupFails(p)
  BY <1>5, <1>r DEF LookupFails
<1>6. CASE LookupBuilds(p)
  <2>1. Min(Found(name[p])) \in Slots
    BY <1>6, <1>s DEF LookupBuilds, Found
  <2> QED BY <2>1, <1>6, <1>r DEF LookupBuilds, Opened
<1>7. CASE LookupFinds(p)
  <2>1. Min(Found(name[p])) \in Slots
    BY <1>7, <1>s DEF LookupFinds, Found
  <2> QED BY <2>1, <1>7, <1>r DEF LookupFinds, Opened
<1>8. CASE LookupSleeps(p)
  <2>1. Min(Found(name[p])) \in Slots
    BY <1>8, <1>s DEF LookupSleeps, Found
  <2> QED BY <2>1, <1>8 DEF LookupSleeps, Pcs, LookupPcs
<1>9. CASE LookupWakes(p)
  BY <1>9, <1>r DEF LookupWakes, Opened
<1>10. CASE Close(p) \/ Exit(p)
  BY <1>10 DEF Close, Exit, procVars
<1>11. ASSUME NEW k \in 0 .. MaxLen - 1, Read(p, k) \/ Write(p, k) PROVE ProcTypes'
  BY <1>11, <1>c DEF Read, Write, Pcs, WritePcs
<1>12. ASSUME NEW k \in 0 .. MaxLen - 1, WriteGrow(p, k) PROVE ProcTypes'
  <2>1. /\ at' = [at EXCEPT ![p] = k] /\ file' = file /\ name' = name /\ slot' = slot
        /\ k \in 0 .. MaxLen
    BY <1>12, <1>c DEF WriteGrow
  <2>2. CASE FreeClusters # {} /\ AllocCluster(p) /\ pc' = [pc EXCEPT ![p] = "grow"]
    <3>1. clus' \in [Procs -> Clusters \cup {None}]
      BY <2>2, AllocFacts DEF AllocCluster
    <3> QED BY <2>1, <2>2, <3>1 DEF Pcs, WritePcs
  <2>3. CASE Hang(p)
    BY <2>1, <2>3 DEF Hang, Pcs
  <2> QED BY <1>12, <2>2, <2>3 DEF WriteGrow
<1>13. ASSUME NEW v \in Values, WriteBlock(p, v) PROVE ProcTypes'
  BY <1>13 DEF WriteBlock, Pcs
<1>14. CASE ReadDone(p)
  BY <1>14, <1>r DEF ReadDone
<1>15. CASE Grow(p)
  BY <1>15 DEF Grow, Pcs, WritePcs
<1>16. CASE UpdateRead(p) \/ UpdateWrite(p)
  BY <1>16, <1>r DEF UpdateRead, UpdateWrite, Pcs
<1>17. ASSUME NEW n \in Names, Unlink(p, n) PROVE ProcTypes'
  <2>1. /\ Min(Matches(n, Prefixes)) \in Slots
        /\ cached[Min(Matches(n, Prefixes))].start \in Clusters
    BY <1>17, <1>s DEF Unlink
  <2> QED BY <2>1, <1>17 DEF Unlink, Pcs, ChangePcs
<1>18. CASE MarkEntryDeleted(p)
  BY <1>18 DEF MarkEntryDeleted, Pcs, ChangePcs
<1>19. CASE FreeChain(p)
  BY <1>19, <1>r DEF FreeChain
<1> QED
  BY <1>1, <1>2, <1>3, <1>4, <1>5, <1>6, <1>7, <1>8, <1>9, <1>10, <1>11, <1>12,
     <1>13, <1>14, <1>15, <1>16, <1>17, <1>18, <1>19
     DEF OpenStep, InodeStep, UnlinkStep

\* Which action brought a process to its place.
PcFrom(p) ==
    /\ pc'[p] = "dup" => LookupSleeps(p)
    /\ pc'[p] = "create" => \E n \in Names : OpenCreate(p, n)
    /\ pc'[p] = "mark" => \E n \in Names : Unlink(p, n)
    /\ pc'[p] = "unchain" => MarkEntryDeleted(p)
    /\ pc'[p] = "read" => \E k \in 0 .. MaxLen - 1 : Read(p, k)
    /\ pc'[p] = "grow" => \E k \in 0 .. MaxLen - 1 : WriteGrow(p, k)
    /\ pc'[p] = "write" => Grow(p) \/ \E k \in 0 .. MaxLen - 1 : Write(p, k)
    /\ pc'[p] = "entry" => \E v \in Values : WriteBlock(p, v)
    /\ pc'[p] = "update" => UpdateRead(p)

LEMMA PcFroms ==
    ASSUME TypeOK, NEW p \in Procs, OpenStep(p) \/ InodeStep(p) \/ UnlinkStep(p)
    PROVE  PcFrom(p)
<1>p. pc \in [Procs -> Pcs]
  BY DEF TypeOK
<1>l. ASSUME NEW l, Goto(p, l) PROVE pc'[p] = l
  BY <1>l, <1>p DEF Goto
<1>r. Return(p) => pc'[p] = "idle"
  BY <1>l DEF Return
<1>1. ASSUME NEW n \in Names, OpenCreate(p, n) PROVE PcFrom(p)
  <2>1. pc'[p] \in {"create", "hang"}
    BY <1>1, <1>l DEF OpenCreate, Hang
  <2> QED BY <2>1, <1>1 DEF PcFrom
<1>2. ASSUME \/ \E n \in Names : Open(p, n)
             \/ CreateEntry(p) \/ NamexLock(p) \/ LookupFails(p) \/ LookupBuilds(p)
             \/ LookupFinds(p) \/ LookupWakes(p) \/ Close(p) \/ Exit(p)
             \/ ReadDone(p) \/ UpdateWrite(p) \/ FreeChain(p)
      PROVE  pc'[p] \in {"search", "namei", "idle"}
  BY <1>2, <1>l, <1>r DEF Open, CreateEntry, NamexLock, LookupFails, LookupBuilds, LookupFinds,
     LookupWakes, Opened, Close, Ready, Exit, ReadDone, UpdateWrite, FreeChain, procVars
<1>3. ASSUME LookupSleeps(p) PROVE pc'[p] = "dup"
  BY <1>3, <1>l DEF LookupSleeps
<1>4. ASSUME NEW k \in 0 .. MaxLen - 1, Read(p, k) PROVE pc'[p] = "read"
  BY <1>4, <1>l DEF Read
<1>5. ASSUME NEW k \in 0 .. MaxLen - 1, Write(p, k) PROVE pc'[p] = "write"
  BY <1>5, <1>l DEF Write
<1>6. ASSUME NEW k \in 0 .. MaxLen - 1, WriteGrow(p, k) PROVE pc'[p] \in {"grow", "hang"}
  BY <1>6, <1>l DEF WriteGrow, Hang
<1>7. ASSUME NEW v \in Values, WriteBlock(p, v) PROVE pc'[p] = "entry"
  BY <1>7, <1>l DEF WriteBlock
<1>8. ASSUME Grow(p) PROVE pc'[p] = "write"
  BY <1>8, <1>l DEF Grow
<1>9. ASSUME NEW n \in Names, Unlink(p, n) PROVE pc'[p] = "mark"
  BY <1>9, <1>l DEF Unlink
<1>10. ASSUME MarkEntryDeleted(p) PROVE pc'[p] = "unchain"
  BY <1>10, <1>l DEF MarkEntryDeleted
<1>11. ASSUME UpdateRead(p) PROVE pc'[p] = "update"
  BY <1>11, <1>l DEF UpdateRead
<1> QED
  BY <1>1, <1>2, <1>3, <1>4, <1>5, <1>6, <1>7, <1>8, <1>9, <1>10, <1>11
     DEF OpenStep, InodeStep, UnlinkStep, PcFrom

\* The entry that UpdateInode makes.
LEMMA EntryFacts ==
    ASSUME NEW ip \in Inodes, NEW e, e = EntryOf(ip)
    PROVE  e \in Entries /\ e # None /\ e.start = ip.start /\ e.size = ip.size
BY NoneAssumption DEF Inodes, Entries, EntryOf

\* What an entry written on the disk is: of the inode, of a Create, one that was
\* there before, or none.
LEMMA DirTypes ==
    ASSUME NEW Q, FatInv(Q), NEW p \in Procs, CreateEntry(p) \/ UpdateWrite(p) \/ MarkEntryDeleted(p)
    PROVE  /\ dir' \in [Slots -> Entries \cup {None}]
           /\ cached' \in [Slots -> Entries \cup {None}]
<1>c. MaxLen \in Nat \ {0}
  BY Consts
<1>t. dir \in [Slots -> Entries \cup {None}] /\ cached \in [Slots -> Entries \cup {None}]
  BY DEF FatInv, TypeOK
<1>1. CASE CreateEntry(p)
  <2>1. slot[p] \in Slots /\ clus[p] \in Clusters /\ name[p] \in Names
    BY <1>1 DEF CreateEntry, FatInv, Changing, ChangePcs
  <2> PICK e : e = [name |-> name[p], start |-> clus[p], size |-> 0]
    OBVIOUS
  <2>2. e \in Entries
    BY <2>1, <1>c DEF Entries
  <2>3. cached' = [cached EXCEPT ![slot[p]] = e] /\ dir' = cached'
    BY <1>1 DEF CreateEntry, WriteDir
  <2> QED BY <2>2, <2>3, <1>t
<1>2. CASE MarkEntryDeleted(p)
  BY <1>2, <1>t DEF MarkEntryDeleted, WriteDir
<1>3. CASE UpdateWrite(p)
  <2>1. file[p] \in Slots /\ inode[file[p]] \in Inodes
    BY <1>3, BusyFacts DEF FatInv, UpdateWrite, BusyPcs
  <2>2. EntryOf(inode[file[p]]) \in Entries
    BY <2>1, EntryFacts
  <2>3. \A s \in Slots : sector[p][s] \in Entries \cup {None}
    BY DEF FatInv, TypeOK
  <2>4. \A s \in Slots : (IF s = file[p] THEN EntryOf(inode[s])
                          ELSE IF SameSector(s, file[p]) THEN sector[p][s] ELSE dir[s])
                         \in Entries \cup {None}
    BY <2>2, <2>3, <1>t
  <2> QED BY <2>4, <1>3, <1>t DEF UpdateWrite
<1> QED BY <1>1, <1>2, <1>3

\* Only UpdateInode reads a sector, and it forgets it.
SectorMoves(p) ==
    \/ sector' = sector /\ (pc[p] = "update" <=> pc'[p] = "update")
    \/ UpdateRead(p)
    \/ UpdateWrite(p)

LEMMA SectorSteps ==
    ASSUME TypeOK, NEW p \in Procs, OpenStep(p) \/ InodeStep(p) \/ UnlinkStep(p)
    PROVE  SectorMoves(p)
<1>p. pc \in [Procs -> Pcs]
  BY DEF TypeOK
<1>l. ASSUME NEW l, Goto(p, l) PROVE pc'[p] = l
  BY <1>l, <1>p DEF Goto
<1>r. Return(p) => pc'[p] = "idle"
  BY <1>l DEF Return
<1> DEFINE Stays == sector' = sector /\ pc[p] # "update" /\ pc'[p] # "update"
<1>1. ASSUME NEW n \in Names, OpenCreate(p, n) \/ Open(p, n) \/ Unlink(p, n) PROVE Stays
  BY <1>1, <1>l DEF OpenCreate, Hang, Open, Unlink
<1>2. ASSUME \/ CreateEntry(p) \/ NamexLock(p) \/ LookupFails(p) \/ LookupBuilds(p)
             \/ LookupFinds(p) \/ LookupSleeps(p) \/ LookupWakes(p)
      PROVE  Stays
  BY <1>2, <1>l, <1>r DEF CreateEntry, NamexLock, LookupFails, LookupBuilds, LookupFinds,
     LookupSleeps, LookupWakes, Opened
<1>3. ASSUME Close(p) \/ Exit(p) PROVE Stays
  BY <1>3 DEF Close, Ready, Exit, procVars
<1>4. ASSUME NEW k \in 0 .. MaxLen - 1, Read(p, k) \/ Write(p, k) \/ WriteGrow(p, k)
      PROVE  Stays
  BY <1>4, <1>l DEF Read, Write, WriteGrow, Hang, Ready
<1>5. ASSUME NEW v \in Values, WriteBlock(p, v) PROVE Stays
  BY <1>5, <1>l DEF WriteBlock
<1>6. ASSUME ReadDone(p) \/ Grow(p) \/ MarkEntryDeleted(p) \/ FreeChain(p) PROVE Stays
  BY <1>6, <1>l, <1>r DEF ReadDone, Grow, MarkEntryDeleted, FreeChain
<1> QED
  BY <1>1, <1>2, <1>3, <1>4, <1>5, <1>6 DEF OpenStep, InodeStep, UnlinkStep, SectorMoves

LEMMA SectorTypes ==
    ASSUME TypeOK, NEW p \in Procs, OpenStep(p) \/ InodeStep(p) \/ UnlinkStep(p)
    PROVE  sector' \in [Procs -> [Slots -> Entries \cup {None}]]
<1>1. /\ sector \in [Procs -> [Slots -> Entries \cup {None}]]
      /\ dir \in [Slots -> Entries \cup {None}] /\ NoDir \in [Slots -> Entries \cup {None}]
  BY DEF TypeOK, NoDir
<1>2. sector' = sector \/ \E d \in {dir, NoDir} : sector' = [sector EXCEPT ![p] = d]
  BY SectorSteps DEF SectorMoves, UpdateRead, UpdateWrite
<1> QED BY <1>1, <1>2

\* The FAT and the clusters.
DiskTypes ==
    /\ fat \in [Clusters -> Clusters \cup {0, EOC}]
    /\ data \in [Clusters -> Values \cup {None}]
    /\ dirLock \in Procs \cup {None}

LEMMA DiskTypesStep ==
    ASSUME NEW Q, FatInv(Q), NEW p \in Procs,
           OpenStep(p) \/ InodeStep(p) \/ UnlinkStep(p)
    PROVE  DiskTypes'
<1>t. DiskTypes
  BY DEF FatInv, TypeOK, DiskTypes
<1>a. ASSUME FreeClusters # {}, AllocCluster(p), dirLock' = dirLock PROVE DiskTypes'
  BY <1>a, <1>t, AllocFacts DEF AllocCluster, DiskTypes
<1> USE <1>t DEF DiskTypes, diskVars
<1>1. ASSUME NEW n \in Names, OpenCreate(p, n) PROVE DiskTypes'
  BY <1>1, <1>a DEF OpenCreate, Hang
<1>2. ASSUME NEW n \in Names, Open(p, n) \/ Unlink(p, n) PROVE DiskTypes'
  BY <1>2 DEF Open, Unlink
<1>3. ASSUME CreateEntry(p) \/ NamexLock(p) \/ LookupFails(p) \/ LookupSleeps(p) PROVE DiskTypes'
  BY <1>3 DEF CreateEntry, NamexLock, LookupFails, LookupSleeps
<1>4. ASSUME LookupBuilds(p) \/ LookupFinds(p) \/ LookupWakes(p) PROVE DiskTypes'
  BY <1>4 DEF LookupBuilds, LookupFinds, LookupWakes, Opened
<1>5. ASSUME \/ Close(p) \/ Exit(p) \/ ReadDone(p) \/ UpdateRead(p) \/ UpdateWrite(p)
             \/ MarkEntryDeleted(p)
      PROVE  DiskTypes'
  BY <1>5 DEF Close, Exit, ReadDone, UpdateRead, UpdateWrite, MarkEntryDeleted
<1>6. ASSUME NEW k \in 0 .. MaxLen - 1, Read(p, k) \/ Write(p, k) PROVE DiskTypes'
  BY <1>6 DEF Read, Write
<1>7. ASSUME NEW k \in 0 .. MaxLen - 1, WriteGrow(p, k) PROVE DiskTypes'
  BY <1>7, <1>a DEF WriteGrow, Hang
<1>8. ASSUME NEW v \in Values, WriteBlock(p, v) PROVE DiskTypes'
  BY <1>8 DEF WriteBlock
<1>9. CASE Grow(p)
  <2>1. clus[p] \in Clusters
    BY <1>9 DEF Grow, FatInv, Growing
  <2> QED BY <2>1, <1>9 DEF Grow
<1>10. CASE FreeChain(p)
  BY <1>10 DEF FreeChain, FreeClusterChain
<1> QED
  BY <1>1, <1>2, <1>3, <1>4, <1>5, <1>6, <1>7, <1>8, <1>9, <1>10
     DEF OpenStep, InodeStep, UnlinkStep

LEMMA TypeStep ==
    ASSUME Races = FALSE, NEW Q, FatInv(Q), NEW p \in Procs,
           OpenStep(p) \/ InodeStep(p) \/ UnlinkStep(p)
    PROVE  TypeOK'
<1>t. /\ dir \in [Slots -> Entries \cup {None}] /\ cached \in [Slots -> Entries \cup {None}]
      /\ inode \in [Slots -> Inodes \cup {None}]
  BY DEF FatInv, TypeOK
<1>1. dir' \in [Slots -> Entries \cup {None}] /\ cached' \in [Slots -> Entries \cup {None}]
  BY <1>t, DirSteps, DirTypes
<1>2. inode' \in [Slots -> Inodes \cup {None}]
  <2>1. InodeMoves(p)
    BY InodeSteps
  <2>2. inode' = inode \/ \E s, x : x \in Inodes \cup {None} /\ inode' = [inode EXCEPT ![s] = x]
    BY <2>1 DEF InodeMoves, Builds, Dups, Closes, Uses
  <2> QED BY <2>2, <1>t
<1>3. ProcTypes' /\ DiskTypes'
  BY ProcTypesStep, DiskTypesStep
<1>4. sector' \in [Procs -> [Slots -> Entries \cup {None}]]
  BY SectorTypes DEF FatInv
<1> QED BY <1>1, <1>2, <1>3, <1>4 DEF TypeOK, ProcTypes, DiskTypes

-----------------------------------------------------------------------------
(* Directory and inodes.                                                   *)

\* The entries and their first clusters stay.
KeepsDir ==
    /\ \A s \in Slots : dir'[s] = None <=> dir[s] = None
    /\ \A s \in Slots : dir[s] # None => dir'[s].start = dir[s].start

\* UpdateInode writes the entry of an inode, and of the others what it read.
LEMMA UpdateFacts ==
    ASSUME NEW Q, FatInv(Q), NEW p \in Procs, UpdateWrite(p)
    PROVE  /\ KeepsDir /\ cached' = cached
           /\ file[p] \in Slots /\ inode[file[p]] # None
           /\ dir'[file[p]].size = inode[file[p]].size
           /\ \A s \in Slots \ {file[p]} :
                 dir'[s] = dir[s] \/ dir'[s] = sector[p][s]
<1>1. file[p] \in Slots /\ inode[file[p]] # None /\ inode[file[p]] \in Inodes
  BY BusyFacts DEF FatInv, UpdateWrite, BusyPcs
<1> PICK s \in Slots : s = file[p]
  BY <1>1
<1> PICK ip \in Inodes : ip = inode[s]
  BY <1>1
<1> PICK e : e = EntryOf(ip)
  OBVIOUS
<1>2. e \in Entries /\ e # None /\ e.start = ip.start /\ e.size = ip.size
  BY EntryFacts
<1>3. dir[s] # None /\ dir[s].start = ip.start
  BY <1>1 DEF FatInv, InodeEntry
<1>4. dir'[s] = e /\ cached' = cached
  BY DEF UpdateWrite
<1>5. \A t \in Slots \ {s} : dir'[t] = dir[t] \/ dir'[t] = sector[p][t]
  BY DEF UpdateWrite
<1>6. \A t \in Slots : /\ sector[p][t] = None <=> dir[t] = None
                       /\ dir[t] # None => sector[p][t].start = dir[t].start
  BY DEF FatInv, SectorCopies, UpdateWrite
<1>7. ASSUME NEW t \in Slots
      PROVE  /\ dir'[t] = None <=> dir[t] = None
             /\ dir[t] # None => dir'[t].start = dir[t].start
  <2>1. CASE t = s
    BY <2>1, <1>2, <1>3, <1>4
  <2>2. CASE t # s
    BY <2>2, <1>5, <1>6
  <2> QED BY <2>1, <2>2
<1> QED BY <1>1, <1>2, <1>4, <1>5, <1>7 DEF KeepsDir

\* Create and Unlink write the directory of the cache to the disk.
LEMMA CreateFacts ==
    ASSUME NEW Q, FatInv(Q), NEW p \in Procs, CreateEntry(p)
    PROVE  /\ slot[p] \in Slots /\ clus[p] \in Clusters /\ dir[slot[p]] = None
           /\ inode[slot[p]] = None /\ p \in Holders
           /\ dir' = cached' /\ dir'[slot[p]] # None
           /\ dir'[slot[p]].start = clus[p] /\ dir'[slot[p]].size = 0
           /\ \A s \in Slots \ {slot[p]} : dir'[s] = cached[s]
<1>c. MaxLen \in Nat \ {0}
  BY Consts
<1>1. slot[p] \in Slots /\ clus[p] \in Clusters /\ name[p] \in Names /\ dir[slot[p]] = None
      /\ p \in Holders
  BY DEF CreateEntry, FatInv, Changing, ChangePcs, Holders
<1>2. inode[slot[p]] = None
  BY <1>1 DEF FatInv, InodeEntry
<1> PICK e : e = [name |-> name[p], start |-> clus[p], size |-> 0]
  OBVIOUS
<1>3. e \in Entries /\ e.start = clus[p] /\ e.size = 0
  BY <1>1, <1>c DEF Entries
<1>4. cached' = [cached EXCEPT ![slot[p]] = e] /\ dir' = cached'
  BY DEF CreateEntry, WriteDir
<1>5. dir'[slot[p]] = e /\ \A s \in Slots \ {slot[p]} : dir'[s] = cached[s]
  BY <1>1, <1>4 DEF FatInv, TypeOK
<1> QED BY <1>1, <1>2, <1>3, <1>4, <1>5, NoneAssumption

LEMMA MarkFacts ==
    ASSUME NEW Q, FatInv(Q), NEW p \in Procs, MarkEntryDeleted(p)
    PROVE  /\ slot[p] \in Slots /\ clus[p] \in Clusters /\ dir[slot[p]] # None
           /\ dir[slot[p]].start = clus[p] /\ inode[slot[p]] = None
           /\ dir' = cached' /\ dir'[slot[p]] = None
           /\ \A s \in Slots \ {slot[p]} : dir'[s] = cached[s]
<1>1. slot[p] \in Slots /\ clus[p] \in Clusters /\ dir[slot[p]] # None
      /\ dir[slot[p]].start = clus[p] /\ inode[slot[p]] = None
  BY DEF MarkEntryDeleted, FatInv, Changing, ChangePcs
<1>2. cached' = [cached EXCEPT ![slot[p]] = None] /\ dir' = cached'
  BY DEF MarkEntryDeleted, WriteDir
<1>3. dir'[slot[p]] = None /\ \A s \in Slots \ {slot[p]} : dir'[s] = cached[s]
  BY <1>1, <1>2 DEF FatInv, TypeOK
<1> QED BY <1>1, <1>2, <1>3

LEMMA KeepsDirStep ==
    ASSUME NEW Q, FatInv(Q), NEW p \in Procs,
           OpenStep(p) \/ InodeStep(p) \/ UnlinkStep(p)
    PROVE  KeepsDir \/ CreateEntry(p) \/ MarkEntryDeleted(p)
BY DirSteps, UpdateFacts DEF KeepsDir

LEMMA DirCachedStep ==
    ASSUME NEW Q, FatInv(Q), NEW p \in Procs,
           OpenStep(p) \/ InodeStep(p) \/ UnlinkStep(p)
    PROVE  DirCached'
<1>t. DirCached
  BY DEF FatInv
<1>1. CASE UNCHANGED <<dir, cached>>
  BY <1>1, <1>t DEF DirCached
<1>2. CASE CreateEntry(p) \/ MarkEntryDeleted(p)
  BY <1>2, CreateFacts, MarkFacts DEF DirCached
<1>3. CASE UpdateWrite(p)
  BY <1>3, <1>t, UpdateFacts DEF DirCached, KeepsDir
<1> QED BY <1>1, <1>2, <1>3, DirSteps

\* Create and Unlink do not write while a sector is in use.
LEMMA NoSectors ==
    ASSUME Races = FALSE, NEW Q, FatInv(Q), NEW p \in Procs,
           CreateEntry(p) \/ MarkEntryDeleted(p)
    PROVE  /\ \A q \in Procs : pc[q] # "update" /\ pc'[q] # "update"
           /\ \A q \in Procs, s \in Slots : sector[q][s] = None /\ sector'[q][s] = None
<1>1. \A q \in Procs : pc[q] # "update"
  BY DEF CreateEntry, MarkEntryDeleted, MayWriteDir
<1>2. sector' = sector
  BY DEF CreateEntry, MarkEntryDeleted
<1>3. \A q \in Procs : pc'[q] # "update"
  BY <1>1 DEF CreateEntry, MarkEntryDeleted, Goto, FatInv, TypeOK
<1> QED BY <1>1, <1>2, <1>3 DEF FatInv, SectorCopies

\* One copy.
SectorCopy(q, s) ==
    /\ sector[q][s] # None => /\ pc[q] = "update" /\ dir[s] # None
                             /\ sector[q][s].start = dir[s].start
    /\ pc[q] = "update" /\ dir[s] # None => sector[q][s] # None

LEMMA SectorCopiesStep ==
    ASSUME Races = FALSE, NEW Q, FatInv(Q), NEW p \in Procs,
           OpenStep(p) \/ InodeStep(p) \/ UnlinkStep(p)
    PROVE  SectorCopies'
<1>t. /\ TypeOK /\ SectorCopies
      /\ sector \in [Procs -> [Slots -> Entries \cup {None}]]
      /\ pc \in [Procs -> Pcs]
  BY DEF FatInv, TypeOK
<1>1. CASE CreateEntry(p) \/ MarkEntryDeleted(p)
  BY <1>1, NoSectors DEF SectorCopies
<1>2. CASE KeepsDir
  <2> SUFFICES ASSUME NEW q \in Procs, NEW s \in Slots PROVE SectorCopy(q, s)'
    BY DEF SectorCopies, SectorCopy
  <2>0. /\ SectorCopy(q, s) /\ (dir'[s] = None <=> dir[s] = None)
        /\ (dir[s] # None => dir'[s].start = dir[s].start)
    BY <1>t, <1>2 DEF SectorCopies, SectorCopy, KeepsDir
  <2>1. q # p => pc'[q] = pc[q]
    BY <1>t, LocalStep DEF Local
  <2>2. CASE sector' = sector /\ (pc[p] = "update" <=> pc'[p] = "update")
    BY <2>0, <2>1, <2>2 DEF SectorCopy
  <2>3. CASE UpdateRead(p)
    <3>1. sector' = [sector EXCEPT ![p] = dir] /\ pc' = [pc EXCEPT ![p] = "update"]
      BY <2>3 DEF UpdateRead, Goto
    <3>2. CASE q = p
      BY <3>1, <3>2, <2>0, <1>t DEF SectorCopy
    <3>3. CASE q # p
      BY <3>1, <3>3, <2>0, <2>1, <1>t DEF SectorCopy
    <3> QED BY <3>2, <3>3
  <2>4. CASE UpdateWrite(p)
    <3>1. sector' = [sector EXCEPT ![p] = NoDir] /\ pc' = [pc EXCEPT ![p] = "idle"]
      BY <2>4 DEF UpdateWrite, Return, Goto
    <3>2. CASE q = p
      BY <3>1, <3>2, <1>t DEF SectorCopy, NoDir
    <3>3. CASE q # p
      BY <3>1, <3>3, <2>0, <2>1, <1>t DEF SectorCopy
    <3> QED BY <3>2, <3>3
  <2> QED BY <2>2, <2>3, <2>4, <1>t, SectorSteps DEF SectorMoves
<1> QED BY <1>1, <1>2, KeepsDirStep

LEMMA InodeEntryStep ==
    ASSUME Races = FALSE, NEW Q, FatInv(Q), NEW p \in Procs,
           OpenStep(p) \/ InodeStep(p) \/ UnlinkStep(p)
    PROVE  InodeEntry'
<1>t. InodeEntry /\ DirCached /\ inode \in [Slots -> Inodes \cup {None}]
  BY DEF FatInv, TypeOK
<1>1. CASE CreateEntry(p)
  <2>1. inode' = inode
    BY <1>1 DEF CreateEntry
  <2> QED BY <1>1, <1>t, <2>1, CreateFacts DEF InodeEntry, DirCached
<1>2. CASE MarkEntryDeleted(p)
  <2>1. inode' = inode
    BY <1>2 DEF MarkEntryDeleted
  <2> QED BY <1>2, <1>t, <2>1, MarkFacts DEF InodeEntry, DirCached
<1>3. CASE KeepsDir
  <2>1. \A s \in Slots : inode'[s] # None => dir[s] # None /\ dir[s].start = inode'[s].start
    <3>1. CASE inode' = inode
      BY <3>1, <1>t DEF InodeEntry
    <3>2. ASSUME NEW s, NEW x, Builds(p, s, x)
          PROVE  \A u \in Slots : inode'[u] # None => dir[u] # None /\ dir[u].start = inode'[u].start
      BY <3>2, <1>t DEF Builds, InodeEntry, DirCached
    <3>3. ASSUME NEW s, NEW x, Dups(p, s, x)
          PROVE  \A u \in Slots : inode'[u] # None => dir[u] # None /\ dir[u].start = inode'[u].start
      BY <3>3, <1>t DEF Dups, InodeEntry, SameFile
    <3>4. ASSUME NEW x, Closes(p, x)
          PROVE  \A u \in Slots : inode'[u] # None => dir[u] # None /\ dir[u].start = inode'[u].start
      BY <3>4, <1>t DEF Closes, InodeEntry, SameFile
    <3>5. ASSUME NEW x, Uses(p, x)
          PROVE  \A u \in Slots : inode'[u] # None => dir[u] # None /\ dir[u].start = inode'[u].start
      BY <3>5, <1>t DEF Uses, InodeEntry
    <3> QED BY <3>1, <3>2, <3>3, <3>4, <3>5, InodeSteps DEF InodeMoves
  <2> QED BY <2>1, <1>3 DEF KeepsDir, InodeEntry
<1> QED BY <1>1, <1>2, <1>3, KeepsDirStep

\* An inode that another process has locked stays as it is; one that was there
\* goes away only with a close.
InodeStays(p) ==
    /\ \A s \in Slots : inode[s] # None /\ inode[s].lock \notin {None, p} => inode'[s] = inode[s]
    /\ \A s \in Slots : inode[s] # None =>
           \/ inode'[s] # None
           \/ Ready(p) /\ s = file[p] /\ \A q \in Procs : pc[q] = "dup" => slot[q] # s
    /\ \A s \in Slots : inode[s] = None => inode'[s] = None \/ pc[p] = "search"

LEMMA InodeStaysStep ==
    ASSUME Races = FALSE, NEW Q, FatInv(Q), NEW p \in Procs,
           OpenStep(p) \/ InodeStep(p) \/ UnlinkStep(p)
    PROVE  InodeStays(p)
<1>t. inode \in [Slots -> Inodes \cup {None}]
  BY DEF FatInv, TypeOK
<1>1. CASE inode' = inode
  BY <1>1 DEF InodeStays
<1>2. ASSUME NEW s, NEW x, Builds(p, s, x) PROVE InodeStays(p)
  BY <1>2, <1>t DEF Builds, InodeStays
<1>3. ASSUME NEW s, NEW x, Dups(p, s, x) PROVE InodeStays(p)
  BY <1>3, <1>t DEF Dups, InodeStays
<1>4. ASSUME NEW x, Closes(p, x) PROVE InodeStays(p)
  BY <1>4, <1>t, Consts DEF Closes, InodeStays, Ready
<1>5. ASSUME NEW x, Uses(p, x) PROVE InodeStays(p)
  BY <1>5, <1>t DEF Uses, InodeStays
<1> QED BY <1>1, <1>2, <1>3, <1>4, <1>5, InodeSteps DEF InodeMoves

LEMMA WaitingStep ==
    ASSUME Races = FALSE, NEW Q, FatInv(Q), NEW p \in Procs,
           OpenStep(p) \/ InodeStep(p) \/ UnlinkStep(p)
    PROVE  Waiting'
<1> SUFFICES ASSUME NEW q \in Procs, pc'[q] = "dup"
             PROVE  slot'[q] \in Slots /\ inode'[slot'[q]] # None
  BY DEF Waiting
<1>t. TypeOK /\ Waiting
  BY DEF FatInv
<1>1. CASE q # p
  <2>1. pc[q] = "dup" /\ slot'[q] = slot[q]
    BY <1>1, <1>t, LocalStep DEF Local
  <2>2. slot[q] \in Slots /\ inode[slot[q]] # None
    BY <2>1, <1>t DEF Waiting
  <2> QED BY <2>1, <2>2, InodeStaysStep DEF InodeStays
<1>2. CASE q = p
  <2>1. LookupSleeps(p)
    BY <1>2, <1>t, PcFroms DEF PcFrom
  <2> PICK s : s = Min(Found(name[p]))
    OBVIOUS
  <2>2. s \in Slots
    BY <2>1, <1>t, MatchFacts DEF LookupSleeps, Found
  <2>3. inode[s] # None /\ slot' = [slot EXCEPT ![p] = s] /\ inode' = inode
    BY <2>1 DEF LookupSleeps
  <2> QED BY <2>2, <2>3, <1>2, <1>t DEF TypeOK
<1> QED BY <1>1, <1>2

LEMMA ChangingStep ==
    ASSUME Races = FALSE, NEW Q, FatInv(Q), NEW p \in Procs,
           OpenStep(p) \/ InodeStep(p) \/ UnlinkStep(p)
    PROVE  Changing'
<1> DEFINE Good(q) ==
        /\ slot'[q] \in Slots /\ clus'[q] \in Clusters
        /\ pc'[q] = "create" => name'[q] \in Names /\ dir'[slot'[q]] = None
        /\ pc'[q] = "mark" => /\ dir'[slot'[q]] # None /\ dir'[slot'[q]].start = clus'[q]
                              /\ inode'[slot'[q]] = None
<1>t. TypeOK /\ Changing /\ DirCached /\ ChangesAlone
  BY DEF FatInv
<1>1. ASSUME NEW q \in Procs, q # p, pc'[q] \in ChangePcs PROVE Good(q)
  <2>1. /\ pc'[q] = pc[q] /\ slot'[q] = slot[q] /\ clus'[q] = clus[q] /\ name'[q] = name[q]
    BY <1>1, <1>t, LocalStep DEF Local
  <2>2. pc[p] \notin ChangePcs \cup LookupPcs
    BY <1>1, <2>1, <1>t DEF ChangesAlone
  <2>3. KeepsDir
    BY <2>2, KeepsDirStep DEF CreateEntry, MarkEntryDeleted, ChangePcs
  <2>4. \A s \in Slots : inode[s] = None => inode'[s] = None
    BY <2>2, InodeStaysStep DEF InodeStays, LookupPcs
  <2>5. slot[q] \in Slots /\ clus[q] \in Clusters
    BY <1>1, <2>1, <1>t DEF Changing
  <2> QED BY <1>1, <2>1, <2>3, <2>4, <2>5, <1>t DEF Changing, KeepsDir
<1>2. ASSUME pc'[p] \in ChangePcs PROVE Good(p)
  <2>1. CASE pc'[p] = "create"
    <3>1. PICK n \in Names : OpenCreate(p, n)
      BY <2>1, <1>t, PcFroms DEF PcFrom
    <3> PICK m : m = Min({s \in Slots : cached[s] = None})
      OBVIOUS
    <3>2. m \in Slots /\ cached[m] = None
      BY <3>1, SlotFacts DEF OpenCreate
    <3>3. name'[p] = n /\ slot'[p] = m /\ dir' = dir
      BY <3>1, <1>t DEF OpenCreate, TypeOK
    <3>4. clus'[p] \in Clusters
      <4>1. FreeClusters # {} /\ AllocCluster(p)
        <5>1. ~Hang(p)
          BY <2>1, <1>t DEF Hang, Goto, TypeOK
        <5> QED BY <5>1, <3>1 DEF OpenCreate
      <4> QED BY <4>1, <1>t, AllocFacts DEF AllocCluster, TypeOK
    <3> QED BY <2>1, <3>2, <3>3, <3>4, <1>t DEF DirCached
  <2>2. CASE pc'[p] = "mark"
    <3>1. PICK n \in Names : Unlink(p, n)
      BY <2>2, <1>t, PcFroms DEF PcFrom
    <3> PICK s : s = Min(Matches(n, Prefixes))
      OBVIOUS
    <3>2. s \in Slots /\ cached[s] # None /\ cached[s] \in Entries
      BY <3>1, <1>t, MatchFacts DEF Unlink
    <3>3. /\ slot'[p] = s /\ clus'[p] = cached[s].start /\ inode[s] = None
          /\ UNCHANGED <<dir, inode>>
      BY <3>1, <1>t DEF Unlink, InUse, TypeOK, diskVars
    <3>4. dir[s] # None /\ dir[s].start = cached[s].start /\ cached[s].start \in Clusters
      BY <3>2, <1>t DEF DirCached, Entries
    <3> QED BY <2>2, <3>2, <3>3, <3>4
  <2>3. CASE pc'[p] = "unchain"
    <3>1. MarkEntryDeleted(p)
      BY <2>3, <1>t, PcFroms DEF PcFrom
    <3>2. slot[p] \in Slots /\ clus[p] \in Clusters /\ slot' = slot /\ clus' = clus
      BY <3>1, MarkFacts DEF MarkEntryDeleted
    <3> QED BY <2>3, <3>2
  <2> QED BY <1>2, <2>1, <2>2, <2>3 DEF ChangePcs
<1>3. \A q \in Procs : pc'[q] \in ChangePcs => Good(q)
  <2> HIDE DEF Good
  <2> QED BY <1>1, <1>2
<1>4. "create" \in ChangePcs /\ "mark" \in ChangePcs
  BY DEF ChangePcs
<1> HIDE DEF ChangePcs
<1> QED BY <1>3, <1>4 DEF Changing

\* What a busy process relies on, of its inode x.
BusyWith(l, k, x, p) ==
    /\ x # None /\ x.lock = p
    /\ l \in {"read", "write"} => k = x.logi
    /\ l = "read" => k < x.size
    /\ l \in WritePcs => k <= x.size /\ k < MaxLen

LEMMA BusyStep ==
    ASSUME Races = FALSE, NEW Q, FatInv(Q), NEW p \in Procs,
           OpenStep(p) \/ InodeStep(p) \/ UnlinkStep(p)
    PROVE  Busy'
<1>c. MaxLen \in Nat \ {0} /\ None \notin Procs
  BY Consts
<1>t. TypeOK /\ Busy
  BY DEF FatInv
<1>b. \A q \in Procs : pc[q] \in BusyPcs =>
          file[q] \in Slots /\ BusyWith(pc[q], at[q], inode[file[q]], q)
  BY <1>t DEF Busy, BusyWith
<1>u. ASSUME NEW x, Uses(p, x) PROVE file'[p] = file[p] /\ file[p] \in Slots /\ inode'[file'[p]] = x
                                     /\ x # None
  BY <1>u, <1>t DEF Uses, TypeOK
<1>1. ASSUME NEW q \in Procs, q # p, pc'[q] \in BusyPcs
      PROVE  file'[q] \in Slots /\ BusyWith(pc'[q], at'[q], inode'[file'[q]], q)
  <2>1. pc'[q] = pc[q] /\ at'[q] = at[q] /\ file'[q] = file[q]
    BY <1>1, <1>t, LocalStep DEF Local
  <2>2. file[q] \in Slots /\ inode[file[q]] # None /\ inode[file[q]].lock = q
    BY <1>1, <1>b, <2>1 DEF BusyWith
  <2>3. inode'[file[q]] = inode[file[q]]
    BY <2>2, <1>1, <1>c, InodeStaysStep DEF InodeStays
  <2> QED BY <1>1, <1>b, <2>1, <2>2, <2>3
<1>2. ASSUME pc'[p] \in BusyPcs
      PROVE  file'[p] \in Slots /\ BusyWith(pc'[p], at'[p], inode'[file'[p]], p)
  <2>1. CASE pc'[p] = "read"
    <3>1. PICK k \in 0 .. MaxLen - 1 : Read(p, k)
      BY <2>1, <1>t, PcFroms DEF PcFrom
    <3>2. PICK x : Uses(p, x) /\ Placed(Q, p, k, x)
      BY <3>1, PlacedBy
    <3>3. at'[p] = k /\ k < inode[file[p]].size
      BY <3>1, <1>t DEF Read, Readable, TypeOK
    <3> QED BY <2>1, <3>2, <3>3, <1>u DEF BusyWith, Placed, WritePcs
  <2>2. CASE pc'[p] = "grow"
    <3>1. PICK k \in 0 .. MaxLen - 1 : WriteGrow(p, k)
      BY <2>2, <1>t, PcFroms DEF PcFrom
    <3>2. PICK x : Uses(p, x) /\ AtEnd(Q, p, k, x)
      BY <3>1, AtEndBy
    <3>3. at'[p] = k /\ k < MaxLen /\ k <= k
      BY <3>1, <1>t, <1>c DEF WriteGrow, TypeOK
    <3> QED BY <2>2, <3>2, <3>3, <1>u DEF BusyWith, AtEnd, SameFile
  <2>3. CASE pc'[p] = "write"
    <3>1. CASE Grow(p)
      <4>1. PICK x : Uses(p, x) /\ Grown(p, x)
        BY <3>1, GrownBy
      <4>2. pc[p] = "grow" /\ at' = at
        BY <3>1 DEF Grow
      <4>3. at[p] <= inode[file[p]].size /\ at[p] < MaxLen
        BY <4>2, <1>b DEF BusyWith, BusyPcs, WritePcs
      <4> QED BY <2>3, <4>1, <4>2, <4>3, <1>u DEF BusyWith, Grown
    <3>2. CASE \E k \in 0 .. MaxLen - 1 : Write(p, k)
      <4>1. PICK k \in 0 .. MaxLen - 1 : Write(p, k)
        BY <3>2
      <4>2. PICK x : Uses(p, x) /\ Placed(Q, p, k, x)
        BY <4>1, PlacedBy
      <4>3. at'[p] = k /\ k <= inode[file[p]].size /\ k < MaxLen
        BY <4>1, <1>t, <1>c DEF Write, TypeOK
      <4> QED BY <2>3, <4>2, <4>3, <1>u DEF BusyWith, Placed
    <3> QED BY <2>3, <1>t, <3>1, <3>2, PcFroms DEF PcFrom
  <2>4. CASE pc'[p] = "entry"
    <3>1. PICK v \in Values : WriteBlock(p, v)
      BY <2>4, <1>t, PcFroms DEF PcFrom
    <3>2. PICK x : Uses(p, x) /\ Sized(p, x)
      BY <3>1, SizedBy
    <3> QED BY <2>4, <3>2, <1>u DEF BusyWith, Sized, WritePcs
  <2>5. CASE pc'[p] = "update"
    <3>1. UpdateRead(p)
      BY <2>5, <1>t, PcFroms DEF PcFrom
    <3>2. pc[p] = "entry" /\ inode' = inode /\ file' = file
      BY <3>1 DEF UpdateRead
    <3> QED BY <2>5, <3>2, <1>b DEF BusyWith, BusyPcs, WritePcs
  <2> QED BY <1>2, <2>1, <2>2, <2>3, <2>4, <2>5 DEF BusyPcs
<1>3. \A q \in Procs : pc'[q] \in BusyPcs =>
          file'[q] \in Slots /\ BusyWith(pc'[q], at'[q], inode'[file'[q]], q)
  BY <1>1, <1>2
<1> QED BY <1>3 DEF Busy, BusyWith

\* The processes that have the file open, after one opened or closed it.
LEMMA ReferencedStep ==
    ASSUME Races = FALSE, NEW Q, FatInv(Q), NEW p \in Procs,
           OpenStep(p) \/ InodeStep(p) \/ UnlinkStep(p)
    PROVE  Referenced'
<1>t. /\ inode \in [Slots -> Inodes \cup {None}] /\ file \in [Procs -> Slots \cup {None}]
      /\ None \notin Slots
  BY Consts DEF FatInv, TypeOK
<1>f. \A s \in Slots : /\ IsFiniteSet(Users(s)) /\ Cardinality(Users(s)) \in Nat
                       /\ Users(s) # {} => inode[s] # None /\ inode[s].ref >= Cardinality(Users(s))
  BY FS_CardinalityType DEF FatInv, Referenced
<1>r. \A s \in Slots : inode[s] # None => inode[s].ref \in Nat
  BY <1>t DEF Inodes
<1> SUFFICES ASSUME NEW s \in Slots
             PROVE  /\ IsFiniteSet(Users(s)')
                    /\ Users(s)' # {} => /\ inode'[s] # None
                                         /\ inode'[s].ref >= Cardinality(Users(s)')
  BY DEF Referenced
<1> DEFINE Goal(U, x) == IsFiniteSet(U) /\ (U # {} => x # None /\ x.ref >= Cardinality(U))
<1>g. Goal(Users(s), inode[s])
  BY <1>f
<1>s. ASSUME NEW U, U \subseteq Users(s), NEW x, x # None, x.ref = inode[s].ref
      PROVE  Goal(U, x)
  <2>1. IsFiniteSet(U) /\ Cardinality(U) <= Cardinality(Users(s)) /\ Cardinality(U) \in Nat
    BY <1>s, <1>f, FS_Subset, FS_CardinalityType
  <2>2. ASSUME U # {} PROVE x.ref >= Cardinality(U)
    <3>1. inode[s].ref >= Cardinality(Users(s)) /\ inode[s].ref \in Nat
      BY <2>2, <1>s, <1>f, <1>r
    <3> QED BY <3>1, <2>1, <1>f, <1>s
  <2> QED BY <2>1, <2>2, <1>s
<1>e. Goal({}, inode'[s])
  BY FS_EmptySet
<1>n. inode[s] = None => Users(s) = {}
  BY <1>f
<1> HIDE DEF Goal
<1>1. ASSUME inode' = inode, file' = file \/ file' = [file EXCEPT ![p] = None]
      PROVE  Goal(Users(s)', inode'[s])
  <2>1. Users(s)' \subseteq Users(s)
    BY <1>1, <1>t DEF Users
  <2>2. CASE inode[s] = None
    BY <2>1, <2>2, <1>1, <1>n, <1>e
  <2>3. CASE inode[s] # None
    BY <2>1, <2>3, <1>1, <1>s
  <2> QED BY <2>2, <2>3
<1>2. ASSUME NEW x, Uses(p, x) PROVE Goal(Users(s)', inode'[s])
  <2>1. Users(s)' = Users(s)
    BY <1>2 DEF Users, Uses
  <2>2. CASE inode[s] = None
    BY <2>1, <2>2, <1>n, <1>e
  <2>3. CASE inode[s] # None
    <3>1. inode'[s] # None /\ inode'[s].ref = inode[s].ref
      BY <2>3, <1>2, <1>t DEF Uses
    <3> QED BY <2>1, <3>1, <1>s
  <2> QED BY <2>2, <2>3
<1>3. ASSUME NEW u, NEW x, Builds(p, u, x) \/ Dups(p, u, x) PROVE Goal(Users(s)', inode'[s])
  <2>1. /\ u \in Slots /\ file' = [file EXCEPT ![p] = u] /\ inode' = [inode EXCEPT ![u] = x]
        /\ x # None
    BY <1>3 DEF Builds, Dups
  <2>2. CASE s # u
    <3>1. Users(s)' \subseteq Users(s) /\ inode'[s] = inode[s]
      BY <2>1, <2>2, <1>t DEF Users
    <3>2. CASE inode[s] = None
      BY <3>1, <3>2, <1>n, <1>e
    <3>3. CASE inode[s] # None
      BY <3>1, <3>3, <1>s
    <3> QED BY <3>2, <3>3
  <2>3. CASE s = u
    <3>1. Users(s)' = Users(s) \cup {p} /\ inode'[s] = x
      BY <2>1, <2>3, <1>t DEF Users
    <3>2. IsFiniteSet(Users(s)') /\ Cardinality(Users(s)') <= Cardinality(Users(s)) + 1
          /\ Cardinality(Users(s)') \in Nat
      <4> PICK U : U = Users(s) /\ IsFiniteSet(U) /\ Cardinality(U) \in Nat
        BY <1>f
      <4>1. IsFiniteSet(U \cup {p})
            /\ Cardinality(U \cup {p}) = IF p \in U THEN Cardinality(U) ELSE Cardinality(U) + 1
        BY FS_AddElement
      <4>2. Cardinality(U \cup {p}) <= Cardinality(U) + 1 /\ Cardinality(U \cup {p}) \in Nat
        BY <4>1
      <4> QED BY <4>1, <4>2, <3>1
    <3>3. CASE Builds(p, u, x)
      <4>1. x.ref = 1 /\ Cardinality(Users(s)) = 0
        BY <3>3, <2>3, <1>n, FS_EmptySet DEF Builds
      <4>2. x.ref >= Cardinality(Users(s)')
        BY <4>1, <3>2
      <4> QED BY <3>1, <3>2, <4>2, <2>1 DEF Goal
    <3>4. CASE Dups(p, u, x)
      <4>1. inode[s] # None /\ x.ref = inode[s].ref + 1
        BY <3>4, <2>3 DEF Dups
      <4>2. inode[s].ref \in Nat /\ inode[s].ref >= Cardinality(Users(s))
        <5>1. CASE Users(s) = {}
          BY <5>1, <4>1, <1>r, FS_EmptySet
        <5>2. CASE Users(s) # {}
          BY <5>2, <4>1, <1>r, <1>f
        <5> QED BY <5>1, <5>2
      <4> PICK r \in Nat : r = inode[s].ref
        BY <4>2
      <4>3. r + 1 >= Cardinality(Users(s)')
        BY <4>2, <3>2, <1>f
      <4> QED BY <3>1, <3>2, <4>1, <4>3, <2>1 DEF Goal
    <3> QED BY <1>3, <3>3, <3>4
  <2> QED BY <2>2, <2>3
<1>4. ASSUME NEW x, Closes(p, x) PROVE Goal(Users(s)', inode'[s])
  <2>1. /\ file[p] \in Slots /\ file' = [file EXCEPT ![p] = None]
        /\ inode' = [inode EXCEPT ![file[p]] = x]
    BY <1>4 DEF Closes
  <2>2. CASE s # file[p]
    <3>1. Users(s)' \subseteq Users(s) /\ inode'[s] = inode[s]
      BY <2>1, <2>2, <1>t DEF Users
    <3>2. CASE inode[s] = None
      BY <3>1, <3>2, <1>n, <1>e
    <3>3. CASE inode[s] # None
      BY <3>1, <3>3, <1>s
    <3> QED BY <3>2, <3>3
  <2>3. CASE s = file[p]
    <3>1. Users(s)' = Users(s) \ {p} /\ inode'[s] = x /\ p \in Users(s)
      BY <2>1, <2>3, <1>t DEF Users
    <3>2. IsFiniteSet(Users(s)') /\ Cardinality(Users(s)') = Cardinality(Users(s)) - 1
          /\ Cardinality(Users(s)') \in Nat
      BY <3>1, <1>f, FS_RemoveElement, FS_CardinalityType
    <3>3. inode[s] # None /\ inode[s].ref \in Nat /\ inode[s].ref >= Cardinality(Users(s))
      BY <3>1, <1>f, <1>r
    <3> PICK r \in Nat : r = inode[s].ref
      BY <3>3
    <3>4. CASE x = None /\ inode[s].ref = 1
      <4>1. Cardinality(Users(s)') = 0
        BY <3>2, <3>3, <3>4, <1>f
      <4>2. Users(s)' = {}
        BY <4>1, <3>2, FS_EmptySet
      <4> QED BY <4>2, <1>e
    <3>5. CASE x # None /\ x.ref = inode[s].ref - 1
      <4>1. r - 1 >= Cardinality(Users(s)')
        BY <3>2, <3>3, <1>f
      <4> QED BY <3>1, <3>2, <3>5, <4>1 DEF Goal
    <3> QED BY <1>4, <2>3, <3>4, <3>5 DEF Closes
  <2> QED BY <2>2, <2>3
<1> QED BY <1>1, <1>2, <1>3, <1>4, InodeSteps DEF InodeMoves, Goal

-----------------------------------------------------------------------------
(* Heads and their owners.                                                 *)

UsedStays == Used' = Used /\ \A s \in Used : dir'[s].start = dir[s].start

HoldersStay(p) ==
    /\ \A q : q # p => (q \in Holders' <=> q \in Holders)
    /\ \A q \in Holders : q # p => clus'[q] = clus[q]

LEMMA UsedBy ==
    ASSUME KeepsDir
    PROVE  UsedStays
BY DEF KeepsDir, UsedStays, Used

LEMMA HoldersBy ==
    ASSUME NEW p \in Procs, Local(p)
    PROVE  HoldersStay(p)
BY DEF Local, HoldersStay, Holders

LEMMA HeadsSame ==
    ASSUME HeadsApart, NEW p, UsedStays, HoldersStay(p), p \notin Holders, p \notin Holders'
    PROVE  Heads' = Heads /\ HeadsApart'
<1>1. Holders' = Holders /\ \A q \in Holders : clus'[q] = clus[q]
  BY DEF HoldersStay
<1>2. EntryHeads' = EntryHeads
  BY DEF EntryHeads, UsedStays
<1>3. CallHeads' = CallHeads
  BY <1>1 DEF CallHeads
<1>4. HeadsApart'
  BY <1>1 DEF HeadsApart, UsedStays
<1> QED BY <1>2, <1>3, <1>4 DEF Heads

LEMMA HeadsAdd ==
    ASSUME HeadsApart, NEW p, UsedStays, HoldersStay(p), p \notin Holders, p \in Holders',
           NEW c, clus'[p] = c, c \notin Heads
    PROVE  Heads' = Heads \cup {c} /\ HeadsApart'
<1>1. Holders' = Holders \cup {p} /\ \A q \in Holders : clus'[q] = clus[q]
  BY DEF HoldersStay
<1>2. EntryHeads' = EntryHeads
  BY DEF EntryHeads, UsedStays
<1>3. CallHeads' = CallHeads \cup {c}
  BY <1>1 DEF CallHeads
<1>4. (\A s \in Used : dir[s].start # c) /\ (\A q \in Holders : clus[q] # c)
  BY DEF Heads, EntryHeads, CallHeads
<1>5. HeadsApart'
  BY <1>1, <1>4 DEF HeadsApart, UsedStays
<1> QED BY <1>2, <1>3, <1>5 DEF Heads

LEMMA HeadsDrop ==
    ASSUME HeadsApart, NEW p, UsedStays, HoldersStay(p), p \in Holders, p \notin Holders'
    PROVE  Heads' = Heads \ {clus[p]} /\ HeadsApart'
<1>1. Holders' = Holders \ {p} /\ \A q \in Holders \ {p} : clus'[q] = clus[q] /\ clus[q] # clus[p]
  BY DEF HoldersStay, HeadsApart
<1>2. EntryHeads' = EntryHeads /\ clus[p] \notin EntryHeads
  BY DEF EntryHeads, UsedStays, HeadsApart
<1>3. CallHeads' = CallHeads \ {clus[p]}
  BY <1>1 DEF CallHeads
<1>4. HeadsApart'
  BY <1>1 DEF HeadsApart, UsedStays
<1> QED BY <1>2, <1>3, <1>4 DEF Heads

\* The head moves from the call to the entry ...
LEMMA HeadsCreate ==
    ASSUME HeadsApart, NEW p, HoldersStay(p), p \in Holders, p \notin Holders',
           NEW s, s \notin Used, Used' = Used \cup {s}, dir'[s].start = clus[p],
           \A t \in Used : dir'[t].start = dir[t].start
    PROVE  Heads' = Heads /\ HeadsApart'
<1>1. Holders' = Holders \ {p} /\ \A q \in Holders \ {p} : clus'[q] = clus[q] /\ clus[q] # clus[p]
  BY DEF HoldersStay, HeadsApart
<1>2. EntryHeads' = EntryHeads \cup {clus[p]}
  BY DEF EntryHeads
<1>3. CallHeads' = CallHeads \ {clus[p]} /\ clus[p] \in CallHeads
  BY <1>1 DEF CallHeads
<1>4. \A t \in Used : dir[t].start # clus[p]
  BY DEF HeadsApart
<1>5. HeadsApart'
  BY <1>1, <1>4 DEF HeadsApart
<1> QED BY <1>2, <1>3, <1>5 DEF Heads

\* ... and back.
LEMMA HeadsMark ==
    ASSUME HeadsApart, NEW p, HoldersStay(p), p \notin Holders, p \in Holders',
           NEW s \in Used, Used' = Used \ {s}, dir[s].start = clus'[p],
           \A t \in Used \ {s} : dir'[t].start = dir[t].start
    PROVE  Heads' = Heads /\ HeadsApart'
<1>1. Holders' = Holders \cup {p} /\ \A q \in Holders : clus'[q] = clus[q]
  BY DEF HoldersStay
<1>2. CallHeads' = CallHeads \cup {dir[s].start}
  BY <1>1 DEF CallHeads
<1>3. \A t \in Used \ {s} : dir[t].start # dir[s].start
  BY DEF HeadsApart
<1>4. EntryHeads' = EntryHeads \ {dir[s].start} /\ dir[s].start \in EntryHeads
  BY <1>3 DEF EntryHeads
<1>5. HeadsApart'
  BY <1>1, <1>3 DEF HeadsApart
<1> QED BY <1>2, <1>4, <1>5 DEF Heads

-----------------------------------------------------------------------------
(* The parts of the invariant that speak of chains, for each kind of step. *)

ChainParts(Q) ==
    /\ FatChains(fat, Heads, Q) /\ HeadsApart /\ SizesFit(Q)
    /\ InodePlace(Q) /\ Written(Q) /\ Growing(Q)

\* A process that waits to link its cluster is not disturbed.
Undisturbed(Q, q) ==
    /\ pc[q] = "grow" /\ clus'[q] = clus[q] /\ clus[q] \in Clusters /\ at'[q] = at[q]
    /\ Len(Q[clus[q]]) = 1 /\ file'[q] = file[q] /\ file[q] \in Slots
    /\ inode[file[q]] # None /\ inode[file[q]].lock = q
    /\ inode'[file[q]] = inode[file[q]]
    /\ at[q] = Len(Q[inode[file[q]].start])
    /\ q \in Holders /\ inode[file[q]].start \in Heads

LEMMA GrowingOthers ==
    ASSUME Races = FALSE, NEW Q, FatInv(Q), NEW p \in Procs,
           OpenStep(p) \/ InodeStep(p) \/ UnlinkStep(p),
           NEW q \in Procs, q # p, pc'[q] = "grow"
    PROVE  Undisturbed(Q, q)
<1>t. TypeOK /\ Busy /\ Growing(Q) /\ None \notin Procs
  BY Consts DEF FatInv
<1>1. pc[q] = "grow" /\ clus'[q] = clus[q] /\ at'[q] = at[q] /\ file'[q] = file[q]
  BY <1>t, LocalStep DEF Local
<1>2. file[q] \in Slots /\ inode[file[q]] # None /\ inode[file[q]].lock = q
  BY <1>1, <1>t, BusyFacts DEF BusyPcs
<1>3. inode'[file[q]] = inode[file[q]]
  BY <1>2, <1>t, InodeStaysStep DEF InodeStays
<1>4. clus[q] \in Clusters /\ Len(Q[clus[q]]) = 1 /\ at[q] = Len(Q[inode[file[q]].start])
  BY <1>1, <1>t DEF Growing
<1>5. q \in Holders /\ inode[file[q]].start \in Heads
  BY <1>1, <1>2, Facts DEF Holders, FatFacts
<1> QED BY <1>1, <1>2, <1>3, <1>4, <1>5 DEF Undisturbed

\* Place and size of an inode fit the chain q.
Fits(x, q) == x.logi < Len(q) /\ q[x.logi + 1] = x.clus /\ x.size <= Len(q)

LEMMA FitsBefore ==
    ASSUME NEW Q, FatInv(Q), NEW s \in Slots, inode[s] # None
    PROVE  Fits(inode[s], Q[inode[s].start])
BY DEF FatInv, InodePlace, Fits

LEMMA FitsAll ==
    ASSUME NEW R, \A s \in Slots : inode'[s] # None => Fits(inode'[s], R[inode'[s].start])
    PROVE  InodePlace(R)'
BY DEF InodePlace, Fits

\* A new inode knows the first cluster.
LEMMA FitsBuilt ==
    ASSUME NEW Q, FatInv(Q), NEW p \in Procs, NEW s, NEW x, Builds(p, s, x)
    PROVE  Fits(x, Q[x.start]) /\ x.size = cached[s].size
<1>c. MaxLen \in Nat \ {0}
  BY Consts
<1>1. s \in Used /\ x.start = dir[s].start /\ x.size = cached[s].size
      /\ x.logi = 0 /\ x.clus = x.start
  BY DEF Builds, FatInv, DirCached, Used
<1>2. GoodChain(x.start, Q[x.start])
  BY <1>1, Facts DEF FatFacts
<1>3. Len(Q[x.start]) \in 1 .. MaxLen /\ Q[x.start][1] = x.start
  BY <1>2 DEF GoodChain
<1>4. cached[s].size <= Len(Q[x.start])
  BY <1>1 DEF FatInv, SizesFit
<1>5. x.logi < Len(Q[x.start]) /\ x.logi + 1 = 1
  BY <1>1, <1>3, <1>c
<1> QED BY <1>1, <1>3, <1>4, <1>5 DEF Fits

\* A step that neither moves the FAT nor writes to a file: the sizes after it
\* are sizes from before it.
QuietInode(Q) ==
    \A s \in Slots : inode'[s] # None =>
        /\ Fits(inode'[s], Q[inode'[s].start])
        /\ \/ inode'[s].size = cached[s].size
           \/ inode[s] # None /\ inode'[s].size = inode[s].size

LEMMA QuietBy ==
    ASSUME NEW Q, FatInv(Q), NEW p \in Procs,
           \/ inode' = inode
           \/ \E s, x : Builds(p, s, x) \/ Dups(p, s, x)
           \/ \E x : Closes(p, x)
           \/ \E x : Uses(p, x) /\ SameFile(x, inode[file[p]])
           \/ \E k, x : Uses(p, x) /\ Placed(Q, p, k, x)
    PROVE  QuietInode(Q)
<1>t. inode \in [Slots -> Inodes \cup {None}]
  BY DEF FatInv, TypeOK
<1>f. \A s \in Slots : inode[s] # None => Fits(inode[s], Q[inode[s].start])
  BY FitsBefore
<1>1. CASE inode' = inode
  BY <1>1, <1>f DEF QuietInode
<1>2. ASSUME NEW s, NEW x, Builds(p, s, x) PROVE QuietInode(Q)
  <2>1. /\ s \in Slots /\ inode'[s] = x /\ \A u \in Slots \ {s} : inode'[u] = inode[u]
    BY <1>2, <1>t DEF Builds
  <2> QED BY <2>1, <1>2, <1>f, FitsBuilt DEF QuietInode
<1>3. ASSUME NEW s \in Slots, NEW x, inode[s] # None, inode' = [inode EXCEPT ![s] = x],
             x # None => SameFile(x, inode[s])
      PROVE  QuietInode(Q)
  <2>1. inode'[s] = x /\ \A u \in Slots \ {s} : inode'[u] = inode[u]
    BY <1>3, <1>t
  <2>2. x # None => Fits(x, Q[x.start]) /\ x.size = inode[s].size
    BY <1>3, <1>f DEF SameFile, Fits
  <2> QED BY <2>1, <2>2, <1>3, <1>f DEF QuietInode
<1>4. ASSUME NEW s, NEW x, Dups(p, s, x) PROVE QuietInode(Q)
  BY <1>3, <1>4 DEF Dups
<1>5. ASSUME NEW x, Closes(p, x) PROVE QuietInode(Q)
  BY <1>3, <1>5 DEF Closes
<1>6. ASSUME NEW x, Uses(p, x), SameFile(x, inode[file[p]]) PROVE QuietInode(Q)
  BY <1>3, <1>6 DEF Uses
<1>7. ASSUME NEW k, NEW x, Uses(p, x), Placed(Q, p, k, x) PROVE QuietInode(Q)
  <2>1. /\ file[p] \in Slots /\ inode[file[p]] # None /\ inode'[file[p]] = x
        /\ x.start = inode[file[p]].start /\ x # None
        /\ \A u \in Slots \ {file[p]} : inode'[u] = inode[u]
    BY <1>7, <1>t DEF Uses
  <2>2. x.size = inode[file[p]].size /\ Fits(x, Q[x.start])
    BY <1>7, <2>1, <1>f DEF Placed, ChainOfFile, Fits
  <2> QED BY <2>1, <2>2, <1>f DEF QuietInode
<1> QED BY <1>1, <1>2, <1>4, <1>5, <1>6, <1>7

\* The sizes that are kept of a file, and what they promise.
SizeOf(s, z) ==
    \/ z = dir[s].size \/ z = cached[s].size
    \/ \E p \in Procs : sector[p][s] # None /\ z = sector[p][s].size
    \/ inode[s] # None /\ z = inode[s].size

SizesAt(q, s) ==
    /\ dir[s].size <= Len(q) /\ cached[s].size <= Len(q)
    /\ \A p \in Procs : sector[p][s] # None => sector[p][s].size <= Len(q)
    /\ \A i \in 1 .. Len(q) :
           (\E z : SizeOf(s, z) /\ i <= z) => data[q[i]] # None

LEMMA SizesBefore ==
    ASSUME NEW Q, FatInv(Q), NEW s \in Used
    PROVE  /\ SizesAt(Q[dir[s].start], s)
           /\ \A z : SizeOf(s, z) => z \in Nat /\ z <= Len(Q[dir[s].start])
           /\ Len(Q[dir[s].start]) \in Nat
<1>c. MaxLen \in Nat
  BY Consts
<1>1. SizesAt(Q[dir[s].start], s)
  BY DEF FatInv, SizesFit, Written, SizesAt, SizeOf
<1>2. s \in Slots /\ dir[s] \in Entries /\ cached[s] \in Entries
      /\ GoodChain(dir[s].start, Q[dir[s].start])
      /\ (inode[s] # None => inode[s] \in Inodes /\ inode[s].start = dir[s].start)
  BY Facts DEF FatFacts
<1>s. \A p \in Procs : sector[p][s] # None => sector[p][s] \in Entries
  BY <1>2 DEF FatInv, TypeOK
<1>3. dir[s].size \in 0 .. MaxLen /\ cached[s].size \in 0 .. MaxLen
      /\ (\A p \in Procs : sector[p][s] # None => sector[p][s].size \in 0 .. MaxLen)
      /\ (inode[s] # None => inode[s].size \in 0 .. MaxLen)
  BY <1>2, <1>s DEF Entries, Inodes
<1>4. inode[s] # None => inode[s].size <= Len(Q[dir[s].start])
  BY <1>2, SizeFits
<1>5. \A z : SizeOf(s, z) => z \in 0 .. MaxLen
  BY <1>3 DEF SizeOf
<1>6. \A z : SizeOf(s, z) => z <= Len(Q[dir[s].start])
  BY <1>1, <1>4 DEF SizeOf, SizesAt
<1> QED BY <1>1, <1>2, <1>5, <1>6, <1>c DEF GoodChain

LEMMA SizesAfter ==
    ASSUME NEW R, \A s \in Used' : SizesAt(R[dir[s].start], s)'
    PROVE  SizesFit(R)' /\ Written(R)'
BY DEF SizesFit, Written, SizesAt, SizeOf

\* No new size, no cluster of the file lost, none erased.
LEMMA SizesKeep ==
    ASSUME NEW Q, FatInv(Q), NEW s \in Used, NEW q, q = Q[dir[s].start],
           NEW r, Len(r) \in Nat, Len(q) <= Len(r), \A i \in 1 .. Len(q) : r[i] = q[i],
           \A i \in 1 .. Len(q) : data[q[i]] # None => data'[q[i]] # None,
           \A z : SizeOf(s, z)' => SizeOf(s, z)
    PROVE  SizesAt(r, s)'
<1>1. /\ SizesAt(q, s) /\ \A z : SizeOf(s, z) => z \in Nat /\ z <= Len(q)
      /\ Len(q) \in Nat
  BY SizesBefore
<1>2. SizeOf(s, dir'[s].size) /\ SizeOf(s, cached'[s].size)
      /\ \A p \in Procs : sector'[p][s] # None => SizeOf(s, sector'[p][s].size)
  BY DEF SizeOf
<1>3. dir'[s].size <= Len(r) /\ cached'[s].size <= Len(r)
      /\ \A p \in Procs : sector'[p][s] # None => sector'[p][s].size <= Len(r)
  BY <1>1, <1>2
<1>4. ASSUME NEW i \in 1 .. Len(r), NEW z, SizeOf(s, z)', i <= z
      PROVE  data'[r[i]] # None
  <2>1. SizeOf(s, z) /\ z \in Nat /\ z <= Len(q)
    BY <1>1, <1>4
  <2>2. i \in 1 .. Len(q)
    BY <2>1, <1>1, <1>4
  <2> QED BY <2>1, <2>2, <1>1, <1>4 DEF SizesAt
<1> QED BY <1>3, <1>4 DEF SizesAt

GrowsAt(Q, p) ==
    /\ clus[p] \in Clusters /\ Len(Q[clus[p]]) = 1
    /\ at[p] = Len(Q[inode[file[p]].start])

\* The chains that a process other than p works with stay.
SameGrowing(Q, R, p) ==
    \A q \in Procs : q # p /\ pc[q] = "grow" =>
        /\ R[clus[q]] = Q[clus[q]]
        /\ R[inode[file[q]].start] = Q[inode[file[q]].start]

LEMMA GrowingKept ==
    ASSUME Races = FALSE, NEW Q, FatInv(Q), NEW p \in Procs,
           OpenStep(p) \/ InodeStep(p) \/ UnlinkStep(p), NEW R,
           SameGrowing(Q, R, p), pc'[p] = "grow" => GrowsAt(R, p)'
    PROVE  Growing(R)'
<1> SUFFICES ASSUME NEW q \in Procs, pc'[q] = "grow"
             PROVE  GrowsAt(R, q)'
  BY DEF Growing, GrowsAt
<1>1. CASE q # p
  <2>1. Undisturbed(Q, q)
    BY <1>1, GrowingOthers
  <2> QED BY <1>1, <2>1 DEF Undisturbed, GrowsAt, SameGrowing
<1>2. CASE q = p
  BY <1>2
<1> QED BY <1>1, <1>2

\* The sizes in the directory and in what UpdateInode read are from before.
QuietDir ==
    \A s \in Used :
        /\ SizeOf(s, dir'[s].size)
        /\ \A q \in Procs : sector'[q][s] # None => SizeOf(s, sector'[q][s].size)

LEMMA QuietDirBy ==
    ASSUME UNCHANGED <<dir, sector>>
    PROVE  QuietDir
BY DEF QuietDir, SizeOf

\* No cluster is taken, given back or written.
LEMMA QuietStep ==
    ASSUME Races = FALSE, NEW Q, FatInv(Q), NEW p \in Procs,
           OpenStep(p) \/ InodeStep(p) \/ UnlinkStep(p),
           UNCHANGED <<fat, data, cached>>, QuietInode(Q), KeepsDir, QuietDir,
           p \notin Holders, p \notin Holders'
    PROVE  ChainParts(Q)'
<1>t. TypeOK /\ HeadsApart
  BY DEF FatInv
<1>1. UsedStays /\ HoldersStay(p)
  BY <1>t, UsedBy, HoldersBy, LocalStep
<1>2. Heads' = Heads /\ HeadsApart'
  BY <1>1, <1>t, HeadsSame
<1>3. FatChains(fat, Heads, Q)'
  BY <1>2 DEF FatInv
<1>4. InodePlace(Q)'
  BY FitsAll DEF QuietInode
<1>5. ASSUME NEW s \in Used' PROVE SizesAt(Q[dir[s].start], s)'
  <2>1. s \in Used /\ s \in Slots /\ dir'[s].start = dir[s].start
    BY <1>1, <1>5 DEF UsedStays, Used
  <2>2. \A z : SizeOf(s, z)' => SizeOf(s, z)
    BY <2>1 DEF SizeOf, QuietInode, QuietDir
  <2> PICK q : q = Q[dir[s].start]
    OBVIOUS
  <2>3. Len(q) \in Nat
    BY <2>1, SizesBefore
  <2>4. Len(q) <= Len(q)
    BY <2>3
  <2>5. SizesAt(q, s)'
    BY <2>1, <2>2, <2>3, <2>4, SizesKeep
  <2> QED BY <2>1, <2>5
<1>6. SizesFit(Q)' /\ Written(Q)'
  BY <1>5, SizesAfter
<1>7. Growing(Q)'
  <2>1. SameGrowing(Q, Q, p) /\ pc'[p] # "grow"
    BY DEF SameGrowing, Holders
  <2> QED BY <2>1, GrowingKept
<1> QED BY <1>2, <1>3, <1>4, <1>6, <1>7 DEF ChainParts

\* A cluster is taken from the free ones.
LEMMA AllocStep ==
    ASSUME Races = FALSE, NEW Q, FatInv(Q), NEW p \in Procs,
           OpenStep(p) \/ InodeStep(p) \/ UnlinkStep(p),
           FreeClusters # {}, AllocCluster(p), UNCHANGED <<dir, cached, sector>>,
           QuietInode(Q), pc[p] = "idle", pc'[p] \in {"create", "grow"},
           pc'[p] = "grow" => /\ inode'[file'[p]].start \in Heads
                              /\ at'[p] = Len(Q[inode'[file'[p]].start])
    PROVE  \E R : ChainParts(R)'
<1>t. TypeOK /\ HeadsApart /\ fat \in FatType
  BY DEF FatInv, TypeOK, FatType
<1> PICK c : c = Min(FreeClusters)
  OBVIOUS
<1>1. c \in Clusters /\ fat[c] = 0
  BY AllocFacts
<1>2. /\ clus'[p] = c /\ data' = [data EXCEPT ![c] = None] /\ fat' = [fat EXCEPT ![c] = EOC]
  BY <1>t DEF AllocCluster, TypeOK
<1>h. Heads \in SUBSET Clusters /\ FatChains(fat, Heads, Q)
  BY Facts DEF FatFacts, FatInv
<1> PICK H : H = Heads
  OBVIOUS
<1>m. PICK R : MoreChains(fat', H, c, Q, R)
  <2>1. Marked(fat, c, fat')
    BY <1>2 DEF Marked
  <2> QED BY <1>1, <2>1, <1>h, <1>t, ChainsAlloc
<1>3. /\ c \notin H
      /\ \A h \in H : \A i \in 1 .. Len(Q[h]) : Q[h][i] # c
      /\ \A h \in H : R[h] = Q[h]
      /\ Len(R[c]) = 1
      /\ FatChains(fat', H \cup {c}, R)
  BY <1>m DEF MoreChains
<1>4. UsedStays /\ HoldersStay(p) /\ p \notin Holders /\ p \in Holders'
  <2>1. KeepsDir
    BY DEF KeepsDir
  <2> QED BY <2>1, <1>t, UsedBy, HoldersBy, LocalStep DEF Holders
<1>5. Heads' = H \cup {c} /\ HeadsApart'
  BY <1>2, <1>3, <1>4, <1>t, HeadsAdd
<1>6. FatChains(fat, Heads, R)'
  BY <1>3, <1>5
<1>7. \A s \in Slots : inode'[s] # None => inode'[s].start \in H
  <2>1. InodeEntry'
    BY InodeEntryStep
  <2>2. \A s \in Slots : inode'[s] # None => s \in Used /\ inode'[s].start = dir[s].start
    BY <2>1 DEF InodeEntry, Used
  <2> QED BY <2>2, Facts DEF FatFacts
<1>8. InodePlace(R)'
  BY <1>3, <1>7, FitsAll DEF QuietInode
<1>9. ASSUME NEW s \in Used' PROVE SizesAt(R[dir[s].start], s)'
  <2>1. s \in Used /\ s \in Slots /\ dir'[s].start = dir[s].start /\ dir[s].start \in H
    BY <1>4, <1>9, Facts DEF UsedStays, Used, FatFacts
  <2>2. \A z : SizeOf(s, z)' => SizeOf(s, z)
    BY <2>1 DEF SizeOf, QuietInode
  <2> PICK q : q = Q[dir[s].start]
    OBVIOUS
  <2>3. Len(q) \in Nat /\ Len(q) <= Len(q) /\ \A i \in 1 .. Len(q) : q[i] \in Clusters
    <3>1. GoodChain(dir[s].start, q)
      BY <2>1, Facts DEF FatFacts
    <3> QED BY <3>1 DEF GoodChain
  <2>4. \A i \in 1 .. Len(q) : data'[q[i]] = data[q[i]]
    BY <1>2, <1>3, <2>1, <2>3, <1>t DEF TypeOK
  <2>5. SizesAt(q, s)'
    BY <2>1, <2>2, <2>3, <2>4, SizesKeep
  <2> QED BY <2>1, <2>5, <1>3
<1>10. SizesFit(R)' /\ Written(R)'
  BY <1>9, SizesAfter
<1>11. pc'[p] = "grow" => GrowsAt(R, p)'
  BY <1>1, <1>2, <1>3 DEF GrowsAt
<1>12. ASSUME NEW q \in Procs, q # p, pc[q] = "grow"
       PROVE  /\ R[clus[q]] = Q[clus[q]]
              /\ R[inode[file[q]].start] = Q[inode[file[q]].start]
  <2>1. q \in Holders /\ clus[q] \in H
    BY <1>12, Facts DEF Holders, FatFacts
  <2>2. file[q] \in Slots /\ inode[file[q]] # None
    BY <1>12, BusyFacts DEF FatInv, BusyPcs
  <2>3. inode[file[q]].start \in H
    BY <2>2, Facts DEF FatFacts
  <2> QED BY <2>1, <2>3, <1>3
<1>13. Growing(R)'
  <2>1. SameGrowing(Q, R, p)
    BY <1>12 DEF SameGrowing
  <2> QED BY <1>11, <2>1, GrowingKept
<1> QED BY <1>5, <1>6, <1>8, <1>10, <1>13 DEF ChainParts

\* The new cluster is linked to the last one of the file.
LEMMA GrowStep ==
    ASSUME Races = FALSE, NEW Q, FatInv(Q), NEW p \in Procs, Grow(p)
    PROVE  \E R : ChainParts(R)'
<1>c. MaxLen \in Nat \ {0}
  BY Consts
<1>p. OpenStep(p) \/ InodeStep(p) \/ UnlinkStep(p)
  BY DEF InodeStep
<1>t. TypeOK /\ HeadsApart /\ fat \in FatType /\ inode \in [Slots -> Inodes \cup {None}]
  BY DEF FatInv, TypeOK, FatType
<1>0. pc[p] = "grow" /\ UNCHANGED <<data, dir, cached, sector, at>> /\ pc' = [pc EXCEPT ![p] = "write"]
  BY DEF Grow, Goto
<1>1. PICK x : Uses(p, x) /\ Grown(p, x)
  BY GrownBy
<1> PICK s \in Slots : s = file[p]
  BY <1>1 DEF Uses
<1> PICK ip \in Inodes : ip = inode[s]
  BY <1>1 DEF Uses
<1>2. inode[s] # None
  BY <1>1 DEF Uses
<1> PICK b : b = ip.start
  OBVIOUS
<1> PICK c : c = clus[p]
  OBVIOUS
<1> PICK H : H = Heads
  OBVIOUS
<1>h. H \in SUBSET Clusters /\ FatChains(fat, H, Q)
  BY Facts DEF FatFacts, FatInv
<1>3. s \in Used /\ b = dir[s].start /\ b \in H /\ GoodChain(b, Q[b])
  BY <1>2, Facts DEF FatFacts
<1>4. p \in Holders /\ c \in H
  BY <1>0, Facts DEF Holders, FatFacts
<1>5. b # c /\ \A t \in Used : dir[t].start # c /\ (dir[t].start = b => t = s)
  BY <1>3, <1>4, <1>t DEF HeadsApart
<1> PICK n : n = Len(Q[b])
  OBVIOUS
<1>6. Len(Q[c]) = 1 /\ at[p] = n /\ n < MaxLen /\ n \in Nat /\ n # 0
  <2>1. Len(Q[c]) = 1 /\ at[p] = n
    BY <1>0 DEF FatInv, Growing
  <2>2. at[p] < MaxLen
    BY <1>0 DEF FatInv, Busy, BusyPcs, WritePcs
  <2>3. n \in 1 .. MaxLen
    BY <1>2, SizeFits
  <2> QED BY <2>1, <2>2, <2>3, <1>c
<1>7. Bmap(ip, n - 1) = Q[b][n]
  <2>1. n - 1 \in 0 .. MaxLen /\ n - 1 <= n /\ n - 1 < n /\ (n - 1) + 1 = n
    BY <1>6, <1>c
  <2> PICK k \in 0 .. MaxLen : k = n - 1
    BY <2>1
  <2>2. Bmap(ip, k) = IF k < n THEN Q[b][k + 1] ELSE EOC
    BY <1>2, <2>1, BmapFacts
  <2> QED BY <2>1, <2>2
<1>8. fat' = [fat EXCEPT ![Q[b][n]] = c]
  BY <1>6, <1>7 DEF Grow
<1>l. PICK R : LongerChain(fat', H, b, c, Q, R)
  <2>1. Linked(fat, Q[b][Len(Q[b])], c, fat')
    BY <1>8 DEF Linked
  <2>2. Len(Q[b]) < MaxLen /\ b \in H /\ c \in H /\ b # c /\ Len(Q[c]) = 1
    BY <1>3, <1>4, <1>5, <1>6
  <2> QED BY <2>1, <2>2, <1>h, <1>t, LinkedChains
<1>9. /\ \A h \in H : h # b /\ h # c => R[h] = Q[h]
      /\ FatChains(fat', H \ {c}, R)
  BY <1>l DEF LongerChain
<1>10. UsedStays /\ HoldersStay(p) /\ p \notin Holders'
  <2>1. KeepsDir
    BY <1>0 DEF KeepsDir
  <2>2. pc'[p] = "write"
    BY <1>0, <1>t DEF TypeOK
  <2> QED BY <2>1, <2>2, <1>p, <1>t, UsedBy, HoldersBy, LocalStep DEF Holders
<1>11. Heads' = H \ {c} /\ HeadsApart'
  BY <1>4, <1>10, <1>t, HeadsDrop
<1>12. FatChains(fat, Heads, R)'
  BY <1>9, <1>11
<1>13. /\ Len(R[b]) = n + 1 /\ Len(R[b]) \in Nat /\ R[b][n + 1] = c
       /\ \A i \in 1 .. n : R[b][i] = Q[b][i]
  BY <1>l, <1>6 DEF LongerChain
<1>14. /\ inode'[s] = x /\ x.start = b /\ x.size = ip.size /\ x.logi = n /\ x.clus = c
       /\ x # None /\ \A u \in Slots \ {s} : inode'[u] = inode[u]
  BY <1>1, <1>6, <1>t DEF Uses, Grown
<1>15. ASSUME NEW u \in Slots, inode'[u] # None PROVE Fits(inode'[u], R[inode'[u].start])
  <2>1. CASE u = s
    <3>1. ip.size <= n /\ ip.size \in Nat
      BY <1>2, <1>c, SizeFits
    <3>2. n < n + 1 /\ ip.size <= n + 1
      BY <3>1, <1>6
    <3> QED BY <2>1, <3>2, <1>13, <1>14 DEF Fits
  <2>2. CASE u # s
    <3>1. inode'[u] = inode[u] /\ inode[u] # None
      BY <2>2, <1>14, <1>15
    <3>2. u \in Used /\ inode[u].start = dir[u].start /\ inode[u].start \in H
      BY <3>1, Facts DEF FatFacts
    <3>3. R[inode[u].start] = Q[inode[u].start]
      BY <3>2, <2>2, <1>5, <1>9
    <3> QED BY <3>1, <3>3, FitsBefore
  <2> QED BY <2>1, <2>2
<1>16. InodePlace(R)'
  BY <1>15, FitsAll
<1>17. ASSUME NEW u \in Used' PROVE SizesAt(R[dir[u].start], u)'
  <2>1. u \in Used /\ u \in Slots /\ dir'[u].start = dir[u].start /\ dir[u].start \in H
    BY <1>10, <1>17, Facts DEF UsedStays, Used, FatFacts
  <2>2. \A z : SizeOf(u, z)' => SizeOf(u, z)
    BY <2>1, <1>0, <1>2, <1>14 DEF SizeOf
  <2> PICK q : q = Q[dir[u].start]
    OBVIOUS
  <2> PICK r : r = R[dir[u].start]
    OBVIOUS
  <2>3. Len(q) \in Nat
    BY <2>1, SizesBefore
  <2>4. Len(r) \in Nat /\ Len(q) <= Len(r) /\ \A i \in 1 .. Len(q) : r[i] = q[i]
    <3>1. CASE u = s
      <4>1. Len(q) = n /\ q = Q[b] /\ r = R[b]
        BY <3>1, <1>3
      <4> QED BY <4>1, <1>6, <1>13
    <3>2. CASE u # s
      <4>1. r = q
        BY <3>2, <2>1, <1>5, <1>9
      <4> QED BY <4>1, <2>3
    <3> QED BY <3>1, <3>2
  <2>6. \A i \in 1 .. Len(q) : data[q[i]] # None => data'[q[i]] # None
    BY <1>0
  <2>7. u \in Used
    BY <2>1
  <2>5. SizesAt(r, u)'
    BY <2>2, <2>4, <2>6, <2>7, SizesKeep, SMTT(60)
  <2> QED BY <2>1, <2>5
<1>18. SizesFit(R)' /\ Written(R)'
  BY <1>17, SizesAfter
<1>19. ASSUME NEW q \in Procs, q # p, pc[q] = "grow"
       PROVE  /\ R[clus[q]] = Q[clus[q]]
              /\ R[inode[file[q]].start] = Q[inode[file[q]].start]
  <2>1. q \in Holders /\ clus[q] \in H
    BY <1>19, Facts DEF Holders, FatFacts
  <2>2. clus[q] # c /\ clus[q] # b
    BY <2>1, <1>3, <1>4, <1>19, <1>t DEF HeadsApart
  <2>3. file[q] \in Slots /\ inode[file[q]] # None /\ inode[file[q]].lock = q
    BY <1>19, BusyFacts DEF FatInv, BusyPcs
  <2>4. inode[s].lock = p
    BY <1>0, BusyFacts DEF FatInv, BusyPcs
  <2>5. file[q] \in Used /\ inode[file[q]].start \in H /\ inode[file[q]].start = dir[file[q]].start
    BY <2>3, Facts DEF FatFacts
  <2>6. inode[file[q]].start # c /\ inode[file[q]].start # b
    BY <2>3, <2>4, <2>5, <1>5, <1>19
  <2> QED BY <2>1, <2>2, <2>5, <2>6, <1>9
<1>20. pc'[p] = "write"
  BY <1>0, <1>t DEF TypeOK
<1>21. Growing(R)'
  <2>1. SameGrowing(Q, R, p)
    BY <1>19 DEF SameGrowing
  <2> QED BY <2>1, <1>p, <1>20, GrowingKept
<1> QED BY <1>11, <1>12, <1>16, <1>18, <1>21 DEF ChainParts

\* A chain is given back.
LEMMA FreeStep ==
    ASSUME Races = FALSE, NEW Q, FatInv(Q), NEW p \in Procs, FreeChain(p)
    PROVE  ChainParts(Q)'
<1>p. OpenStep(p) \/ InodeStep(p) \/ UnlinkStep(p)
  BY DEF UnlinkStep
<1>t. TypeOK /\ HeadsApart /\ fat \in FatType
  BY DEF FatInv, TypeOK, FatType
<1>0. /\ pc[p] = "unchain" /\ UNCHANGED <<dir, cached, sector, inode>> /\ pc'[p] = "idle"
  BY <1>t DEF FreeChain, Return, Goto, TypeOK
<1> PICK H : H = Heads
  OBVIOUS
<1> PICK c : c = clus[p]
  OBVIOUS
<1>h. H \in SUBSET Clusters /\ FatChains(fat, H, Q)
  BY Facts DEF FatFacts, FatInv
<1>1. p \in Holders /\ c \in H
  BY <1>0, Facts DEF Holders, FatFacts
<1>2. Chain(c) = {Q[c][i] : i \in 1 .. Len(Q[c])}
  BY <1>1, Facts DEF FatFacts, GoodChain
<1>3. Freed(fat, {Q[c][i] : i \in 1 .. Len(Q[c])}, fat')
  <2>1. Freed(fat, Chain(c), fat')
    BY DEF FreeChain, FreeClusterChain, Freed
  <2> QED BY <1>2, <2>1
<1>f. FewerChains(fat', H, c, Q)
  BY <1>h, <1>1, <1>3, <1>t, ChainsFree
<1>4. /\ FatChains(fat', H \ {c}, Q)
      /\ \A h \in H : h # c => \A i \in 1 .. Len(Q[h]) : fat'[Q[h][i]] # 0
  BY <1>f DEF FewerChains
<1>5. UsedStays /\ HoldersStay(p) /\ p \notin Holders'
  <2>1. KeepsDir
    BY <1>0 DEF KeepsDir
  <2> QED BY <2>1, <1>0, <1>p, <1>t, UsedBy, HoldersBy, LocalStep DEF Holders
<1>6. Heads' = H \ {c} /\ HeadsApart'
  BY <1>1, <1>5, <1>t, HeadsDrop
<1>7. FatChains(fat, Heads, Q)'
  BY <1>4, <1>6
<1>8. InodePlace(Q)'
  BY <1>0, FitsBefore, FitsAll
<1>9. ASSUME NEW s \in Used' PROVE SizesAt(Q[dir[s].start], s)'
  <2>1. s \in Used /\ dir'[s].start = dir[s].start /\ dir[s].start \in H /\ dir[s].start # c
    BY <1>1, <1>5, <1>9, <1>t, Facts DEF UsedStays, FatFacts, HeadsApart
  <2>2. \A z : SizeOf(s, z)' => SizeOf(s, z)
    BY <1>0 DEF SizeOf
  <2> PICK q : q = Q[dir[s].start]
    OBVIOUS
  <2>3. Len(q) \in Nat /\ Len(q) <= Len(q) /\ \A i \in 1 .. Len(q) : q[i] \in Clusters
    <3>1. GoodChain(dir[s].start, q)
      BY <2>1, Facts DEF FatFacts
    <3> QED BY <3>1 DEF GoodChain
  <2>4. \A i \in 1 .. Len(q) : data'[q[i]] = data[q[i]]
    <3>1. data' = [x \in Clusters |-> IF fat'[x] = 0 THEN None ELSE data[x]]
      BY DEF FreeChain
    <3> QED BY <3>1, <1>4, <2>1, <2>3
  <2>5. SizesAt(q, s)'
    BY <2>1, <2>2, <2>3, <2>4, SizesKeep
  <2> QED BY <2>1, <2>5
<1>10. SizesFit(Q)' /\ Written(Q)'
  BY <1>9, SizesAfter
<1>11. Growing(Q)'
  <2>1. SameGrowing(Q, Q, p)
    BY DEF SameGrowing
  <2> QED BY <2>1, <1>0, <1>p, GrowingKept
<1> QED BY <1>6, <1>7, <1>8, <1>10, <1>11 DEF ChainParts

\* The entry takes the chain over from the call.
LEMMA CreateStep ==
    ASSUME Races = FALSE, NEW Q, FatInv(Q), NEW p \in Procs, CreateEntry(p)
    PROVE  ChainParts(Q)'
<1>p. OpenStep(p) \/ InodeStep(p) \/ UnlinkStep(p)
  BY DEF OpenStep
<1>c. MaxLen \in Nat \ {0}
  BY Consts
<1>t. TypeOK /\ HeadsApart /\ DirCached
  BY DEF FatInv
<1>0. UNCHANGED <<fat, data, sector, inode>> /\ pc'[p] = "namei"
  BY <1>t DEF CreateEntry, Goto, TypeOK
<1>n. \A q \in Procs, t \in Slots : sector'[q][t] = None
  BY NoSectors
<1> PICK s \in Slots : s = slot[p]
  BY CreateFacts
<1>1. /\ dir[s] = None /\ inode[s] = None /\ p \in Holders
      /\ dir' = cached' /\ dir'[s] # None
      /\ dir'[s].start = clus[p] /\ dir'[s].size = 0
      /\ \A t \in Slots \ {s} : dir'[t] = cached[t]
  BY CreateFacts
<1>2. s \notin Used /\ Used' = Used \cup {s}
  BY <1>1, <1>t DEF Used, DirCached
<1>3. \A t \in Used : dir'[t] = cached[t] /\ dir'[t].start = dir[t].start
  BY <1>1, <1>2, <1>t DEF Used, DirCached
<1>4. HoldersStay(p) /\ p \notin Holders'
  BY <1>0, <1>p, <1>t, HoldersBy, LocalStep DEF Holders
<1>5. Heads' = Heads /\ HeadsApart'
  BY <1>1, <1>2, <1>3, <1>4, <1>t, HeadsCreate
<1>6. FatChains(fat, Heads, Q)'
  BY <1>0, <1>5 DEF FatInv
<1>7. InodePlace(Q)'
  BY <1>0, FitsBefore, FitsAll
<1>8. ASSUME NEW t \in Used' PROVE SizesAt(Q[dir[t].start], t)'
  <2>1. CASE t = s
    <3> PICK q : q = Q[clus[p]]
      OBVIOUS
    <3>1. Len(q) \in 1 .. MaxLen
      BY <1>1, Facts DEF FatFacts, GoodChain
    <3>2. \A z : SizeOf(s, z)' => z = 0
      BY <1>0, <1>1, <1>n DEF SizeOf
    <3>3. dir'[s].size <= Len(q) /\ cached'[s].size <= Len(q)
          /\ \A u \in Procs : sector'[u][s] # None => sector'[u][s].size <= Len(q)
      BY <3>1, <1>1, <1>c, <1>n
    <3>4. ASSUME NEW i \in 1 .. Len(q), NEW z, SizeOf(s, z)', i <= z PROVE FALSE
      BY <3>1, <3>2, <3>4, <1>c
    <3>5. SizesAt(q, s)'
      BY <3>3, <3>4 DEF SizesAt
    <3> QED BY <2>1, <3>5, <1>1
  <2>2. CASE t # s
    <3>1. t \in Used /\ dir'[t].start = dir[t].start
      BY <2>2, <1>2, <1>3, <1>8
    <3>2. \A z : SizeOf(t, z)' => SizeOf(t, z)
      BY <3>1, <1>0, <1>1, <1>3 DEF SizeOf
    <3> PICK q : q = Q[dir[t].start]
      OBVIOUS
    <3>3. Len(q) \in Nat
      BY <3>1, SizesBefore
    <3>4. Len(q) <= Len(q)
      BY <3>3
    <3>5. SizesAt(q, t)'
      BY <3>1, <3>2, <3>3, <3>4, <1>0, SizesKeep
    <3> QED BY <3>1, <3>5
  <2> QED BY <2>1, <2>2
<1>9. SizesFit(Q)' /\ Written(Q)'
  BY <1>8, SizesAfter
<1>10. Growing(Q)'
  <2>1. SameGrowing(Q, Q, p)
    BY DEF SameGrowing
  <2> QED BY <2>1, <1>0, <1>p, GrowingKept
<1> QED BY <1>5, <1>6, <1>7, <1>9, <1>10 DEF ChainParts

\* Unlink takes the chain over from the entry.
LEMMA MarkStep ==
    ASSUME Races = FALSE, NEW Q, FatInv(Q), NEW p \in Procs, MarkEntryDeleted(p)
    PROVE  ChainParts(Q)'
<1>p. OpenStep(p) \/ InodeStep(p) \/ UnlinkStep(p)
  BY DEF UnlinkStep
<1>t. TypeOK /\ HeadsApart /\ DirCached
  BY DEF FatInv
<1>0. UNCHANGED <<fat, data, sector, inode, clus>> /\ pc'[p] = "unchain" /\ pc[p] = "mark"
  BY <1>t DEF MarkEntryDeleted, Goto, TypeOK
<1> PICK s \in Slots : s = slot[p]
  BY MarkFacts
<1>1. /\ dir[s] # None /\ dir[s].start = clus[p] /\ inode[s] = None
      /\ dir' = cached' /\ dir'[s] = None
      /\ \A t \in Slots \ {s} : dir'[t] = cached[t]
  BY MarkFacts
<1>2. s \in Used /\ Used' = Used \ {s}
  BY <1>1, <1>t DEF Used, DirCached
<1>3. \A t \in Used \ {s} : dir'[t] = cached[t] /\ dir'[t].start = dir[t].start
  BY <1>1, <1>2, <1>t DEF Used, DirCached
<1>4. HoldersStay(p) /\ p \in Holders' /\ p \notin Holders
  BY <1>0, <1>p, <1>t, HoldersBy, LocalStep DEF Holders
<1>5. Heads' = Heads /\ HeadsApart'
  BY <1>0, <1>1, <1>2, <1>3, <1>4, <1>t, HeadsMark
<1>6. FatChains(fat, Heads, Q)'
  BY <1>0, <1>5 DEF FatInv
<1>7. InodePlace(Q)'
  BY <1>0, FitsBefore, FitsAll
<1>8. ASSUME NEW t \in Used' PROVE SizesAt(Q[dir[t].start], t)'
  <2>1. t \in Used /\ dir'[t].start = dir[t].start
    BY <1>2, <1>3, <1>8
  <2>2. \A z : SizeOf(t, z)' => SizeOf(t, z)
    BY <2>1, <1>0, <1>1, <1>2, <1>3, <1>8 DEF SizeOf
  <2> PICK q : q = Q[dir[t].start]
    OBVIOUS
  <2>3. Len(q) \in Nat
    BY <2>1, SizesBefore
  <2>4. Len(q) <= Len(q)
    BY <2>3
  <2>5. SizesAt(q, t)'
    BY <2>1, <2>2, <2>3, <2>4, <1>0, SizesKeep
  <2> QED BY <2>1, <2>5
<1>9. SizesFit(Q)' /\ Written(Q)'
  BY <1>8, SizesAfter
<1>10. Growing(Q)'
  <2>1. SameGrowing(Q, Q, p)
    BY DEF SameGrowing
  <2> QED BY <2>1, <1>0, <1>p, GrowingKept
<1> QED BY <1>5, <1>6, <1>7, <1>9, <1>10 DEF ChainParts

\* A cluster of the file is written, and the size covers it.
LEMMA BlockStep ==
    ASSUME Races = FALSE, NEW Q, FatInv(Q), NEW p \in Procs, NEW v \in Values, WriteBlock(p, v)
    PROVE  ChainParts(Q)'
<1>p. OpenStep(p) \/ InodeStep(p) \/ UnlinkStep(p)
  BY DEF InodeStep
<1>c. MaxLen \in Nat \ {0} /\ None \notin Values
  BY Consts
<1>t. TypeOK /\ HeadsApart /\ inode \in [Slots -> Inodes \cup {None}]
      /\ data \in [Clusters -> Values \cup {None}]
  BY DEF FatInv, TypeOK
<1>0. UNCHANGED <<fat, dir, cached, sector>> /\ pc'[p] = "entry" /\ pc[p] = "write"
  BY <1>t DEF WriteBlock, Goto, TypeOK
<1>1. PICK x : Uses(p, x) /\ Sized(p, x)
  BY SizedBy
<1> PICK s \in Slots : s = file[p]
  BY <1>1 DEF Uses
<1> PICK ip \in Inodes : ip = inode[s]
  BY <1>1 DEF Uses
<1>2. inode[s] # None
  BY <1>1 DEF Uses
<1> PICK q : q = Q[ip.start]
  OBVIOUS
<1>3. s \in Used /\ ip.start = dir[s].start /\ GoodChain(ip.start, q)
  BY <1>2, Facts DEF FatFacts
<1>4. Fits(ip, q) /\ ip.size \in 0 .. MaxLen /\ Len(q) \in 1 .. MaxLen
  BY <1>2, FitsBefore, SizeFits
<1> PICK k : k = at[p]
  OBVIOUS
<1>5. k = ip.logi /\ k \in 0 .. MaxLen
  BY <1>0, <1>t DEF FatInv, Busy, BusyPcs, TypeOK
<1>6. k < Len(q) /\ q[k + 1] = ip.clus
  BY <1>4, <1>5 DEF Fits
<1> PICK z : z = SizeAfter(ip.size, k)
  OBVIOUS
<1>7. z \in Nat /\ z <= Len(q) /\ (z = ip.size \/ z = k + 1) /\ ip.size <= z
  <2> PICK y \in 0 .. MaxLen : y = ip.size
    BY <1>4
  <2>1. y <= Len(q)
    BY <1>4 DEF Fits
  <2>2. z = IF k + 1 > y THEN k + 1 ELSE y
    BY DEF SizeAfter
  <2> QED BY <2>1, <2>2, <1>4, <1>5, <1>6, <1>c
<1>8. /\ inode'[s] = x /\ x.start = ip.start /\ x.size = z /\ x.logi = k /\ x.clus = ip.clus
      /\ x # None /\ \A u \in Slots \ {s} : inode'[u] = inode[u]
  BY <1>1, <1>5, <1>t DEF Uses, Sized
<1>9. data' = [data EXCEPT ![ip.clus] = v] /\ ip.clus \in Clusters
  BY DEF WriteBlock, Inodes
<1>10. data'[ip.clus] # None /\ \A c \in Clusters : data[c] # None => data'[c] # None
  BY <1>9, <1>t, <1>c
<1>11. UsedStays /\ HoldersStay(p) /\ p \notin Holders' /\ p \notin Holders
  <2>1. KeepsDir
    BY <1>0 DEF KeepsDir
  <2> QED BY <2>1, <1>0, <1>p, <1>t, UsedBy, HoldersBy, LocalStep DEF Holders
<1>12. Heads' = Heads /\ HeadsApart'
  BY <1>11, <1>t, HeadsSame
<1>13. FatChains(fat, Heads, Q)'
  BY <1>0, <1>12 DEF FatInv
<1>14. InodePlace(Q)'
  <2>1. ASSUME NEW u \in Slots, inode'[u] # None PROVE Fits(inode'[u], Q[inode'[u].start])
    <3>1. CASE u = s
      BY <3>1, <1>6, <1>7, <1>8 DEF Fits
    <3>2. CASE u # s
      BY <2>1, <3>2, <1>8, FitsBefore
    <3> QED BY <3>1, <3>2
  <2> QED BY <2>1, FitsAll
<1>15. ASSUME NEW u \in Used' PROVE SizesAt(Q[dir[u].start], u)'
  <2>1. u \in Used /\ u \in Slots /\ dir'[u].start = dir[u].start
    BY <1>11, <1>15 DEF UsedStays, Used
  <2>2. CASE u = s
    <3>1. /\ SizesAt(q, s) /\ \A y : SizeOf(s, y) => y \in Nat /\ y <= Len(q)
          /\ Len(q) \in Nat
      BY <1>3, SizesBefore
    <3>2. \A y : SizeOf(s, y)' => SizeOf(s, y) \/ y = z
      BY <1>0, <1>8 DEF SizeOf
    <3>3. SizeOf(s, ip.size)
      BY <1>2 DEF SizeOf
    <3>4. ASSUME NEW i \in 1 .. Len(q), NEW y, SizeOf(s, y)', i <= y PROVE data'[q[i]] # None
      <4>1. q[i] \in Clusters
        BY <1>3 DEF GoodChain
      <4>2. CASE SizeOf(s, y)
        BY <4>1, <4>2, <3>1, <3>4, <1>10 DEF SizesAt
      <4>3. CASE y = z
        <5>1. i <= ip.size \/ i = k + 1 \/ i <= k
          BY <4>3, <3>4, <1>7, <1>5, <1>c, <3>1
        <5>2. k <= ip.size
          BY <1>0 DEF FatInv, Busy, BusyPcs, WritePcs
        <5>3. CASE i <= ip.size
          BY <5>3, <4>1, <3>1, <3>3, <1>10 DEF SizesAt
        <5>4. CASE i = k + 1
          BY <5>4, <1>6, <1>10
        <5>5. CASE i <= k
          <6>1. i <= ip.size
            <7> PICK y2 \in 0 .. MaxLen : y2 = ip.size
              BY <1>4
            <7> QED BY <5>2, <5>5, <1>5, <1>c, <3>1
          <6> QED BY <6>1, <5>3
        <5> QED BY <5>1, <5>3, <5>4, <5>5
      <4> QED BY <3>2, <3>4, <4>2, <4>3
    <3>5. dir'[s].size <= Len(q) /\ cached'[s].size <= Len(q)
          /\ \A t \in Procs : sector'[t][s] # None => sector'[t][s].size <= Len(q)
      BY <3>1, <1>0 DEF SizesAt
    <3>6. SizesAt(q, s)'
      BY <3>4, <3>5 DEF SizesAt
    <3> QED BY <2>1, <2>2, <3>6, <1>3
  <2>3. CASE u # s
    <3>2. \A y : SizeOf(u, y)' => SizeOf(u, y)
      BY <2>1, <2>3, <1>0, <1>8 DEF SizeOf
    <3> PICK r : r = Q[dir[u].start]
      OBVIOUS
    <3>3. Len(r) \in Nat /\ \A i \in 1 .. Len(r) : r[i] \in Clusters
      <4>1. GoodChain(dir[u].start, r)
        BY <2>1, Facts DEF FatFacts
      <4> QED BY <4>1 DEF GoodChain
    <3>4. Len(r) <= Len(r) /\ \A i \in 1 .. Len(r) : data[r[i]] # None => data'[r[i]] # None
      BY <3>3, <1>10
    <3>5. SizesAt(r, u)'
      BY <2>1, <3>2, <3>3, <3>4, SizesKeep
    <3> QED BY <2>1, <3>5
  <2> QED BY <2>2, <2>3
<1>16. SizesFit(Q)' /\ Written(Q)'
  BY <1>15, SizesAfter
<1>17. Growing(Q)'
  <2>1. SameGrowing(Q, Q, p)
    BY DEF SameGrowing
  <2> QED BY <2>1, <1>0, <1>p, GrowingKept
<1> QED BY <1>12, <1>13, <1>14, <1>16, <1>17 DEF ChainParts

\* UpdateInode writes sizes that are known, and keeps those it reads.
LEMMA UpdateQuiet ==
    ASSUME NEW Q, FatInv(Q), NEW p \in Procs, UpdateWrite(p)
    PROVE  QuietDir
<1>t. /\ sector \in [Procs -> [Slots -> Entries \cup {None}]] /\ pc[p] = "update"
      /\ sector' = [sector EXCEPT ![p] = NoDir]
  BY DEF FatInv, TypeOK, UpdateWrite
<1> SUFFICES ASSUME NEW s \in Used
             PROVE  /\ SizeOf(s, dir'[s].size)
                    /\ \A q \in Procs : sector'[q][s] # None => SizeOf(s, sector'[q][s].size)
  BY DEF QuietDir
<1>1. s \in Slots /\ sector[p][s] # None
  BY <1>t DEF FatInv, SectorCopies, Used
<1>2. SizeOf(s, dir'[s].size)
  <2>1. CASE s = file[p]
    BY <2>1, UpdateFacts DEF SizeOf
  <2>2. CASE s # file[p]
    BY <2>2, <1>1, UpdateFacts DEF SizeOf
  <2> QED BY <2>1, <2>2
<1>3. ASSUME NEW q \in Procs, sector'[q][s] # None PROVE SizeOf(s, sector'[q][s].size)
  <2>1. q # p
    BY <1>1, <1>3, <1>t DEF NoDir
  <2>2. sector'[q] = sector[q]
    BY <2>1, <1>t
  <2> QED BY <2>2, <1>3 DEF SizeOf
<1> QED BY <1>2, <1>3

LEMMA ReadQuiet ==
    ASSUME NEW Q, FatInv(Q), NEW p \in Procs, UpdateRead(p)
    PROVE  QuietDir
<1>t. /\ sector \in [Procs -> [Slots -> Entries \cup {None}]]
      /\ sector' = [sector EXCEPT ![p] = dir] /\ dir' = dir
  BY DEF FatInv, TypeOK, UpdateRead, diskVars
<1>1. ASSUME NEW s \in Used, NEW q \in Procs, sector'[q][s] # None
      PROVE  SizeOf(s, sector'[q][s].size)
  <2>1. CASE q = p
    BY <2>1, <1>t DEF SizeOf
  <2>2. CASE q # p
    <3>1. sector'[q] = sector[q]
      BY <2>2, <1>t
    <3> QED BY <3>1, <1>1 DEF SizeOf
  <2> QED BY <2>1, <2>2
<1>2. \A s \in Used : SizeOf(s, dir'[s].size)
  BY <1>t DEF SizeOf
<1> QED BY <1>1, <1>2 DEF QuietDir

\* Every step, with the chains it leaves.
LEMMA ChainStep ==
    ASSUME Races = FALSE, NEW Q, FatInv(Q), NEW p \in Procs,
           OpenStep(p) \/ InodeStep(p) \/ UnlinkStep(p)
    PROVE  \E R : ChainParts(R)'
<1>t. TypeOK /\ Busy /\ Waiting /\ Referenced
  BY DEF FatInv
<1>p. pc \in [Procs -> Pcs] /\ at \in [Procs -> 0 .. MaxLen]
  BY <1>t DEF TypeOK
<1>l. ASSUME NEW l, Goto(p, l) PROVE pc'[p] = l
  BY <1>l, <1>p DEF Goto
<1>r. Return(p) => pc'[p] = "idle"
  BY <1>l DEF Return
<1> DEFINE Out == {"idle", "search", "namei", "dup", "read", "write", "entry", "update", "hang", "mark"}
<1>o. /\ pc[p] \in Out => p \notin Holders
      /\ pc'[p] \in Out => p \notin Holders'
  BY DEF Holders
\* Nothing on the disk changes but perhaps a size in an entry.
<1>q. ASSUME pc[p] \in Out, pc'[p] \in Out, QuietInode(Q),
             UNCHANGED <<fat, data, dir, cached, sector>>
      PROVE  \E R : ChainParts(R)'
  <2>1. KeepsDir
    BY <1>q DEF KeepsDir
  <2>2. QuietDir
    BY <1>q, QuietDirBy
  <2> QED BY <2>1, <2>2, <1>q, <1>o, QuietStep
<1>s. ASSUME inode' = inode PROVE QuietInode(Q)
  BY <1>s, QuietBy
<1>1. ASSUME NEW n \in Names, OpenCreate(p, n) PROVE \E R : ChainParts(R)'
  <2>1. pc[p] = "idle" /\ UNCHANGED <<dir, cached, sector, inode>>
    BY <1>1 DEF OpenCreate
  <2>2. CASE FreeClusters # {} /\ AllocCluster(p) /\ Goto(p, "create")
    BY <2>1, <2>2, <1>l, <1>s, AllocStep
  <2>3. CASE Hang(p)
    <3>1. pc'[p] = "hang" /\ UNCHANGED <<fat, data>>
      BY <2>3, <1>l DEF Hang
    <3> QED BY <2>1, <3>1, <1>q, <1>s
  <2> QED BY <1>1, <2>2, <2>3 DEF OpenCreate
<1>2. ASSUME NEW n \in Names, Open(p, n) \/ Unlink(p, n) PROVE \E R : ChainParts(R)'
  <2>1. pc[p] = "idle" /\ pc'[p] \in {"search", "mark"}
        /\ UNCHANGED <<fat, data, dir, cached, sector, inode>>
    BY <1>2, <1>l DEF Open, Unlink, diskVars
  <2> QED BY <2>1, <1>q, <1>s
<1>3. CASE NamexLock(p) \/ LookupFails(p) \/ LookupSleeps(p)
  <2>1. pc[p] \in {"namei", "search"} /\ pc'[p] \in {"search", "idle", "dup"}
        /\ UNCHANGED <<fat, data, dir, cached, sector, inode>>
    BY <1>3, <1>l, <1>r DEF NamexLock, LookupFails, LookupSleeps, diskVars
  <2> QED BY <2>1, <1>q, <1>s
<1>4. CASE LookupBuilds(p) \/ LookupFinds(p) \/ LookupWakes(p)
  <2>1. pc[p] \in {"search", "dup"} /\ pc'[p] = "idle" /\ UNCHANGED <<fat, data, dir, cached, sector>>
    BY <1>4, <1>r DEF LookupBuilds, LookupFinds, LookupWakes, Opened, diskVars
  <2>2. \E s, x : Builds(p, s, x) \/ Dups(p, s, x)
    BY <1>4, <1>t, BuildsBy, DupsBy
  <2>3. QuietInode(Q)
    BY <2>2, QuietBy
  <2> QED BY <2>1, <2>3, <1>q
<1>5. CASE Close(p)
  <2>1. pc[p] = "idle" /\ pc'[p] = "idle" /\ UNCHANGED <<fat, data, dir, cached, sector>>
    BY <1>5 DEF Close, Ready, diskVars, procVars
  <2>2. \E x : Closes(p, x)
    BY <1>5, <1>t, ClosesBy
  <2>3. QuietInode(Q)
    BY <2>2, QuietBy
  <2> QED BY <2>1, <2>3, <1>q
<1>6. CASE Exit(p)
  <2>1. pc[p] = "idle" /\ pc'[p] = "idle" /\ UNCHANGED <<fat, data, dir, cached, sector, inode>>
    BY <1>6 DEF Exit, diskVars, procVars
  <2> QED BY <2>1, <1>q, <1>s
<1>7. ASSUME NEW k \in 0 .. MaxLen - 1, Read(p, k) \/ Write(p, k) PROVE \E R : ChainParts(R)'
  <2>1. pc[p] = "idle" /\ pc'[p] \in {"read", "write"} /\ UNCHANGED <<fat, data, dir, cached, sector>>
    BY <1>7, <1>l DEF Read, Write, Ready, diskVars
  <2>2. \E x : Uses(p, x) /\ Placed(Q, p, k, x)
    BY <1>7, PlacedBy
  <2>3. QuietInode(Q)
    BY <2>2, QuietBy
  <2> QED BY <2>1, <2>3, <1>q
<1>8. ASSUME NEW k \in 0 .. MaxLen - 1, WriteGrow(p, k) PROVE \E R : ChainParts(R)'
  <2>1. pc[p] = "idle" /\ UNCHANGED <<dir, cached, sector>>
    BY <1>8 DEF WriteGrow, Ready
  <2>2. PICK x : Uses(p, x) /\ AtEnd(Q, p, k, x)
    BY <1>8, AtEndBy
  <2>3. QuietInode(Q)
    BY <2>2, QuietBy DEF AtEnd
  <2>4. CASE FreeClusters # {} /\ AllocCluster(p) /\ Goto(p, "grow")
    <3>1. /\ file[p] \in Slots /\ inode[file[p]] # None /\ inode'[file'[p]] = x
          /\ x.start = inode[file[p]].start
      BY <2>2, <1>t DEF Uses, TypeOK
    <3>2. at'[p] = k /\ k = Len(Q[inode[file[p]].start])
      BY <1>8, <1>p, <2>2 DEF WriteGrow, AtEnd, ChainOfFile
    <3>3. inode[file[p]].start \in Heads
      BY <3>1, Facts DEF FatFacts
    <3>4. pc'[p] = "grow"
      BY <2>4, <1>l
    <3>5. inode'[file'[p]].start \in Heads /\ at'[p] = Len(Q[inode'[file'[p]].start])
      BY <3>1, <3>2, <3>3
    <3> QED BY <2>1, <2>3, <2>4, <3>4, <3>5, AllocStep
  <2>5. CASE Hang(p)
    <3>1. pc'[p] = "hang" /\ UNCHANGED <<fat, data>>
      BY <2>5, <1>l DEF Hang
    <3> QED BY <2>1, <2>3, <3>1, <1>q
  <2> QED BY <1>8, <2>4, <2>5 DEF WriteGrow
<1>9. CASE ReadDone(p)
  <2>1. pc[p] = "read" /\ pc'[p] = "idle" /\ UNCHANGED <<fat, data, dir, cached, sector>>
    BY <1>9, <1>r DEF ReadDone, diskVars
  <2>2. \E x : Uses(p, x) /\ Unlocks(p, x)
    BY <1>9, <1>t, UnlocksBy
  <2>3. QuietInode(Q)
    BY <2>2, QuietBy DEF Unlocks
  <2> QED BY <2>1, <2>3, <1>q
<1>10. CASE UpdateWrite(p)
  <2>1. pc[p] = "update" /\ pc'[p] = "idle" /\ UNCHANGED <<fat, data, cached>>
    BY <1>10, <1>r DEF UpdateWrite
  <2>2. \E x : Uses(p, x) /\ Unlocks(p, x)
    BY <1>10, <1>t, UnlocksBy
  <2>3. QuietInode(Q)
    BY <2>2, QuietBy DEF Unlocks
  <2>4. KeepsDir /\ QuietDir
    BY <1>10, UpdateFacts, UpdateQuiet
  <2> QED BY <2>1, <2>3, <2>4, <1>o, QuietStep
<1>14. CASE UpdateRead(p)
  <2>1. /\ pc[p] = "entry" /\ pc'[p] = "update"
        /\ UNCHANGED <<fat, data, dir, cached, inode>>
    BY <1>14, <1>l DEF UpdateRead, diskVars
  <2>2. KeepsDir /\ QuietDir
    BY <1>14, <2>1, ReadQuiet DEF KeepsDir
  <2> QED BY <2>1, <2>2, <1>s, <1>o, QuietStep
<1>11. ASSUME NEW v \in Values, WriteBlock(p, v) PROVE \E R : ChainParts(R)'
  BY <1>11, BlockStep
<1>12. CASE CreateEntry(p) \/ MarkEntryDeleted(p) \/ FreeChain(p)
  BY <1>12, CreateStep, MarkStep, FreeStep
<1>13. CASE Grow(p)
  BY <1>13, GrowStep
<1> HIDE DEF Out
<1> QED
  BY <1>1, <1>2, <1>3, <1>4, <1>5, <1>6, <1>7, <1>8, <1>9, <1>10, <1>11, <1>12, <1>13,
     <1>14
     DEF OpenStep, InodeStep, UnlinkStep

LEMMA ProcStep ==
    ASSUME Races = FALSE, NEW Q, FatInv(Q), NEW p \in Procs,
           OpenStep(p) \/ InodeStep(p) \/ UnlinkStep(p)
    PROVE  \E R : FatInv(R)'
<1>1. PICK R : ChainParts(R)'
  BY ChainStep
<1>2. TypeOK' /\ DirCached' /\ InodeEntry'
  BY TypeStep, DirCachedStep, InodeEntryStep
<1>5. SectorCopies'
  BY SectorCopiesStep
<1>3. Changing' /\ Waiting' /\ Busy' /\ Referenced'
  BY ChangingStep, WaitingStep, BusyStep, ReferencedStep
<1>4. ChangesAlone'
  BY ChangesAloneStep DEF FatInv
<1> QED BY <1>1, <1>2, <1>3, <1>4, <1>5 DEF ChainParts, FatInv

\* The old copy of the directory in the cache is replaced by the one on the disk.
LEMMA ReloadStep ==
    ASSUME NEW Q, FatInv(Q), Reload
    PROVE  FatInv(Q)'
<1>0. /\ cached' = dir
      /\ UNCHANGED <<fat, data, dir, sector, dirLock, inode, file, pc, name, slot, clus, at>>
  BY DEF Reload, procVars
<1>1. TypeOK'
  BY <1>0 DEF FatInv, TypeOK
<1>2. Used' = Used /\ Holders' = Holders /\ Heads' = Heads
  BY <1>0 DEF Used, Holders, Heads, EntryHeads, CallHeads
<1>3. FatChains(fat, Heads, Q)' /\ HeadsApart'
  BY <1>0, <1>2 DEF FatInv, HeadsApart
<1>4. DirCached' /\ SectorCopies' /\ SizesFit(Q)'
  BY <1>0, <1>2 DEF FatInv, DirCached, SectorCopies, SizesFit
<1>5. InodeEntry' /\ InodePlace(Q)'
  BY <1>0 DEF FatInv, InodeEntry, InodePlace
<1>6. Written(Q)'
  BY <1>0, <1>2 DEF FatInv, Written
<1>7. Changing' /\ Waiting'
  BY <1>0 DEF FatInv, Changing, Waiting
<1>8. Busy' /\ Growing(Q)'
  BY <1>0 DEF FatInv, Busy, Growing
<1>9. Referenced' /\ ChangesAlone'
  BY <1>0 DEF FatInv, Referenced, Users, ChangesAlone
<1> QED BY <1>1, <1>3, <1>4, <1>5, <1>6, <1>7, <1>8, <1>9 DEF FatInv

LEMMA IdleStep ==
    ASSUME NEW Q, FatInv(Q), UNCHANGED vars
    PROVE  FatInv(Q)'
<1>0. UNCHANGED <<cached, fat, data, dir, sector, dirLock, inode, file, pc, name, slot, clus, at>>
  BY DEF vars, diskVars, procVars
<1>1. TypeOK'
  BY <1>0 DEF FatInv, TypeOK
<1>2. Used' = Used /\ Holders' = Holders /\ Heads' = Heads
  BY <1>0 DEF Used, Holders, Heads, EntryHeads, CallHeads
<1>3. FatChains(fat, Heads, Q)' /\ HeadsApart'
  BY <1>0, <1>2 DEF FatInv, HeadsApart
<1>4. DirCached' /\ SectorCopies' /\ SizesFit(Q)'
  BY <1>0, <1>2 DEF FatInv, DirCached, SectorCopies, SizesFit
<1>5. InodeEntry' /\ InodePlace(Q)'
  BY <1>0 DEF FatInv, InodeEntry, InodePlace
<1>6. Written(Q)'
  BY <1>0, <1>2 DEF FatInv, Written
<1>7. Changing' /\ Waiting'
  BY <1>0 DEF FatInv, Changing, Waiting
<1>8. Busy' /\ Growing(Q)'
  BY <1>0 DEF FatInv, Busy, Growing
<1>9. Referenced' /\ ChangesAlone'
  BY <1>0 DEF FatInv, Referenced, Users, ChangesAlone
<1> QED BY <1>1, <1>3, <1>4, <1>5, <1>6, <1>7, <1>8, <1>9 DEF FatInv

-----------------------------------------------------------------------------
(* What a step leaves of a chain.                                          *)

\* A cluster that no file has yet ends its chain and has not been written.
NewClusters ==
    \A p \in Procs : pc[p] \in {"create", "grow"} =>
        fat[clus[p]] = EOC /\ data[clus[p]] = None

\* Neither the links nor the contents of the chain q change.
Kept(h, q) ==
    /\ ChainOf(fat', h, q)
    /\ \A i \in 1 .. Len(q) : data'[q[i]] = data[q[i]]

\* The heads whose chains a step of p changes.
Touched(p) ==
    {h \in Clusters :
        \/ pc[p] = "grow" /\ h \in {clus[p], inode[file[p]].start}
        \/ pc[p] = "unchain" /\ h = clus[p]
        \/ pc[p] = "write" /\ h = inode[file[p]].start}

LEMMA FatSteps ==
    ASSUME NEW p \in Procs, OpenStep(p) \/ InodeStep(p) \/ UnlinkStep(p)
    PROVE  \/ UNCHANGED <<fat, data>>
           \/ FreeClusters # {} /\ AllocCluster(p)
           \/ Grow(p) \/ FreeChain(p)
           \/ \E v \in Values : WriteBlock(p, v)
<1> USE DEF diskVars
<1>1. ASSUME NEW n \in Names, Open(p, n) \/ Unlink(p, n) PROVE UNCHANGED <<fat, data>>
  BY <1>1 DEF Open, Unlink
<1>2. ASSUME NEW n \in Names, OpenCreate(p, n)
      PROVE  UNCHANGED <<fat, data>> \/ (FreeClusters # {} /\ AllocCluster(p))
  <2>1. (FreeClusters # {} /\ AllocCluster(p)) \/ Hang(p)
    BY <1>2 DEF OpenCreate
  <2> QED BY <2>1 DEF Hang
<1>3. ASSUME \/ CreateEntry(p) \/ NamexLock(p) \/ LookupFails(p) \/ LookupBuilds(p)
             \/ LookupFinds(p) \/ LookupSleeps(p) \/ LookupWakes(p)
      PROVE  UNCHANGED <<fat, data>>
  BY <1>3 DEF CreateEntry, NamexLock, LookupFails, LookupBuilds, LookupFinds, LookupSleeps,
              LookupWakes, Opened
<1>4. ASSUME \/ Close(p) \/ Exit(p) \/ ReadDone(p) \/ UpdateRead(p) \/ UpdateWrite(p)
             \/ MarkEntryDeleted(p)
      PROVE  UNCHANGED <<fat, data>>
  BY <1>4 DEF Close, Exit, ReadDone, UpdateRead, UpdateWrite, MarkEntryDeleted
<1>5. ASSUME NEW k \in 0 .. MaxLen - 1, Read(p, k) \/ Write(p, k) PROVE UNCHANGED <<fat, data>>
  BY <1>5 DEF Read, Write
<1>6. ASSUME NEW k \in 0 .. MaxLen - 1, WriteGrow(p, k)
      PROVE  UNCHANGED <<fat, data>> \/ (FreeClusters # {} /\ AllocCluster(p))
  <2>1. (FreeClusters # {} /\ AllocCluster(p)) \/ Hang(p)
    BY <1>6 DEF WriteGrow
  <2> QED BY <2>1 DEF Hang
<1> QED
  BY <1>1, <1>2, <1>3, <1>4, <1>5, <1>6 DEF OpenStep, InodeStep, UnlinkStep

\* The new FAT of each step that changes it.
LEMMA AllocMarks ==
    ASSUME NEW Q, FatInv(Q), NEW p \in Procs, FreeClusters # {}, AllocCluster(p)
    PROVE  \E c \in Clusters :
              /\ fat[c] = 0 /\ Marked(fat, c, fat') /\ clus'[p] = c
              /\ fat'[c] = EOC /\ data'[c] = None
              /\ \A x \in Clusters : x # c => data'[x] = data[x]
              /\ \E R : MoreChains(fat', Heads, c, Q, R)
<1>t. fat \in FatType /\ data \in [Clusters -> Values \cup {None}]
      /\ clus \in [Procs -> Clusters \cup {None}]
  BY DEF FatInv, TypeOK, FatType
<1> PICK c : c = Min(FreeClusters)
  OBVIOUS
<1>1. c \in Clusters /\ fat[c] = 0
  BY AllocFacts
<1>2. /\ clus' = [clus EXCEPT ![p] = c] /\ data' = [data EXCEPT ![c] = None]
      /\ fat' = [fat EXCEPT ![c] = EOC]
  BY DEF AllocCluster
<1>3. /\ clus'[p] = c /\ fat'[c] = EOC /\ data'[c] = None
      /\ \A x \in Clusters : x # c => data'[x] = data[x]
  BY <1>1, <1>2, <1>t DEF FatType
<1>4. Marked(fat, c, fat')
  BY <1>2 DEF Marked
<1>5. Heads \in SUBSET Clusters /\ FatChains(fat, Heads, Q)
  BY Facts DEF FatFacts, FatInv
<1>6. \E R : MoreChains(fat', Heads, c, Q, R)
  BY <1>1, <1>4, <1>5, <1>t, ChainsAlloc
<1> QED BY <1>1, <1>3, <1>4, <1>6

LEMMA GrowLinks ==
    ASSUME NEW Q, FatInv(Q), NEW p \in Procs, Grow(p)
    PROVE  \E b, c :
              /\ b = inode[file[p]].start /\ c = clus[p] /\ b # c
              /\ b \in Heads /\ c \in Heads /\ file[p] \in Used /\ b = dir[file[p]].start
              /\ at[p] = Len(Q[b]) /\ UNCHANGED data
              /\ \E R : LongerChain(fat', Heads, b, c, Q, R)
<1>c. MaxLen \in Nat \ {0}
  BY Consts
<1>t. HeadsApart /\ fat \in FatType
  BY DEF FatInv, TypeOK, FatType
<1>0. pc[p] = "grow" /\ UNCHANGED data
  BY DEF Grow
<1>1. file[p] \in Slots /\ inode[file[p]] # None
  BY <1>0, BusyFacts DEF FatInv, BusyPcs
<1> PICK s \in Slots : s = file[p]
  BY <1>1
<1> PICK ip : ip = inode[s]
  OBVIOUS
<1> PICK b : b = ip.start
  OBVIOUS
<1> PICK c : c = clus[p]
  OBVIOUS
<1>h. Heads \in SUBSET Clusters /\ FatChains(fat, Heads, Q)
  BY Facts DEF FatFacts, FatInv
<1>2. s \in Used /\ b = dir[s].start /\ b \in Heads
  BY <1>1, Facts DEF FatFacts
<1>3. p \in Holders /\ c \in Heads
  BY <1>0, Facts DEF Holders, FatFacts
<1>4. b # c
  BY <1>2, <1>3, <1>t DEF HeadsApart
<1> PICK n : n = Len(Q[b])
  OBVIOUS
<1>5. Len(Q[c]) = 1 /\ at[p] = n /\ n < MaxLen /\ n \in 1 .. MaxLen
  <2>1. Len(Q[c]) = 1 /\ at[p] = n
    BY <1>0 DEF FatInv, Growing
  <2>2. at[p] < MaxLen
    BY <1>0 DEF FatInv, Busy, BusyPcs, WritePcs
  <2>3. n \in 1 .. MaxLen
    BY <1>1, SizeFits
  <2> QED BY <2>1, <2>2, <2>3
<1>6. Bmap(ip, n - 1) = Q[b][n]
  <2>1. n - 1 \in 0 .. MaxLen /\ n - 1 <= n /\ n - 1 < n /\ (n - 1) + 1 = n
    BY <1>5, <1>c
  <2> PICK k \in 0 .. MaxLen : k = n - 1
    BY <2>1
  <2>2. Bmap(ip, k) = IF k < n THEN Q[b][k + 1] ELSE EOC
    BY <1>1, <2>1, BmapFacts
  <2> QED BY <2>1, <2>2
<1>7. Linked(fat, Q[b][Len(Q[b])], c, fat')
  BY <1>5, <1>6 DEF Grow, Linked
<1>8. \E R : LongerChain(fat', Heads, b, c, Q, R)
  BY <1>2, <1>3, <1>4, <1>5, <1>7, <1>h, <1>t, LinkedChains
<1> QED BY <1>0, <1>2, <1>3, <1>4, <1>5, <1>8

LEMMA FreeUnlinks ==
    ASSUME NEW Q, FatInv(Q), NEW p \in Procs, FreeChain(p)
    PROVE  /\ clus[p] \in Heads /\ FewerChains(fat', Heads, clus[p], Q)
           /\ data' = [x \in Clusters |-> IF fat'[x] = 0 THEN None ELSE data[x]]
<1>t. fat \in FatType
  BY DEF FatInv, TypeOK, FatType
<1> PICK c : c = clus[p]
  OBVIOUS
<1>h. Heads \in SUBSET Clusters /\ FatChains(fat, Heads, Q)
  BY Facts DEF FatFacts, FatInv
<1>1. c \in Heads
  BY Facts DEF Holders, FatFacts, FreeChain
<1>2. Chain(c) = {Q[c][i] : i \in 1 .. Len(Q[c])}
  BY <1>1, Facts DEF FatFacts, GoodChain
<1>3. Freed(fat, {Q[c][i] : i \in 1 .. Len(Q[c])}, fat')
  <2>1. Freed(fat, Chain(c), fat')
    BY DEF FreeChain, FreeClusterChain, Freed
  <2> QED BY <1>2, <2>1
<1>4. FewerChains(fat', Heads, c, Q)
  BY <1>h, <1>1, <1>3, <1>t, ChainsFree
<1> QED BY <1>1, <1>4 DEF FreeChain

LEMMA BlockFacts ==
    ASSUME NEW Q, FatInv(Q), NEW p \in Procs, NEW v \in Values, WriteBlock(p, v)
    PROVE  \E b, k :
              /\ b = inode[file[p]].start /\ k = at[p] /\ b \in Heads
              /\ file[p] \in Used /\ b = dir[file[p]].start
              /\ k \in Nat /\ k < Len(Q[b]) /\ k + 1 \in 1 .. Len(Q[b])
              /\ data' = [data EXCEPT ![Q[b][k + 1]] = v] /\ fat' = fat
<1>c. MaxLen \in Nat \ {0}
  BY Consts
<1>0. pc[p] = "write" /\ fat' = fat
  BY DEF WriteBlock
<1>1. file[p] \in Slots /\ inode[file[p]] # None
  BY <1>0, BusyFacts DEF FatInv, BusyPcs
<1> PICK s \in Slots : s = file[p]
  BY <1>1
<1> PICK ip : ip = inode[s]
  OBVIOUS
<1> PICK b : b = ip.start
  OBVIOUS
<1> PICK k : k = at[p]
  OBVIOUS
<1>2. s \in Used /\ b = dir[s].start /\ b \in Heads
  BY <1>1, Facts DEF FatFacts
<1>3. k = ip.logi /\ k \in 0 .. MaxLen
  BY <1>0 DEF FatInv, Busy, BusyPcs, TypeOK
<1>4. k < Len(Q[b]) /\ Q[b][k + 1] = ip.clus /\ Len(Q[b]) \in 1 .. MaxLen
  BY <1>1, <1>3, FitsBefore, SizeFits DEF Fits
<1>5. k + 1 \in 1 .. Len(Q[b])
  BY <1>3, <1>4, <1>c
<1>6. data' = [data EXCEPT ![Q[b][k + 1]] = v]
  BY <1>4 DEF WriteBlock
<1>7. /\ b = inode[file[p]].start /\ k = at[p] /\ b \in Heads
      /\ file[p] \in Used /\ b = dir[file[p]].start
      /\ k \in Nat /\ k < Len(Q[b]) /\ k + 1 \in 1 .. Len(Q[b])
  BY <1>2, <1>3, <1>4, <1>5, <1>c
<1> QED BY <1>0, <1>6, <1>7

\* The chains of the others.
LEMMA ChainKeeps ==
    ASSUME NEW Q, FatInv(Q), NEW p \in Procs, OpenStep(p) \/ InodeStep(p) \/ UnlinkStep(p),
           NEW h \in Heads, h \notin Touched(p)
    PROVE  Kept(h, Q[h])
<1> PICK q : q = Q[h]
  OBVIOUS
<1>1. h \in Clusters /\ GoodChain(h, q)
  BY Facts DEF FatFacts
<1>2. ChainOf(fat, h, q) /\ \A i \in 1 .. Len(q) : q[i] \in Clusters
  BY <1>1 DEF GoodChain
<1>3. CASE UNCHANGED <<fat, data>>
  BY <1>2, <1>3 DEF Kept
<1>4. CASE FreeClusters # {} /\ AllocCluster(p)
  <2>1. PICK c \in Clusters : /\ \A x \in Clusters : x # c => data'[x] = data[x]
                              /\ \E R : MoreChains(fat', Heads, c, Q, R)
    BY <1>4, AllocMarks
  <2>2. PICK R : MoreChains(fat', Heads, c, Q, R)
    BY <2>1
  <2>3. R[h] = q /\ (\A i \in 1 .. Len(q) : q[i] # c) /\ ChainOf(fat', h, R[h])
    BY <2>2 DEF MoreChains, FatChains
  <2> QED BY <2>1, <2>3, <1>2 DEF Kept
<1>5. CASE Grow(p)
  <2>1. PICK b, c : /\ b = inode[file[p]].start /\ c = clus[p] /\ UNCHANGED data
                    /\ \E R : LongerChain(fat', Heads, b, c, Q, R)
    BY <1>5, GrowLinks
  <2>2. PICK R : LongerChain(fat', Heads, b, c, Q, R)
    BY <2>1
  <2>3. h # b /\ h # c
    BY <2>1, <1>1, <1>5 DEF Touched, Grow
  <2>4. R[h] = q /\ ChainOf(fat', h, R[h])
    BY <2>2, <2>3 DEF LongerChain, FatChains
  <2> QED BY <2>1, <2>4 DEF Kept
<1>6. CASE FreeChain(p)
  <2>1. /\ FewerChains(fat', Heads, clus[p], Q)
        /\ data' = [x \in Clusters |-> IF fat'[x] = 0 THEN None ELSE data[x]]
    BY <1>6, FreeUnlinks
  <2>2. h # clus[p]
    BY <1>1, <1>6 DEF Touched, FreeChain
  <2>3. ChainOf(fat', h, q) /\ \A i \in 1 .. Len(q) : fat'[q[i]] # 0
    BY <2>1, <2>2 DEF FewerChains, FatChains
  <2> QED BY <2>1, <2>3, <1>2 DEF Kept
<1>7. ASSUME NEW v \in Values, WriteBlock(p, v) PROVE Kept(h, q)
  <2>1. PICK b, k : /\ b = inode[file[p]].start /\ b \in Heads /\ k + 1 \in 1 .. Len(Q[b])
                    /\ data' = [data EXCEPT ![Q[b][k + 1]] = v] /\ fat' = fat
    BY <1>7, BlockFacts
  <2>2. h # b
    BY <2>1, <1>1, <1>7 DEF Touched, WriteBlock
  <2>3. \A i \in 1 .. Len(q) : q[i] # Q[b][k + 1]
    BY <2>1, <2>2 DEF FatInv, FatChains, Disjoint
  <2>4. \A i \in 1 .. Len(q) : data'[q[i]] = data[q[i]]
    BY <2>1, <2>3, <1>2 DEF FatInv, TypeOK
  <2> QED BY <2>1, <2>4, <1>2 DEF Kept
<1> QED BY <1>3, <1>4, <1>5, <1>6, <1>7, FatSteps

\* A process that has a new cluster, and what it knows of the chain.
LEMMA NewFacts ==
    ASSUME NEW Q, FatInv(Q), NewClusters, NEW p \in Procs, pc[p] \in {"create", "grow"}
    PROVE  /\ p \in Holders /\ clus[p] \in Heads /\ clus[p] \in Clusters
           /\ Len(Q[clus[p]]) = 1 /\ Q[clus[p]][1] = clus[p] /\ data[clus[p]] = None
<1>c. EOC \notin Clusters /\ MaxLen \in Nat \ {0}
  BY Consts
<1> PICK h : h = clus[p]
  OBVIOUS
<1>1. p \in Holders /\ h \in Heads /\ h \in Clusters
  BY Facts DEF Holders, FatFacts
<1> PICK q : q = Q[h]
  OBVIOUS
<1>2. GoodChain(h, q)
  BY <1>1, Facts DEF FatFacts
<1>3. ChainOf(fat, h, q) /\ Len(q) \in 1 .. MaxLen /\ q[1] = h
      /\ \A i \in 1 .. Len(q) : q[i] \in Clusters
  BY <1>2 DEF GoodChain
<1>4. fat[q[1]] = IF 1 < Len(q) THEN q[1 + 1] ELSE EOC
  BY <1>3, <1>c DEF ChainOf
<1>5. ASSUME 1 < Len(q) PROVE FALSE
  <2>1. 2 \in 1 .. Len(q)
    BY <1>3, <1>5, <1>c
  <2> QED BY <2>1, <1>3, <1>4, <1>5, <1>c DEF NewClusters
<1>6. Len(q) = 1
  <2> PICK n \in 1 .. MaxLen : n = Len(q)
    BY <1>3
  <2>1. ~(1 < n)
    BY <1>5
  <2>2. n \in Nat /\ n >= 1
    BY <1>c
  <2>3. \A i \in Nat : i >= 1 /\ ~(1 < i) => i = 1
    OBVIOUS
  <2>4. n = 1
    BY <2>1, <2>2, <2>3, Zenon
  <2> QED BY <2>4
<1> QED BY <1>1, <1>3, <1>6 DEF NewClusters

\* A chain of one cluster is kept when the head is.
LEMMA KeptNew ==
    ASSUME NEW h, NEW q, Kept(h, q), Len(q) = 1
    PROVE  q[1] = h /\ fat'[h] = EOC /\ data'[h] = data[h]
<1>1. ChainOf(fat', h, q) /\ 1 \in 1 .. Len(q)
  BY DEF Kept
<1>2. q[1] = h /\ fat'[q[1]] = IF 1 < Len(q) THEN q[1 + 1] ELSE EOC
  BY <1>1 DEF ChainOf
<1> QED BY <1>1, <1>2 DEF Kept

\* The head of another call and the heads of files that p has not locked are not touched.
LEMMA NotTouched ==
    ASSUME NEW Q, FatInv(Q), NEW p \in Procs
    PROVE  /\ \A q \in Holders : q # p => clus[q] \notin Touched(p)
           /\ \A s \in Used : dir[s].start \in Touched(p) =>
                  s = file[p] /\ pc[p] \in {"grow", "write"}
<1>t. HeadsApart
  BY DEF FatInv
<1>1. pc[p] \in {"grow", "unchain"} => p \in Holders
  BY DEF Holders
<1>2. pc[p] \in {"grow", "write"} =>
          file[p] \in Used /\ inode[file[p]].start = dir[file[p]].start
  <2>1. pc[p] \in {"grow", "write"} => file[p] \in Slots /\ inode[file[p]] # None
    BY BusyFacts DEF FatInv, BusyPcs
  <2> QED BY <2>1, Facts DEF FatFacts
<1>3. ASSUME NEW q \in Holders, q # p PROVE clus[q] \notin Touched(p)
  BY <1>1, <1>2, <1>3, <1>t DEF HeadsApart, Touched
<1>4. ASSUME NEW s \in Used, dir[s].start \in Touched(p)
      PROVE  s = file[p] /\ pc[p] \in {"grow", "write"}
  BY <1>1, <1>2, <1>4, <1>t DEF HeadsApart, Touched
<1> QED BY <1>3, <1>4

LEMMA NewClustersStep ==
    ASSUME Races = FALSE, NEW Q, FatInv(Q), NewClusters, NEW p \in Procs,
           OpenStep(p) \/ InodeStep(p) \/ UnlinkStep(p)
    PROVE  NewClusters'
<1> SUFFICES ASSUME NEW q \in Procs, pc'[q] \in {"create", "grow"}
             PROVE  fat'[clus'[q]] = EOC /\ data'[clus'[q]] = None
  BY DEF NewClusters
<1>t. TypeOK
  BY DEF FatInv
<1>1. CASE q # p
  <2>1. pc'[q] = pc[q] /\ clus'[q] = clus[q]
    BY <1>1, <1>t, LocalStep DEF Local
  <2> PICK h : h = clus[q]
    OBVIOUS
  <2>2. q \in Holders /\ h \in Heads /\ Len(Q[h]) = 1 /\ data[h] = None
    BY <2>1, NewFacts
  <2>3. h \notin Touched(p)
    BY <2>2, <1>1, NotTouched
  <2>4. Kept(h, Q[h])
    BY <2>2, <2>3, ChainKeeps
  <2>5. fat'[h] = EOC /\ data'[h] = data[h]
    BY <2>2, <2>4, KeptNew
  <2> QED BY <2>1, <2>2, <2>5
<1>2. CASE q = p
  <2>1. FreeClusters # {} /\ AllocCluster(p)
    <3>h. Hang(p) => pc'[p] = "hang"
      BY <1>t DEF Hang, Goto, TypeOK
    <3>1. CASE pc'[p] = "create"
      <4>1. PICK n \in Names : OpenCreate(p, n)
        BY <3>1, <1>t, PcFroms DEF PcFrom
      <4> QED BY <3>1, <4>1, <3>h DEF OpenCreate
    <3>2. CASE pc'[p] = "grow"
      <4>1. PICK k \in 0 .. MaxLen - 1 : WriteGrow(p, k)
        BY <3>2, <1>t, PcFroms DEF PcFrom
      <4> QED BY <3>2, <4>1, <3>h DEF WriteGrow
    <3> QED BY <1>2, <3>1, <3>2
  <2>2. PICK c \in Clusters : clus'[p] = c /\ fat'[c] = EOC /\ data'[c] = None
    BY <2>1, AllocMarks
  <2> QED BY <1>2, <2>2
<1> QED BY <1>1, <1>2

-----------------------------------------------------------------------------
(* Files as sequences of blocks.                                           *)

Blocks(q) == [k \in 1 .. Len(q) |-> data[q[k]]]

\* The content of a file is what its chain holds.
IsContent(s) ==
    \A q : dir[s] # None /\ dir[s].start \in Clusters /\ ChainOf(fat, dir[s].start, q)
        => FileContent(s) = Blocks(q)

LEMMA ContentIs == \A s : IsContent(s)
<1> SUFFICES ASSUME NEW s, NEW q, dir[s] # None, NEW h \in Clusters, h = dir[s].start,
                    ChainOf(fat, h, q)
             PROVE  FileContent(s) = Blocks(q)
  BY DEF IsContent
<1>c. MaxLen \in Nat \ {0} /\ EOC \notin Clusters
  BY Consts
<1>1. Len(q) \in 1 .. MaxLen /\ q \in Seq(Clusters) /\ \A i \in 1 .. Len(q) : q[i] \in Clusters
  BY DEF ChainOf
<1> DEFINE f == Path(h)
<1>2. \A j \in 0 .. MaxLen : f[j] = IF j < Len(q) THEN q[j + 1] ELSE EOC
  BY PathIs
<1>3. FileContent(s) = [k \in {j \in 1 .. MaxLen : f[j - 1] \in Clusters} |-> data[f[k - 1]]]
  BY DEF FileContent
<1> HIDE DEF f
<1>4. \A k \in 1 .. MaxLen : k - 1 \in 0 .. MaxLen /\ (k - 1) + 1 = k
                             /\ (k - 1 < Len(q) <=> k \in 1 .. Len(q))
  BY <1>1, <1>c
<1>5. \A k \in 1 .. MaxLen : /\ k \in 1 .. Len(q) => f[k - 1] = q[k]
                             /\ k \notin 1 .. Len(q) => f[k - 1] = EOC
  <2> TAKE k \in 1 .. MaxLen
  <2>1. f[k - 1] = IF k - 1 < Len(q) THEN q[(k - 1) + 1] ELSE EOC
    BY <1>2, <1>4
  <2> QED BY <2>1, <1>4
<1>6. 1 .. Len(q) \subseteq 1 .. MaxLen
  BY <1>1, <1>c
<1>7. {j \in 1 .. MaxLen : f[j - 1] \in Clusters} = 1 .. Len(q)
  BY <1>1, <1>5, <1>6, <1>c
<1>8. FileContent(s) = [k \in 1 .. Len(q) |-> data[f[k - 1]]]
  BY <1>3, <1>7
<1>9. \A k \in 1 .. Len(q) : f[k - 1] = q[k]
  BY <1>5, <1>6
<1> QED BY <1>8, <1>9 DEF Blocks

LEMMA ContentNext == (\A s : IsContent(s))'
BY ContentIs, PTL

\* A file whose chain is kept keeps its content.
LEMMA ContentKept ==
    ASSUME NEW s, dir[s] # None, dir'[s] # None, dir'[s].start = dir[s].start,
           dir[s].start \in Clusters, NEW q, ChainOf(fat, dir[s].start, q),
           Kept(dir[s].start, q)
    PROVE  FileContent(s)' = FileContent(s)
<1>1. FileContent(s) = Blocks(q)
  BY ContentIs DEF IsContent
<1>2. FileContent(s)' = Blocks(q)'
  BY ContentNext DEF IsContent, Kept
<1>3. Blocks(q)' = Blocks(q)
  BY DEF Blocks, Kept
<1> QED BY <1>1, <1>2, <1>3

\* The files that a step of p does not make, remove or write.
LEMMA ContentsKept ==
    ASSUME NEW Q, FatInv(Q), NEW p \in Procs, OpenStep(p) \/ InodeStep(p) \/ UnlinkStep(p),
           NEW s \in Slots, dir'[s] = None <=> dir[s] = None,
           dir[s] # None => dir'[s].start = dir[s].start,
           pc[p] \in {"grow", "write"} => s # file[p]
    PROVE  FileContent(s)' = FileContent(s)
<1>1. CASE dir[s] = None
  BY <1>1 DEF FileContent
<1>2. CASE dir[s] # None
  <2>1. s \in Used
    BY <1>2 DEF Used
  <2> PICK h : h = dir[s].start
    OBVIOUS
  <2>2. h \in Heads /\ h \in Clusters /\ GoodChain(h, Q[h])
    BY <2>1, Facts DEF FatFacts
  <2>3. h \notin Touched(p)
    BY <2>1, NotTouched
  <2>4. Kept(h, Q[h]) /\ ChainOf(fat, h, Q[h])
    BY <2>2, <2>3, ChainKeeps DEF GoodChain
  <2> QED BY <2>2, <2>4, <1>2, ContentKept
<1> QED BY <1>1, <1>2

-----------------------------------------------------------------------------
(* The refinement of FileStore.                                            *)

StoreStep == [Store!StoreNext]_(Store!storeVars)

\* Pending follows the place of the process.
LEMMA PendingSame ==
    ASSUME NEW p \in Procs, Local(p),
           \/ pc[p] \notin WritePcs /\ pc'[p] \notin WritePcs
           \/ /\ pc[p] \in WritePcs /\ pc'[p] \in WritePcs
              /\ file'[p] = file[p] /\ at'[p] = at[p]
    PROVE  Pending' = Pending
<1> DEFINE w(q) == IF pc[q] \in WritePcs THEN [file |-> file[q], at |-> at[q]] ELSE None
<1>1. \A q \in Procs : w(q)' = w(q)
  BY DEF Local
<1> QED BY <1>1 DEF Pending

LEMMA PendingAsked ==
    ASSUME NEW p \in Procs, Local(p), pc'[p] \in WritePcs
    PROVE  Pending' = [Pending EXCEPT ![p] = [file |-> file'[p], at |-> at'[p]]]
<1> DEFINE w(q) == IF pc[q] \in WritePcs THEN [file |-> file[q], at |-> at[q]] ELSE None
<1>1. \A q \in Procs : q # p => w(q)' = w(q)
  BY DEF Local
<1>2. w(p)' = [file |-> file'[p], at |-> at'[p]]
  OBVIOUS
<1>3. Pending' = [q \in Procs |-> w(q)'] /\ Pending = [q \in Procs |-> w(q)]
  BY DEF Pending
<1> HIDE DEF w
<1> QED BY <1>1, <1>2, <1>3

LEMMA PendingDone ==
    ASSUME NEW p \in Procs, Local(p), pc'[p] \notin WritePcs
    PROVE  Pending' = [Pending EXCEPT ![p] = None]
<1> DEFINE w(q) == IF pc[q] \in WritePcs THEN [file |-> file[q], at |-> at[q]] ELSE None
<1>1. \A q \in Procs : q # p => w(q)' = w(q)
  BY DEF Local
<1>2. w(p)' = None
  OBVIOUS
<1>3. Pending' = [q \in Procs |-> w(q)'] /\ Pending = [q \in Procs |-> w(q)]
  BY DEF Pending
<1> HIDE DEF w
<1> QED BY <1>1, <1>2, <1>3

LEMMA ContentsSame ==
    ASSUME \A s \in Slots : FileContent(s)' = FileContent(s)
    PROVE  Contents' = Contents
BY DEF Contents

LEMMA ContentsChanged ==
    ASSUME NEW u \in Slots, NEW x, FileContent(u)' = x,
           \A s \in Slots : s # u => FileContent(s)' = FileContent(s)
    PROVE  Contents' = [Contents EXCEPT ![u] = x]
<1> DEFINE c(s) == FileContent(s)
<1>1. Contents' = [s \in Slots |-> c(s)'] /\ Contents = [s \in Slots |-> c(s)]
  BY DEF Contents
<1>2. c(u)' = x /\ \A s \in Slots : s # u => c(s)' = c(s)
  OBVIOUS
<1> HIDE DEF c
<1> QED BY <1>1, <1>2

LEMMA Stutters ==
    ASSUME Contents' = Contents, Pending' = Pending
    PROVE  StoreStep
<1>1. UNCHANGED Store!storeVars
  BY DEF Store!storeVars
<1> QED BY <1>1 DEF StoreStep

\* The content of a file that exists: as many blocks as its chain has clusters.
LEMMA ContentFacts ==
    ASSUME NEW Q, FatInv(Q), NEW s \in Used
    PROVE  /\ s \in Slots /\ Contents[s] = Blocks(Q[dir[s].start])
           /\ Contents[s] \in Seq(Values \cup {None}) /\ Contents[s] # None
           /\ Len(Contents[s]) = Len(Q[dir[s].start])
<1>c. MaxLen \in Nat \ {0}
  BY Consts
<1> PICK h : h = dir[s].start
  OBVIOUS
<1> PICK q : q = Q[h]
  OBVIOUS
<1>1. s \in Slots /\ dir[s] # None /\ h \in Clusters /\ GoodChain(h, q)
  BY Facts DEF FatFacts, Used
<1>2. ChainOf(fat, h, q) /\ Len(q) \in 1 .. MaxLen /\ \A i \in 1 .. Len(q) : q[i] \in Clusters
  BY <1>1 DEF GoodChain
<1>3. Contents[s] = Blocks(q)
  BY <1>1, <1>2, ContentIs DEF IsContent, Contents
<1> PICK n \in 0 .. MaxLen : n = Len(q)
  BY <1>2, <1>c
<1>4. Blocks(q) \in [1 .. n -> Values \cup {None}]
  BY <1>2 DEF Blocks, FatInv, TypeOK
<1>5. Blocks(q) # None
  BY <1>4, NoneAssumption
<1>6. n \in Nat
  BY <1>c
<1> PICK b : b = Blocks(q)
  OBVIOUS
<1>7. b \in Seq(Values \cup {None}) /\ Len(b) = n
  BY <1>4, <1>6
<1> QED BY <1>1, <1>3, <1>5, <1>7

\* A write that begins asks for its block.
LEMMA AskStep ==
    ASSUME Races = FALSE, NEW Q, FatInv(Q), NEW p \in Procs, Local(p), Contents' = Contents,
           pc[p] = "idle", pc'[p] \in WritePcs, NEW x, Uses(p, x),
           NEW k \in 0 .. MaxLen - 1, at'[p] = k, k <= inode[file[p]].size
    PROVE  StoreStep
<1>c. MaxLen \in Nat \ {0}
  BY Consts
<1>1. file[p] \in Slots /\ inode[file[p]] # None /\ file' = file
  BY DEF Uses
<1> PICK s \in Slots : s = file[p]
  BY <1>1
<1>2. s \in Used /\ inode[s].start = dir[s].start
  BY <1>1, Facts DEF FatFacts
<1>3. /\ inode[s].size \in 0 .. MaxLen /\ inode[s].size <= Len(Q[dir[s].start])
      /\ Len(Q[dir[s].start]) \in 1 .. MaxLen
  BY <1>1, <1>2, SizeFits
<1>4. Contents[s] # None /\ Len(Contents[s]) = Len(Q[dir[s].start])
  BY <1>2, ContentFacts
<1>5. k \in 0 .. Len(Contents[s]) /\ k <= Len(Contents[s])
  <2> PICK z \in 0 .. MaxLen : z = inode[s].size
    BY <1>3
  <2> PICK n \in 1 .. MaxLen : n = Len(Contents[s])
    BY <1>3, <1>4
  <2>1. k <= z /\ z <= n
    BY <1>3, <1>4
  <2> QED BY <2>1, <1>c
<1>6. Pending[p] = None
  BY DEF Pending, WritePcs
<1>7. Pending' = [Pending EXCEPT ![p] = [file |-> s, at |-> k]]
  BY <1>1, PendingAsked
<1>8. Store!Ask(p, s, k)
  BY <1>4, <1>5, <1>6, <1>7 DEF Store!Ask
<1>9. CASE Pending' = Pending
  BY <1>9, Stutters
<1>10. CASE Pending' # Pending
  BY <1>10, <1>4, <1>5, <1>8 DEF StoreStep, Store!StoreNext
<1> QED BY <1>9, <1>10

\* Create makes a file of one block.
LEMMA MakeStep ==
    ASSUME Races = FALSE, NEW Q, FatInv(Q), NewClusters, NEW p \in Procs, CreateEntry(p)
    PROVE  StoreStep
<1>p. (OpenStep(p) \/ InodeStep(p) \/ UnlinkStep(p)) /\ pc[p] = "create" /\ Local(p)
  BY LocalStep DEF OpenStep, CreateEntry, FatInv
<1>t. DirCached /\ TypeOK
  BY DEF FatInv
<1>0. UNCHANGED <<fat, data>> /\ pc'[p] = "namei"
  BY <1>t DEF CreateEntry, Goto, TypeOK
<1> PICK s \in Slots : s = slot[p]
  BY CreateFacts
<1>1. /\ dir[s] = None /\ dir' = cached' /\ dir'[s] # None /\ dir'[s].start = clus[p]
      /\ \A t \in Slots \ {s} : dir'[t] = cached[t]
  BY CreateFacts
<1>2. Pending' = Pending
  BY <1>p, <1>0, PendingSame DEF WritePcs
<1> PICK h : h = clus[p]
  OBVIOUS
<1> PICK q : q = Q[h]
  OBVIOUS
<1>3. h \in Heads /\ h \in Clusters /\ Len(q) = 1 /\ q[1] = h /\ data[h] = None
  BY <1>p, NewFacts
<1>4. ChainOf(fat', h, q)
  BY <1>0, <1>3, Facts DEF FatFacts, GoodChain
<1>5. FileContent(s)' = Blocks(q)'
  BY <1>1, <1>3, <1>4, ContentNext DEF IsContent
<1>6. Blocks(q)' = <<None>>
  BY <1>0, <1>3 DEF Blocks
<1>7. \A t \in Slots : t # s => FileContent(t)' = FileContent(t)
  BY <1>1, <1>p, <1>t, ContentsKept DEF DirCached
<1>8. Contents' = [Contents EXCEPT ![s] = <<None>>]
  BY <1>5, <1>6, <1>7, ContentsChanged
<1>9. Contents[s] = None
  BY <1>1 DEF Contents, FileContent
<1>10. Store!Make(s)
  BY <1>2, <1>8, <1>9 DEF Store!Make
<1>11. CASE Contents' = Contents
  BY <1>2, <1>11, Stutters
<1>12. CASE Contents' # Contents
  BY <1>2, <1>10, <1>12 DEF StoreStep, Store!StoreNext
<1> QED BY <1>11, <1>12

\* Unlink removes a file when it marks the entry.
LEMMA RemoveStep ==
    ASSUME Races = FALSE, NEW Q, FatInv(Q), NEW p \in Procs, MarkEntryDeleted(p)
    PROVE  StoreStep
<1>p. (OpenStep(p) \/ InodeStep(p) \/ UnlinkStep(p)) /\ pc[p] = "mark" /\ Local(p)
  BY LocalStep DEF UnlinkStep, MarkEntryDeleted, FatInv
<1>t. DirCached /\ TypeOK
  BY DEF FatInv
<1>0. pc'[p] = "unchain"
  BY <1>t DEF MarkEntryDeleted, Goto, TypeOK
<1> PICK s \in Slots : s = slot[p]
  BY MarkFacts
<1>1. /\ dir[s] # None /\ dir' = cached' /\ dir'[s] = None
      /\ \A t \in Slots \ {s} : dir'[t] = cached[t]
  BY MarkFacts
<1>2. Pending' = Pending
  BY <1>p, <1>0, PendingSame DEF WritePcs
<1>3. FileContent(s)' = None
  BY <1>1 DEF FileContent
<1>4. \A t \in Slots : t # s => FileContent(t)' = FileContent(t)
  BY <1>1, <1>p, <1>t, ContentsKept DEF DirCached
<1>5. Contents' = [Contents EXCEPT ![s] = None]
  BY <1>3, <1>4, ContentsChanged
<1>6. Contents[s] # None
  BY <1>1, ContentFacts DEF Used
<1>7. Store!Remove(s)
  BY <1>2, <1>5, <1>6 DEF Store!Remove
<1>8. CASE Contents' = Contents
  BY <1>2, <1>8, Stutters
<1>9. CASE Contents' # Contents
  BY <1>2, <1>7, <1>9 DEF StoreStep, Store!StoreNext
<1> QED BY <1>8, <1>9

\* Only bmap and WriteInode go on from inside a write.
LEMMA WriteFrom ==
    ASSUME NEW p \in Procs, OpenStep(p) \/ InodeStep(p) \/ UnlinkStep(p), pc[p] \in WritePcs
    PROVE  Grow(p) \/ \E v \in Values : WriteBlock(p, v)
<1> USE DEF WritePcs, Ready
<1>1. ~\E n \in Names : OpenCreate(p, n) \/ Open(p, n) \/ Unlink(p, n)
  BY DEF OpenCreate, Open, Unlink
<1>2. ~(\/ CreateEntry(p) \/ NamexLock(p) \/ LookupFails(p) \/ LookupBuilds(p)
        \/ LookupFinds(p) \/ LookupSleeps(p) \/ LookupWakes(p) \/ Close(p) \/ Exit(p))
  BY DEF CreateEntry, NamexLock, LookupFails, LookupBuilds, LookupFinds, LookupSleeps,
         LookupWakes, Close, Exit
<1>3. ~\E k \in 0 .. MaxLen - 1 : Read(p, k) \/ Write(p, k) \/ WriteGrow(p, k)
  BY DEF Read, Write, WriteGrow
<1>4. ~(\/ ReadDone(p) \/ UpdateRead(p) \/ UpdateWrite(p) \/ MarkEntryDeleted(p)
        \/ FreeChain(p))
  BY DEF ReadDone, UpdateRead, UpdateWrite, MarkEntryDeleted, FreeChain
<1> QED BY <1>1, <1>2, <1>3, <1>4 DEF OpenStep, InodeStep, UnlinkStep

\* A cluster at the end of the chain is a block at the end of the file.
LEMMA ExtendStep ==
    ASSUME Races = FALSE, NEW Q, FatInv(Q), NewClusters, NEW p \in Procs, Grow(p)
    PROVE  StoreStep
<1>c. MaxLen \in Nat \ {0}
  BY Consts
<1>p. (OpenStep(p) \/ InodeStep(p) \/ UnlinkStep(p)) /\ pc[p] = "grow" /\ Local(p)
  BY LocalStep DEF InodeStep, Grow, FatInv
<1>0. UNCHANGED <<data, dir, file, at>> /\ pc'[p] = "write"
  BY DEF Grow, Goto, FatInv, TypeOK
<1>1. PICK b, c : /\ b = inode[file[p]].start /\ c = clus[p] /\ b # c
                  /\ b \in Heads /\ c \in Heads /\ file[p] \in Used /\ b = dir[file[p]].start
                  /\ at[p] = Len(Q[b])
                  /\ \E R : LongerChain(fat', Heads, b, c, Q, R)
  BY GrowLinks
<1> PICK s \in Used : s = file[p]
  BY <1>1
<1>2. PICK R : LongerChain(fat', Heads, b, c, Q, R)
  BY <1>1
<1> PICK n : n = Len(Q[b])
  OBVIOUS
<1> PICK r : r = R[b]
  OBVIOUS
<1>3. n \in 1 .. MaxLen /\ n \in Nat /\ b \in Clusters /\ s \in Slots /\ dir[s] # None
  BY <1>1, <1>c, Facts DEF FatFacts, GoodChain, Used
<1>4. /\ Len(r) = n + 1 /\ r[n + 1] = c /\ \A i \in 1 .. n : r[i] = Q[b][i]
      /\ ChainOf(fat', b, r)
  BY <1>1, <1>2 DEF LongerChain, FatChains
<1>5. FileContent(s)' = Blocks(r)'
  BY <1>0, <1>1, <1>3, <1>4, ContentNext DEF IsContent
<1>6. data[c] = None
  BY <1>1, <1>p, NewFacts
<1> PICK x \in Seq(Values \cup {None}) : x = Contents[s]
  BY ContentFacts
<1>7. Len(x) = n /\ x = Blocks(Q[b]) /\ x # None
  BY <1>1, ContentFacts
<1>8. Blocks(r)' = Append(x, None)
  <2>1. Blocks(r)' = [k \in 1 .. n + 1 |-> data[r[k]]]
    BY <1>0, <1>4 DEF Blocks
  <2>2. \A k \in 1 .. n + 1 : data[r[k]] = IF k = n + 1 THEN None ELSE x[k]
    <3> TAKE k \in 1 .. n + 1
    <3>1. CASE k = n + 1
      BY <3>1, <1>4, <1>6
    <3>2. CASE k # n + 1
      <4>1. k \in 1 .. n
        BY <3>2, <1>3
      <4> QED BY <4>1, <3>2, <1>4, <1>7 DEF Blocks
    <3> QED BY <3>1, <3>2
  <2>3. Append(x, None) = [k \in 1 .. n + 1 |-> IF k = n + 1 THEN None ELSE x[k]]
    BY <1>7, <1>3
  <2> QED BY <2>1, <2>2, <2>3
<1>9. \A t \in Slots : t # s => FileContent(t)' = FileContent(t)
  BY <1>0, <1>p, ContentsKept
<1>10. Contents' = [Contents EXCEPT ![s] = Append(Contents[s], None)]
  BY <1>3, <1>5, <1>8, <1>9, ContentsChanged
<1>11. Pending' = Pending
  BY <1>0, <1>p, PendingSame DEF WritePcs
<1>12. Pending[p] = [file |-> s, at |-> n]
  BY <1>1, <1>p DEF Pending, WritePcs
<1>13. Pending[p] # None
  <2>1. [file |-> s, at |-> n] \in Writes
    BY <1>3, <1>c DEF Writes
  <2> QED BY <2>1, <1>12, NoneAssumption
<1>14. Store!Extend(p)
  <2>1. Contents[s] # None /\ n = Len(Contents[s])
    BY <1>7
  <2>2. Contents' = [Contents EXCEPT ![s] = Append(@, None)]
    BY <1>10
  <2> QED BY <2>1, <2>2, <1>11, <1>12, <1>13 DEF Store!Extend
<1>15. CASE Contents' = Contents
  BY <1>11, <1>15, Stutters
<1>16. CASE Contents' # Contents
  BY <1>11, <1>14, <1>16 DEF StoreStep, Store!StoreNext
<1> QED BY <1>15, <1>16

\* WriteInode puts its block into the file.
LEMMA PutStep ==
    ASSUME Races = FALSE, NEW Q, FatInv(Q), NEW p \in Procs, NEW v \in Values, WriteBlock(p, v)
    PROVE  StoreStep
<1>c. MaxLen \in Nat \ {0}
  BY Consts
<1>p. (OpenStep(p) \/ InodeStep(p) \/ UnlinkStep(p)) /\ pc[p] = "write" /\ Local(p)
  BY LocalStep DEF InodeStep, WriteBlock, FatInv
<1>t. data \in [Clusters -> Values \cup {None}] /\ Disjoint(Heads, Q)
  BY DEF FatInv, TypeOK, FatChains
<1>0. UNCHANGED <<dir, file>> /\ pc'[p] = "entry"
  BY DEF WriteBlock, Goto, FatInv, TypeOK
<1>1. PICK b, k : /\ b = inode[file[p]].start /\ k = at[p] /\ b \in Heads
                  /\ file[p] \in Used /\ b = dir[file[p]].start
                  /\ k \in Nat /\ k < Len(Q[b]) /\ k + 1 \in 1 .. Len(Q[b])
                  /\ data' = [data EXCEPT ![Q[b][k + 1]] = v] /\ fat' = fat
  BY BlockFacts
<1> PICK s \in Used : s = file[p]
  BY <1>1
<1> PICK q : q = Q[b]
  OBVIOUS
<1>2. /\ b \in Clusters /\ s \in Slots /\ dir[s] # None
      /\ ChainOf(fat, b, q) /\ \A i \in 1 .. Len(q) : q[i] \in Clusters
  BY <1>1, Facts DEF FatFacts, GoodChain, Used
<1>3. FileContent(s)' = Blocks(q)'
  BY <1>0, <1>1, <1>2, ContentNext DEF IsContent
<1> PICK x : x = Contents[s]
  OBVIOUS
<1>4. x = Blocks(q) /\ x # None /\ Len(x) = Len(q)
  BY <1>1, ContentFacts
<1>5. Blocks(q)' = [x EXCEPT ![k + 1] = v]
  <2>1. \A i \in 1 .. Len(q) : data'[q[i]] = IF i = k + 1 THEN v ELSE data[q[i]]
    <3> TAKE i \in 1 .. Len(q)
    <3>1. i # k + 1 => q[i] # q[k + 1]
      BY <1>1, <1>t DEF Disjoint
    <3>2. q[i] \in Clusters /\ q[k + 1] \in Clusters
      BY <1>1, <1>2
    <3> QED BY <3>1, <3>2, <1>1, <1>t
  <2>2. x = [i \in 1 .. Len(q) |-> data[q[i]]]
    BY <1>4 DEF Blocks
  <2>3. Blocks(q)' = [i \in 1 .. Len(q) |-> data'[q[i]]]
    BY DEF Blocks
  <2> QED BY <2>1, <2>2, <2>3
<1>6. \A t \in Slots : t # s => FileContent(t)' = FileContent(t)
  BY <1>0, <1>p, ContentsKept
<1>7. Contents' = [Contents EXCEPT ![s] = [x EXCEPT ![k + 1] = v]]
  BY <1>2, <1>3, <1>5, <1>6, ContentsChanged
<1>8. Pending' = [Pending EXCEPT ![p] = None]
  BY <1>0, <1>p, PendingDone DEF WritePcs
<1>9. Pending[p] = [file |-> s, at |-> k]
  BY <1>1, <1>p DEF Pending, WritePcs
<1>10. Pending[p] # None
  <2>1. [file |-> s, at |-> k] \in Writes
    BY <1>1, <1>2 DEF Writes, FatInv, TypeOK
  <2> QED BY <2>1, <1>9, NoneAssumption
<1>11. Store!Put(p, v)
  <2>1. Contents[s] # None /\ k < Len(Contents[s])
    BY <1>1, <1>4
  <2>2. Contents' = [Contents EXCEPT ![s][k + 1] = v]
    BY <1>7
  <2> QED BY <2>1, <2>2, <1>8, <1>9, <1>10 DEF Store!Put
<1>12. Pending' # Pending
  BY <1>8, <1>10 DEF Pending
<1> QED BY <1>11, <1>12 DEF StoreStep, Store!StoreNext

\* The other steps of a process change no file; a write may begin.
LEMMA OtherStep ==
    ASSUME Races = FALSE, NEW Q, FatInv(Q), NEW p \in Procs,
           OpenStep(p) \/ InodeStep(p) \/ UnlinkStep(p),
           ~CreateEntry(p), ~MarkEntryDeleted(p), ~Grow(p), ~\E v \in Values : WriteBlock(p, v)
    PROVE  StoreStep
<1>t. Local(p) /\ at \in [Procs -> 0 .. MaxLen] /\ PcFrom(p)
  BY LocalStep, PcFroms DEF FatInv, TypeOK
<1>1. pc[p] \notin WritePcs
  BY WriteFrom
<1>2. KeepsDir
  BY KeepsDirStep
<1>3. \A s \in Slots : FileContent(s)' = FileContent(s)
  BY <1>1, <1>2, ContentsKept DEF KeepsDir, WritePcs
<1>4. Contents' = Contents
  BY <1>3, ContentsSame
<1>5. CASE pc'[p] \notin WritePcs
  BY <1>t, <1>1, <1>4, <1>5, PendingSame, Stutters
<1>6. CASE pc'[p] \in WritePcs
  <2>1. PICK k \in 0 .. MaxLen - 1 : Write(p, k) \/ WriteGrow(p, k)
    BY <1>t, <1>6 DEF PcFrom, WritePcs
  <2>2. \E x : Uses(p, x)
    BY <2>1, PlacedBy, AtEndBy
  <2>3. pc[p] = "idle" /\ at'[p] = k /\ k <= inode[file[p]].size
    BY <2>1, <1>t DEF Write, WriteGrow, Ready
  <2> QED BY <2>2, <2>3, <1>t, <1>4, <1>6, AskStep
<1> QED BY <1>5, <1>6

LEMMA StoreSteps ==
    ASSUME Races = FALSE, NEW Q, FatInv(Q), NewClusters, [Next]_vars
    PROVE  StoreStep /\ NewClusters'
<1>1. ASSUME Reload \/ UNCHANGED vars PROVE StoreStep /\ NewClusters'
  <2>1. UNCHANGED <<fat, data, dir, file, pc, clus, at>>
    BY <1>1 DEF Reload, vars, diskVars, procVars
  <2>2. \A s \in Slots : FileContent(s)' = FileContent(s)
    BY <2>1 DEF FileContent, Path, GetFatEntry
  <2>3. Pending' = Pending
    BY <2>1 DEF Pending
  <2>4. NewClusters'
    BY <2>1 DEF NewClusters
  <2> QED BY <2>2, <2>3, <2>4, ContentsSame, Stutters
<1>2. ASSUME NEW p \in Procs, OpenStep(p) \/ InodeStep(p) \/ UnlinkStep(p)
      PROVE  StoreStep /\ NewClusters'
  <2>1. StoreStep
    BY <1>2, MakeStep, RemoveStep, ExtendStep, PutStep, OtherStep
  <2>2. NewClusters'
    BY <1>2, NewClustersStep
  <2> QED BY <2>1, <2>2
<1> QED BY <1>1, <1>2 DEF Next

LEMMA StoreStarts ==
    ASSUME Init
    PROVE  Store!StoreInit /\ NewClusters
<1>1. \A s \in Slots : FileContent(s) = None
  BY DEF Init, NoDir, FileContent
<1>2. Contents = [s \in Slots |-> None]
  BY <1>1 DEF Contents
<1>3. Pending = [p \in Procs |-> None]
  BY DEF Init, Pending, WritePcs
<1>4. NewClusters
  BY DEF Init, NewClusters
<1> QED BY <1>2, <1>3, <1>4 DEF Store!StoreInit

-----------------------------------------------------------------------------
(* The theorems.                                                           *)

\* Some chains make the invariant true.
FatOK == \E Q : FatInv(Q)

\* The chains exist in every state: the inductive invariant of
\* fat32_file_system.cpp, when no window without a lock is entered.
THEOREM FatInvariant == ASSUME Races = FALSE PROVE Spec => []FatOK
<1>1. Init => FatOK
  BY FatInit DEF FatOK
<1>2. ASSUME FatOK, [Next]_vars PROVE FatOK'
  <2>1. PICK Q : FatInv(Q)
    BY <1>2 DEF FatOK
  <2>2. CASE Reload
    BY <2>1, <2>2, ReloadStep DEF FatOK
  <2>3. ASSUME NEW p \in Procs, OpenStep(p) \/ InodeStep(p) \/ UnlinkStep(p) PROVE FatOK'
    BY <2>1, <2>3, ProcStep DEF FatOK
  <2>4. CASE UNCHANGED vars
    BY <2>1, <2>4, IdleStep DEF FatOK
  <2> QED BY <1>2, <2>2, <2>3, <2>4 DEF Next
<1> QED BY <1>1, <1>2, PTL DEF Spec

\* Every cluster of the FAT has one owner: AllocCluster, the linking in bmap,
\* Create and FreeClusterChain neither lose a cluster nor give it to two files.
THEOREM FatClustersOwned == ASSUME Races = FALSE PROVE Spec => []ClustersOwned
<1>1. FatOK => ClustersOwned
  BY OwnedByInv DEF FatOK
<1> QED BY <1>1, FatInvariant, PTL

\* The place that bmap caches in an inode is a place of its file's chain.
THEOREM FatPlaceRemembered == ASSUME Races = FALSE PROVE Spec => []PlaceRemembered
<1>1. FatOK => PlaceRemembered
  BY PlaceByInv DEF FatOK
<1> QED BY <1>1, FatInvariant, PTL

\* ReadInode reads clusters that were written since they were allocated.
THEOREM FatReadsWritten == ASSUME Races = FALSE PROVE Spec => []ReadsWritten
<1>1. FatOK => ReadsWritten
  BY PlaceByInv DEF FatOK
<1> QED BY <1>1, FatInvariant, PTL

\* close, exit and unlinkat leave the inode and the entry of a file that
\* another process has open.
THEOREM FatOpenFilesAlive == ASSUME Races = FALSE PROVE Spec => []OpenFilesAlive
<1>1. FatOK => OpenFilesAlive
  BY PlaceByInv DEF FatOK
<1> QED BY <1>1, FatInvariant, PTL

\* The files on the disk implement FileStore: a block changes only by a write
\* to its file, and a file grows only at its end, whatever Create, bmap and
\* FreeClusterChain do to the chains of other files.
THEOREM FatImplementsStore == ASSUME Races = FALSE PROVE Spec => FilesAreStore
<1>1. Init => FatOK /\ NewClusters /\ Store!StoreInit
  BY FatInit, StoreStarts DEF FatOK
<1>2. FatOK /\ NewClusters /\ [Next]_vars => StoreStep /\ NewClusters'
  BY StoreSteps DEF FatOK
<1>3. Spec => []FatOK
  BY FatInvariant
<1>4. FatOK /\ NewClusters /\ [Next]_vars => [Store!StoreNext]_(Store!storeVars)
  BY <1>2 DEF StoreStep
<1>5. FatOK /\ NewClusters /\ [Next]_vars => NewClusters'
  BY <1>2
<1> QED BY <1>1, <1>3, <1>4, <1>5, PTL DEF Spec, FilesAreStore, Store!StoreSpec
=============================================================================
