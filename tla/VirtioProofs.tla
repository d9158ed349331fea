----------------------------- MODULE VirtioProofs -----------------------------
(***************************************************************************)
(* Proofs about Virtio, for every number of processes, descriptors,        *)
(* sectors and values, and every width of the ring indices that the number *)
(* of descriptors divides.                                                 *)
(***************************************************************************)
EXTENDS Virtio, FiniteSetTheorems, WellFoundedInduction, TLAPS

-----------------------------------------------------------------------------
(* The inductive invariant.                                                *)

Active(p) == pc[p] \in {"check", "wait"}

\* How far index hi is ahead of index lo, around the end of the word.
Ahead(hi, lo) == IF hi >= lo THEN hi - lo ELSE hi - lo + WORD

\* The same for slots of a ring.
SlotAhead(hi, lo) == IF hi >= lo THEN hi - lo ELSE hi - lo + NUM

\* The entries of a ring that are filled in are those between its two indices,
\* and no request is in it twice.
RingInv(ring, lo, hi) ==
    /\ Ahead(hi, lo) < NUM
    /\ \A k \in Desc : ring[k] # None <=> SlotAhead(k, (lo % NUM)) < Ahead(hi, lo)
    /\ hi % NUM = IF (lo % NUM) + Ahead(hi, lo) < NUM
                  THEN (lo % NUM) + Ahead(hi, lo)
                  ELSE (lo % NUM) + Ahead(hi, lo) - NUM
    /\ \A j, k \in Desc : ring[j] # None /\ ring[j] = ring[k] => j = k

RingsInv == RingInv(avail, devIdx, availIdx) /\ RingInv(used, used_idx, usedIdx)

\* A call under way has filled in a chain of three descriptors.
Linked(p) ==
    /\ idx[p] \in [1 .. 3 -> Desc]
    /\ desc[idx[p][1]].more /\ desc[idx[p][1]].next = idx[p][2]
    /\ desc[idx[p][2]].more /\ desc[idx[p][2]].next = idx[p][3]
    /\ desc[idx[p][2]].addr = p
    /\ ~desc[idx[p][3]].more
    /\ ops[idx[p][1]] = call[p]
    /\ info[idx[p][1]].data = p

CallInv ==
    \A p \in Procs :
        /\ IF pc[p] = "idle" THEN call[p] = None ELSE call[p] \in Calls
        /\ Active(p) => Linked(p)

\* Its descriptors are not free, and nobody else's; there are no others.
OwnInv ==
    /\ \A p \in Procs : Active(p) => \A n \in 1 .. 3 : ~free[idx[p][n]]
    /\ \A p, q \in Procs : Active(p) /\ Active(q) =>
           \A m, n \in 1 .. 3 : idx[p][m] = idx[q][n] => p = q /\ m = n
    /\ \A i \in Desc : free[i] \/ \E p \in Procs :
           Active(p) /\ \E n \in 1 .. 3 : idx[p][n] = i

\* h is the request of a process that sleeps for it.
Waited(h) == \E p \in Procs : pc[p] = "wait" /\ idx[p][1] = h

\* A request is in the avail ring, with the device or in the used ring, and
\* its status says which.
HeadInv ==
    /\ \A k \in Desc : avail[k] # None =>
           /\ Waited(avail[k]) /\ avail[k] \notin taken
           /\ info[avail[k]].status = "none"
    /\ \A h \in taken : Waited(h) /\ info[h].status = "none"
    /\ \A k \in Desc : used[k] # None =>
           Waited(used[k]) /\ info[used[k]].status = "ok"
    /\ \A p \in Procs : pc[p] = "check" => info[idx[p][1]].status = "ok"

\* The buffer of a write holds its value,
\* and that of a read the value of the sector once it was served.
MemInv ==
    \A p \in Procs :
        /\ pc[p] # "idle" /\ call[p].op = "write" => mem[p] = call[p].val
        /\ Active(p) /\ info[idx[p][1]].status = "ok" => mem[p] \in Values

IndInv == /\ TypeOK /\ CallInv /\ OwnInv /\ HeadInv /\ RingsInv /\ MemInv
          /\ NoLostWakeup

-----------------------------------------------------------------------------
(* Ring indices: NUM divides WORD, so that the slot of an index goes round *)
(* with the index.                                                         *)

LEMMA ModFacts ==
    ASSUME NEW x \in Nat, NEW m \in Nat, m > 0
    PROVE  /\ (x % m) \in 0 .. m - 1
           /\ x \div m \in Nat
           /\ x = m * (x \div m) + (x % m)
OBVIOUS

LEMMA ModUnique ==
    ASSUME NEW m \in Nat, m > 0, NEW a \in Int, NEW b \in Int,
           NEW r \in 0 .. m - 1, NEW s \in 0 .. m - 1, m * a + r = m * b + s
    PROVE  r = s
<1>1. m * (a - b) = s - r
  OBVIOUS
<1>2. CASE a - b >= 1
  <2>1. m * (a - b) >= m
    BY <1>2
  <2> QED
    BY <1>1, <2>1
<1>3. CASE a - b <= -1
  <2>1. m * (a - b) <= -m
    BY <1>3
  <2> QED
    BY <1>1, <2>1
<1>4. CASE a = b
  BY <1>4
<1> QED
  BY <1>2, <1>3, <1>4

LEMMA IncSlot ==
    ASSUME NEW x \in 0 .. WORD - 1
    PROVE  /\ Inc(x) \in 0 .. WORD - 1
           /\ Inc(x) = IF x = WORD - 1 THEN 0 ELSE x + 1
           /\ (x % NUM) \in Desc
           /\ Inc(x) % NUM = IF (x % NUM) = NUM - 1 THEN 0 ELSE (x % NUM) + 1
<1> USE VirtioAssumption
<1>1. Inc(x) = IF x = WORD - 1 THEN 0 ELSE x + 1
  BY DEF Inc
<1>2. (x % NUM) \in Desc /\ x = NUM * (x \div NUM) + (x % NUM) /\ x \div NUM \in Nat
  BY ModFacts DEF Desc
<1>3. WORD = NUM * (WORD \div NUM) /\ WORD \div NUM \in Nat
  BY ModFacts
<1>4. CASE x = WORD - 1
  <2>1. WORD = NUM * (x \div NUM) + ((x % NUM) + 1)
    BY <1>4, <1>2 DEF Desc
  <2>2. CASE (x % NUM) < NUM - 1
    <3>1. /\ (x % NUM) + 1 \in 0 .. NUM - 1 /\ 0 \in 0 .. NUM - 1
          /\ NUM * (x \div NUM) + ((x % NUM) + 1) = NUM * (WORD \div NUM) + 0
      BY <2>1, <2>2, <1>2, <1>3 DEF Desc
    <3> DEFINE r == (x % NUM) + 1
               q == x \div NUM
               w == WORD \div NUM
    <3>3. r \in 0 .. NUM - 1 /\ q \in Int /\ w \in Int /\ NUM * q + r = NUM * w + 0
      BY <3>1, <1>2, <1>3
    <3> HIDE DEF r, q, w
    <3>4. r = 0
      BY <3>1, <3>3, ModUnique
    <3>2. (x % NUM) + 1 = 0
      BY <3>4 DEF r
    <3> QED
      BY <3>2, <1>2 DEF Desc
  <2>3. CASE (x % NUM) = NUM - 1
    <3>1. 0 % NUM = 0
      OBVIOUS
    <3> QED
      BY <3>1, <2>3, <1>1, <1>2, <1>4
  <2> QED
    BY <1>2, <2>2, <2>3 DEF Desc
<1>5. CASE x # WORD - 1
  <2> DEFINE y == x + 1
  <2>1. (y % NUM) \in 0 .. NUM - 1 /\ y = NUM * (y \div NUM) + (y % NUM) /\ y \div NUM \in Nat
    BY ModFacts
  <2>2. CASE (x % NUM) < NUM - 1
    <3>1. NUM * (y \div NUM) + (y % NUM) = NUM * (x \div NUM) + ((x % NUM) + 1)
      BY <2>1, <1>2
    <3>2. (x % NUM) + 1 \in 0 .. NUM - 1
      BY <1>2, <2>2 DEF Desc
    <3> DEFINE r == (x % NUM) + 1
               q == x \div NUM
               s == y % NUM
               t == y \div NUM
    <3>4. /\ r \in 0 .. NUM - 1 /\ s \in 0 .. NUM - 1
          /\ q \in Int /\ t \in Int /\ NUM * t + s = NUM * q + r
      BY <3>1, <3>2, <2>1, <1>2
    <3> HIDE DEF r, q, s, t
    <3>5. s = r
      BY <3>4, ModUnique
    <3>3. (y % NUM) = (x % NUM) + 1
      BY <3>5 DEF r, s
    <3> QED
      BY <3>3, <1>1, <1>2, <1>5, <2>2 DEF Desc
  <2>3. CASE (x % NUM) = NUM - 1
    <3>1. NUM * (y \div NUM) + (y % NUM) = NUM * (x \div NUM + 1) + 0
      BY <2>1, <1>2, <2>3
    <3>2. (y % NUM) = 0
      BY <3>1, <2>1, <1>2, <2>3, ModUnique
    <3> QED
      BY <3>2, <1>1, <1>2, <1>5, <2>3 DEF Desc
  <2> QED
    BY <1>2, <2>2, <2>3 DEF Desc
<1> QED
  BY <1>4, <1>5

\* Every set of descriptors that is not empty has a first one.
LEMMA FirstOf ==
    ASSUME NEW S \in SUBSET Desc, S # {}
    PROVE  \E i \in S : \A j \in S : i <= j
<1>1. S \subseteq Nat
  BY VirtioAssumption DEF Desc
<1>2. PICK i \in S : \A j \in S : ~ <<j, i>> \in OpToRel(<, Nat)
  BY <1>1, NatLessThanWellFounded, WFMin
<1>3. \A j \in S : ~(j < i)
  BY <1>1, <1>2 DEF OpToRel
<1> QED
  BY <1>1, <1>3

LEMMA DescFinite == IsFiniteSet(Desc) /\ Cardinality(Desc) = NUM
<1>1. 0 \in Int /\ NUM - 1 \in Int /\ ~(0 > NUM - 1)
  BY VirtioAssumption
<1>2. Cardinality(0 .. NUM - 1) = (NUM - 1) - 0 + 1
  BY <1>1, FS_Interval
<1> QED
  BY <1>1, <1>2, FS_Interval, VirtioAssumption DEF Desc

LEMMA PairCount ==
    ASSUME NEW a, NEW b, NEW c, a # b, a # c, b # c
    PROVE  /\ IsFiniteSet({a}) /\ Cardinality({a}) = 1
           /\ IsFiniteSet({a, b}) /\ Cardinality({a, b}) = 2
           /\ IsFiniteSet({a, b, c}) /\ Cardinality({a, b, c}) = 3
<1>1. IsFiniteSet({a}) /\ Cardinality({a}) = 1
  BY FS_Singleton
<1>2. {a, b} = {a} \cup {b} /\ {a, b, c} = {a, b} \cup {c} /\ b \notin {a} /\ c \notin {a, b}
  OBVIOUS
<1>3. IsFiniteSet({a, b}) /\ Cardinality({a, b}) = 2
  BY <1>1, <1>2, FS_AddElement
<1>4. IsFiniteSet({a, b, c}) /\ Cardinality({a, b, c}) = 3
  BY <1>2, <1>3, FS_AddElement
<1> QED
  BY <1>1, <1>3, <1>4

\* alloc3_desc finds three descriptors that are free and different.
LEMMA ThreeFree ==
    ASSUME free \in [Desc -> BOOLEAN], Cardinality(FreeDescs) >= 3
    PROVE  /\ NthFree(1) \in Desc /\ NthFree(2) \in Desc /\ NthFree(3) \in Desc
           /\ free[NthFree(1)] /\ free[NthFree(2)] /\ free[NthFree(3)]
           /\ NthFree(1) # NthFree(2) /\ NthFree(1) # NthFree(3) /\ NthFree(2) # NthFree(3)
<1> DEFINE F == FreeDescs
           Rank(i) == Cardinality({j \in F : j <= i})
<1>1. F \in SUBSET Desc /\ IsFiniteSet(F) /\ Cardinality(F) \in Nat
  BY DescFinite, FS_Subset, FS_CardinalityType DEF FreeDescs
<1>2. \A i \in F : i \in Int
  BY <1>1, VirtioAssumption DEF Desc
<1>3. F # {}
  BY FS_EmptySet
<1>4. PICK a \in F : \A j \in F : a <= j
  BY <1>1, <1>3, FirstOf
<1>5. /\ IsFiniteSet(F \ {a}) /\ Cardinality(F \ {a}) = Cardinality(F) - 1
      /\ F \ {a} \in SUBSET Desc
  BY <1>1, <1>4, FS_RemoveElement
<1>6. F \ {a} # {}
  BY <1>1, <1>5, FS_EmptySet
<1>7. PICK b \in F \ {a} : \A j \in F \ {a} : b <= j
  BY <1>5, <1>6, FirstOf
<1>8. /\ (F \ {a}) \ {b} \in SUBSET Desc
      /\ Cardinality((F \ {a}) \ {b}) = Cardinality(F) - 2
  <2> DEFINE G == F \ {a}
  <2>1. IsFiniteSet(G) /\ b \in G /\ Cardinality(G) = Cardinality(F) - 1
    BY <1>5, <1>7
  <2> HIDE DEF G
  <2>2. Cardinality(G \ {b}) = Cardinality(G) - 1
    BY <2>1, FS_RemoveElement
  <2> QED
    BY <1>1, <2>1, <2>2 DEF G
<1>9. (F \ {a}) \ {b} # {}
  BY <1>1, <1>8, FS_EmptySet
<1>10. PICK c \in (F \ {a}) \ {b} : \A j \in (F \ {a}) \ {b} : c <= j
  BY <1>8, <1>9, FirstOf
<1>11. a # b /\ a # c /\ b # c /\ a \in F /\ b \in F /\ c \in F
  BY <1>4, <1>7, <1>10
<1>12. /\ {j \in F : j <= a} = {a}
       /\ {j \in F : j <= b} = {a, b}
       /\ {j \in F : j <= c} = {a, b, c}
  <2>1. \A j \in F : j <= a => j = a
    BY <1>2, <1>4, <1>11
  <2>2. \A j \in F : j <= b => j = a \/ j = b
    BY <1>2, <1>7, <1>11
  <2>3. \A j \in F : j <= c => j = a \/ j = b \/ j = c
    BY <1>2, <1>10, <1>11
  <2>4. a <= a /\ a <= b /\ b <= b /\ a <= c /\ b <= c /\ c <= c
    BY <1>2, <1>4, <1>7, <1>10, <1>11
  <2> QED
    BY <2>1, <2>2, <2>3, <2>4, <1>11
<1>13. Rank(a) = 1 /\ Rank(b) = 2 /\ Rank(c) = 3
  <2>1. Cardinality({a}) = 1 /\ Cardinality({a, b}) = 2 /\ Cardinality({a, b, c}) = 3
    BY <1>11, PairCount
  <2> QED
    BY <1>12, <2>1
<1>14. /\ NthFree(1) \in F /\ Rank(NthFree(1)) = 1
       /\ NthFree(2) \in F /\ Rank(NthFree(2)) = 2
       /\ NthFree(3) \in F /\ Rank(NthFree(3)) = 3
  BY <1>11, <1>13 DEF NthFree
<1> QED
  BY <1>1, <1>14 DEF FreeDescs

-----------------------------------------------------------------------------
(* Rings.                                                                  *)

LEMMA RingPut ==
    ASSUME NEW ring \in [Desc -> Desc \cup {None}],
           NEW lo \in 0 .. WORD - 1, NEW hi \in 0 .. WORD - 1,
           RingInv(ring, lo, hi),
           NEW h \in Desc, NEW other \in Desc, other # h,
           \A k \in Desc : ring[k] # h /\ ring[k] # other
    PROVE  RingInv([ring EXCEPT ![hi % NUM] = h], lo, Inc(hi))
<1> USE VirtioAssumption
<1> DEFINE slot == hi % NUM
           base == lo % NUM
           n == Ahead(hi, lo)
           new == [ring EXCEPT ![slot] = h]
<1>0. None \notin Desc
  BY DEF Desc
<1>1. slot \in Desc /\ base \in Desc /\ h # None
  BY <1>0, IncSlot
<1>2. n \in 0 .. NUM - 1
  BY DEF RingInv, Ahead
<1>3. /\ slot = IF base + n < NUM THEN base + n ELSE base + n - NUM
      /\ \A k \in Desc : ring[k] # None <=> SlotAhead(k, base) < n
      /\ \A j, k \in Desc : ring[j] # None /\ ring[j] = ring[k] => j = k
  BY DEF RingInv
<1>4. new \in [Desc -> Desc \cup {None}] /\ \A k \in Desc : new[k] = IF k = slot THEN h ELSE ring[k]
  BY <1>1
<1> HIDE DEF new, slot, base, n
<1>5. \A j, k \in Desc : new[j] # None /\ new[j] = new[k] => j = k
  BY <1>3, <1>4, <1>1
<1>6. SlotAhead(slot, base) = n
  BY <1>1, <1>2, <1>3 DEF SlotAhead, Desc
<1>7. \A k \in Desc : SlotAhead(k, base) = n => k = slot
  BY <1>1, <1>2, <1>3 DEF SlotAhead, Desc
<1>8. \A k \in Desc : SlotAhead(k, base) \in 0 .. NUM - 1
  BY <1>1 DEF SlotAhead, Desc
<1>9. n + 1 < NUM
  <2> SUFFICES ASSUME ~(n + 1 < NUM) PROVE FALSE
    OBVIOUS
  <2>1. n = NUM - 1
    BY <1>2
  <2>2. \A k \in Desc : k # slot => ring[k] # None
    BY <2>1, <1>3, <1>7, <1>8
  <2>3. new \in [Desc -> Desc \ {other}]
    BY <2>2, <1>4
  <2>4. IsFiniteSet(Desc \ {other}) /\ Cardinality(Desc \ {other}) = NUM - 1
    BY DescFinite, FS_RemoveElement
  <2>5. Cardinality(Desc \ {other}) < Cardinality(Desc)
    BY <2>4, DescFinite
  <2>6. \E x, y \in Desc : x # y /\ new[x] = new[y]
    BY <2>3, <2>4, <2>5, DescFinite, FS_PigeonHole
  <2> QED
    BY <2>3, <2>6, <1>5, <1>0
<1>10. WORD >= NUM
  <2>1. WORD = NUM * (WORD \div NUM) /\ WORD \div NUM \in Nat
    BY ModFacts
  <2>2. WORD \div NUM # 0
    BY <2>1
  <2>3. NUM * (WORD \div NUM) >= NUM
    BY <2>1, <2>2
  <2> QED
    BY <2>1, <2>3
<1>11. /\ Inc(hi) \in 0 .. WORD - 1
       /\ Inc(hi) = IF hi = WORD - 1 THEN 0 ELSE hi + 1
       /\ Inc(hi) % NUM = IF slot = NUM - 1 THEN 0 ELSE slot + 1
  BY IncSlot DEF slot
<1>12. Ahead(Inc(hi), lo) = n + 1
  BY <1>9, <1>10, <1>11, <1>2 DEF Ahead, n
<1>13. Inc(hi) % NUM = IF base + (n + 1) < NUM THEN base + (n + 1) ELSE base + (n + 1) - NUM
  BY <1>11, <1>3, <1>1, <1>2, <1>9 DEF Desc
<1>14. \A k \in Desc : new[k] # None <=> SlotAhead(k, base) < n + 1
  BY <1>1, <1>2, <1>3, <1>4, <1>6, <1>7, <1>8
<1> QED
  BY <1>5, <1>9, <1>12, <1>13, <1>14 DEF RingInv, new, slot, base

LEMMA RingTake ==
    ASSUME NEW ring \in [Desc -> Desc \cup {None}],
           NEW lo \in 0 .. WORD - 1, NEW hi \in 0 .. WORD - 1,
           RingInv(ring, lo, hi), lo # hi
    PROVE  /\ ring[lo % NUM] \in Desc
           /\ RingInv([ring EXCEPT ![lo % NUM] = None], Inc(lo), hi)
<1> USE VirtioAssumption
<1> DEFINE base == lo % NUM
           n == Ahead(hi, lo)
           new == [ring EXCEPT ![base] = None]
           next == Inc(lo) % NUM
<1>1. base \in Desc
  BY IncSlot DEF Desc
<1>2. n \in 1 .. NUM - 1
  BY DEF RingInv, Ahead
<1>3. /\ hi % NUM = IF base + n < NUM THEN base + n ELSE base + n - NUM
      /\ \A k \in Desc : ring[k] # None <=> SlotAhead(k, base) < n
      /\ \A j, k \in Desc : ring[j] # None /\ ring[j] = ring[k] => j = k
  BY DEF RingInv
<1>4. \A k \in Desc : new[k] = IF k = base THEN None ELSE ring[k]
  BY <1>1
<1>5. /\ Inc(lo) \in 0 .. WORD - 1
      /\ Inc(lo) = IF lo = WORD - 1 THEN 0 ELSE lo + 1
      /\ next = IF base = NUM - 1 THEN 0 ELSE base + 1
      /\ next \in Desc
  BY IncSlot, <1>1 DEF Desc
<1> HIDE DEF new, base, next, n
<1>6. SlotAhead(base, base) = 0
  BY <1>1 DEF SlotAhead, Desc
<1>7. ring[base] \in Desc
  BY <1>1, <1>2, <1>3, <1>6
<1>8. Ahead(hi, Inc(lo)) = n - 1
  BY <1>5, <1>2 DEF Ahead, n
<1>9. hi % NUM = IF next + (n - 1) < NUM THEN next + (n - 1) ELSE next + (n - 1) - NUM
  BY <1>1, <1>2, <1>3, <1>5 DEF Desc
<1>10. \A k \in Desc : SlotAhead(k, next) =
           IF k = base THEN NUM - 1 ELSE SlotAhead(k, base) - 1
  BY <1>1, <1>5 DEF SlotAhead, Desc
<1>11. \A k \in Desc : SlotAhead(k, base) \in 0 .. NUM - 1
  BY <1>1 DEF SlotAhead, Desc
<1>12. \A k \in Desc : new[k] # None <=> SlotAhead(k, next) < n - 1
  BY <1>1, <1>2, <1>3, <1>4, <1>10, <1>11
<1>13. \A j, k \in Desc : new[j] # None /\ new[j] = new[k] => j = k
  BY <1>3, <1>4
<1>14. n - 1 < NUM
  BY <1>2
<1> QED
  BY <1>7, <1>8, <1>9, <1>12, <1>13, <1>14 DEF RingInv, new, base, next
-----------------------------------------------------------------------------
(* Calls and their requests.                                               *)

LEMMA CallFacts ==
    ASSUME NEW c \in Calls
    PROVE  /\ c # None /\ c.op \in {"read", "write"} /\ c.blk \in Sectors
           /\ c.op = "write" => c.val \in Values
BY CallAssumption DEF Calls

LEMMA Numbers == None \notin Desc /\ None \notin Procs /\ None \notin Values
BY VirtioAssumption DEF Desc

\* The descriptors of a call, and the chain from its first one.
LEMMA ChainIs ==
    ASSUME IndInv, NEW p \in Procs, Active(p)
    PROVE  /\ idx[p][1] \in Desc /\ idx[p][2] \in Desc /\ idx[p][3] \in Desc
           /\ idx[p][1] # idx[p][2] /\ idx[p][1] # idx[p][3] /\ idx[p][2] # idx[p][3]
           /\ Chain(idx[p][1]) = {idx[p][1], idx[p][2], idx[p][3]}
<1>1. /\ idx[p] \in [1 .. 3 -> Desc]
      /\ desc[idx[p][1]].more /\ desc[idx[p][1]].next = idx[p][2]
      /\ desc[idx[p][2]].more /\ desc[idx[p][2]].next = idx[p][3]
  BY DEF IndInv, CallInv, Linked
<1>2. 1 \in 1 .. 3 /\ 2 \in 1 .. 3 /\ 3 \in 1 .. 3 /\ 1 # 2 /\ 1 # 3 /\ 2 # 3
  OBVIOUS
<1>3. idx[p][1] # idx[p][2] /\ idx[p][1] # idx[p][3] /\ idx[p][2] # idx[p][3]
  BY <1>2 DEF IndInv, OwnInv
<1> QED
  BY <1>1, <1>2, <1>3 DEF Chain

\* A request that is waited for is of one process, and it is no descriptor of
\* another.
LEMMA WaitedFacts ==
    ASSUME IndInv, NEW h, Waited(h)
    PROVE  \E p \in Procs :
             /\ pc[p] = "wait" /\ Active(p) /\ idx[p][1] = h /\ h \in Desc /\ ~free[h]
             /\ info[h].data = p /\ ops[h] = call[p] /\ call[p] \in Calls
             /\ idx[p][2] \in Desc /\ idx[p][2] # h /\ ~Waited(idx[p][2])
             /\ desc[desc[h].next].addr = p
             /\ \A q \in Procs : Active(q) /\ q # p => \A n \in 1 .. 3 : idx[q][n] # h
<1>1. PICK p \in Procs : pc[p] = "wait" /\ idx[p][1] = h
  BY DEF Waited
<1>2. Active(p) /\ 1 \in 1 .. 3 /\ 2 \in 1 .. 3 /\ 1 # 2
  BY <1>1 DEF Active
<1>3. h \in Desc /\ idx[p][2] \in Desc /\ idx[p][2] # h
  BY <1>1, <1>2, ChainIs
<1>4. /\ ~free[h] /\ info[h].data = p /\ ops[h] = call[p] /\ call[p] \in Calls
      /\ desc[desc[h].next].addr = p
  BY <1>1, <1>2 DEF IndInv, CallInv, Linked, OwnInv
<1>5. \A q \in Procs : Active(q) /\ q # p => \A n \in 1 .. 3 : idx[q][n] # h
  BY <1>1, <1>2 DEF IndInv, OwnInv
<1>6. ~Waited(idx[p][2])
  <2> SUFFICES ASSUME NEW q \in Procs, pc[q] = "wait", idx[q][1] = idx[p][2] PROVE FALSE
    BY DEF Waited
  <2>1. Active(q)
    BY DEF Active
  <2> QED
    BY <1>2, <2>1 DEF IndInv, OwnInv
<1> QED
  BY <1>1, <1>2, <1>3, <1>4, <1>5, <1>6

LEMMA FreeCount == Cardinality(FreeDescs) \in Nat
<1>1. FreeDescs \in SUBSET Desc
  BY DEF FreeDescs
<1> QED
  BY <1>1, DescFinite, FS_Subset, FS_CardinalityType

-----------------------------------------------------------------------------
(* The invariant, action by action.                                        *)

LEMMA InitInv == Init => IndInv
<1> SUFFICES ASSUME Init PROVE IndInv
  OBVIOUS
<1> USE VirtioAssumption
<1>1. 0 \in Desc /\ 0 \in 0 .. WORD - 1 /\ 0 % NUM = 0
  BY DEF Desc
<1>2. TypeOK
  BY <1>1 DEF Init, TypeOK, Blank, Pcs
<1>3. CallInv /\ OwnInv /\ MemInv /\ NoLostWakeup
  BY DEF Init, CallInv, OwnInv, MemInv, NoLostWakeup, Active
<1>4. HeadInv
  BY DEF Init, HeadInv
<1>5. RingInv([i \in Desc |-> None], 0, 0)
  BY <1>1 DEF RingInv, Ahead, SlotAhead, Desc
<1>6. RingsInv
  BY <1>5 DEF Init, RingsInv
<1> QED
  BY <1>2, <1>3, <1>4, <1>6 DEF IndInv

LEMMA StartStep ==
    ASSUME IndInv, NEW p \in Procs, NEW c \in Calls, Start(p, c)
    PROVE  IndInv'
<1> USE DEF driverVars, deviceVars, procVars
<1>1. /\ \A q \in Procs : pc'[q] = IF q = p THEN "alloc" ELSE pc[q]
      /\ \A q \in Procs : call'[q] = IF q = p THEN c ELSE call[q]
      /\ \A q \in Procs : q # p => mem'[q] = mem[q]
      /\ c.op = "write" => mem'[p] = c.val
      /\ pc[p] = "idle"
  BY DEF Start, IndInv, TypeOK
<1>2. \A q \in Procs : Active(q)' <=> Active(q)
  BY <1>1 DEF Active
<1>3. \A h : Waited(h)' <=> Waited(h)
  BY <1>1 DEF Waited, Start
<1>4. TypeOK'
  BY CallFacts DEF Start, IndInv, TypeOK, Pcs
<1>5. CallInv'
  <2>1. \A q \in Procs : Active(q) => q # p /\ (Linked(q) => Linked(q)')
    BY <1>1 DEF Start, Active, Linked
  <2> QED
    BY <2>1, <1>1, <1>2, CallFacts DEF IndInv, CallInv
<1>6. OwnInv'
  BY <1>2 DEF Start, IndInv, OwnInv
<1>7. HeadInv'
  BY <1>1, <1>3 DEF Start, IndInv, HeadInv
<1>8. RingsInv'
  BY DEF Start, IndInv, RingsInv
<1>9. MemInv'
  BY <1>1, <1>2 DEF Start, IndInv, MemInv, Active
<1>10. NoLostWakeup'
  BY <1>1 DEF Start, IndInv, NoLostWakeup, FreeDescs
<1> QED
  BY <1>4, <1>5, <1>6, <1>7, <1>8, <1>9, <1>10 DEF IndInv

LEMMA SubmitStep ==
    ASSUME IndInv, NEW p \in Procs, Submit(p)
    PROVE  IndInv'
<1> USE DEF driverVars, deviceVars, procVars
<1>0. PICK a, b, c, i : /\ a = NthFree(1) /\ b = NthFree(2) /\ c = NthFree(3)
                        /\ i = [n \in 1 .. 3 |-> NthFree(n)]
  OBVIOUS
<1>1. /\ a \in Desc /\ b \in Desc /\ c \in Desc
      /\ a # b /\ a # c /\ b # c /\ free[a] /\ free[b] /\ free[c]
  BY <1>0, ThreeFree DEF Submit, IndInv, TypeOK
<1>2. i \in [1 .. 3 -> Desc] /\ i[1] = a /\ i[2] = b /\ i[3] = c
      /\ \A n \in 1 .. 3 : i[n] \in {a, b, c}
  <2>1. \A n \in 1 .. 3 : n = 1 \/ n = 2 \/ n = 3
    OBVIOUS
  <2> QED
    BY <1>0, <1>1, <2>1
<1>3. /\ pc[p] = "alloc" /\ Cardinality(FreeDescs) >= 3
      /\ free' = [free EXCEPT ![a] = FALSE, ![b] = FALSE, ![c] = FALSE]
      /\ ops' = [ops EXCEPT ![a] = call[p]]
      /\ desc' = [desc EXCEPT
             ![a] = [addr |-> "op", more |-> TRUE, next |-> b],
             ![b] = [addr |-> p, more |-> TRUE, next |-> c],
             ![c] = [addr |-> "status", more |-> FALSE, next |-> 0]]
      /\ info' = [info EXCEPT ![a] = [data |-> p, finish |-> FALSE, status |-> "none"]]
      /\ avail' = [avail EXCEPT ![availIdx % NUM] = a]
      /\ idx' = [idx EXCEPT ![p] = i]
      /\ availIdx' = Inc(availIdx) /\ pc' = [pc EXCEPT ![p] = "wait"]
      /\ UNCHANGED <<deviceVars, used_idx, intr, call, mem>>
  BY <1>0, <1>2 DEF Submit
<1>4. /\ \A q \in Procs : pc'[q] = IF q = p THEN "wait" ELSE pc[q]
      /\ \A q \in Procs : idx'[q] = IF q = p THEN i ELSE idx[q]
      /\ \A j \in Desc : free'[j] <=> free[j] /\ j \notin {a, b, c}
      /\ \A j \in Desc : j # a => ops'[j] = ops[j] /\ info'[j] = info[j]
      /\ \A j \in Desc : j \notin {a, b, c} => desc'[j] = desc[j]
      /\ ops'[a] = call[p]
      /\ info'[a] = [data |-> p, finish |-> FALSE, status |-> "none"]
      /\ desc'[a] = [addr |-> "op", more |-> TRUE, next |-> b]
      /\ desc'[b] = [addr |-> p, more |-> TRUE, next |-> c]
      /\ desc'[c] = [addr |-> "status", more |-> FALSE, next |-> 0]
  BY <1>1, <1>3 DEF IndInv, TypeOK
<1>5. \A q \in Procs : Active(q)' <=> Active(q) \/ q = p
  BY <1>4 DEF Active
<1>6. \A q \in Procs : Active(q) => q # p /\ \A n \in 1 .. 3 :
          idx[q][n] \in Desc /\ idx[q][n] \notin {a, b, c} /\ idx'[q][n] = idx[q][n]
  BY <1>1, <1>3, <1>4 DEF IndInv, CallInv, Linked, OwnInv, Active
<1>7. \A h : Waited(h) => h \in Desc /\ h \notin {a, b, c} /\ Waited(h)'
  <2> SUFFICES ASSUME NEW h, NEW q \in Procs, pc[q] = "wait", idx[q][1] = h
               PROVE  h \in Desc /\ h \notin {a, b, c} /\ Waited(h)'
    BY DEF Waited
  <2>1. Active(q) /\ 1 \in 1 .. 3
    BY DEF Active
  <2> QED
    BY <2>1, <1>4, <1>6 DEF Waited
<1>8. Waited(a)' /\ info'[a].status = "none"
  BY <1>2, <1>4 DEF Waited
<1>9. availIdx \in 0 .. WORD - 1 /\ availIdx % NUM \in Desc
      /\ Inc(availIdx) \in 0 .. WORD - 1
  BY IncSlot DEF IndInv, TypeOK
<1>10. TypeOK'
  <2>1. desc' \in [Desc -> [addr : Procs \cup {"op", "status"} \cup {None},
                            more : BOOLEAN, next : Desc]]
    <3>1. 0 \in Desc
      BY VirtioAssumption DEF Desc
    <3> QED
      BY <3>1, <1>1, <1>3 DEF IndInv, TypeOK
  <2>2. free' \in [Desc -> BOOLEAN] /\ ops' \in [Desc -> Calls \cup {None}]
    BY <1>1, <1>3 DEF IndInv, TypeOK
  <2>3. info' \in [Desc -> [data : Procs \cup {None}, finish : BOOLEAN,
                            status : {"ok", "none"}]]
    BY <1>1, <1>3 DEF IndInv, TypeOK
  <2>4. avail' \in [Desc -> Desc \cup {None}] /\ availIdx' \in 0 .. WORD - 1
    BY <1>1, <1>3, <1>9 DEF IndInv, TypeOK
  <2>5. idx' \in [Procs -> [1 .. 3 -> Desc] \cup {None}] /\ pc' \in [Procs -> Pcs]
    BY <1>2, <1>3 DEF IndInv, TypeOK, Pcs
  <2>6. {availIdx', usedIdx', used_idx', devIdx'} \subseteq 0 .. WORD - 1
    BY <2>4, <1>3 DEF IndInv, TypeOK
  <2>7. /\ used' \in [Desc -> Desc \cup {None}] /\ taken' \subseteq Desc
        /\ raise' \in BOOLEAN /\ irq' \in BOOLEAN /\ intr' \in BOOLEAN
        /\ call' \in [Procs -> Calls \cup {None}] /\ mem' \in [Procs -> Values \cup {None}]
        /\ disk' \in [Sectors -> Values]
    BY <1>3 DEF IndInv, TypeOK
  <2> QED
    BY <2>1, <2>2, <2>3, <2>4, <2>5, <2>6, <2>7 DEF TypeOK
<1>11. CallInv'
  <2>1. Linked(p)'
    BY <1>2, <1>3, <1>4 DEF Linked
  <2>2. \A q \in Procs : Active(q) => Linked(q)'
    <3> SUFFICES ASSUME NEW q \in Procs, Active(q) PROVE Linked(q)'
      OBVIOUS
    <3>1. 1 \in 1 .. 3 /\ 2 \in 1 .. 3 /\ 3 \in 1 .. 3 /\ Linked(q)
      BY DEF IndInv, CallInv
    <3>2. idx'[q] = idx[q] /\ call'[q] = call[q]
      BY <1>3, <1>4, <1>6
    <3>3. /\ desc'[idx[q][1]] = desc[idx[q][1]] /\ desc'[idx[q][2]] = desc[idx[q][2]]
          /\ desc'[idx[q][3]] = desc[idx[q][3]]
          /\ ops'[idx[q][1]] = ops[idx[q][1]] /\ info'[idx[q][1]] = info[idx[q][1]]
      BY <3>1, <1>4, <1>6
    <3> QED
      BY <3>1, <3>2, <3>3 DEF Linked
  <2> QED
    BY <2>1, <2>2, <1>3, <1>4, <1>5 DEF IndInv, CallInv
<1>12. OwnInv'
  <2>1. \A q \in Procs : Active(q)' => \A n \in 1 .. 3 : ~free'[idx'[q][n]]
    BY <1>1, <1>2, <1>4, <1>5, <1>6 DEF IndInv, OwnInv
  <2>2. \A m, n \in 1 .. 3 : i[m] = i[n] => m = n
    <3>1. \A n \in 1 .. 3 : n = 1 \/ n = 2 \/ n = 3
      OBVIOUS
    <3> QED
      BY <3>1, <1>1, <1>2
  <2>3. \A q, r \in Procs : Active(q)' /\ Active(r)' =>
            \A m, n \in 1 .. 3 : idx'[q][m] = idx'[r][n] => q = r /\ m = n
    BY <2>2, <1>2, <1>4, <1>5, <1>6 DEF IndInv, OwnInv
  <2>4. \A j \in Desc : free'[j] \/ \E q \in Procs :
            Active(q)' /\ \E n \in 1 .. 3 : idx'[q][n] = j
    <3> SUFFICES ASSUME NEW j \in Desc, ~free'[j]
                 PROVE  \E q \in Procs : Active(q)' /\ \E n \in 1 .. 3 : idx'[q][n] = j
      OBVIOUS
    <3>1. CASE j \in {a, b, c}
      <4>1. \E n \in 1 .. 3 : i[n] = j
        BY <3>1, <1>2
      <4> QED
        BY <4>1, <1>4, <1>5
    <3>2. CASE j \notin {a, b, c}
      <4>1. PICK q \in Procs : Active(q) /\ \E n \in 1 .. 3 : idx[q][n] = j
        BY <3>2, <1>4 DEF IndInv, OwnInv
      <4> QED
        BY <4>1, <1>5, <1>6
    <3> QED
      BY <3>1, <3>2
  <2> QED
    BY <2>1, <2>3, <2>4 DEF OwnInv
<1>13. HeadInv'
  <2>1. \A h : Waited(h) => info'[h] = info[h]
    BY <1>4, <1>7
  <2>2. a \notin taken
    BY <1>7 DEF IndInv, HeadInv
  <2>3. \A k \in Desc : avail'[k] = IF k = availIdx % NUM THEN a ELSE avail[k]
    BY <1>3, <1>9 DEF IndInv, TypeOK
  <2>4. \A h : \A k \in Desc : avail'[k] = h /\ h # None =>
            Waited(h)' /\ h \notin taken' /\ info'[h].status = "none"
    BY <2>1, <2>2, <2>3, <1>3, <1>7, <1>8 DEF IndInv, HeadInv
  <2>5. \A h \in taken' : Waited(h)' /\ info'[h].status = "none"
    BY <2>1, <1>3, <1>7 DEF IndInv, HeadInv
  <2>6. \A h : \A k \in Desc : used'[k] = h /\ h # None =>
            Waited(h)' /\ info'[h].status = "ok"
    BY <2>1, <1>3, <1>7 DEF IndInv, HeadInv
  <2>7. \A q \in Procs : pc'[q] = "check" => info'[idx'[q][1]].status = "ok"
    <3> SUFFICES ASSUME NEW q \in Procs, pc'[q] = "check"
                 PROVE  info'[idx'[q][1]].status = "ok"
      OBVIOUS
    <3>1. Active(q) /\ pc[q] = "check" /\ 1 \in 1 .. 3
      BY <1>4 DEF Active
    <3> QED
      BY <3>1, <1>4, <1>6 DEF IndInv, HeadInv
  <2> QED
    BY <2>4, <2>5, <2>6, <2>7 DEF HeadInv, Waited
<1>14. RingsInv'
  <2>1. \A k \in Desc : avail[k] # a /\ avail[k] # b
    <3>1. \A k \in Desc : avail[k] # None => avail[k] \notin {a, b, c}
      BY <1>7 DEF IndInv, HeadInv
    <3> QED
      BY <3>1, <1>1, Numbers
  <2>2. RingInv([avail EXCEPT ![availIdx % NUM] = a], devIdx, Inc(availIdx))
    BY <2>1, <1>1, RingPut DEF IndInv, TypeOK, RingsInv
  <2> QED
    BY <2>2, <1>3 DEF IndInv, RingsInv
<1>15. MemInv'
  <2>1. info'[a].status # "ok" /\ 1 \in 1 .. 3
    BY <1>8
  <2> QED
    BY <2>1, <1>2, <1>3, <1>4, <1>5, <1>6 DEF IndInv, MemInv
<1>16. NoLostWakeup'
  <2>1. \A q \in Procs : pc[q] # "full"
    BY <1>3, FreeCount DEF IndInv, NoLostWakeup
  <2>2. \A q \in Procs : pc'[q] \in {"wait", "check"} /\ q # p =>
            Active(q) /\ info'[idx'[q][1]] = info[idx[q][1]]
    <3>1. 1 \in 1 .. 3
      OBVIOUS
    <3> QED
      BY <3>1, <1>4, <1>6 DEF Active
  <2>3. info'[a].finish = FALSE
    BY <1>4
  <2> QED
    BY <2>1, <2>2, <2>3, <1>2, <1>4 DEF IndInv, NoLostWakeup
<1> QED
  BY <1>10, <1>11, <1>12, <1>13, <1>14, <1>15, <1>16 DEF IndInv

LEMMA NoDescsStep ==
    ASSUME IndInv, NEW p \in Procs, NoDescs(p)
    PROVE  IndInv'
<1> USE DEF driverVars, deviceVars, procVars
<1>1. /\ \A q \in Procs : pc'[q] = IF q = p THEN "full"
                                   ELSE IF pc[q] = "full" /\ FreeDescs # {}
                                   THEN "alloc" ELSE pc[q]
      /\ pc[p] = "alloc" /\ Cardinality(FreeDescs) < 3
  BY DEF NoDescs, IndInv, TypeOK
<1>2. \A q \in Procs : /\ Active(q)' <=> Active(q)
                       /\ pc'[q] = "idle" <=> pc[q] = "idle"
                       /\ pc'[q] = "check" <=> pc[q] = "check"
                       /\ pc'[q] = "wait" <=> pc[q] = "wait"
                       /\ pc'[q] = "full" => q = p \/ pc[q] = "full"
  BY <1>1 DEF Active
<1>3. \A h : Waited(h)' <=> Waited(h)
  BY <1>2 DEF Waited, NoDescs
<1>4. TypeOK'
  <2>1. pc' \in [Procs -> Pcs]
    BY DEF NoDescs, IndInv, TypeOK, Pcs
  <2> QED
    BY <2>1 DEF NoDescs, IndInv, TypeOK
<1>5. CallInv'
  <2>1. \A q \in Procs : Linked(q)' <=> Linked(q)
    BY DEF NoDescs, Linked
  <2> QED
    BY <2>1, <1>2 DEF NoDescs, IndInv, CallInv
<1>6. OwnInv'
  BY <1>2 DEF NoDescs, IndInv, OwnInv
<1>7. HeadInv'
  BY <1>2, <1>3 DEF NoDescs, IndInv, HeadInv
<1>8. RingsInv'
  BY DEF NoDescs, IndInv, RingsInv
<1>9. MemInv'
  BY <1>2 DEF NoDescs, IndInv, MemInv
<1>10. NoLostWakeup'
  BY <1>1, <1>2 DEF NoDescs, IndInv, NoLostWakeup, FreeDescs
<1> QED
  BY <1>4, <1>5, <1>6, <1>7, <1>8, <1>9, <1>10 DEF IndInv

LEMMA FinishStep ==
    ASSUME IndInv, NEW p \in Procs, Finish(p)
    PROVE  IndInv'
<1> USE DEF driverVars, deviceVars, procVars
<1>0. PICK a, b, c : a = idx[p][1] /\ b = idx[p][2] /\ c = idx[p][3]
  OBVIOUS
<1>1. /\ Active(p) /\ pc[p] = "check"
      /\ a \in Desc /\ b \in Desc /\ c \in Desc /\ a # b /\ a # c /\ b # c
      /\ Chain(idx[p][1]) = {a, b, c}
  BY <1>0, ChainIs DEF Finish, Active
<1>2. \A n \in 1 .. 3 : n = 1 \/ n = 2 \/ n = 3
  OBVIOUS
<1>3. /\ info' = [info EXCEPT ![a].data = None]
      /\ free' = [i \in Desc |-> free[i] \/ i \in {a, b, c}]
      /\ desc' = [i \in Desc |-> IF i \in {a, b, c} THEN Blank ELSE desc[i]]
      /\ pc' = [q \in Procs |->
             IF q = p THEN "idle" ELSE IF pc[q] = "full" THEN "alloc" ELSE pc[q]]
      /\ call' = [call EXCEPT ![p] = None]
      /\ idx' = [idx EXCEPT ![p] = None]
      /\ mem' = [mem EXCEPT ![p] = None]
      /\ UNCHANGED <<ops, avail, availIdx, deviceVars, used_idx, intr>>
  BY <1>0, <1>1 DEF Finish
<1>4. \A q \in Procs : /\ Active(q)' <=> Active(q) /\ q # p
                       /\ pc'[q] = "idle" <=> q = p \/ pc[q] = "idle"
                       /\ pc'[q] = "check" <=> pc[q] = "check" /\ q # p
                       /\ pc'[q] = "wait" <=> pc[q] = "wait" /\ q # p
                       /\ pc'[q] # "full"
                       /\ q # p => /\ call'[q] = call[q] /\ idx'[q] = idx[q]
                                   /\ mem'[q] = mem[q]
  BY <1>3 DEF Active, IndInv, TypeOK
<1>5. \A j \in Desc : /\ info'[j].status = info[j].status
                      /\ info'[j].finish = info[j].finish
                      /\ j # a => info'[j] = info[j]
                      /\ j \notin {a, b, c} => desc'[j] = desc[j] /\ (free'[j] <=> free[j])
                      /\ ops'[j] = ops[j]
  BY <1>1, <1>3 DEF IndInv, TypeOK
<1>6. \A q \in Procs : Active(q) /\ q # p => \A n \in 1 .. 3 :
          idx[q][n] \in Desc /\ idx[q][n] \notin {a, b, c}
  <2> SUFFICES ASSUME NEW q \in Procs, Active(q), q # p, NEW n \in 1 .. 3
               PROVE  idx[q][n] \in Desc /\ idx[q][n] \notin {a, b, c}
    OBVIOUS
  <2>1. idx[q][n] \in Desc
    BY DEF IndInv, CallInv, Linked
  <2>2. 1 \in 1 .. 3 /\ 2 \in 1 .. 3 /\ 3 \in 1 .. 3
    OBVIOUS
  <2>3. \A m \in 1 .. 3 : idx[q][n] # idx[p][m]
    BY <1>1 DEF IndInv, OwnInv
  <2> QED
    BY <2>1, <2>2, <2>3, <1>0
<1>7. \A h : Waited(h) => Waited(h)' /\ h \in Desc
  <2> SUFFICES ASSUME NEW h, NEW q \in Procs, pc[q] = "wait", idx[q][1] = h
               PROVE  Waited(h)' /\ h \in Desc
    BY DEF Waited
  <2>1. Active(q) /\ 1 \in 1 .. 3 /\ q # p
    BY <1>1 DEF Active
  <2> QED
    BY <2>1, <1>4, <1>6 DEF Waited
<1>8. TypeOK'
  <2>1. desc' \in [Desc -> [addr : Procs \cup {"op", "status"} \cup {None},
                            more : BOOLEAN, next : Desc]]
    <3>1. 0 \in Desc
      BY VirtioAssumption DEF Desc
    <3> QED
      BY <3>1, <1>1, <1>3 DEF IndInv, TypeOK, Blank
  <2>2. free' \in [Desc -> BOOLEAN]
    BY <1>3 DEF IndInv, TypeOK
  <2>3. info' \in [Desc -> [data : Procs \cup {None}, finish : BOOLEAN,
                            status : {"ok", "none"}]]
    BY <1>1, <1>3 DEF IndInv, TypeOK
  <2>4. /\ idx' \in [Procs -> [1 .. 3 -> Desc] \cup {None}]
        /\ mem' \in [Procs -> Values \cup {None}]
        /\ call' \in [Procs -> Calls \cup {None}]
    BY <1>3 DEF IndInv, TypeOK
  <2>5. pc' \in [Procs -> Pcs]
    BY <1>3 DEF IndInv, TypeOK, Pcs
  <2> QED
    BY <2>1, <2>2, <2>3, <2>4, <2>5, <1>3 DEF IndInv, TypeOK
<1>9. CallInv'
  <2>1. \A q \in Procs : Active(q) /\ q # p => Linked(q)'
    <3> SUFFICES ASSUME NEW q \in Procs, Active(q), q # p PROVE Linked(q)'
      OBVIOUS
    <3>1. 1 \in 1 .. 3 /\ 2 \in 1 .. 3 /\ 3 \in 1 .. 3 /\ Linked(q)
      BY DEF IndInv, CallInv
    <3>2. /\ desc'[idx[q][1]] = desc[idx[q][1]] /\ desc'[idx[q][2]] = desc[idx[q][2]]
          /\ desc'[idx[q][3]] = desc[idx[q][3]]
          /\ ops'[idx[q][1]] = ops[idx[q][1]] /\ info'[idx[q][1]] = info[idx[q][1]]
      BY <3>1, <1>5, <1>6
    <3> QED
      BY <3>1, <3>2, <1>4 DEF Linked
  <2>2. call'[p] = None
    BY <1>3 DEF IndInv, TypeOK
  <2> QED
    BY <2>1, <2>2, <1>4 DEF IndInv, CallInv
<1>10. OwnInv'
  <2>1. \A q \in Procs : Active(q)' => \A n \in 1 .. 3 : ~free'[idx'[q][n]]
    BY <1>4, <1>5, <1>6 DEF IndInv, OwnInv
  <2>2. \A q, r \in Procs : Active(q)' /\ Active(r)' =>
            \A m, n \in 1 .. 3 : idx'[q][m] = idx'[r][n] => q = r /\ m = n
    BY <1>4 DEF IndInv, OwnInv
  <2>3. \A j \in Desc : free'[j] \/ \E q \in Procs :
            Active(q)' /\ \E n \in 1 .. 3 : idx'[q][n] = j
    <3> SUFFICES ASSUME NEW j \in Desc, ~free'[j]
                 PROVE  \E q \in Procs : Active(q)' /\ \E n \in 1 .. 3 : idx'[q][n] = j
      OBVIOUS
    <3>1. j \notin {a, b, c} /\ ~free[j]
      BY <1>3
    <3>2. PICK q \in Procs : Active(q) /\ \E n \in 1 .. 3 : idx[q][n] = j
      BY <3>1 DEF IndInv, OwnInv
    <3>3. q # p
      BY <3>1, <3>2, <1>0, <1>2
    <3> QED
      BY <3>2, <3>3, <1>4
  <2> QED
    BY <2>1, <2>2, <2>3 DEF OwnInv
<1>11. HeadInv'
  <2>4. \A h : \A k \in Desc : avail'[k] = h /\ h # None =>
            Waited(h)' /\ h \notin taken' /\ info'[h].status = "none"
    BY <1>3, <1>5, <1>7 DEF IndInv, HeadInv
  <2>5. \A h \in taken' : Waited(h)' /\ info'[h].status = "none"
    BY <1>3, <1>5, <1>7 DEF IndInv, HeadInv
  <2>6. \A h : \A k \in Desc : used'[k] = h /\ h # None =>
            Waited(h)' /\ info'[h].status = "ok"
    BY <1>3, <1>5, <1>7 DEF IndInv, HeadInv
  <2>7. \A q \in Procs : pc'[q] = "check" => info'[idx'[q][1]].status = "ok"
    <3>1. 1 \in 1 .. 3
      OBVIOUS
    <3> QED
      BY <3>1, <1>4, <1>5, <1>6 DEF IndInv, HeadInv, Active
  <2> QED
    BY <2>4, <2>5, <2>6, <2>7 DEF HeadInv, Waited
<1>12. RingsInv'
  BY <1>3 DEF IndInv, RingsInv
<1>13. MemInv'
  <2>1. 1 \in 1 .. 3
    OBVIOUS
  <2> QED
    BY <2>1, <1>4, <1>5, <1>6 DEF IndInv, MemInv
<1>14. NoLostWakeup'
  <2>1. 1 \in 1 .. 3
    OBVIOUS
  <2> QED
    BY <2>1, <1>4, <1>5, <1>6 DEF IndInv, NoLostWakeup, Active
<1> QED
  BY <1>8, <1>9, <1>10, <1>11, <1>12, <1>13, <1>14 DEF IndInv

\* Steps that change nothing the invariant looks at.
LEMMA QuietStep ==
    ASSUME IndInv, UNCHANGED <<driverVars, procVars, mem, disk, used, usedIdx, used_idx,
                               devIdx, taken>>,
           raise' \in BOOLEAN, irq' \in BOOLEAN, intr' \in BOOLEAN
    PROVE  IndInv'
<1> USE DEF driverVars, procVars
<1>1. TypeOK'
  BY DEF IndInv, TypeOK
<1>2. CallInv' /\ OwnInv' /\ MemInv'
  BY DEF IndInv, CallInv, OwnInv, MemInv, Active, Linked
<1>3. HeadInv'
  BY DEF IndInv, HeadInv, Waited
<1>4. RingsInv'
  BY DEF IndInv, RingsInv
<1>5. NoLostWakeup'
  BY DEF IndInv, NoLostWakeup, FreeDescs
<1> QED
  BY <1>1, <1>2, <1>3, <1>4, <1>5 DEF IndInv

LEMMA IntrStepStep ==
    ASSUME IndInv, IntrStep
    PROVE  IndInv'
<1> USE DEF driverVars, deviceVars, procVars
<1>0. PICK h : h = used[used_idx % NUM]
  OBVIOUS
<1>1. /\ h \in Desc /\ used_idx \in 0 .. WORD - 1 /\ used_idx % NUM \in Desc
      /\ Inc(used_idx) \in 0 .. WORD - 1
      /\ RingInv([used EXCEPT ![used_idx % NUM] = None], Inc(used_idx), usedIdx)
  <2>1. used_idx \in 0 .. WORD - 1 /\ usedIdx \in 0 .. WORD - 1
        /\ used \in [Desc -> Desc \cup {None}]
    BY DEF IndInv, TypeOK
  <2> QED
    BY <2>1, <1>0, RingTake, IncSlot DEF IndInv, RingsInv, IntrStep
<1>2. Waited(h) /\ info[h].status = "ok"
  BY <1>0, <1>1, Numbers DEF IndInv, HeadInv
<1>3. PICK p \in Procs :
          /\ pc[p] = "wait" /\ Active(p) /\ idx[p][1] = h /\ info[h].data = p
          /\ \A q \in Procs : Active(q) /\ q # p => \A n \in 1 .. 3 : idx[q][n] # h
  BY <1>2, WaitedFacts
<1>4. /\ info' = [info EXCEPT ![h].finish = TRUE]
      /\ pc' = [q \in Procs |-> IF q = p THEN "check" ELSE pc[q]]
      /\ used' = [used EXCEPT ![used_idx % NUM] = None]
      /\ used_idx' = Inc(used_idx)
      /\ UNCHANGED <<free, desc, ops, avail, availIdx, usedIdx, devIdx, taken, raise,
                     irq, disk, intr, call, idx, mem>>
  <2>1. pc' = [q \in Procs |-> IF pc[q] = "wait" /\ info[h].data = q THEN "check" ELSE pc[q]]
    BY <1>0 DEF IntrStep
  <2> QED
    BY <2>1, <1>0, <1>3 DEF IntrStep
<1>5. \A q \in Procs : /\ Active(q)' <=> Active(q)
                       /\ pc'[q] = "idle" <=> pc[q] = "idle"
                       /\ pc'[q] = "full" <=> pc[q] = "full"
                       /\ pc'[q] = "check" <=> q = p \/ pc[q] = "check"
                       /\ pc'[q] = "wait" <=> q # p /\ pc[q] = "wait"
  BY <1>3, <1>4 DEF Active
<1>6. \A j \in Desc : /\ info'[j].status = info[j].status /\ info'[j].data = info[j].data
                      /\ j # h => info'[j].finish = info[j].finish
                      /\ j = h => info'[j].finish
  BY <1>1, <1>4 DEF IndInv, TypeOK
<1>7. \A q \in Procs : Active(q) => idx[q][1] \in Desc
  BY ChainIs
<1>8. \A g : Waited(g) => g \in Desc /\ (g # h => Waited(g)')
  <2> SUFFICES ASSUME NEW g, NEW q \in Procs, pc[q] = "wait", idx[q][1] = g
               PROVE  g \in Desc /\ (g # h => Waited(g)')
    BY DEF Waited
  <2>1. Active(q)
    BY DEF Active
  <2>2. g # h => q # p
    BY <1>3
  <2> QED
    BY <2>1, <2>2, <1>4, <1>5, <1>7 DEF Waited
<1>9. TypeOK'
  <2>1. info' \in [Desc -> [data : Procs \cup {None}, finish : BOOLEAN,
                            status : {"ok", "none"}]]
    BY <1>1, <1>4 DEF IndInv, TypeOK
  <2>2. pc' \in [Procs -> Pcs]
    BY <1>4 DEF IndInv, TypeOK, Pcs
  <2>3. used' \in [Desc -> Desc \cup {None}] /\ used_idx' \in 0 .. WORD - 1
    BY <1>1, <1>4 DEF IndInv, TypeOK
  <2> QED
    BY <2>1, <2>2, <2>3, <1>4 DEF IndInv, TypeOK
<1>10. CallInv'
  <2>1. \A q \in Procs : Active(q) => Linked(q)'
    BY <1>4, <1>6, <1>7 DEF IndInv, CallInv, Linked
  <2> QED
    BY <2>1, <1>4, <1>5 DEF IndInv, CallInv
<1>11. OwnInv'
  BY <1>4, <1>5 DEF IndInv, OwnInv
<1>12. HeadInv'
  <2>1. \A k \in Desc : used'[k] = IF k = used_idx % NUM THEN None ELSE used[k]
    BY <1>1, <1>4 DEF IndInv, TypeOK
  <2>2. \A k \in Desc : used'[k] # None => used[k] # h /\ used'[k] = used[k]
    BY <2>1, <1>0, <1>1, Numbers DEF IndInv, RingsInv, RingInv
  <2>4. \A g : \A k \in Desc : avail'[k] = g /\ g # None =>
            Waited(g)' /\ g \notin taken' /\ info'[g].status = "none"
    BY <1>2, <1>4, <1>6, <1>8 DEF IndInv, HeadInv
  <2>5. \A g \in taken' : Waited(g)' /\ info'[g].status = "none"
    BY <1>2, <1>4, <1>6, <1>8 DEF IndInv, HeadInv
  <2>6. \A g : \A k \in Desc : used'[k] = g /\ g # None =>
            Waited(g)' /\ info'[g].status = "ok"
    BY <2>2, <1>6, <1>8 DEF IndInv, HeadInv
  <2>7. \A q \in Procs : pc'[q] = "check" => info'[idx'[q][1]].status = "ok"
    BY <1>2, <1>3, <1>4, <1>5, <1>6, <1>7 DEF IndInv, HeadInv, Active
  <2> QED
    BY <2>4, <2>5, <2>6, <2>7 DEF HeadInv, Waited
<1>13. RingsInv'
  BY <1>1, <1>4 DEF IndInv, RingsInv
<1>14. MemInv'
  BY <1>4, <1>5, <1>6, <1>7 DEF IndInv, MemInv
<1>15. NoLostWakeup'
  <2>1. \A q \in Procs : Active(q) /\ q # p => idx[q][1] # h
    <3>1. 1 \in 1 .. 3
      OBVIOUS
    <3> QED
      BY <3>1, <1>3
  <2>2. FreeDescs' = FreeDescs
    BY <1>4 DEF FreeDescs
  <2>3. \A q \in Procs : pc'[q] = "wait" => ~info'[idx'[q][1]].finish
    BY <2>1, <1>4, <1>5, <1>6, <1>7 DEF IndInv, NoLostWakeup, Active
  <2>4. \A q \in Procs : pc'[q] = "check" => info'[idx'[q][1]].finish
    <3>1. info'[idx'[p][1]].finish
      BY <1>1, <1>3, <1>4, <1>6
    <3>2. \A q \in Procs : pc[q] = "check" /\ q # p => info'[idx'[q][1]].finish
      BY <2>1, <1>4, <1>6, <1>7 DEF IndInv, NoLostWakeup, Active
    <3> QED
      BY <3>1, <3>2, <1>5
  <2> QED
    BY <2>2, <2>3, <2>4, <1>5 DEF IndInv, NoLostWakeup
<1> QED
  BY <1>9, <1>10, <1>11, <1>12, <1>13, <1>14, <1>15 DEF IndInv

LEMMA DeviceTakeStep ==
    ASSUME IndInv, DeviceTake
    PROVE  IndInv'
<1> USE DEF driverVars, deviceVars, procVars
<1>0. PICK h : h = avail[devIdx % NUM]
  OBVIOUS
<1>1. /\ h \in Desc /\ devIdx \in 0 .. WORD - 1 /\ devIdx % NUM \in Desc
      /\ Inc(devIdx) \in 0 .. WORD - 1
      /\ RingInv([avail EXCEPT ![devIdx % NUM] = None], Inc(devIdx), availIdx)
  <2>1. devIdx \in 0 .. WORD - 1 /\ availIdx \in 0 .. WORD - 1
        /\ avail \in [Desc -> Desc \cup {None}]
    BY DEF IndInv, TypeOK
  <2> QED
    BY <2>1, <1>0, RingTake, IncSlot DEF IndInv, RingsInv, DeviceTake
<1>2. Waited(h) /\ info[h].status = "none"
  BY <1>0, <1>1, Numbers DEF IndInv, HeadInv
<1>3. /\ taken' = taken \cup {h}
      /\ avail' = [avail EXCEPT ![devIdx % NUM] = None]
      /\ devIdx' = Inc(devIdx)
      /\ UNCHANGED <<free, desc, ops, info, availIdx, used, usedIdx, raise, irq, disk,
                     used_idx, intr, procVars, mem>>
  BY <1>0 DEF DeviceTake
<1>4. TypeOK'
  <2>1. taken' \subseteq Desc /\ avail' \in [Desc -> Desc \cup {None}]
        /\ devIdx' \in 0 .. WORD - 1
    BY <1>1, <1>3 DEF IndInv, TypeOK
  <2> QED
    BY <2>1, <1>3 DEF IndInv, TypeOK
<1>5. CallInv' /\ OwnInv' /\ MemInv'
  BY <1>3 DEF IndInv, CallInv, OwnInv, MemInv, Active, Linked
<1>6. HeadInv'
  <2>1. \A k \in Desc : avail'[k] # None => avail[k] # h /\ avail'[k] = avail[k]
    <3>1. \A k \in Desc : avail'[k] = IF k = devIdx % NUM THEN None ELSE avail[k]
      BY <1>1, <1>3 DEF IndInv, TypeOK
    <3> QED
      BY <3>1, <1>0, <1>1, Numbers DEF IndInv, RingsInv, RingInv
  <2>2. \A g : Waited(g)' <=> Waited(g)
    BY <1>3 DEF Waited
  <2>3. \A g : \A k \in Desc : avail'[k] = g /\ g # None =>
            Waited(g)' /\ g \notin taken' /\ info'[g].status = "none"
    BY <2>1, <2>2, <1>3 DEF IndInv, HeadInv
  <2>4. \A g \in taken' : Waited(g)' /\ info'[g].status = "none"
    BY <2>2, <1>2, <1>3 DEF IndInv, HeadInv
  <2>5. \A g : \A k \in Desc : used'[k] = g /\ g # None =>
            Waited(g)' /\ info'[g].status = "ok"
    BY <2>2, <1>3 DEF IndInv, HeadInv
  <2>6. \A q \in Procs : pc'[q] = "check" => info'[idx'[q][1]].status = "ok"
    BY <1>3 DEF IndInv, HeadInv
  <2> QED
    BY <2>3, <2>4, <2>5, <2>6 DEF HeadInv, Waited
<1>7. RingsInv'
  BY <1>1, <1>3 DEF IndInv, RingsInv
<1>8. NoLostWakeup'
  BY <1>3 DEF IndInv, NoLostWakeup, FreeDescs
<1> QED
  BY <1>4, <1>5, <1>6, <1>7, <1>8 DEF IndInv

\* What the device does for the request h of p.
LEMMA ServeFacts ==
    ASSUME IndInv, NEW h \in Desc, DeviceServe(h)
    PROVE  \E p \in Procs :
             /\ pc[p] = "wait" /\ Active(p) /\ idx[p][1] = h /\ info[h].status = "none"
             /\ call[p] \in Calls
             /\ \A q \in Procs : Active(q) /\ q # p => idx[q][1] # h
             /\ IF call[p].op = "write"
                THEN /\ mem[p] = call[p].val /\ mem' = mem
                     /\ disk' = [disk EXCEPT ![call[p].blk] = call[p].val]
                ELSE /\ disk' = disk
                     /\ mem' = [mem EXCEPT ![p] = disk[call[p].blk]]
<1>1. Waited(h) /\ info[h].status = "none"
  BY DEF DeviceServe, IndInv, HeadInv
<1>2. PICK p \in Procs :
          /\ pc[p] = "wait" /\ Active(p) /\ idx[p][1] = h
          /\ ops[h] = call[p] /\ call[p] \in Calls
          /\ desc[desc[h].next].addr = p
          /\ \A q \in Procs : Active(q) /\ q # p => \A n \in 1 .. 3 : idx[q][n] # h
  BY <1>1, WaitedFacts
<1>3. call[p].op = "write" => mem[p] = call[p].val
  BY <1>2 DEF IndInv, MemInv
<1>4. 1 \in 1 .. 3
  OBVIOUS
<1> QED
  BY <1>1, <1>2, <1>3, <1>4 DEF DeviceServe

LEMMA DeviceServeStep ==
    ASSUME IndInv, NEW h \in Desc, DeviceServe(h)
    PROVE  IndInv'
<1> USE DEF driverVars, deviceVars, procVars
<1>1. PICK p \in Procs :
             /\ pc[p] = "wait" /\ Active(p) /\ idx[p][1] = h /\ info[h].status = "none"
             /\ call[p] \in Calls
             /\ \A q \in Procs : Active(q) /\ q # p => idx[q][1] # h
             /\ IF call[p].op = "write"
                THEN /\ mem[p] = call[p].val /\ mem' = mem
                     /\ disk' = [disk EXCEPT ![call[p].blk] = call[p].val]
                ELSE /\ disk' = disk
                     /\ mem' = [mem EXCEPT ![p] = disk[call[p].blk]]
  BY ServeFacts
<1>2. /\ info' = [info EXCEPT ![h].status = "ok"]
      /\ used' = [used EXCEPT ![usedIdx % NUM] = h]
      /\ usedIdx' = Inc(usedIdx)
      /\ taken' = taken \ {h} /\ h \in taken /\ raise' = TRUE
      /\ UNCHANGED <<free, desc, ops, avail, availIdx, devIdx, irq, used_idx, intr, procVars>>
  BY DEF DeviceServe
<1>3. /\ usedIdx \in 0 .. WORD - 1 /\ usedIdx % NUM \in Desc
      /\ Inc(usedIdx) \in 0 .. WORD - 1
  BY IncSlot DEF IndInv, TypeOK
<1>4. \A j \in Desc : /\ info'[j].data = info[j].data /\ info'[j].finish = info[j].finish
                      /\ info'[j].status = IF j = h THEN "ok" ELSE info[j].status
  BY <1>2 DEF IndInv, TypeOK
<1>5. \A q \in Procs : /\ q # p => mem'[q] = mem[q]
                       /\ mem'[q] \in Values \cup {None}
                       /\ call[q].op = "write" /\ q = p => mem'[q] = call[q].val
                       /\ q = p => mem'[q] \in Values
  <2>1. call[p].op = "write" => call[p].val \in Values
    BY <1>1, CallFacts
  <2>2. call[p].blk \in Sectors
    BY <1>1, CallFacts
  <2>3. CASE call[p].op = "write"
    BY <2>1, <2>3, <1>1 DEF IndInv, TypeOK
  <2>4. CASE call[p].op # "write"
    BY <2>2, <2>4, <1>1 DEF IndInv, TypeOK
  <2> QED
    BY <2>3, <2>4
<1>6. \A q \in Procs : Active(q) => idx[q][1] \in Desc
  BY ChainIs
<1>7. \A g : Waited(g)' <=> Waited(g)
  BY <1>2 DEF Waited
<1>8. \A g : Waited(g) => g \in Desc
  BY <1>6 DEF Waited, Active
<1>9. TypeOK'
  <2>1. info' \in [Desc -> [data : Procs \cup {None}, finish : BOOLEAN,
                            status : {"ok", "none"}]]
    BY <1>2 DEF IndInv, TypeOK
  <2>2. used' \in [Desc -> Desc \cup {None}] /\ usedIdx' \in 0 .. WORD - 1
    BY <1>2, <1>3 DEF IndInv, TypeOK
  <2>3. mem' \in [Procs -> Values \cup {None}] /\ disk' \in [Sectors -> Values]
    <3>1. CASE call[p].op = "write"
      <4>1. call[p].val \in Values
        BY <3>1, <1>1, CallFacts
      <4> QED
        BY <4>1, <3>1, <1>1 DEF IndInv, TypeOK
    <3>2. CASE call[p].op # "write"
      <4>1. disk[call[p].blk] \in Values
        BY <1>1, CallFacts DEF IndInv, TypeOK
      <4> QED
        BY <4>1, <3>2, <1>1 DEF IndInv, TypeOK
    <3> QED
      BY <3>1, <3>2
  <2>4. taken' \subseteq Desc /\ raise' \in BOOLEAN
    BY <1>2 DEF IndInv, TypeOK
  <2> QED
    BY <2>1, <2>2, <2>3, <2>4, <1>2 DEF IndInv, TypeOK
<1>10. CallInv'
  <2>1. \A q \in Procs : Active(q) => Linked(q)'
    BY <1>2, <1>4, <1>6 DEF IndInv, CallInv, Linked
  <2> QED
    BY <2>1, <1>2 DEF IndInv, CallInv, Active
<1>11. OwnInv'
  BY <1>2 DEF IndInv, OwnInv, Active
<1>12. HeadInv'
  <2>1. \A k \in Desc : used'[k] = IF k = usedIdx % NUM THEN h ELSE used[k]
    BY <1>2, <1>3 DEF IndInv, TypeOK
  <2>2. \A g : \A k \in Desc : avail'[k] = g /\ g # None =>
            Waited(g)' /\ g \notin taken' /\ info'[g].status = "none"
    BY <1>2, <1>4, <1>7, <1>8 DEF IndInv, HeadInv
  <2>3. \A g \in taken' : Waited(g)' /\ info'[g].status = "none"
    BY <1>2, <1>4, <1>7, <1>8 DEF IndInv, HeadInv
  <2>4. \A g : \A k \in Desc : used'[k] = g /\ g # None =>
            Waited(g)' /\ info'[g].status = "ok"
    BY <2>1, <1>2, <1>4, <1>7, <1>8 DEF IndInv, HeadInv
  <2>5. \A q \in Procs : pc'[q] = "check" => info'[idx'[q][1]].status = "ok"
    BY <1>2, <1>4, <1>6 DEF IndInv, HeadInv, Active
  <2> QED
    BY <2>2, <2>3, <2>4, <2>5 DEF HeadInv, Waited
<1>13. RingsInv'
  <2>1. Waited(h)
    BY <1>2 DEF IndInv, HeadInv
  <2>2. PICK other \in Desc : other # h /\ ~Waited(other)
    BY <2>1, WaitedFacts
  <2>3. \A k \in Desc : used[k] # h /\ used[k] # other
    BY <2>2, <1>1, Numbers DEF IndInv, HeadInv
  <2>4. RingInv([used EXCEPT ![usedIdx % NUM] = h], used_idx, Inc(usedIdx))
    BY <2>2, <2>3, RingPut DEF IndInv, TypeOK, RingsInv
  <2> QED
    BY <2>4, <1>2 DEF IndInv, RingsInv
<1>14. MemInv'
  <2>1. \A q \in Procs : pc'[q] # "idle" /\ call'[q].op = "write" => mem'[q] = call'[q].val
    BY <1>2, <1>5 DEF IndInv, MemInv
  <2>2. \A q \in Procs : Active(q)' /\ info'[idx'[q][1]].status = "ok" => mem'[q] \in Values
    BY <1>1, <1>2, <1>4, <1>5, <1>6 DEF IndInv, MemInv, Active
  <2> QED
    BY <2>1, <2>2 DEF MemInv
<1>15. NoLostWakeup'
  BY <1>2, <1>4, <1>6 DEF IndInv, NoLostWakeup, Active, FreeDescs
<1> QED
  BY <1>9, <1>10, <1>11, <1>12, <1>13, <1>14, <1>15 DEF IndInv

-----------------------------------------------------------------------------
LEMMA NextInv == IndInv /\ [Next]_vars => IndInv'
<1> SUFFICES ASSUME IndInv, [Next]_vars PROVE IndInv'
  OBVIOUS
<1>1. ASSUME NEW p \in Procs, NEW c \in Calls, Start(p, c) PROVE IndInv'
  BY <1>1, StartStep
<1>2. ASSUME NEW p \in Procs, Rw(p) PROVE IndInv'
  BY <1>2, SubmitStep, NoDescsStep, FinishStep DEF Rw
<1>3. CASE Intr
  <2>1. CASE IntrEnter
    BY <2>1, QuietStep DEF IntrEnter, IndInv, TypeOK
  <2>2. CASE IntrStep
    BY <2>2, IntrStepStep
  <2>3. CASE IntrLeave
    BY <2>3, QuietStep DEF IntrLeave, deviceVars, IndInv, TypeOK
  <2> QED
    BY <1>3, <2>1, <2>2, <2>3 DEF Intr
<1>4. CASE Device
  <2>1. CASE DeviceTake
    BY <2>1, DeviceTakeStep
  <2>2. CASE DeviceRaise
    BY <2>2, QuietStep DEF DeviceRaise, IndInv, TypeOK
  <2>3. ASSUME NEW h \in Desc, DeviceServe(h) PROVE IndInv'
    BY <2>3, DeviceServeStep
  <2> QED
    BY <1>4, <2>1, <2>2, <2>3 DEF Device
<1>5. CASE UNCHANGED vars
  BY <1>5, QuietStep DEF vars, deviceVars, IndInv, TypeOK
<1> QED
  BY <1>1, <1>2, <1>3, <1>4, <1>5 DEF Next

LEMMA Inductive == Spec => []IndInv
BY InitInv, NextInv, PTL DEF Spec

LEMMA OwnedFromInv == IndInv => DescriptorsOwned
<1> SUFFICES ASSUME IndInv PROVE DescriptorsOwned
  OBVIOUS
<1>1. \A n \in 1 .. 3 : n = 1 \/ n = 2 \/ n = 3
  OBVIOUS
<1>2. 1 \in 1 .. 3 /\ 2 \in 1 .. 3 /\ 3 \in 1 .. 3
  OBVIOUS
<1>3. \A p \in Procs : Active(p) => Chain(idx[p][1]) = {idx[p][n] : n \in 1 .. 3}
  <2> SUFFICES ASSUME NEW p \in Procs, Active(p)
               PROVE  Chain(idx[p][1]) = {idx[p][n] : n \in 1 .. 3}
    OBVIOUS
  <2>1. Chain(idx[p][1]) = {idx[p][1], idx[p][2], idx[p][3]}
    BY ChainIs
  <2> QED
    BY <2>1, <1>1, <1>2
<1>4. ChainsApart
  BY <1>3 DEF ChainsApart, Active, IndInv, OwnInv
<1>5. NoLeak
  BY <1>3 DEF NoLeak, Active, IndInv, OwnInv
<1> QED
  BY <1>4, <1>5 DEF DescriptorsOwned, IndInv

\* alloc_desc, free_chain and VirtioIntr agree on who owns each descriptor:
\* every call under way has a chain of three of its own, none of them is free,
\* and the others are free.
THEOREM OwnersAgree == Spec => []DescriptorsOwned
BY Inductive, OwnedFromInv, PTL

\* Nobody sleeps in VirtioRw for a request that has finished or for
\* descriptors that are free, and who is woken finds its request finished.
THEOREM DiskNoLostWakeup == Spec => []NoLostWakeup
<1>1. IndInv => NoLostWakeup
  BY DEF IndInv
<1> QED
  BY <1>1, Inductive, PTL

\* A completion that VirtioIntr has not seen when it leaves its loop has an
\* interrupt to come, although it acknowledged before it looked.
THEOREM CompletionsSeen == Spec => []CompletionSeen
<1>1. Init => CompletionSeen
  BY DEF Init, CompletionSeen
<1>2. CompletionSeen /\ [Next]_vars => CompletionSeen'
  BY DEF CompletionSeen, Next, Rw, Intr, Device, vars, driverVars, deviceVars, procVars,
         Start, Submit, NoDescs, Finish, IntrEnter, IntrStep, IntrLeave,
         DeviceTake, DeviceRaise, DeviceServe
<1> QED
  BY <1>1, <1>2, PTL DEF Spec

-----------------------------------------------------------------------------
(* The driver and the device implement BlockStore.                         *)

StoreStep == [Store!StoreNext]_(Store!storeVars)

\* A step that changes no call, no sector and nobody's value is no step of
\* the store.
LEMMA Stutter ==
    ASSUME call' = call, disk' = disk, \A q \in Procs : Got(q)' = Got(q)
    PROVE  StoreStep
<1>1. [q \in Procs |-> Got(q)]' = [q \in Procs |-> Got(q)]
  OBVIOUS
<1> QED
  BY <1>1 DEF StoreStep, Store!storeVars

LEMMA StartAsks ==
    ASSUME IndInv, NEW p \in Procs, NEW c \in Calls, Start(p, c)
    PROVE  StoreStep
<1> USE DEF driverVars, deviceVars, procVars
<1>1. \A q \in Procs : Got(q)' = Got(q)
  BY DEF Start, Got, IndInv, TypeOK
<1>2. [q \in Procs |-> Got(q)]' = [q \in Procs |-> Got(q)]
  BY <1>1
<1>3. call[p] = None /\ call' = [call EXCEPT ![p] = c] /\ disk' = disk
  BY DEF Start, IndInv, CallInv
<1>4. c \in Store!Requests
  BY DEF Calls, Store!Requests
<1>5. Store!Ask(p)
  BY <1>2, <1>3, <1>4 DEF Store!Ask
<1> QED
  BY <1>5 DEF StoreStep, Store!StoreNext

LEMMA SubmitStutters ==
    ASSUME IndInv, NEW p \in Procs, Submit(p)
    PROVE  StoreStep
<1> USE DEF driverVars, deviceVars, procVars
<1>0. PICK a, i : a = NthFree(1) /\ i = [n \in 1 .. 3 |-> NthFree(n)]
  OBVIOUS
<1>1. a \in Desc /\ free[a] /\ i[1] = a
  BY <1>0, ThreeFree DEF Submit, IndInv, TypeOK
<1>2. /\ pc[p] = "alloc" /\ call' = call /\ mem' = mem /\ disk' = disk
      /\ info' = [info EXCEPT ![a] = [data |-> p, finish |-> FALSE, status |-> "none"]]
      /\ idx' = [idx EXCEPT ![p] = i]
      /\ pc' = [pc EXCEPT ![p] = "wait"]
  BY <1>0, <1>1 DEF Submit
<1>3. \A q \in Procs : Active(q) => idx[q][1] \in Desc /\ idx[q][1] # a /\ q # p
  <2>1. 1 \in 1 .. 3
    OBVIOUS
  <2> QED
    BY <2>1, <1>1, <1>2, ChainIs DEF IndInv, OwnInv, Active
<1>4. /\ \A q \in Procs : q # p => pc'[q] = pc[q] /\ idx'[q] = idx[q] /\ mem'[q] = mem[q]
      /\ idx'[p][1] = a /\ info'[a].status = "none"
      /\ \A j \in Desc : j # a => info'[j] = info[j]
  BY <1>1, <1>2 DEF IndInv, TypeOK
<1>5. \A q \in Procs : Got(q)' = Got(q)
  <2>1. Got(p)' = None /\ Got(p) = None
    BY <1>2, <1>4 DEF Got
  <2>2. \A q \in Procs : q # p => Got(q)' = Got(q)
    BY <1>3, <1>4 DEF Got, Active
  <2> QED
    BY <2>1, <2>2
<1> QED
  BY <1>2, <1>5, Stutter

LEMMA FinishReturns ==
    ASSUME IndInv, NEW p \in Procs, Finish(p)
    PROVE  StoreStep
<1> USE DEF driverVars, deviceVars, procVars
<1>1. /\ pc[p] = "check" /\ Active(p) /\ idx[p][1] \in Desc
  BY ChainIs DEF Finish, Active
<1>2. /\ info' = [info EXCEPT ![idx[p][1]].data = None]
      /\ pc' = [q \in Procs |->
             IF q = p THEN "idle" ELSE IF pc[q] = "full" THEN "alloc" ELSE pc[q]]
      /\ call' = [call EXCEPT ![p] = None]
      /\ idx' = [idx EXCEPT ![p] = None]
      /\ mem' = [mem EXCEPT ![p] = None]
      /\ disk' = disk
  BY DEF Finish
<1>3. \A j \in Desc : info'[j].status = info[j].status
  BY <1>1, <1>2 DEF IndInv, TypeOK
<1>4. Got(p) # None
  <2>1. info[idx[p][1]].status = "ok"
    BY <1>1 DEF IndInv, HeadInv
  <2>2. mem[p] \in Values
    BY <2>1, <1>1 DEF IndInv, MemInv
  <2> QED
    BY <2>1, <2>2, <1>1, Numbers DEF Got
<1>5. Got(p)' = None
  BY <1>2 DEF Got
<1>6. \A q \in Procs : q # p => Got(q)' = Got(q)
  <2> SUFFICES ASSUME NEW q \in Procs, q # p PROVE Got(q)' = Got(q)
    OBVIOUS
  <2>1. /\ pc'[q] \in {"check", "wait"} <=> pc[q] \in {"check", "wait"}
        /\ idx'[q] = idx[q] /\ mem'[q] = mem[q]
    BY <1>2 DEF IndInv, TypeOK
  <2>2. pc[q] \in {"check", "wait"} => idx[q][1] \in Desc
    BY ChainIs DEF Active
  <2> QED
    BY <2>1, <2>2, <1>3 DEF Got
<1>7. [q \in Procs |-> Got(q)]' = [[q \in Procs |-> Got(q)] EXCEPT ![p] = None]
  BY <1>5, <1>6
<1>8. call[p] # None
  BY <1>1, CallFacts DEF IndInv, CallInv
<1>9. Store!Return(p)
  BY <1>2, <1>4, <1>7, <1>8 DEF Store!Return
<1> QED
  BY <1>9 DEF StoreStep, Store!StoreNext

LEMMA IntrStepStutters ==
    ASSUME IndInv, IntrStep
    PROVE  StoreStep
<1> USE DEF driverVars, deviceVars, procVars
<1>0. PICK h : h = used[used_idx % NUM]
  OBVIOUS
<1>1. h \in Desc
  <2>1. used_idx \in 0 .. WORD - 1 /\ usedIdx \in 0 .. WORD - 1
        /\ used \in [Desc -> Desc \cup {None}]
    BY DEF IndInv, TypeOK
  <2> QED
    BY <2>1, <1>0, RingTake DEF IndInv, RingsInv, IntrStep
<1>2. /\ info' = [info EXCEPT ![h].finish = TRUE]
      /\ pc' = [q \in Procs |-> IF pc[q] = "wait" /\ info[h].data = q THEN "check" ELSE pc[q]]
      /\ idx' = idx /\ mem' = mem /\ call' = call /\ disk' = disk
  BY <1>0 DEF IntrStep
<1>3. \A j \in Desc : info'[j].status = info[j].status
  BY <1>1, <1>2 DEF IndInv, TypeOK
<1>4. \A q \in Procs : Got(q)' = Got(q)
  <2> SUFFICES ASSUME NEW q \in Procs PROVE Got(q)' = Got(q)
    OBVIOUS
  <2>1. pc'[q] \in {"check", "wait"} <=> pc[q] \in {"check", "wait"}
    BY <1>2
  <2>2. pc[q] \in {"check", "wait"} => idx[q][1] \in Desc
    BY ChainIs DEF Active
  <2> QED
    BY <2>1, <2>2, <1>2, <1>3 DEF Got
<1> QED
  BY <1>2, <1>4, Stutter

LEMMA ServeTransfers ==
    ASSUME IndInv, NEW h \in Desc, DeviceServe(h)
    PROVE  StoreStep
<1> USE DEF driverVars, deviceVars, procVars
<1> DEFINE got == [q \in Procs |-> Got(q)]
<1>1. PICK p \in Procs :
             /\ pc[p] = "wait" /\ Active(p) /\ idx[p][1] = h /\ info[h].status = "none"
             /\ call[p] \in Calls
             /\ \A q \in Procs : Active(q) /\ q # p => idx[q][1] # h
             /\ IF call[p].op = "write"
                THEN /\ mem[p] = call[p].val /\ mem' = mem
                     /\ disk' = [disk EXCEPT ![call[p].blk] = call[p].val]
                ELSE /\ disk' = disk
                     /\ mem' = [mem EXCEPT ![p] = disk[call[p].blk]]
  BY ServeFacts
<1>2. info' = [info EXCEPT ![h].status = "ok"] /\ pc' = pc /\ idx' = idx /\ call' = call
  BY DEF DeviceServe
<1>3. \A j \in Desc : info'[j].status = IF j = h THEN "ok" ELSE info[j].status
  BY <1>2 DEF IndInv, TypeOK
<1>4. \A q \in Procs : Active(q) => idx[q][1] \in Desc
  BY ChainIs
<1>5. \A q \in Procs : q # p => mem'[q] = mem[q]
  BY <1>1 DEF IndInv, TypeOK
<1>6. \A q \in Procs : q # p => Got(q)' = Got(q)
  BY <1>1, <1>2, <1>3, <1>4, <1>5 DEF Got, Active
<1>7. Got(p) = None /\ Got(p)' = mem'[p]
  BY <1>1, <1>2, <1>3 DEF Got
<1>8. got' = [got EXCEPT ![p] = mem'[p]] /\ got[p] = None
  BY <1>6, <1>7
<1>9. call[p] # None /\ call[p].op \in {"read", "write"}
  BY <1>1, CallFacts
<1>10. CASE call[p].op = "write"
  <2>1. mem'[p] = call[p].val
    BY <1>1, <1>10
  <2>2. Store!Put(p)
    BY <2>1, <1>1, <1>2, <1>8, <1>9, <1>10 DEF Store!Put
  <2> QED
    BY <2>2 DEF StoreStep, Store!StoreNext
<1>11. CASE call[p].op = "read"
  <2>1. mem'[p] = disk[call[p].blk] /\ disk' = disk
    BY <1>1, <1>11 DEF IndInv, TypeOK
  <2>2. Store!Get(p)
    BY <2>1, <1>2, <1>8, <1>9, <1>11 DEF Store!Get
  <2> QED
    BY <2>2 DEF StoreStep, Store!StoreNext
<1> QED
  BY <1>9, <1>10, <1>11

LEMMA DiskRefines ==
    ASSUME IndInv, [Next]_vars
    PROVE  StoreStep
<1> USE DEF driverVars, deviceVars, procVars
<1>1. ASSUME UNCHANGED <<call, disk, pc, idx, info, mem>> PROVE StoreStep
  BY <1>1, Stutter DEF Got
<1>2. ASSUME NEW p \in Procs, NEW c \in Calls, Start(p, c) PROVE StoreStep
  BY <1>2, StartAsks
<1>3. ASSUME NEW p \in Procs, Rw(p) PROVE StoreStep
  <2>1. CASE NoDescs(p)
    <3>1. \A q \in Procs : pc'[q] \in {"check", "wait"} <=> pc[q] \in {"check", "wait"}
      BY <2>1 DEF NoDescs
    <3>2. UNCHANGED <<call, disk, idx, info, mem>>
      BY <2>1 DEF NoDescs
    <3>3. \A q \in Procs : Got(q)' = Got(q)
      BY <3>1, <3>2 DEF Got
    <3> QED
      BY <3>2, <3>3, Stutter
  <2> QED
    BY <1>3, <2>1, SubmitStutters, FinishReturns DEF Rw
<1>4. CASE Intr
  BY <1>1, <1>4, IntrStepStutters DEF Intr, IntrEnter, IntrLeave
<1>5. CASE Device
  BY <1>1, <1>5, ServeTransfers DEF Device, DeviceTake, DeviceRaise
<1>6. CASE UNCHANGED vars
  BY <1>1, <1>6 DEF vars
<1> QED
  BY <1>2, <1>3, <1>4, <1>5, <1>6 DEF Next

LEMMA DiskBegins == Init => Store!StoreInit
<1> SUFFICES ASSUME Init PROVE Store!StoreInit
  OBVIOUS
<1>1. \A p \in Procs : Got(p) = None
  BY DEF Init, Got
<1>2. [p \in Procs |-> Got(p)] = [p \in Procs |-> None]
  BY <1>1
<1>3. disk \in [Sectors -> Values]
  BY DEF Init
<1> QED
  BY <1>2, <1>3 DEF Init, Store!StoreInit

\* VirtioRw, VirtioIntr and the device implement a store of sectors: every call
\* transfers its own sector from or to its own buffer, once, between its start
\* and its return, whatever order the device completes requests in.
THEOREM DiskImplementsStore == Spec => DiskIsStore
<1>1. IndInv /\ [Next]_vars => [Store!StoreNext]_(Store!storeVars)
  BY DiskRefines DEF StoreStep
<1> QED
  BY <1>1, Inductive, DiskBegins, PTL DEF Spec, DiskIsStore, Store!StoreSpec
=============================================================================
