--------------------------- MODULE MemoryProofs ---------------------------
(***************************************************************************)
(* Proofs about Memory, and about the kernel heap with the map in it.      *)
(*                                                                         *)
(* A view m owns the frames U when they are the free ones and those in its *)
(* page table, each once; the operators of VmManager keep what a view      *)
(* owns.  FrameInv states from each task's side that its frames, the free  *)
(* and the lost ones are those no other task holds, so a call needs only   *)
(* its own view.  AreaInv does the same for the slots of vma_table_.       *)
(*                                                                         *)
(* Tiles states of the heap that the blocks in use and those of the free   *)
(* lists tile the pages given out so far: taking, splitting, returning and *)
(* merging a block keep it.  HeapInv adds who has each block in use, and   *)
(* what the call between its look and its end has found.                   *)
(***************************************************************************)
EXTENDS Memory, HashMap, FiniteSetTheorems, WellFoundedInduction, TLAPS

(* Division by the size of a page. *)
LEMMA DivIs ==
    ASSUME NEW P \in Nat \ {0}, NEW a \in Int
    PROVE  /\ a \div P \in Int
           /\ P * (a \div P) <= a
           /\ a < P * (a \div P) + P
           /\ a % P \in Int /\ a = P * (a \div P) + (a % P)
  OBVIOUS

LEMMA DivUnique ==
    ASSUME NEW P \in Nat \ {0}, NEW a \in Int, NEW q \in Int,
           P * q <= a, a < P * q + P
    PROVE  a \div P = q
<1>1. PICK d : d = a \div P
  OBVIOUS
<1>2. d \in Int /\ P * d <= a /\ a < P * d + P
  BY <1>1, DivIs
<1>3. ASSUME d < q PROVE FALSE
  <2>1. q - d - 1 \in Nat
    BY <1>2, <1>3
  <2>2. P * (q - d - 1) >= 0
    BY <2>1
  <2>3. P * (q - d - 1) = P * q - P * d - P
    BY <1>2
  <2> QED BY <1>2, <2>2, <2>3
<1>4. ASSUME q < d PROVE FALSE
  <2>1. d - q - 1 \in Nat
    BY <1>2, <1>4
  <2>2. P * (d - q - 1) >= 0
    BY <2>1
  <2>3. P * (d - q - 1) = P * d - P * q - P
    BY <1>2
  <2> QED BY <1>2, <2>2, <2>3
<1> QED BY <1>1, <1>2, <1>3, <1>4

LEMMA DivOrder ==
    ASSUME NEW P \in Nat \ {0}, NEW a \in Int, NEW n \in Int
    PROVE  /\ a >= n * P => a \div P >= n
           /\ a < n * P => a \div P < n
<1>1. PICK d : d = a \div P
  OBVIOUS
<1>2. d \in Int /\ P * d <= a /\ a < P * d + P
  BY <1>1, DivIs
<1>3. ASSUME a >= n * P, d < n PROVE FALSE
  <2>1. n - d - 1 \in Nat
    BY <1>2, <1>3
  <2>2. P * (n - d - 1) >= 0
    BY <2>1
  <2>3. P * (n - d - 1) = P * n - P * d - P /\ n * P = P * n
    BY <1>2
  <2> QED BY <1>2, <1>3, <2>2, <2>3
<1>4. ASSUME a < n * P, d >= n PROVE FALSE
  <2>1. d - n \in Nat
    BY <1>2, <1>4
  <2>2. P * (d - n) >= 0
    BY <2>1
  <2>3. P * (d - n) = P * d - P * n /\ n * P = P * n
    BY <1>2
  <2> QED BY <1>2, <1>4, <2>2, <2>3
<1> QED BY <1>1, <1>2, <1>3, <1>4

LEMMA MemorySizes ==
    /\ PGSIZE \in Nat \ {0} /\ LowPages \in Nat \ {0} /\ HighPages \in Nat \ {0}
    /\ NVMA \in Nat \ {0} /\ NOMMAPFILE \in Nat \ {0}
  BY MemoryAssumption

(* The number of pages up to an address, and what rounding does to it. *)
LEMMA Rounded ==
    ASSUME NEW a \in Nat
    PROVE  /\ PGROUNDUP(a) \in Nat /\ a <= PGROUNDUP(a)
           /\ PGROUNDUP(a) \div PGSIZE \in Nat
           /\ PGROUNDUP(a) = (PGROUNDUP(a) \div PGSIZE) * PGSIZE
           /\ \A n \in Nat : a <= n * PGSIZE => PGROUNDUP(a) \div PGSIZE <= n
           /\ PGROUNDDOWN(a) \in Nat /\ PGROUNDDOWN(a) <= a
           /\ PGROUNDDOWN(a) % PGSIZE = 0
           /\ PGROUNDUP(PGROUNDUP(a)) = PGROUNDUP(a)
<1>1. PICK P : P = PGSIZE
  OBVIOUS
<1>2. P \in Nat \ {0}
  BY <1>1, MemorySizes
<1>3. PICK q : q = (a + P - 1) \div P
  OBVIOUS
<1>4. q \in Int /\ P * q <= a + P - 1 /\ a + P - 1 < P * q + P
  <2>1. a + P - 1 \in Int
    BY <1>2
  <2> QED BY <1>2, <1>3, <2>1, DivIs
<1>5. q \in Nat
  <2>1. a + P - 1 >= 0 * P
    BY <1>2
  <2>2. a + P - 1 \in Int
    BY <1>2
  <2>3. q >= 0
    BY <1>2, <1>3, <2>1, <2>2, DivOrder
  <2> QED BY <1>4, <2>3
<1>6. PGROUNDUP(a) = q * P
  BY <1>1, <1>3 DEF PGROUNDUP
<1>7. q * P \in Nat /\ q * P = P * q
  BY <1>2, <1>5
<1>8. (q * P) \div P = q
  BY <1>2, <1>4, <1>7, DivUnique
<1>9. ASSUME NEW n \in Nat, a <= n * P PROVE q <= n
  <2>1. (n + 1) * P = n * P + P /\ n * P \in Nat /\ n + 1 \in Int
    BY <1>2
  <2>2. a + P - 1 < (n + 1) * P /\ a + P - 1 \in Int
    BY <1>2, <1>9, <2>1
  <2>3. q < n + 1
    BY <1>2, <1>3, <2>1, <2>2, DivOrder
  <2> QED BY <1>4, <2>3
<1>10. PICK d : d = a \div P
  OBVIOUS
<1>11. d \in Int /\ P * d <= a /\ a < P * d + P
  BY <1>2, <1>10, DivIs
<1>12. d \in Nat
  <2>1. a >= 0 * P
    BY <1>2
  <2>2. d >= 0
    BY <1>2, <1>10, <2>1, DivOrder
  <2> QED BY <1>11, <2>2
<1>13. PGROUNDDOWN(a) = d * P
  BY <1>1, <1>10 DEF PGROUNDDOWN
<1>14. d * P \in Nat /\ d * P = P * d
  BY <1>2, <1>12
<1>15. (d * P) % P = 0
  <2>1. (d * P) \div P = d
    BY <1>2, <1>11, <1>14, DivUnique
  <2>2. PICK x : x = d * P
    OBVIOUS
  <2>0. x \in Int
    BY <1>14, <2>2
  <2>3. x % P \in Int /\ x = P * (x \div P) + (x % P)
    BY <1>2, <2>0, DivIs, Zenon
  <2>4. x \div P = d /\ x = P * d
    BY <1>14, <2>1, <2>2
  <2>5. x = x + (x % P)
    BY <2>0, <2>3, <2>4
  <2> QED BY <2>0, <2>2, <2>3, <2>5
<1>16. PGROUNDUP(q * P) = q * P
  <2>1. PICK b : b = q * P + P - 1
    OBVIOUS
  <2>2. b \in Int /\ P * q <= b /\ b < P * q + P
    BY <1>2, <1>7, <2>1
  <2>3. b \div P = q
    BY <1>2, <1>4, <2>2, DivUnique
  <2> QED BY <1>1, <2>1, <2>3 DEF PGROUNDUP
<1>17. a <= q * P
  BY <1>2, <1>4, <1>7
<1>18. d * P <= a
  BY <1>11, <1>14
<1>19. /\ PGROUNDUP(a) \in Nat /\ a <= PGROUNDUP(a)
       /\ PGROUNDUP(a) \div P = q /\ PGROUNDUP(a) = q * P
       /\ PGROUNDUP(PGROUNDUP(a)) = PGROUNDUP(a)
  BY <1>6, <1>7, <1>8, <1>16, <1>17
<1>20. /\ PGROUNDDOWN(a) \in Nat /\ PGROUNDDOWN(a) <= a
       /\ PGROUNDDOWN(a) % P = 0
  BY <1>13, <1>14, <1>15, <1>18
<1> HIDE DEF PGROUNDUP, PGROUNDDOWN
<1> QED BY <1>1, <1>5, <1>9, <1>19, <1>20, Zenon

-----------------------------------------------------------------------------
(* Views.  A call works on a view m: free frames and one page table.  It   *)
(* owns the frames U when each of them is in one place of it, once.        *)

Texts == {"no", "remap", "freewalk: leaf", "userVmCopy: alloc mem fail",
          "userVmCopy: pte not present"}

Views == [free : SUBSET Frames, pg : [Entries -> Frames \cup {None}],
          ok : BOOLEAN, panic : Texts]

Apart(m) ==
    \A e \in Entries : m.pg[e] # None =>
        m.pg[e] \notin m.free /\ \A d \in Entries : m.pg[d] = m.pg[e] => d = e

Has(m, f) == f \in m.free \/ \E e \in Entries : m.pg[e] = f

Owns(m, U) ==
    /\ m \in Views
    /\ U \subseteq Frames
    /\ Apart(m)
    /\ \A f \in Frames : f \in U <=> Has(m, f)

(* The entries of m2 other than those in S are those of m. *)
Only(m, m2, S) == \A e \in Entries \ S : m2.pg[e] = m.pg[e]

LEMMA NoneIsNoFrame == None \notin Frames
  BY NoneAssumption, MemoryAssumption

LEMMA FirstOf ==
    ASSUME NEW S \in SUBSET Nat, S # {}
    PROVE  \E n \in S : \A m \in S : n <= m
<1>1. PICK n \in S : \A m \in S : ~ <<m, n>> \in OpToRel(<, Nat)
  BY NatLessThanWellFounded, WFMin
<1>2. \A m \in S : ~(m < n)
  BY <1>1 DEF OpToRel
<1> QED BY <1>2

LEMMA MinIn ==
    ASSUME NEW S \in SUBSET Nat, S # {}
    PROVE  Min(S) \in S
<1>1. PICK n \in S : \A m \in S : n <= m
  BY FirstOf
<1> QED BY <1>1 DEF Min

(* A view is given by its fields. *)
LEMMA ViewFields ==
    ASSUME NEW m \in Views
    PROVE  /\ m.free \in SUBSET Frames /\ m.pg \in [Entries -> Frames \cup {None}]
           /\ m.ok \in BOOLEAN /\ m.panic \in Texts
           /\ m = [free |-> m.free, pg |-> m.pg, ok |-> m.ok, panic |-> m.panic]
  BY DEF Views

(* A change of ok or of the panic moves no frame. *)
LEMMA OkChanged ==
    ASSUME NEW m, NEW U, Owns(m, U), NEW m2, NEW ok \in BOOLEAN,
           m2 = [m EXCEPT !.ok = ok]
    PROVE  /\ Owns(m2, U) /\ m2.pg = m.pg /\ m2.free = m.free
           /\ m2.panic = m.panic /\ m2.ok = ok
<1>1. m \in Views
  BY DEF Owns
<1>2. m2 = [free |-> m.free, pg |-> m.pg, ok |-> ok, panic |-> m.panic]
  BY <1>1, ViewFields DEF Views
<1>3. m2 \in Views /\ m2.free = m.free /\ m2.pg = m.pg /\ m2.ok = ok /\ m2.panic = m.panic
  <2>1. /\ m.free \in SUBSET Frames /\ m.pg \in [Entries -> Frames \cup {None}]
        /\ m.panic \in Texts
    BY <1>1, ViewFields
  <2> QED BY <1>2, <2>1 DEF Views
<1> QED BY <1>3 DEF Owns, Apart, Has

WithPanic(m, text) == [m EXCEPT !.panic = text]

LEMMA PanicChanged ==
    ASSUME NEW m \in Views, NEW text \in Texts, NEW m2, m2 = WithPanic(m, text)
    PROVE  m2 \in Views /\ m2.panic = text /\ m2.ok = m.ok
<1>1. m2 = [free |-> m.free, pg |-> m.pg, ok |-> m.ok, panic |-> text]
  BY ViewFields DEF Views, WithPanic
<1>2. /\ m.free \in SUBSET Frames /\ m.pg \in [Entries -> Frames \cup {None}]
      /\ m.ok \in BOOLEAN
  BY ViewFields
<1> QED BY <1>1, <1>2 DEF Views

(* A free frame g that is put in an entry of the page table. *)
WithFrame(m, e, g) == [m EXCEPT !.free = m.free \ {g}, !.pg = [m.pg EXCEPT ![e] = g]]

LEMMA AreaPlaced ==
    ASSUME NEW m, NEW U, Owns(m, U), NEW e \in Entries, m.pg[e] = None,
           NEW g \in m.free, NEW m2, m2 = WithFrame(m, e, g)
    PROVE  /\ Owns(m2, U) /\ Only(m, m2, {e}) /\ m2.pg[e] = g
           /\ m2.ok = m.ok /\ m2.panic = m.panic
<1>1. m \in Views /\ Apart(m)
  BY DEF Owns
<1>2. /\ m.free \in SUBSET Frames /\ m.pg \in [Entries -> Frames \cup {None}]
      /\ m.ok \in BOOLEAN /\ m.panic \in Texts
  BY <1>1, ViewFields
<1>3. PICK fr : fr = m.free \ {g}
  OBVIOUS
<1>4. PICK pg : pg = [m.pg EXCEPT ![e] = g]
  OBVIOUS
<1>5. /\ fr \in SUBSET Frames /\ pg \in [Entries -> Frames \cup {None}]
      /\ pg[e] = g /\ \A d \in Entries \ {e} : pg[d] = m.pg[d]
  BY <1>2, <1>3, <1>4
<1>6. m2 = [free |-> fr, pg |-> pg, ok |-> m.ok, panic |-> m.panic]
  BY <1>1, <1>3, <1>4 DEF Views, WithFrame
<1>7. /\ m2 \in Views /\ m2.free = fr /\ m2.pg = pg
      /\ m2.ok = m.ok /\ m2.panic = m.panic
  BY <1>2, <1>5, <1>6 DEF Views
<1>8. g \in Frames /\ g # None /\ \A d \in Entries : m.pg[d] # g
  BY <1>1, <1>2, NoneIsNoFrame DEF Apart
<1>9. Apart(m2)
  BY <1>1, <1>3, <1>5, <1>7, <1>8 DEF Apart
<1>10. \A f \in Frames : Has(m2, f) <=> Has(m, f)
  <2> SUFFICES ASSUME NEW f \in Frames PROVE Has(m2, f) <=> Has(m, f)
    OBVIOUS
  <2>1. CASE f = g
    BY <1>5, <1>7, <2>1 DEF Has
  <2>2. CASE f # g
    <3>1. f # None
      BY NoneIsNoFrame
    <3> QED BY <1>3, <1>5, <1>7, <2>2, <3>1 DEF Has
  <2> QED BY <2>1, <2>2
<1> QED BY <1>5, <1>7, <1>9, <1>10 DEF Owns, Only

LEMMA AllocOwns ==
    ASSUME NEW m, NEW U, Owns(m, U), NEW e \in Entries, m.pg[e] = None,
           NEW m2, m2 = alloc(m, e)
    PROVE  /\ Owns(m2, U) /\ Only(m, m2, {e}) /\ m2.panic = m.panic
           /\ m2.ok => m.ok /\ m2.pg[e] # None
<1>1. m \in Views
  BY DEF Owns
<1>2. CASE ~m.ok \/ m.free = {}
  <2>1. m2 = [m EXCEPT !.ok = FALSE]
    BY <1>2 DEF alloc
  <2>2. Owns(m2, U) /\ m2.pg = m.pg /\ m2.panic = m.panic /\ m2.ok = FALSE
    BY <2>1, OkChanged
  <2> QED BY <2>2 DEF Only
<1>3. CASE m.ok /\ m.free # {}
  <2>1. PICK g : g = Min(m.free)
    OBVIOUS
  <2>2. m.free \in SUBSET Nat
    BY <1>1, ViewFields, MemoryAssumption
  <2>3. g \in m.free
    BY <1>3, <2>1, <2>2, MinIn
  <2>4. m2 = WithFrame(m, e, g)
    BY <1>3, <2>1 DEF alloc, WithFrame
  <2>5. /\ Owns(m2, U) /\ Only(m, m2, {e}) /\ m2.pg[e] = g
        /\ m2.ok = m.ok /\ m2.panic = m.panic
    BY <2>3, <2>4, AreaPlaced
  <2>6. g # None
    BY <1>1, <2>3, ViewFields, NoneIsNoFrame
  <2> QED BY <1>3, <2>5, <2>6
<1> QED BY <1>1, <1>2, <1>3 DEF Views

LEMMA NeedOwns ==
    ASSUME NEW m, NEW U, Owns(m, U), NEW e \in Entries, NEW m2, m2 = Need(m, e)
    PROVE  /\ Owns(m2, U) /\ Only(m, m2, {e}) /\ m2.panic = m.panic
           /\ m2.ok => m.ok
<1>1. CASE m.pg[e] = None
  BY <1>1, AllocOwns DEF Need
<1>2. CASE m.pg[e] # None
  <2>1. m2 = m
    BY <1>2 DEF Need
  <2> QED BY <2>1 DEF Only
<1> QED BY <1>1, <1>2

LEMMA TablesApart ==
    /\ Tables \cap Pages = {} /\ Tables \subseteq Entries /\ Pages \subseteq Entries
    /\ {Root, Top1, Top0, Low1, Low0, Map0} \subseteq Tables
  BY MemorySizes DEF Tables, Pages, Entries, Root, Top1, Top0, Low1, Low0, Map0

LEMMA WalkOwns ==
    ASSUME NEW m, NEW U, Owns(m, U), NEW p \in Pages, NEW m2, m2 = walk(m, p)
    PROVE  /\ Owns(m2, U) /\ Only(m, m2, Tables) /\ m2.panic = m.panic
           /\ m2.ok => m.ok
<1>1. PICK a : a = Path(p)[1]
  OBVIOUS
<1>2. PICK b : b = Path(p)[2]
  OBVIOUS
<1>3. a \in Tables /\ b \in Tables /\ a \in Entries /\ b \in Entries
  BY <1>1, <1>2, TablesApart DEF Path
<1>4. PICK n : n = Need(m, a)
  OBVIOUS
<1>5. m2 = Need(n, b)
  BY <1>1, <1>2, <1>4 DEF walk
<1>6. Owns(n, U) /\ Only(m, n, {a}) /\ n.panic = m.panic /\ (n.ok => m.ok)
  BY <1>3, <1>4, NeedOwns
<1>7. Owns(m2, U) /\ Only(n, m2, {b}) /\ m2.panic = n.panic /\ (m2.ok => n.ok)
  BY <1>3, <1>5, <1>6, NeedOwns
<1> QED BY <1>3, <1>6, <1>7 DEF Only

With(m, fr, pg) == [m EXCEPT !.free = fr, !.pg = pg]

LEMMA WithIs ==
    ASSUME NEW m \in Views, NEW fr \in SUBSET Frames,
           NEW pg \in [Entries -> Frames \cup {None}], NEW m2, m2 = With(m, fr, pg)
    PROVE  /\ m2 \in Views /\ m2.free = fr /\ m2.pg = pg
           /\ m2.ok = m.ok /\ m2.panic = m.panic
<1>1. m.ok \in BOOLEAN /\ m.panic \in Texts
  BY ViewFields
<1>2. m2 = [free |-> fr, pg |-> pg, ok |-> m.ok, panic |-> m.panic]
  BY DEF Views, With
<1> QED BY <1>1, <1>2 DEF Views

WithFree(m, fr) == [m EXCEPT !.free = fr]
WithPage(m, p, f) == [m EXCEPT !.pg[p] = f]

LEMMA FreeChanged ==
    ASSUME NEW m \in Views, NEW fr \in SUBSET Frames, NEW m2, m2 = WithFree(m, fr)
    PROVE  /\ m2 \in Views /\ m2.free = fr /\ m2.pg = m.pg
           /\ m2.ok = m.ok /\ m2.panic = m.panic
<1>1. /\ m.ok \in BOOLEAN /\ m.panic \in Texts
      /\ m.pg \in [Entries -> Frames \cup {None}]
  BY ViewFields
<1>2. m2 = [free |-> fr, pg |-> m.pg, ok |-> m.ok, panic |-> m.panic]
  BY DEF Views, WithFree
<1> QED BY <1>1, <1>2 DEF Views

(* V has the frames of U and of L, which are not the same. *)
Joins(U, L, V) == L \subseteq Frames /\ L \cap U = {} /\ V = U \cup L

(* Frames that are taken out of a view, or put back in it. *)
LEMMA FreeLess ==
    ASSUME NEW m, NEW U, Owns(m, U), NEW L, L \subseteq m.free,
           NEW V, Joins(V, L, U), NEW fr, fr = m.free \ L, NEW m2, m2 = WithFree(m, fr)
    PROVE  /\ Owns(m2, V) /\ m2.pg = m.pg
           /\ m2.ok = m.ok /\ m2.panic = m.panic
<1>1. m \in Views /\ Apart(m)
  BY DEF Owns
<1>3. fr \in SUBSET Frames /\ L \in SUBSET Frames
  BY <1>1, ViewFields
<1>4. /\ m2 \in Views /\ m2.free = fr /\ m2.pg = m.pg
      /\ m2.ok = m.ok /\ m2.panic = m.panic
  BY <1>1, <1>3, FreeChanged
<1>5. Apart(m2)
  BY <1>1, <1>4 DEF Apart
<1>6. \A f \in Frames : f \in V <=> Has(m2, f)
  <2> SUFFICES ASSUME NEW f \in Frames PROVE f \in V <=> Has(m2, f)
    OBVIOUS
  <2>1. f \in U <=> Has(m, f)
    BY DEF Owns
  <2>2. f \in L => \A e \in Entries : m.pg[e] # f
    BY <1>1, NoneIsNoFrame DEF Apart
  <2> QED BY <1>4, <2>1, <2>2 DEF Has, Joins
<1> QED BY <1>4, <1>5, <1>6 DEF Owns, Joins

LEMMA FreeMore ==
    ASSUME NEW m, NEW U, Owns(m, U), NEW L, NEW V, Joins(U, L, V),
           NEW fr, fr = m.free \cup L, NEW m2, m2 = WithFree(m, fr)
    PROVE  /\ Owns(m2, V) /\ m2.pg = m.pg
           /\ m2.ok = m.ok /\ m2.panic = m.panic
<1>1. m \in Views /\ Apart(m)
  BY DEF Owns
<1>3. fr \in SUBSET Frames
  BY <1>1, ViewFields DEF Joins
<1>4. /\ m2 \in Views /\ m2.free = fr /\ m2.pg = m.pg
      /\ m2.ok = m.ok /\ m2.panic = m.panic
  BY <1>1, <1>3, FreeChanged
<1>5. \A e \in Entries : m.pg[e] # None => m.pg[e] \notin L
  <2> SUFFICES ASSUME NEW e \in Entries, m.pg[e] # None, m.pg[e] \in L PROVE FALSE
    OBVIOUS
  <2>1. Has(m, m.pg[e]) /\ m.pg[e] \in Frames
    BY DEF Has, Joins
  <2> QED BY <2>1 DEF Owns, Joins
<1>6. Apart(m2)
  BY <1>1, <1>4, <1>5 DEF Apart
<1>7. \A f \in Frames : f \in V <=> Has(m2, f)
  BY <1>4 DEF Owns, Has, Joins
<1> QED BY <1>4, <1>6, <1>7 DEF Owns, Joins

And(U, f) == U \cup {f}

(* A frame f from outside the view in an entry that has none. *)
LEMMA Mapped ==
    ASSUME NEW m, NEW U, Owns(m, U), NEW f \in Frames, f \notin U,
           NEW V, V = And(U, f), NEW p \in Entries, m.pg[p] = None, NEW m2, m2 = WithPage(m, p, f)
    PROVE  /\ Owns(m2, V) /\ Only(m, m2, {p}) /\ m2.pg[p] = f
           /\ m2.ok = m.ok /\ m2.panic = m.panic
<1>1. PICK L : L = {f}
  OBVIOUS
<1>2. PICK fr : fr = m.free \cup L
  OBVIOUS
<1>3. PICK x : x = WithFree(m, fr)
  OBVIOUS
<1>4. Joins(U, L, V)
  BY <1>1 DEF And, Joins
<1>5. /\ Owns(x, V) /\ x.pg = m.pg /\ x.ok = m.ok /\ x.panic = m.panic
  BY <1>3, <1>4, <1>2, FreeMore
<1>6. PICK y : y = WithFrame(x, p, f)
  OBVIOUS
<1>7. m \in Views /\ f \notin m.free
  BY DEF Owns, Has
<1>8. x.free = m.free \cup {f}
  BY <1>1, <1>3, <1>7, <1>2 DEF Views, WithFree
<1>9. /\ Owns(y, V) /\ Only(x, y, {p}) /\ y.pg[p] = f
      /\ y.ok = x.ok /\ y.panic = x.panic
  BY <1>5, <1>6, <1>8, AreaPlaced
<1>10. m2 = y
  <2>1. x.free \ {f} = m.free
    BY <1>7, <1>8
  <2>2. PICK pg : pg = [m.pg EXCEPT ![p] = f]
    OBVIOUS
  <2>3. y = [x EXCEPT !.free = m.free, !.pg = pg]
    BY <1>5, <1>6, <2>1, <2>2 DEF WithFrame
  <2>4. m2 = [m EXCEPT !.pg = pg]
    BY <2>2 DEF WithPage
  <2>5. m2 = [free |-> m.free, pg |-> pg, ok |-> m.ok, panic |-> m.panic]
    BY <1>7, <2>4 DEF Views
  <2>6. x \in Views
    BY <1>5 DEF Owns
  <2>7. y = [free |-> m.free, pg |-> pg, ok |-> x.ok, panic |-> x.panic]
    BY <2>3, <2>6 DEF Views
  <2> QED BY <1>5, <2>5, <2>7
<1> QED BY <1>5, <1>9, <1>10 DEF Only

Remapped(m, p, n) == n.m \in Views /\ n.m.panic = "remap" /\ n.m.ok /\ m.pg[p] # None

Gained(m, U, p, n) ==
    /\ n.left \subseteq U
    /\ Owns(n.m, U \ n.left) /\ Only(m, n.m, Tables \cup {p})
    /\ n.m.panic = m.panic
    /\ n.m.ok => n.left = {} /\ m.ok /\ n.m.pg[p] # None
    /\ ~n.m.ok => n.m.pg[p] = m.pg[p]

(* A new frame for page p: mapped, or left over when a table is missing.   *)
LEMMA NewPageOwns ==
    ASSUME NEW m, NEW U, Owns(m, U), NEW p \in Pages, NEW n, n = NewPage(m, p)
    PROVE  Remapped(m, p, n) \/ Gained(m, U, p, n)
<1> USE DEF Remapped, Gained
<1>1. m \in Views /\ p \in Entries /\ p \notin Tables
  BY TablesApart DEF Owns
<1>2. CASE m.free = {}
  <2>1. PICK k : k = [m EXCEPT !.ok = FALSE]
    OBVIOUS
  <2>2. n.m = k /\ n.left = {}
    BY <1>2, <2>1 DEF NewPage
  <2>3. Owns(k, U) /\ k.pg = m.pg /\ k.panic = m.panic /\ k.ok = FALSE
    BY <2>1, OkChanged
  <2>4. U \ {} = U
    OBVIOUS
  <2> QED BY <2>2, <2>3, <2>4 DEF Only
<1>3. CASE m.free # {}
  <2>1. PICK f : f = Min(m.free)
    OBVIOUS
  <2>2. m.free \in SUBSET Nat /\ m.free \in SUBSET Frames
    BY <1>1, ViewFields, MemoryAssumption
  <2>3. f \in m.free /\ f \in Frames
    BY <1>3, <2>1, <2>2, MinIn
  <2>4. f \in U
    BY <2>3 DEF Owns, Has
  <2>5. PICK m0 : m0 = WithFree(m, m.free \ {f})
    OBVIOUS
  <2>6. /\ Owns(m0, U \ {f}) /\ m0.pg = m.pg /\ m0.ok = m.ok /\ m0.panic = m.panic
    <3>1. PICK L : L = {f}
      OBVIOUS
    <3>3. PICK fr : fr = m.free \ L
      OBVIOUS
    <3>4. PICK V : V = U \ L
      OBVIOUS
    <3>5. m0 = WithFree(m, fr)
      BY <2>5, <3>1, <3>3, Zenon
    <3>7. L \subseteq m.free /\ Joins(V, L, U)
      BY <2>3, <2>4, <3>1, <3>4 DEF Joins
    <3>6. /\ Owns(m0, V) /\ m0.pg = m.pg /\ m0.ok = m.ok /\ m0.panic = m.panic
      BY <3>3, <3>5, <3>7, FreeLess
    <3> QED BY <3>1, <3>4, <3>6, Zenon
  <2>7. PICK w : w = walk(m0, p)
    OBVIOUS
  <2>8. /\ Owns(w, U \ {f}) /\ Only(m0, w, Tables) /\ w.panic = m0.panic
        /\ w.ok => m0.ok
    BY <2>6, <2>7, WalkOwns
  <2>9. w.pg[p] = m.pg[p] /\ Only(m, w, Tables)
    BY <1>1, <2>6, <2>8 DEF Only
  <2>10. /\ n.m = mappages(m0, p, f)
         /\ n.left = IF mappages(m0, p, f).ok THEN {} ELSE {f}
    BY <1>3, <2>1, <2>5 DEF NewPage, WithFree
  <2>11. w \in Views
    BY <2>8 DEF Owns
  <2>12. CASE w.ok /\ w.pg[p] # None
    <3>1. n.m = WithPanic(w, "remap")
      BY <2>7, <2>10, <2>12 DEF mappages, WithPanic
    <3>2. n.m \in Views /\ n.m.panic = "remap" /\ n.m.ok = w.ok
      <4>1. PICK text \in Texts : text = "remap"
        BY DEF Texts
      <4>2. PICK k : k = WithPanic(w, text)
        OBVIOUS
      <4>3. k \in Views /\ k.panic = text /\ k.ok = w.ok
        BY <2>11, <4>2, PanicChanged
      <4> QED BY <3>1, <4>1, <4>2, <4>3
    <3> QED BY <2>9, <2>12, <3>2
  <2>13. CASE w.ok /\ w.pg[p] = None
    <3>1. PICK k : k = WithPage(w, p, f)
      OBVIOUS
    <3>2. mappages(m0, p, f) = k
      BY <2>7, <2>13, <3>1 DEF mappages, WithPage
    <3>3. /\ Owns(k, (U \ {f}) \cup {f}) /\ Only(w, k, {p}) /\ k.pg[p] = f
          /\ k.ok = w.ok /\ k.panic = w.panic
      <4>1. PICK W : W = U \ {f}
        OBVIOUS
      <4>2. f \notin W /\ Owns(w, W)
        BY <2>8, <4>1
      <4>3. PICK V : V = And(W, f)
        OBVIOUS
      <4>4. /\ Owns(k, V) /\ Only(w, k, {p}) /\ k.pg[p] = f
            /\ k.ok = w.ok /\ k.panic = w.panic
        <5>1. Owns(w, W) /\ f \in Frames /\ f \notin W /\ p \in Entries /\ w.pg[p] = None
          BY <1>1, <2>3, <2>13, <4>2
        <5> QED BY <3>1, <4>3, <5>1, Mapped, SMTT(60)
      <4> QED BY <4>1, <4>3, <4>4, Zenon DEF And
    <3>4. n.m = k /\ n.left = {}
      BY <2>10, <2>13, <3>2, <3>3
    <3>5. (U \ {f}) \cup {f} = U \ {}
      BY <2>4
    <3>6. f # None
      BY <2>3, NoneIsNoFrame
    <3>7. Only(m, k, Tables \cup {p})
      BY <2>9, <3>3 DEF Only
    <3> QED BY <2>6, <2>8, <2>13, <3>3, <3>4, <3>5, <3>6, <3>7
  <2>14. CASE ~w.ok
    <3>1. mappages(m0, p, f) = w
      BY <2>7, <2>14 DEF mappages
    <3>2. n.m = w /\ n.left = {f}
      BY <2>10, <2>14, <3>1
    <3>3. Only(m, w, Tables \cup {p})
      BY <2>9 DEF Only
    <3> QED BY <2>3, <2>4, <2>6, <2>8, <2>9, <2>14, <3>2, <3>3
  <2> QED BY <2>11, <2>12, <2>13, <2>14 DEF Views
<1> QED BY <1>2, <1>3

(* userUnmap gives the frames of pages back. *)
LEMMA UnmapOwns ==
    ASSUME NEW m, NEW U, Owns(m, U), NEW ps, ps \cap Tables = {}, NEW m2,
           m2 = userUnmap(m, ps)
    PROVE  /\ Owns(m2, U) /\ m2.ok = m.ok /\ m2.panic = m.panic
           /\ \A e \in Entries : m2.pg[e] = IF e \in ps THEN None ELSE m.pg[e]
<1>1. m \in Views /\ Apart(m)
  BY DEF Owns
<1>2. m.free \in SUBSET Frames /\ m.pg \in [Entries -> Frames \cup {None}]
  BY <1>1, ViewFields
<1>3. PICK fr : fr = m.free \cup ({m.pg[p] : p \in ps \cap Pages} \ {None})
  OBVIOUS
<1>4. PICK pg : pg = [e \in Entries |-> IF e \in ps THEN None ELSE m.pg[e]]
  OBVIOUS
<1>5. m2 = With(m, fr, pg)
  BY <1>3, <1>4 DEF userUnmap, With
<1>6. fr \in SUBSET Frames /\ pg \in [Entries -> Frames \cup {None}]
  BY <1>2, <1>3, <1>4, TablesApart
<1>7. /\ m2 \in Views /\ m2.free = fr /\ m2.pg = pg
      /\ m2.ok = m.ok /\ m2.panic = m.panic
  BY <1>1, <1>5, <1>6, WithIs
<1>8. \A e \in Entries : e \in ps => e \in ps \cap Pages
  BY DEF Entries
<1>9. Apart(m2)
  <2> SUFFICES ASSUME NEW e \in Entries, pg[e] # None
               PROVE  /\ pg[e] \notin fr
                      /\ \A d \in Entries : pg[d] = pg[e] => d = e
    BY <1>7 DEF Apart
  <2>1. e \notin ps /\ pg[e] = m.pg[e]
    BY <1>4
  <2>2. \A d \in Entries : m.pg[d] = m.pg[e] => d = e
    BY <1>1, <2>1 DEF Apart
  <2>3. \A d \in Entries : pg[d] = pg[e] => d = e
    BY <1>4, <2>1, <2>2
  <2>4. pg[e] \notin fr
    BY <1>1, <1>3, <2>1, <2>2, TablesApart DEF Apart
  <2> QED BY <2>3, <2>4
<1>10. \A f \in Frames : Has(m2, f) <=> Has(m, f)
  <2> SUFFICES ASSUME NEW f \in Frames PROVE Has(m2, f) <=> Has(m, f)
    OBVIOUS
  <2>1. f # None
    BY NoneIsNoFrame
  <2>2. ASSUME Has(m, f) PROVE Has(m2, f)
    <3>1. CASE f \in m.free
      BY <1>3, <1>7, <3>1 DEF Has
    <3>2. CASE \E e \in Entries : m.pg[e] = f
      <4>1. PICK e \in Entries : m.pg[e] = f
        BY <3>2
      <4>2. CASE e \in ps
        BY <1>3, <1>7, <1>8, <2>1, <4>1, <4>2 DEF Has
      <4>3. CASE e \notin ps
        BY <1>4, <1>7, <4>1, <4>3 DEF Has
      <4> QED BY <4>2, <4>3
    <3> QED BY <2>2, <3>1, <3>2 DEF Has
  <2>3. ASSUME Has(m2, f) PROVE Has(m, f)
    <3>1. f \in fr \/ \E e \in Entries : pg[e] = f
      BY <1>7, <2>3 DEF Has
    <3> QED BY <1>3, <1>4, <2>1, <3>1, TablesApart DEF Has
  <2> QED BY <2>2, <2>3
<1> QED BY <1>4, <1>7, <1>9, <1>10 DEF Owns

-----------------------------------------------------------------------------
(* A view whose page table maps no page. *)
Blank(m) == \A p \in Pages : m.pg[p] = None

LEMMA SpanApart ==
    ASSUME NEW a \in Nat, NEW b \in Nat
    PROVE  Span(a, b) \cap Tables = {}
<1>1. PGROUNDUP(a) \div PGSIZE \in Nat /\ PGROUNDUP(b) \div PGSIZE \in Nat
  BY Rounded
<1> QED BY <1>1 DEF Span, Tables, Map0, Root

Freed(m, m2, U) ==
    /\ Owns(m2, U) /\ m2.panic = m.panic /\ m2.ok = m.ok
    /\ m2.pg = NoTable /\ m2.free = U

(* A page table is freed with all that it has, unless a page is left. *)
LEMMA FreeTableOwns ==
    ASSUME NEW m, NEW U, Owns(m, U), NEW size \in Nat,
           NEW m2, m2 = FreeTaskPagetable(m, size)
    PROVE  \/ m2.panic = "freewalk: leaf" /\ ~Blank(m)
           \/ Freed(m, m2, U)
<1>1. PICK u : u = userUnmap(m, Span(0, size))
  OBVIOUS
<1>2. PICK ps : ps = Span(0, size)
  OBVIOUS
<1>3. ps \cap Tables = {}
  BY <1>2, SpanApart
<1>4. /\ Owns(u, U) /\ u.ok = m.ok /\ u.panic = m.panic
      /\ \A e \in Entries : u.pg[e] = IF e \in ps THEN None ELSE m.pg[e]
  BY <1>1, <1>2, <1>3, UnmapOwns
<1>5. u \in Views /\ Apart(u)
  BY <1>4 DEF Owns
<1>6. CASE \E p \in Pages : u.pg[p] # None
  <2>1. m2 = [u EXCEPT !.panic = "freewalk: leaf"]
    BY <1>1, <1>6 DEF FreeTaskPagetable
  <2>2. m2.panic = "freewalk: leaf"
    BY <1>5, <2>1 DEF Views
  <2>3. ~Blank(m)
    BY <1>4, <1>6, TablesApart DEF Blank
  <2> QED BY <2>2, <2>3
<1>7. CASE \A p \in Pages : u.pg[p] = None
  <2>1. PICK fr : fr = u.free \cup ({u.pg[e] : e \in Tables} \ {None})
    OBVIOUS
  <2>2. m2 = With(u, fr, NoTable)
    BY <1>1, <1>7, <2>1 DEF FreeTaskPagetable, With
  <2>3. u.free \in SUBSET Frames /\ u.pg \in [Entries -> Frames \cup {None}]
    BY <1>5, ViewFields
  <2>4. fr \in SUBSET Frames /\ NoTable \in [Entries -> Frames \cup {None}]
    BY <2>1, <2>3, TablesApart DEF NoTable
  <2>5. /\ m2 \in Views /\ m2.free = fr /\ m2.pg = NoTable
        /\ m2.ok = u.ok /\ m2.panic = u.panic
    BY <1>5, <2>2, <2>4, WithIs
  <2>6. \A e \in Entries : NoTable[e] = None
    BY DEF NoTable
  <2>7. \A f \in Frames : f \in fr <=> f \in U
    <3> SUFFICES ASSUME NEW f \in Frames PROVE f \in fr <=> f \in U
      OBVIOUS
    <3>1. f # None
      BY NoneIsNoFrame
    <3>2. f \in U <=> f \in u.free \/ \E e \in Entries : u.pg[e] = f
      BY <1>4 DEF Owns, Has
    <3>3. (\E e \in Entries : u.pg[e] = f) <=> \E e \in Tables : u.pg[e] = f
      BY <1>7, <3>1, TablesApart DEF Entries
    <3> QED BY <2>1, <3>1, <3>2, <3>3
  <2>8. fr = U
    BY <1>4, <2>4, <2>7 DEF Owns
  <2>9. \A f \in Frames : f \in U <=> Has(m2, f)
    BY <2>5, <2>6, <2>8, NoneIsNoFrame DEF Has
  <2> QED BY <1>4, <2>5, <2>6, <2>8, <2>9 DEF Owns, Apart, Freed
<1> QED BY <1>6, <1>7

LEMMA ViewOwns ==
    ASSUME NEW fr \in SUBSET Frames, NEW m, m = View(fr, NoTable)
    PROVE  /\ Owns(m, fr) /\ m.panic = "no" /\ m.ok /\ m.free = fr
           /\ \A e \in Entries : m.pg[e] = None
<1>1. \A e \in Entries : NoTable[e] = None
  BY DEF NoTable
<1>2. NoTable \in [Entries -> Frames \cup {None}]
  BY DEF NoTable
<1>3. /\ m \in Views /\ m.free = fr /\ m.pg = NoTable /\ m.ok = TRUE /\ m.panic = "no"
  <2>1. PICK pg : pg = NoTable
    OBVIOUS
  <2>2. m = [free |-> fr, pg |-> pg, ok |-> TRUE, panic |-> "no"]
    BY <2>1 DEF View
  <2>3. pg \in [Entries -> Frames \cup {None}]
    BY <1>2, <2>1
  <2> QED BY <2>1, <2>2, <2>3 DEF Views, Texts
<1>4. \A f \in Frames : f \in fr <=> Has(m, f)
  BY <1>1, <1>3, NoneIsNoFrame DEF Has
<1> QED BY <1>1, <1>3, <1>4 DEF Owns, Apart

LEMMA TaskPagetableOwns ==
    ASSUME NEW fr \in SUBSET Frames, NEW m, m = taskPagetable(fr)
    PROVE  /\ Owns(m, fr) /\ m.panic = "no" /\ Blank(m)
<1>0. /\ Root \in Entries /\ Top1 \in Entries /\ Top0 \in Entries
      /\ Root # Top1 /\ Root # Top0 /\ Top1 # Top0
      /\ \A p \in Pages : p \in Entries /\ p # Root /\ p # Top1 /\ p # Top0
  BY TablesApart DEF Root, Top1, Top0
<1>1. PICK a : a = View(fr, NoTable)
  OBVIOUS
<1>2. /\ Owns(a, fr) /\ a.panic = "no" /\ a.ok /\ \A e \in Entries : a.pg[e] = None
  BY <1>1, ViewOwns
<1>3. PICK b : b = alloc(a, Root)
  OBVIOUS
<1>4. Owns(b, fr) /\ Only(a, b, {Root}) /\ b.panic = a.panic
  BY <1>0, <1>2, <1>3, AllocOwns
<1>5. b.pg[Top1] = None
  BY <1>0, <1>2, <1>4 DEF Only
<1>6. PICK c : c = alloc(b, Top1)
  OBVIOUS
<1>7. Owns(c, fr) /\ Only(b, c, {Top1}) /\ c.panic = b.panic
  BY <1>0, <1>4, <1>5, <1>6, AllocOwns
<1>8. c.pg[Top0] = None
  BY <1>0, <1>2, <1>4, <1>7 DEF Only
<1>9. PICK d : d = alloc(c, Top0)
  OBVIOUS
<1>10. Owns(d, fr) /\ Only(c, d, {Top0}) /\ d.panic = c.panic
  BY <1>0, <1>7, <1>8, <1>9, AllocOwns
<1>11. Blank(d)
  <2> SUFFICES ASSUME NEW p \in Pages PROVE d.pg[p] = None
    BY DEF Blank
  <2>1. a.pg[p] = None /\ b.pg[p] = a.pg[p] /\ c.pg[p] = b.pg[p] /\ d.pg[p] = c.pg[p]
    BY <1>0, <1>2, <1>4, <1>7, <1>10 DEF Only
  <2> QED BY <2>1
<1>12. m = IF d.ok THEN d ELSE [FreeTaskPagetable(d, 0) EXCEPT !.ok = FALSE]
  BY <1>1, <1>3, <1>6, <1>9 DEF taskPagetable
<1>13. CASE d.ok
  BY <1>2, <1>4, <1>7, <1>10, <1>11, <1>12, <1>13
<1>14. CASE ~d.ok
  <2>0. PICK size \in Nat : size = 0
    OBVIOUS
  <2>1. PICK x : x = FreeTaskPagetable(d, size)
    OBVIOUS
  <2>2. Owns(x, fr) /\ x.panic = d.panic /\ x.pg = NoTable
    <3>1. Freed(d, x, fr)
      BY <1>10, <1>11, <2>1, FreeTableOwns
    <3> QED BY <3>1 DEF Freed
  <2>3. m = [x EXCEPT !.ok = FALSE]
    BY <1>12, <1>14, <2>0, <2>1
  <2>4. Owns(m, fr) /\ m.panic = x.panic /\ m.pg = x.pg
    BY <2>2, <2>3, OkChanged
  <2>5. Blank(m)
    BY <2>2, <2>4, TablesApart DEF Blank, NoTable
  <2> QED BY <1>2, <1>4, <1>7, <1>10, <2>2, <2>4, <2>5
<1> QED BY <1>13, <1>14

-----------------------------------------------------------------------------
(* userAlloc and CopyPages go through the pages with a recursive function. *)

(* What one round of userAlloc makes of x, at page k - 1. *)
UpStep(x, k) ==
    IF ~x.m.ok \/ x.m.panic # "no" THEN x
    ELSE LET n == NewPage(x.m, k - 1)
         IN [m |-> [n.m EXCEPT !.free = @ \cup n.left], at |-> k - 1]

(* The pages up to k that a round may have mapped. *)
UpReached(x, k) == IF x.m.ok THEN k ELSE x.at

UpInv(m, U, lo, x, k) ==
    \/ x.m.panic # "no" /\ x.m.ok /\ ~Blank(m)
    \/ /\ Owns(x.m, U) /\ x.m.panic = "no"
       /\ x.at \in Int /\ x.at <= k
       /\ Blank(m) => \A p \in Pages : x.m.pg[p] # None => lo <= p /\ p < UpReached(x, k)

LEMMA UpStepOwns ==
    ASSUME NEW m, NEW U, NEW lo \in Nat, NEW k \in Nat, lo < k, k - 1 \in Pages,
           NEW x, UpInv(m, U, lo, x, k - 1), NEW y, y = UpStep(x, k)
    PROVE  UpInv(m, U, lo, y, k)
<1>1. CASE ~x.m.ok \/ x.m.panic # "no"
  <2>1. y = x
    BY <1>1 DEF UpStep
  <2>2. CASE x.m.panic # "no" /\ x.m.ok /\ ~Blank(m)
    BY <2>1, <2>2 DEF UpInv
  <2>3. CASE ~(x.m.panic # "no" /\ x.m.ok /\ ~Blank(m))
    <3>1. /\ Owns(x.m, U) /\ x.m.panic = "no"
          /\ x.at \in Int /\ x.at <= k - 1
          /\ Blank(m) => \A p \in Pages : x.m.pg[p] # None => lo <= p /\ p < UpReached(x, k - 1)
      BY <2>3 DEF UpInv
    <3>2. UpReached(x, k - 1) = x.at /\ UpReached(x, k) = x.at
      BY <1>1, <3>1 DEF UpReached
    <3>3. x.at <= k
      BY <3>1
    <3> QED BY <2>1, <3>1, <3>2, <3>3 DEF UpInv
  <2> QED BY <2>2, <2>3
<1>2. CASE x.m.ok /\ x.m.panic = "no"
  <2>1. /\ Owns(x.m, U) /\ x.m.panic = "no"
        /\ Blank(m) => \A p \in Pages : x.m.pg[p] # None => lo <= p /\ p < k - 1
    BY <1>2 DEF UpInv, UpReached
  <2>2. PICK xm : xm = x.m
    OBVIOUS
  <2>3. PICK q \in Pages : q = k - 1
    OBVIOUS
  <2>4. PICK n : n = NewPage(xm, q)
    OBVIOUS
  <2>5. PICK nm : nm = n.m
    OBVIOUS
  <2>6. PICK fr : fr = nm.free \cup n.left
    OBVIOUS
  <2>7. PICK z : z = WithFree(nm, fr)
    OBVIOUS
  <2>8. y = [m |-> z, at |-> q]
    <3>1. y = [m |-> [n.m EXCEPT !.free = n.m.free \cup n.left], at |-> q]
      BY <1>2, <2>2, <2>3, <2>4 DEF UpStep
    <3> QED BY <2>5, <2>6, <2>7, <3>1 DEF WithFree
  <2>9. y.m = z /\ y.at = q
    BY <2>8
  <2>10. Owns(xm, U)
    BY <2>1, <2>2
  <2>11. CASE Remapped(xm, q, n)
    <3>1. nm \in Views /\ nm.panic = "remap" /\ nm.ok /\ xm.pg[q] # None
      BY <2>5, <2>11 DEF Remapped
    <3>2. z.panic = "remap" /\ z.ok
      BY <2>7, <3>1 DEF Views, WithFree
    <3>3. ~Blank(m)
      BY <2>1, <2>2, <2>3, <3>1
    <3> QED BY <2>9, <3>2, <3>3 DEF UpInv
  <2>12. CASE Gained(xm, U, q, n)
    <3>1. PICK L : L = n.left
      OBVIOUS
    <3>2. PICK W : W = U \ L
      OBVIOUS
    <3>3. /\ L \subseteq U /\ Owns(nm, W) /\ Only(xm, nm, Tables \cup {q})
          /\ nm.panic = xm.panic
          /\ nm.ok => L = {} /\ xm.ok /\ nm.pg[q] # None
          /\ ~nm.ok => nm.pg[q] = xm.pg[q]
      BY <2>5, <2>12, <3>1, <3>2 DEF Gained
    <3>4. U \subseteq Frames
      BY <2>10 DEF Owns
    <3>5. Joins(W, L, U)
      BY <3>2, <3>3, <3>4 DEF Joins
    <3>6. fr = nm.free \cup L
      BY <2>6, <3>1
    <3>7. Owns(z, U) /\ z.pg = nm.pg /\ z.ok = nm.ok /\ z.panic = nm.panic
      BY <2>7, <3>3, <3>5, <3>6, FreeMore
    <3>8. y.at \in Int /\ y.at <= k
      BY <2>3, <2>9 DEF Pages
    <3>9. ASSUME Blank(m), NEW p \in Pages, z.pg[p] # None
          PROVE  lo <= p /\ p < UpReached(y, k)
      <4>1. p \in Entries /\ p \notin Tables /\ q \in Entries /\ p \in Int /\ q = k - 1
        BY <2>3, TablesApart DEF Pages
      <4>2. CASE p = q
        <5>1. z.ok
          <6>1. xm.pg[q] = None
            BY <2>1, <2>2, <2>3, <3>9
          <6> QED BY <3>3, <3>7, <3>9, <4>2, <6>1
        <5>2. UpReached(y, k) = k
          BY <2>9, <5>1 DEF UpReached
        <5> QED BY <4>1, <4>2, <5>2
      <4>3. CASE p # q
        <5>1. xm.pg[p] # None
          BY <3>3, <3>7, <3>9, <4>1, <4>3 DEF Only
        <5>2. lo <= p /\ p < q
          BY <2>1, <2>2, <2>3, <3>9, <5>1
        <5>3. UpReached(y, k) = k \/ UpReached(y, k) = q
          BY <2>9 DEF UpReached
        <5> QED BY <4>1, <5>2, <5>3
      <4> QED BY <4>2, <4>3
    <3> QED BY <2>1, <2>2, <2>9, <3>3, <3>7, <3>8, <3>9 DEF UpInv
  <2> QED BY <2>4, <2>10, <2>11, <2>12, NewPageOwns
<1> QED BY <1>1, <1>2 DEF UpInv

Grown(m, m2, U) ==
    Owns(m2, U) /\ m2.panic = "no" /\ (Blank(m) /\ ~m2.ok => Blank(m2))

LEMMA MapRangeOwns ==
    ASSUME NEW m, NEW U, Owns(m, U), m.panic = "no", NEW lo \in Nat, NEW hi \in Nat,
           lo < hi, hi <= LowPages, NEW x, x = MapRange(m, lo, hi)
    PROVE  UpInv(m, U, lo, x, hi)
<1> DEFINE up[k \in lo .. hi] == IF k = lo THEN [m |-> m, at |-> lo] ELSE UpStep(up[k - 1], k)
<1>1. x = up[hi]
  BY DEF MapRange, UpStep
<1>2. hi \in lo .. hi
  OBVIOUS
<1>3. up = [k \in lo .. hi |-> IF k = lo THEN [m |-> m, at |-> lo] ELSE UpStep(up[k - 1], k)]
  <2> DEFINE Is(h, u) == u = [k \in lo .. h |-> IF k = lo THEN [m |-> m, at |-> lo]
                                                ELSE UpStep(u[k - 1], k)]
             Bad == {h \in lo .. hi : ~\E u : Is(h, u)}
  <2>1. ASSUME Bad # {} PROVE FALSE
    <3>1. Bad \in SUBSET Nat
      OBVIOUS
    <3>2. PICK h \in Bad : \A j \in Bad : h <= j
      <4> HIDE DEF Bad
      <4> QED BY <2>1, <3>1, FirstOf
    <3>3. h \in lo .. hi /\ ~\E u : Is(h, u)
      BY <3>2
    <3>4. CASE h = lo
      <4>1. Is(lo, [k \in lo .. lo |-> [m |-> m, at |-> lo]])
        OBVIOUS
      <4> HIDE DEF Is
      <4> QED BY <3>3, <3>4, <4>1
    <3>5. CASE h # lo
      <4>1. h - 1 \in lo .. hi /\ h - 1 \notin Bad
        <5> HIDE DEF Bad
        <5> QED BY <3>1, <3>2, <3>3, <3>5
      <4>2. PICK u : Is(h - 1, u)
        BY <4>1
      <4>3. \A k \in lo .. h - 1 : u[k] = IF k = lo THEN [m |-> m, at |-> lo]
                                          ELSE UpStep(u[k - 1], k)
        BY <4>2
      <4> DEFINE v == [k \in lo .. h |-> IF k = h THEN UpStep(u[h - 1], h) ELSE u[k]]
      <4>4. \A k \in lo .. h : v[k] = IF k = lo THEN [m |-> m, at |-> lo]
                                      ELSE UpStep(v[k - 1], k)
        <5> SUFFICES ASSUME NEW k \in lo .. h
                     PROVE  v[k] = IF k = lo THEN [m |-> m, at |-> lo] ELSE UpStep(v[k - 1], k)
          OBVIOUS
        <5>1. CASE k = h
          <6>1. h - 1 \in lo .. h /\ h - 1 # h
            BY <3>3, <3>5
          <6>2. v[h - 1] = u[h - 1]
            BY <6>1
          <6>3. v[h] = UpStep(u[h - 1], h)
            BY <3>3
          <6> HIDE DEF v
          <6> QED BY <3>5, <5>1, <6>2, <6>3
        <5>2. CASE k # h
          <6>1. k \in lo .. h - 1 /\ (k # lo => k - 1 \in lo .. h /\ k - 1 # h)
            BY <3>3, <5>2
          <6>2. v[k] = u[k] /\ (k # lo => v[k - 1] = u[k - 1])
            BY <5>2, <6>1
          <6> HIDE DEF v
          <6> QED BY <4>3, <6>1, <6>2
        <5> QED BY <5>1, <5>2
      <4>5. v = [k \in lo .. h |-> v[k]]
        OBVIOUS
      <4>6. Is(h, v)
        <5> HIDE DEF v
        <5> QED BY <4>4, <4>5
      <4> HIDE DEF Is
      <4> QED BY <3>3, <4>6
    <3> QED BY <3>4, <3>5
  <2>2. \E u : Is(hi, u)
    <3> HIDE DEF Is
    <3> QED BY <1>2, <2>1
  <2> QED BY <2>2
<1> HIDE DEF up
<1> DEFINE Off == {k \in lo .. hi : ~UpInv(m, U, lo, up[k], k)}
<1>4. UpInv(m, U, lo, up[lo], lo)
  <2>1. up[lo] = [m |-> m, at |-> lo]
    BY <1>2, <1>3
  <2>2. up[lo].m = m /\ up[lo].at = lo
    BY <2>1
  <2>3. Blank(m) => \A p \in Pages : m.pg[p] = None
    BY DEF Blank
  <2> QED BY <2>2, <2>3 DEF UpInv
<1>5. ASSUME NEW k \in lo .. hi, k # lo, UpInv(m, U, lo, up[k - 1], k - 1)
      PROVE  UpInv(m, U, lo, up[k], k)
  <2>1. k \in Nat /\ lo < k /\ k - 1 \in Pages
    BY <1>5, MemorySizes DEF Pages
  <2>2. PICK z : z = up[k - 1]
    OBVIOUS
  <2>3. PICK y : y = up[k]
    OBVIOUS
  <2>4. y = UpStep(z, k)
    BY <1>3, <1>5, <2>2, <2>3
  <2>5. UpInv(m, U, lo, z, k - 1)
    BY <1>5, <2>2
  <2>6. UpInv(m, U, lo, y, k)
    BY <2>1, <2>4, <2>5, UpStepOwns
  <2> QED BY <2>3, <2>6
<1>6. Off = {}
  <2> SUFFICES ASSUME Off # {} PROVE FALSE
    OBVIOUS
  <2>1. Off \in SUBSET Nat
    OBVIOUS
  <2>2. PICK k \in Off : \A j \in Off : k <= j
    <3> HIDE DEF Off
    <3> QED BY <2>1, FirstOf
  <2>3. k \in lo .. hi /\ ~UpInv(m, U, lo, up[k], k)
    BY <2>2
  <2>4. k # lo
    BY <1>4, <2>3
  <2>5. k - 1 \in lo .. hi /\ k - 1 \notin Off
    <3> HIDE DEF Off
    <3> QED BY <2>2, <2>3, <2>4
  <2> QED BY <1>5, <2>3, <2>4, <2>5
<1> QED BY <1>6, <1>1, <1>2

LEMMA UserAllocOwns ==
    ASSUME NEW m, NEW U, Owns(m, U), m.panic = "no", NEW old \in Nat, NEW new \in Nat,
           new <= LowPages * PGSIZE, NEW m2, m2 = userAlloc(m, old, new)
    PROVE  (m2.panic # "no" /\ ~Blank(m)) \/ Grown(m, m2, U)
<1>1. PICK lo : lo = PGROUNDUP(old) \div PGSIZE
  OBVIOUS
<1>2. PICK hi : hi = PGROUNDUP(new) \div PGSIZE
  OBVIOUS
<1>3. lo \in Nat /\ hi \in Nat /\ hi <= LowPages
  BY <1>1, <1>2, Rounded, MemorySizes
<1>4. m2 = IF new < old \/ lo >= hi THEN m
           ELSE LET last == MapRange(m, lo, hi)
                IN  IF last.m.ok THEN last.m ELSE userUnmap(last.m, lo .. last.at - 1)
  BY <1>1, <1>2 DEF userAlloc
<1>5. CASE new < old \/ lo >= hi
  BY <1>4, <1>5 DEF Grown
<1>6. CASE ~(new < old \/ lo >= hi)
  <2>0. lo < hi
    BY <1>3, <1>6
  <2>5. PICK x : x = MapRange(m, lo, hi)
    OBVIOUS
  <2>6. UpInv(m, U, lo, x, hi)
    BY <1>3, <2>0, <2>5, MapRangeOwns
  <2>7. m2 = IF x.m.ok THEN x.m ELSE userUnmap(x.m, lo .. x.at - 1)
    BY <1>4, <1>6, <2>5
  <2>8. CASE x.m.ok
    BY <2>6, <2>7, <2>8 DEF UpInv, Grown
  <2>9. CASE ~x.m.ok
    <3>1. /\ Owns(x.m, U) /\ x.m.panic = "no"
          /\ x.at \in Int
          /\ Blank(m) => \A p \in Pages : x.m.pg[p] # None => lo <= p /\ p < x.at
      BY <2>6, <2>9 DEF UpInv, UpReached
    <3>2. PICK ps : ps = lo .. x.at - 1
      OBVIOUS
    <3>3. ps \cap Tables = {}
      BY <1>3, <3>1, <3>2 DEF Tables, Root, Map0
    <3>4. PICK xm : xm = x.m
      OBVIOUS
    <3>5. Owns(xm, U) /\ m2 = userUnmap(xm, ps)
      BY <2>7, <2>9, <3>1, <3>2, <3>4
    <3>6. /\ Owns(m2, U) /\ m2.ok = xm.ok /\ m2.panic = xm.panic
          /\ \A e \in Entries : m2.pg[e] = IF e \in ps THEN None ELSE xm.pg[e]
      BY <3>3, <3>5, UnmapOwns
    <3>7. ASSUME Blank(m) PROVE Blank(m2)
      <4> SUFFICES ASSUME NEW p \in Pages PROVE m2.pg[p] = None
        BY DEF Blank
      <4>1. p \in Entries /\ p \in Int
        BY TablesApart DEF Pages
      <4>2. p \notin ps => xm.pg[p] = None
        BY <1>3, <3>1, <3>2, <3>4, <3>7, <4>1
      <4> QED BY <3>6, <4>1, <4>2
    <3> QED BY <3>1, <3>4, <3>6, <3>7 DEF Grown
  <2> QED BY <2>8, <2>9
<1> QED BY <1>5, <1>6

CopyStep(x, k, mapped) ==
    IF k - 1 \notin mapped \/ x.panic # "no" THEN x
    ELSE LET n == NewPage(x, k - 1).m
         IN IF n.ok THEN n ELSE [n EXCEPT !.panic = "userVmCopy: alloc mem fail"]

LEMMA CopyStepOwns ==
    ASSUME NEW U, NEW k \in Nat, k - 1 \in Pages, NEW mapped, NEW x,
           x.panic # "no" \/ Owns(x, U), NEW y, y = CopyStep(x, k, mapped)
    PROVE  y.panic # "no" \/ Owns(y, U)
<1>1. CASE k - 1 \notin mapped \/ x.panic # "no"
  BY <1>1 DEF CopyStep
<1>2. CASE ~(k - 1 \notin mapped \/ x.panic # "no")
  <2>1. PICK q \in Pages : q = k - 1
    OBVIOUS
  <2>2. PICK r : r = NewPage(x, q)
    OBVIOUS
  <2>3. PICK n : n = r.m
    OBVIOUS
  <2>4. y = IF n.ok THEN n ELSE WithPanic(n, "userVmCopy: alloc mem fail")
    BY <1>2, <2>1, <2>2, <2>3 DEF CopyStep, WithPanic
  <2>5. Owns(x, U)
    BY <1>2
  <2>6. CASE Remapped(x, q, r)
    BY <2>3, <2>4, <2>6 DEF Remapped
  <2>7. CASE Gained(x, U, q, r)
    <3>1. CASE n.ok
      <4>1. U \ r.left = U /\ Owns(n, U \ r.left)
        BY <2>3, <2>7, <3>1 DEF Gained
      <4> QED BY <2>4, <3>1, <4>1
    <3>2. CASE ~n.ok
      <4>1. n \in Views
        BY <2>3, <2>7 DEF Gained, Owns
      <4>2. PICK text \in Texts : text = "userVmCopy: alloc mem fail"
        BY DEF Texts
      <4>3. PICK z : z = WithPanic(n, text)
        OBVIOUS
      <4>4. z.panic = text
        BY <4>1, <4>3, PanicChanged
      <4> QED BY <2>4, <3>2, <4>2, <4>3, <4>4
    <3> QED BY <3>1, <3>2
  <2> QED BY <2>2, <2>5, <2>6, <2>7, NewPageOwns
<1> QED BY <1>1, <1>2

LEMMA CopyPagesOwns ==
    ASSUME NEW m, NEW U, Owns(m, U), NEW from, NEW ps, NEW m2, m2 = CopyPages(m, from, ps)
    PROVE  m2.panic # "no" \/ Owns(m2, U)
<1> DEFINE mapped == {p \in ps : from[p] # None}
           cp[k \in 0 .. LowPages] == IF k = 0 THEN m ELSE CopyStep(cp[k - 1], k, mapped)
<1>0. LowPages \in Nat /\ LowPages \in 0 .. LowPages
  BY MemorySizes
<1>1. m2 = IF ps # {} /\ from[Low0] = None THEN WithPanic(m, "userVmCopy: pte not present")
           ELSE cp[LowPages]
  BY DEF CopyPages, CopyStep, WithPanic
<1>2. CASE ps # {} /\ from[Low0] = None
  <2>1. m \in Views
    BY DEF Owns
  <2>2. PICK text \in Texts : text = "userVmCopy: pte not present"
    BY DEF Texts
  <2>3. PICK z : z = WithPanic(m, text)
    OBVIOUS
  <2>4. z.panic = text
    BY <2>1, <2>3, PanicChanged
  <2> QED BY <1>1, <1>2, <2>2, <2>3, <2>4
<1>3. CASE ~(ps # {} /\ from[Low0] = None)
  <2> HIDE DEF mapped
  <2>1. cp = [k \in 0 .. LowPages |-> IF k = 0 THEN m ELSE CopyStep(cp[k - 1], k, mapped)]
    <3> DEFINE Is(h, u) == u = [k \in 0 .. h |-> IF k = 0 THEN m ELSE CopyStep(u[k - 1], k, mapped)]
               Bad == {h \in 0 .. LowPages : ~\E u : Is(h, u)}
    <3>1. ASSUME Bad # {} PROVE FALSE
      <4>1. Bad \in SUBSET Nat
        BY <1>0
      <4>2. PICK h \in Bad : \A j \in Bad : h <= j
        <5> HIDE DEF Bad
        <5> QED BY <3>1, <4>1, FirstOf
      <4>3. h \in 0 .. LowPages /\ ~\E u : Is(h, u)
        BY <4>2
      <4>4. CASE h = 0
        <5>1. Is(0, [k \in 0 .. 0 |-> m])
          OBVIOUS
        <5> HIDE DEF Is
        <5> QED BY <4>3, <4>4, <5>1
      <4>5. CASE h # 0
        <5>1. h - 1 \in 0 .. LowPages /\ h - 1 \notin Bad
          <6> HIDE DEF Bad
          <6> QED BY <1>0, <4>1, <4>2, <4>3, <4>5
        <5>2. PICK u : Is(h - 1, u)
          BY <5>1
        <5>3. \A k \in 0 .. h - 1 : u[k] = IF k = 0 THEN m ELSE CopyStep(u[k - 1], k, mapped)
          BY <5>2
        <5> DEFINE v == [k \in 0 .. h |-> IF k = h THEN CopyStep(u[h - 1], h, mapped) ELSE u[k]]
        <5>4. \A k \in 0 .. h : v[k] = IF k = 0 THEN m ELSE CopyStep(v[k - 1], k, mapped)
          <6> SUFFICES ASSUME NEW k \in 0 .. h
                       PROVE  v[k] = IF k = 0 THEN m ELSE CopyStep(v[k - 1], k, mapped)
            OBVIOUS
          <6>1. CASE k = h
            <7>1. h - 1 \in 0 .. h /\ h - 1 # h
              BY <1>0, <4>3, <4>5
            <7>2. v[h - 1] = u[h - 1]
              BY <7>1
            <7>3. v[h] = CopyStep(u[h - 1], h, mapped)
              BY <1>0, <4>3
            <7> HIDE DEF v
            <7> QED BY <4>5, <6>1, <7>2, <7>3
          <6>2. CASE k # h
            <7>1. k \in 0 .. h - 1 /\ (k # 0 => k - 1 \in 0 .. h /\ k - 1 # h)
              BY <1>0, <4>3, <6>2
            <7>2. v[k] = u[k] /\ (k # 0 => v[k - 1] = u[k - 1])
              BY <6>2, <7>1
            <7> HIDE DEF v
            <7> QED BY <5>3, <7>1, <7>2
          <6> QED BY <6>1, <6>2
        <5>5. v = [k \in 0 .. h |-> v[k]]
          OBVIOUS
        <5>6. Is(h, v)
          <6> HIDE DEF v
          <6> QED BY <5>4, <5>5
        <5> HIDE DEF Is
        <5> QED BY <4>3, <5>6
      <4> QED BY <4>4, <4>5
    <3>2. \E u : Is(LowPages, u)
      <4> HIDE DEF Is
      <4> QED BY <1>0, <3>1
    <3> QED BY <3>2
  <2> HIDE DEF cp
  <2> DEFINE Fine(k) == cp[k].panic # "no" \/ Owns(cp[k], U)
             Off == {k \in 0 .. LowPages : ~Fine(k)}
  <2>2. Fine(0)
    <3>1. cp[0] = m
      BY <1>0, <2>1
    <3> QED BY <3>1
  <2>3. ASSUME NEW k \in 0 .. LowPages, k # 0, Fine(k - 1) PROVE Fine(k)
    <3>1. k \in Nat /\ k - 1 \in Pages
      BY <1>0, <2>3, MemorySizes DEF Pages
    <3>2. PICK x : x = cp[k - 1]
      OBVIOUS
    <3>3. PICK y : y = cp[k]
      OBVIOUS
    <3>4. y = CopyStep(x, k, mapped)
      BY <2>1, <2>3, <3>2, <3>3
    <3>5. x.panic # "no" \/ Owns(x, U)
      BY <2>3, <3>2
    <3>6. y.panic # "no" \/ Owns(y, U)
      BY <3>1, <3>4, <3>5, CopyStepOwns
    <3> QED BY <3>3, <3>6
  <2>4. Off = {}
    <3> SUFFICES ASSUME Off # {} PROVE FALSE
      OBVIOUS
    <3> HIDE DEF Fine
    <3>1. Off \in SUBSET Nat
      BY <1>0
    <3>2. PICK k \in Off : \A j \in Off : k <= j
      <4> HIDE DEF Off
      <4> QED BY <3>1, FirstOf
    <3>3. k \in 0 .. LowPages /\ ~Fine(k)
      BY <3>2
    <3>4. k # 0
      BY <2>2, <3>3
    <3>5. k - 1 \in 0 .. LowPages /\ k - 1 \notin Off
      <4> HIDE DEF Off
      <4> QED BY <1>0, <3>1, <3>2, <3>3, <3>4
    <3> QED BY <2>3, <3>3, <3>4, <3>5
  <2>5. Fine(LowPages)
    <3> HIDE DEF Fine
    <3> QED BY <1>0, <2>4
  <2> QED BY <1>1, <1>3, <2>5
<1> QED BY <1>2, <1>3

-----------------------------------------------------------------------------
(* The frames.  Seen from one task, every frame that no other task has is  *)
(* free, lost, in the task's page table or its trapframe, and only one of  *)
(* these.                                                                  *)

HeldBy(tf, pg, f) == tf = f \/ \E e \in Entries : pg[e] = f

Rest(t) == {f \in Frames : \A u \in Tasks \ {t} : ~HeldBy(trapframe[u], pagetable[u], f)}

Parts(fr, pg, tf, lo, S) ==
    /\ fr \subseteq Frames /\ lo \subseteq Frames /\ fr \cap lo = {}
    /\ tf \in Frames \cup {None} /\ tf \notin fr /\ tf \notin lo
    /\ pg \in [Entries -> Frames \cup {None}]
    /\ \A e \in Entries : pg[e] # None =>
           /\ pg[e] # tf /\ pg[e] \notin fr /\ pg[e] \notin lo
           /\ \A d \in Entries : pg[d] = pg[e] => d = e
    /\ \A f \in Frames : f \in S <=> f \in fr \/ f \in lo \/ HeldBy(tf, pg, f)

FrameInv == \A t \in Tasks : Parts(free, pagetable[t], trapframe[t], lost, Rest(t))

(* A task that changes only what it has keeps all frames apart. *)
LEMMA Moved ==
    ASSUME FrameInv, NEW t \in Tasks, pagetable \in [Tasks -> [Entries -> Frames \cup {None}]],
           trapframe \in [Tasks -> Frames \cup {None}], NEW pg, NEW tf,
           Parts(free', pg, tf, lost', Rest(t)),
           pagetable' = [pagetable EXCEPT ![t] = pg], trapframe' = [trapframe EXCEPT ![t] = tf]
    PROVE  FrameInv'
<1>1. PICK fr : fr = free'
  OBVIOUS
<1>2. PICK lo : lo = lost'
  OBVIOUS
<1>3. PICK pt : pt = pagetable'
  OBVIOUS
<1>4. PICK tfs : tfs = trapframe'
  OBVIOUS
<1>5. /\ pt[t] = pg /\ tfs[t] = tf
      /\ \A u \in Tasks \ {t} : pt[u] = pagetable[u] /\ tfs[u] = trapframe[u]
  BY <1>3, <1>4
<1> DEFINE New(u) == {f \in Frames : \A w \in Tasks \ {u} : ~HeldBy(tfs[w], pt[w], f)}
<1>6. ASSUME NEW u \in Tasks PROVE Parts(fr, pt[u], tfs[u], lo, New(u))
  <2>1. Parts(fr, pg, tf, lo, Rest(t))
    BY <1>1, <1>2
  <2>2. CASE u = t
    <3>1. New(t) = Rest(t)
      BY <1>5 DEF Rest
    <3> QED BY <1>5, <2>1, <2>2, <3>1
  <2>3. CASE u # t
    <3>1. pt[u] = pagetable[u] /\ tfs[u] = trapframe[u] /\ u \in Tasks \ {t}
      BY <1>5, <2>3
    <3>2. PICK q : q = pagetable[u]
      OBVIOUS
    <3>3. PICK r : r = trapframe[u]
      OBVIOUS
    <3>4. Parts(free, q, r, lost, Rest(u))
      BY <3>2, <3>3 DEF FrameInv
    <3>5. \A f \in Frames : HeldBy(r, q, f) => f \notin fr /\ f \notin lo /\ ~HeldBy(tf, pg, f)
      <4> SUFFICES ASSUME NEW f \in Frames, HeldBy(r, q, f)
                   PROVE  f \notin fr /\ f \notin lo /\ ~HeldBy(tf, pg, f)
        OBVIOUS
      <4>1. f \notin Rest(t)
        BY <3>1, <3>2, <3>3 DEF Rest
      <4> QED BY <2>1, <4>1 DEF Parts
    <3>6. \A e \in Entries : q[e] # None => q[e] \in Frames /\ HeldBy(r, q, q[e])
      BY <3>4 DEF Parts, HeldBy
    <3>7. r # None => r \in Frames /\ HeldBy(r, q, r)
      BY <3>4 DEF Parts, HeldBy
    <3>8. \A f \in Frames : f \in New(u) <=> f \in fr \/ f \in lo \/ HeldBy(r, q, f)
      <4> SUFFICES ASSUME NEW f \in Frames
                   PROVE  f \in New(u) <=> f \in fr \/ f \in lo \/ HeldBy(r, q, f)
        OBVIOUS
      <4>1. f \in New(u) <=> /\ ~HeldBy(tf, pg, f)
                             /\ \A w \in Tasks \ {t, u} : ~HeldBy(trapframe[w], pagetable[w], f)
        BY <1>5, <2>3
      <4> HIDE DEF New
      <4>2. f \in Rest(t) <=> /\ ~HeldBy(r, q, f)
                              /\ \A w \in Tasks \ {t, u} : ~HeldBy(trapframe[w], pagetable[w], f)
        BY <2>3, <3>2, <3>3 DEF Rest
      <4>3. f \in Rest(t) <=> f \in fr \/ f \in lo \/ HeldBy(tf, pg, f)
        BY <2>1 DEF Parts
      <4>4. HeldBy(r, q, f) => \A w \in Tasks \ {t, u} : ~HeldBy(trapframe[w], pagetable[w], f)
        <5>1. HeldBy(r, q, f) => f \in Rest(u)
          BY <3>4 DEF Parts
        <5> QED BY <5>1 DEF Rest
      <4>5. f \in fr \/ f \in lo => ~HeldBy(tf, pg, f)
        BY <2>1, NoneIsNoFrame DEF Parts, HeldBy
      <4> QED BY <3>5, <4>1, <4>2, <4>3, <4>4, <4>5
    <3> HIDE DEF New
    <3>9. Parts(fr, q, r, lo, New(u))
      <4>1. fr \subseteq Frames /\ lo \subseteq Frames /\ fr \cap lo = {}
        BY <2>1 DEF Parts
      <4>2. r \in Frames \cup {None} /\ r \notin fr /\ r \notin lo
        BY <3>4, <3>5, <3>7, <4>1, NoneIsNoFrame DEF Parts
      <4>3. /\ q \in [Entries -> Frames \cup {None}]
            /\ \A e \in Entries : q[e] # None =>
                   q[e] # r /\ \A d \in Entries : q[d] = q[e] => d = e
        BY <3>4 DEF Parts
      <4>4. \A e \in Entries : q[e] # None => q[e] \notin fr /\ q[e] \notin lo
        BY <3>5, <3>6
      <4> QED BY <3>8, <4>1, <4>2, <4>3, <4>4 DEF Parts
    <3> QED BY <3>1, <3>2, <3>3, <3>9
  <2> QED BY <2>2, <2>3
<1>7. \A u \in Tasks : Rest(u)' = New(u)
  BY <1>3, <1>4 DEF Rest
<1> HIDE DEF New
<1> QED BY <1>1, <1>2, <1>3, <1>4, <1>6, <1>7 DEF FrameInv

(* What is free or in the page table of t. *)
Reach(t) == {f \in Frames : f \in free \/ \E e \in Entries : pagetable[t][e] = f}

LEMMA Begin ==
    ASSUME FrameInv, NEW t \in Tasks, NEW m, m = View(free, pagetable[t])
    PROVE  Owns(m, Reach(t)) /\ m.panic = "no" /\ m.pg = pagetable[t] /\ m.free = free
<1>1. PICK pg : pg = pagetable[t]
  OBVIOUS
<1>2. Parts(free, pg, trapframe[t], lost, Rest(t))
  BY <1>1 DEF FrameInv
<1>3. pg \in [Entries -> Frames \cup {None}] /\ free \in SUBSET Frames
  BY <1>2 DEF Parts
<1>4. m = [free |-> free, pg |-> pg, ok |-> TRUE, panic |-> "no"]
  BY <1>1 DEF View
<1>5. /\ m \in Views /\ m.free = free /\ m.pg = pg /\ m.panic = "no"
  BY <1>3, <1>4 DEF Views, Texts
<1>6. Apart(m)
  BY <1>2, <1>5 DEF Parts, Apart
<1>7. \A f \in Frames : f \in Reach(t) <=> Has(m, f)
  BY <1>1, <1>5 DEF Reach, Has
<1>8. Reach(t) \subseteq Frames
  BY DEF Reach
<1> QED BY <1>1, <1>5, <1>6, <1>7, <1>8 DEF Owns

(* W, lo and tf have the frames that t had, or that were lost, once each. *)
Shared(t, W, lo, tf) ==
    /\ lo \subseteq Frames /\ W \cap lo = {}
    /\ tf \in Frames \cup {None} /\ tf \notin W /\ tf \notin lo
    /\ \A f \in Frames : f \in W \/ f \in lo \/ f = tf
                         <=> f \in Reach(t) \/ f \in lost \/ f = trapframe[t]

LEMMA End ==
    ASSUME FrameInv, NEW t \in Tasks, NEW m, NEW W, Owns(m, W), NEW lo, NEW tf, Shared(t, W, lo, tf),
           NEW fr, fr = m.free, NEW pg, pg = m.pg
    PROVE  Parts(fr, pg, tf, lo, Rest(t))
<1>1. m \in Views /\ Apart(m) /\ W \subseteq Frames
  BY DEF Owns
<1>2. fr \subseteq Frames /\ pg \in [Entries -> Frames \cup {None}]
  BY <1>1, ViewFields
<1>3. \A f \in Frames : f \in W <=> f \in fr \/ \E e \in Entries : pg[e] = f
  BY DEF Owns, Has
<1>4. fr \cap lo = {} /\ tf \notin fr
  BY <1>2, <1>3 DEF Shared
<1>5. ASSUME NEW e \in Entries, pg[e] # None
      PROVE  /\ pg[e] # tf /\ pg[e] \notin fr /\ pg[e] \notin lo
             /\ \A d \in Entries : pg[d] = pg[e] => d = e
  <2>1. pg[e] \in Frames /\ pg[e] \in W
    BY <1>2, <1>3, <1>5
  <2>2. pg[e] \notin fr /\ \A d \in Entries : pg[d] = pg[e] => d = e
    BY <1>1, <1>5 DEF Apart
  <2> QED BY <2>1, <2>2 DEF Shared
<1>6. ASSUME NEW f \in Frames
      PROVE  f \in Rest(t) <=> f \in fr \/ f \in lo \/ HeldBy(tf, pg, f)
  <2>1. Parts(free, pagetable[t], trapframe[t], lost, Rest(t))
    BY DEF FrameInv
  <2>2. f \in Rest(t) <=> f \in free \/ f \in lost \/ HeldBy(trapframe[t], pagetable[t], f)
    BY <2>1 DEF Parts
  <2>3. f \in Reach(t) <=> f \in free \/ \E e \in Entries : pagetable[t][e] = f
    BY DEF Reach
  <2>4. f \in W \/ f \in lo \/ f = tf <=> f \in Reach(t) \/ f \in lost \/ f = trapframe[t]
    BY DEF Shared
  <2> QED BY <1>3, <2>2, <2>3, <2>4 DEF HeldBy
<1> QED BY <1>2, <1>4, <1>5, <1>6 DEF Parts, Shared

LEMMA Apart3 ==
    ASSUME FrameInv, NEW t \in Tasks
    PROVE  Shared(t, Reach(t), lost, trapframe[t])
<1>1. PICK pg : pg = pagetable[t]
  OBVIOUS
<1>2. PICK tf : tf = trapframe[t]
  OBVIOUS
<1>3. Parts(free, pg, tf, lost, Rest(t))
  BY <1>1, <1>2 DEF FrameInv
<1>4. ASSUME NEW f \in Reach(t) PROVE f \in Frames /\ f \notin lost /\ f # tf
  <2>1. f \in Frames /\ (f \in free \/ \E e \in Entries : pg[e] = f)
    BY <1>1 DEF Reach
  <2> QED BY <1>3, <2>1, NoneIsNoFrame DEF Parts
<1> QED BY <1>2, <1>3, <1>4 DEF Shared, Parts

(* f pairs the members of S with those of T. *)
Pairs(f, S, T) ==
    /\ f \in [S -> T]
    /\ \A x, y \in S : f[x] = f[y] => x = y
    /\ \A y \in T : \E x \in S : f[x] = y

LEMMA SameCount ==
    ASSUME NEW S, IsFiniteSet(S), NEW T, NEW f, Pairs(f, S, T)
    PROVE  IsFiniteSet(T) /\ Cardinality(T) = Cardinality(S)
<1>1. f \in Bijection(S, T)
  BY DEF Pairs, Bijection, Injection, Surjection, IsInjective
<1>2. ExistsBijection(S, T)
  BY <1>1 DEF ExistsBijection
<1> QED BY <1>2, FS_Bijection

LEMMA FewEntries == IsFiniteSet(Entries) /\ IsFiniteSet(Tasks) /\ IsFiniteSet(Indices)
                    /\ IsFiniteSet(Slots)
<1>1. IsFiniteSet(Tables)
  <2>1. Map0 \in Int /\ Root \in Int
    BY DEF Map0, Root
  <2> QED BY <2>1, FS_Interval DEF Tables
<1>2. IsFiniteSet(Pages)
  BY FS_Interval, MemorySizes DEF Pages
<1>3. IsFiniteSet(Indices) /\ IsFiniteSet(Slots)
  BY FS_Interval, MemorySizes DEF Indices, Slots
<1> QED BY <1>1, <1>2, <1>3, FS_Union, MemoryAssumption DEF Entries

(* FrameInv says that At is one to one. *)
LEMMA FramesAreOwned ==
    ASSUME TypeOK, FrameInv
    PROVE  FramesOwned
<1>1. \A x \in Tasks \X (Entries \cup {Trap}) :
        /\ x[1] \in Tasks /\ x[2] \in Entries \cup {Trap} /\ x = <<x[1], x[2]>>
        /\ At(x) \in Frames \cup {None}
        /\ x[2] = Trap => At(x) = trapframe[x[1]]
        /\ x[2] # Trap => At(x) = pagetable[x[1]][x[2]]
  BY DEF TypeOK, At
<1>2. Trap \notin Entries
  BY MemorySizes DEF Trap, Entries, Tables, Pages, Map0, Root
<1>3. \A x \in Uses : At(x) \in Frames /\ HeldBy(trapframe[x[1]], pagetable[x[1]], At(x))
  BY <1>1 DEF Uses, HeldBy
<1>4. ASSUME NEW x \in Uses, NEW y \in Uses, At(x) = At(y) PROVE x = y
  <2>1. PICK f : f = At(x)
    OBVIOUS
  <2>2. PICK t \in Tasks : t = x[1]
    BY <1>1 DEF Uses
  <2>3. PICK u \in Tasks : u = y[1]
    BY <1>1 DEF Uses
  <2>4. /\ f \in Frames /\ HeldBy(trapframe[t], pagetable[t], f)
        /\ HeldBy(trapframe[u], pagetable[u], f)
    BY <1>3, <1>4, <2>1, <2>2, <2>3
  <2>5. t = u
    <3>1. Parts(free, pagetable[t], trapframe[t], lost, Rest(t))
      BY DEF FrameInv
    <3>2. f \in Rest(t)
      BY <2>4, <3>1 DEF Parts
    <3> QED BY <2>4, <3>2 DEF Rest
  <2>6. PICK d : d = x[2]
    OBVIOUS
  <2>7. PICK e : e = y[2]
    OBVIOUS
  <2>8. /\ d \in Entries \cup {Trap} /\ e \in Entries \cup {Trap}
        /\ x = <<t, d>> /\ y = <<u, e>>
        /\ d = Trap => f = trapframe[t]
        /\ d # Trap => f = pagetable[t][d]
        /\ e = Trap => f = trapframe[u]
        /\ e # Trap => f = pagetable[u][e]
    BY <1>1, <1>4, <2>1, <2>2, <2>3, <2>6, <2>7 DEF Uses
  <2>9. PICK pg : pg = pagetable[t]
    OBVIOUS
  <2>10. PICK tf : tf = trapframe[t]
    OBVIOUS
  <2>11. Parts(free, pg, tf, lost, Rest(t))
    BY <2>9, <2>10 DEF FrameInv
  <2>12. \A i \in Entries : pg[i] # None =>
             pg[i] # tf /\ \A j \in Entries : pg[j] = pg[i] => j = i
    BY <2>11 DEF Parts
  <2>13. d = e
    BY <2>4, <2>5, <2>8, <2>9, <2>10, <2>12, NoneIsNoFrame
  <2> QED BY <2>5, <2>8, <2>13
<1>5. ASSUME NEW x \in Uses PROVE At(x) \notin free /\ At(x) \notin lost
  <2>1. PICK t \in Tasks : t = x[1]
    BY <1>1 DEF Uses
  <2>2. PICK pg : pg = pagetable[t]
    OBVIOUS
  <2>3. PICK tf : tf = trapframe[t]
    OBVIOUS
  <2>4. Parts(free, pg, tf, lost, Rest(t))
    BY <2>2, <2>3 DEF FrameInv
  <2>5. At(x) \in Frames /\ HeldBy(tf, pg, At(x))
    BY <1>3, <2>1, <2>2, <2>3
  <2> QED BY <2>4, <2>5, NoneIsNoFrame DEF Parts, HeldBy
<1>6. ASSUME NEW f \in Frames, f \notin free, f \notin lost
      PROVE  \E x \in Uses : At(x) = f
  <2>1. PICK t \in Tasks : HeldBy(trapframe[t], pagetable[t], f)
    <3>1. First \in Tasks
      BY MemoryAssumption
    <3>2. Parts(free, pagetable[First], trapframe[First], lost, Rest(First))
      BY <3>1 DEF FrameInv
    <3>3. f \in Rest(First) => HeldBy(trapframe[First], pagetable[First], f)
      BY <1>6, <3>2 DEF Parts
    <3> QED BY <3>1, <3>3 DEF Rest
  <2>2. f # None
    BY NoneIsNoFrame
  <2>3. CASE trapframe[t] = f
    <3>1. <<t, Trap>> \in Tasks \X (Entries \cup {Trap})
      OBVIOUS
    <3>2. At(<<t, Trap>>) = f
      BY <2>3 DEF At
    <3> QED BY <2>2, <3>1, <3>2 DEF Uses
  <2>4. CASE trapframe[t] # f
    <3>1. PICK e \in Entries : pagetable[t][e] = f
      BY <2>1, <2>4 DEF HeldBy
    <3>2. <<t, e>> \in Tasks \X (Entries \cup {Trap})
      OBVIOUS
    <3>3. At(<<t, e>>) = f
      BY <1>2, <3>1 DEF At
    <3> QED BY <2>2, <3>2, <3>3 DEF Uses
  <2> QED BY <2>3, <2>4
<1>7. free \cap lost = {}
  <2>1. Parts(free, pagetable[First], trapframe[First], lost, Rest(First))
    BY MemoryAssumption DEF FrameInv
  <2> QED BY <2>1 DEF Parts
<1>8. PICK used : used = {At(x) : x \in Uses}
  OBVIOUS
<1>9. used = Frames \ (free \cup lost)
  BY <1>3, <1>5, <1>6, <1>8
<1>10. IsFiniteSet(Uses)
  <2>1. IsFiniteSet(Entries \cup {Trap})
    BY FewEntries, FS_AddElement
  <2>2. IsFiniteSet(Tasks \X (Entries \cup {Trap}))
    BY <2>1, FewEntries, FS_Product
  <2>3. Uses \in SUBSET (Tasks \X (Entries \cup {Trap}))
    BY DEF Uses
  <2> QED BY <2>2, <2>3, FS_Subset
<1>11. Cardinality(used) = Cardinality(Uses)
  <2>1. PICK S : S = Uses
    OBVIOUS
  <2>2. PICK f : f = [x \in S |-> At(x)]
    OBVIOUS
  <2>3. \A x \in S : f[x] = At(x)
    BY <2>2
  <2>4. f \in [S -> used]
    BY <1>8, <2>1, <2>2
  <2>5. \A x, y \in S : f[x] = f[y] => x = y
    BY <1>4, <2>1, <2>3
  <2>6. \A y \in used : \E x \in S : f[x] = y
    BY <1>8, <2>1, <2>3
  <2>7. Pairs(f, S, used)
    BY <2>4, <2>5, <2>6 DEF Pairs
  <2> QED BY <1>10, <2>1, <2>7, SameCount
<1> QED BY <1>7, <1>8, <1>9, <1>11 DEF FramesOwned

-----------------------------------------------------------------------------
(* The areas.                                                              *)

OtherSlots(t) == {s \in Slots : \E u \in Tasks \ {t} : \E j \in Indices : vma[u][j] = s}

(* v as the areas of t, and a as the table, go with those of the others.   *)
Fits(t, v, a) ==
    /\ v \in [Indices -> Slots \cup {None}]
    /\ a \in [Slots -> Areas \cup {None}]
    /\ \A s \in Slots : a[s] # None => a[s].addr % PGSIZE = 0
    /\ \A i \in Indices : v[i] # None =>
           v[i] \notin OtherSlots(t) /\ \A j \in Indices : v[j] = v[i] => j = i
    /\ \A s \in OtherSlots(t) : a[s] = area[s] /\ a[s] # None
    /\ \A s \in Slots \ OtherSlots(t) : a[s] # None <=> \E i \in Indices : v[i] = s

IpSlots(a) == {s \in Slots : a[s] # None /\ a[s].ip}
OwnIp(v, a) == {i \in Indices : v[i] # None /\ a[v[i]].ip}

AreaInv ==
    /\ \A t \in Tasks : Fits(t, vma[t], area)
    /\ \A t \in Tasks : state[t] # "RUN" => \A i \in Indices : vma[t][i] = None
    /\ iref = Cardinality(IpSlots(area))

LEMMA NoneIsNoSlot == None \notin Slots
  BY NoneAssumption DEF Slots

(* The areas of a file are those of the others and the task's own. *)
LEMMA IpCount ==
    ASSUME NEW t \in Tasks, NEW v, NEW a, Fits(t, v, a)
    PROVE  /\ IsFiniteSet(IpSlots(area) \cap OtherSlots(t))
           /\ IsFiniteSet(OwnIp(v, a))
           /\ Cardinality(IpSlots(a)) =
                Cardinality(IpSlots(area) \cap OtherSlots(t)) + Cardinality(OwnIp(v, a))
<1>1. PICK A : A = IpSlots(area) \cap OtherSlots(t)
  OBVIOUS
<1>2. PICK I : I = OwnIp(v, a)
  OBVIOUS
<1>3. PICK B : B = {v[i] : i \in I}
  OBVIOUS
<1>4. /\ v \in [Indices -> Slots \cup {None}]
      /\ \A i \in Indices : v[i] # None =>
           v[i] \notin OtherSlots(t) /\ \A j \in Indices : v[j] = v[i] => j = i
      /\ \A s \in OtherSlots(t) : a[s] = area[s] /\ a[s] # None
      /\ \A s \in Slots \ OtherSlots(t) : a[s] # None <=> \E i \in Indices : v[i] = s
  BY DEF Fits
<1>5. A \in SUBSET Slots /\ B \in SUBSET Slots /\ I \in SUBSET Indices
  BY <1>1, <1>2, <1>3, <1>4 DEF OtherSlots, OwnIp
<1>6. IsFiniteSet(A) /\ IsFiniteSet(B) /\ IsFiniteSet(I)
  BY <1>5, FewEntries, FS_Subset
<1>7. \A s \in Slots : s \in B <=> s \notin OtherSlots(t) /\ a[s] # None /\ a[s].ip
  <2> SUFFICES ASSUME NEW s \in Slots
               PROVE  s \in B <=> s \notin OtherSlots(t) /\ a[s] # None /\ a[s].ip
    OBVIOUS
  <2>1. ASSUME s \in B PROVE s \notin OtherSlots(t) /\ a[s] # None /\ a[s].ip
    <3>1. PICK i \in Indices : v[i] = s /\ v[i] # None /\ a[v[i]].ip
      BY <1>2, <1>3, <2>1 DEF OwnIp
    <3> QED BY <1>4, <3>1
  <2>2. ASSUME s \notin OtherSlots(t), a[s] # None, a[s].ip PROVE s \in B
    <3>1. PICK i \in Indices : v[i] = s
      BY <1>4, <2>2
    <3>2. v[i] # None
      BY <3>1, NoneIsNoSlot
    <3> QED BY <1>2, <1>3, <2>2, <3>1, <3>2 DEF OwnIp
  <2> QED BY <2>1, <2>2
<1>8. \A s \in Slots : s \in A <=> s \in OtherSlots(t) /\ a[s] # None /\ a[s].ip
  BY <1>1, <1>4 DEF IpSlots
<1>9. IpSlots(a) = A \cup B
  BY <1>5, <1>7, <1>8 DEF IpSlots
<1>10. A \cap B = {}
  BY <1>5, <1>7, <1>8
<1>11. Cardinality(A \cup B) = Cardinality(A) + Cardinality(B)
  <2>1. Cardinality(A \cup B) = Cardinality(A) + Cardinality(B) - Cardinality(A \cap B)
    BY <1>6, FS_Union
  <2>2. Cardinality(A) \in Nat /\ Cardinality(B) \in Nat /\ Cardinality(A \cap B) = 0
    BY <1>6, <1>10, FS_CardinalityType, FS_EmptySet
  <2> QED BY <2>1, <2>2
<1>12. Cardinality(B) = Cardinality(I)
  <2>1. PICK f : f = [i \in I |-> v[i]]
    OBVIOUS
  <2>2. f \in [I -> B] /\ \A i \in I : f[i] = v[i]
    BY <1>3, <2>1
  <2>3. \A i, j \in I : f[i] = f[j] => i = j
    BY <1>2, <1>4, <2>2 DEF OwnIp
  <2>4. \A s \in B : \E i \in I : f[i] = s
    BY <1>3, <2>2
  <2>5. Pairs(f, I, B)
    BY <2>2, <2>3, <2>4 DEF Pairs
  <2> QED BY <1>6, <2>5, SameCount
<1> QED BY <1>1, <1>2, <1>6, <1>9, <1>11, <1>12

(* Only t changes its state, and has areas only if it runs. *)
StillRuns(t, v) ==
    /\ \A u \in Tasks \ {t} : state'[u] = state[u]
    /\ state'[t] # "RUN" => \A i \in Indices : v[i] = None

(* A call that gives t the areas v and leaves the table as a. *)
LEMMA AreasMoved ==
    ASSUME AreaInv, NEW t \in Tasks, NEW v, NEW a, Fits(t, v, a),
           vma \in [Tasks -> [Indices -> Slots \cup {None}]],
           vma' = [vma EXCEPT ![t] = v], area' = a,
           iref' = iref - Cardinality(OwnIp(vma[t], area)) + Cardinality(OwnIp(v, a)),
           StillRuns(t, v)
    PROVE  AreaInv'
<1> USE DEF StillRuns
<1>1. PICK w : w = vma'
  OBVIOUS
<1>2. w[t] = v /\ \A u \in Tasks \ {t} : w[u] = vma[u]
  BY <1>1
<1> DEFINE Others(u) == {s \in Slots : \E x \in Tasks \ {u} : \E j \in Indices : w[x][j] = s}
           New(u) ==
             /\ w[u] \in [Indices -> Slots \cup {None}]
             /\ a \in [Slots -> Areas \cup {None}]
             /\ \A s \in Slots : a[s] # None => a[s].addr % PGSIZE = 0
             /\ \A i \in Indices : w[u][i] # None =>
                    w[u][i] \notin Others(u) /\ \A j \in Indices : w[u][j] = w[u][i] => j = i
             /\ \A s \in Others(u) : a[s] # None
             /\ \A s \in Slots \ Others(u) : a[s] # None <=> \E i \in Indices : w[u][i] = s
<1>3. Fits(t, vma[t], area) /\ \A u \in Tasks : Fits(u, vma[u], area)
  BY DEF AreaInv
<1>4. ASSUME NEW u \in Tasks PROVE New(u)
  <2>0. /\ v \in [Indices -> Slots \cup {None}]
        /\ a \in [Slots -> Areas \cup {None}]
        /\ \A s \in Slots : a[s] # None => a[s].addr % PGSIZE = 0
        /\ \A i \in Indices : v[i] # None =>
               v[i] \notin OtherSlots(t) /\ \A j \in Indices : v[j] = v[i] => j = i
        /\ \A s \in OtherSlots(t) : a[s] = area[s] /\ a[s] # None
        /\ \A s \in Slots \ OtherSlots(t) : a[s] # None <=> \E i \in Indices : v[i] = s
    BY DEF Fits
  <2>1. CASE u = t
    <3>1. Others(t) = OtherSlots(t)
      BY <1>2 DEF OtherSlots
    <3> HIDE DEF Others
    <3> QED BY <1>2, <2>0, <2>1, <3>1
  <2>2. CASE u # t
    <3>1. PICK r : r = vma[u]
      OBVIOUS
    <3>2. w[u] = r
      BY <1>2, <2>2, <3>1
    <3>3. /\ r \in [Indices -> Slots \cup {None}]
          /\ \A i \in Indices : r[i] # None =>
                 r[i] \notin OtherSlots(u) /\ \A j \in Indices : r[j] = r[i] => j = i
      BY <1>3, <3>1 DEF Fits
    <3>4. \A i \in Indices : r[i] # None => r[i] \in OtherSlots(t)
      BY <2>2, <3>1, <3>3 DEF OtherSlots
    <3>5. \A s \in Slots : s \in OtherSlots(t) <=>
              \/ \E i \in Indices : r[i] = s
              \/ \E x \in Tasks \ {t, u} : \E j \in Indices : vma[x][j] = s
      BY <2>2, <3>1 DEF OtherSlots
    <3>6. \A s \in Slots : s \in Others(u) <=>
              \/ \E i \in Indices : v[i] = s
              \/ \E x \in Tasks \ {t, u} : \E j \in Indices : vma[x][j] = s
      BY <1>2, <2>2
    <3>7. \A i \in Indices : r[i] # None => r[i] \notin Others(u)
      <4> SUFFICES ASSUME NEW i \in Indices, r[i] # None, r[i] \in Others(u) PROVE FALSE
        OBVIOUS
      <4>1. r[i] \in Slots /\ r[i] \in OtherSlots(t) /\ r[i] \notin OtherSlots(u)
        BY <3>3, <3>4
      <4>2. CASE \E k \in Indices : v[k] = r[i]
        BY <2>0, <4>1, <4>2
      <4>3. CASE \E x \in Tasks \ {t, u} : \E j \in Indices : vma[x][j] = r[i]
        BY <4>1, <4>3 DEF OtherSlots
      <4> HIDE DEF Others
      <4> QED BY <3>6, <4>1, <4>2, <4>3
    <3>8. Others(u) \subseteq Slots
      OBVIOUS
    <3> HIDE DEF Others
    <3>9. \A s \in Others(u) : a[s] # None
      <4> SUFFICES ASSUME NEW s \in Others(u) PROVE a[s] # None
        OBVIOUS
      <4>1. s \in Slots
        BY <3>8
      <4> QED BY <2>0, <3>5, <3>6, <4>1, NoneIsNoSlot
    <3>10. \A s \in Slots \ Others(u) : a[s] # None <=> \E i \in Indices : r[i] = s
      <4> SUFFICES ASSUME NEW s \in Slots, s \notin Others(u)
                   PROVE  a[s] # None <=> \E i \in Indices : r[i] = s
        OBVIOUS
      <4>1. /\ ~\E i \in Indices : v[i] = s
            /\ ~\E x \in Tasks \ {t, u} : \E j \in Indices : vma[x][j] = s
        BY <3>6
      <4>2. s \in OtherSlots(t) <=> \E i \in Indices : r[i] = s
        BY <3>5, <4>1
      <4> QED BY <2>0, <4>1, <4>2
    <3> QED BY <2>0, <3>2, <3>3, <3>7, <3>9, <3>10
  <2> QED BY <2>1, <2>2
<1>5. \A u \in Tasks : Fits(u, vma[u], area)'
  <2> SUFFICES ASSUME NEW u \in Tasks PROVE Fits(u, vma[u], area)'
    OBVIOUS
  <2>1. OtherSlots(u)' = Others(u)
    BY <1>1 DEF OtherSlots
  <2> HIDE DEF Others
  <2> QED BY <1>1, <1>4, <2>1 DEF Fits
<1> HIDE DEF New
<1>6. \A u \in Tasks : state'[u] # "RUN" => \A i \in Indices : vma'[u][i] = None
  <2> SUFFICES ASSUME NEW u \in Tasks, state'[u] # "RUN", NEW i \in Indices
               PROVE  vma'[u][i] = None
    OBVIOUS
  <2>1. CASE u = t
    BY <1>1, <1>2, <2>1
  <2>2. CASE u # t
    <3>1. state[u] # "RUN" /\ vma'[u] = vma[u]
      BY <1>1, <1>2, <2>2
    <3> QED BY <3>1 DEF AreaInv
  <2> QED BY <2>1, <2>2
<1>7. iref' = Cardinality(IpSlots(a))
  <2>1. PICK K : K = Cardinality(IpSlots(area) \cap OtherSlots(t))
    OBVIOUS
  <2>2. PICK r : r = vma[t]
    OBVIOUS
  <2>3. PICK b : b = area
    OBVIOUS
  <2>4. Fits(t, r, b)
    BY <1>3, <2>2, <2>3
  <2>5. IsFiniteSet(OwnIp(r, b)) /\ IsFiniteSet(IpSlots(area) \cap OtherSlots(t))
        /\ Cardinality(IpSlots(b)) = K + Cardinality(OwnIp(r, b))
    BY <2>1, <2>4, IpCount
  <2>6. IsFiniteSet(OwnIp(v, a)) /\ Cardinality(IpSlots(a)) = K + Cardinality(OwnIp(v, a))
    BY <2>1, IpCount
  <2>7. K \in Nat /\ Cardinality(OwnIp(r, b)) \in Nat /\ Cardinality(OwnIp(v, a)) \in Nat
    BY <2>1, <2>5, <2>6, FS_CardinalityType
  <2>8. iref = K + Cardinality(OwnIp(r, b))
    BY <2>3, <2>5 DEF AreaInv
  <2>9. iref' = iref - Cardinality(OwnIp(r, b)) + Cardinality(OwnIp(v, a))
    BY <2>2, <2>3
  <2> QED BY <2>6, <2>7, <2>8, <2>9
<1>8. IpSlots(area)' = IpSlots(a)
  BY DEF IpSlots
<1> QED BY <1>5, <1>6, <1>7, <1>8 DEF AreaInv

LEMMA AreasAreOwned ==
    ASSUME TypeOK, AreaInv
    PROVE  AreasOwned
<1>1. ASSUME NEW s \in Slots
      PROVE  Cardinality({x \in Tasks \X Indices : vma[x[1]][x[2]] = s})
             = IF area[s] = None THEN 0 ELSE 1
  <2>1. PICK X : X = {x \in Tasks \X Indices : vma[x[1]][x[2]] = s}
    OBVIOUS
  <2>2. \A x \in X : /\ x[1] \in Tasks /\ x[2] \in Indices /\ x = <<x[1], x[2]>>
                     /\ vma[x[1]][x[2]] = s
    BY <2>1
  <2>3. \A t \in Tasks, i \in Indices : vma[t][i] = s => <<t, i>> \in X
    BY <2>1
  <2>4. \A t \in Tasks : Fits(t, vma[t], area)
    BY DEF AreaInv
  <2>5. \A x \in X : area[s] # None
    <3> SUFFICES ASSUME NEW x \in X PROVE area[s] # None
      OBVIOUS
    <3>1. PICK t \in Tasks : t = x[1]
      BY <2>2
    <3>2. PICK i \in Indices : i = x[2]
      BY <2>2
    <3>3. vma[t][i] = s /\ Fits(t, vma[t], area)
      BY <2>2, <2>4, <3>1, <3>2
    <3> QED BY <3>3, NoneIsNoSlot DEF Fits
  <2>6. ASSUME NEW x \in X, NEW y \in X PROVE x = y
    <3>1. PICK t \in Tasks : t = x[1]
      BY <2>2
    <3>2. PICK i \in Indices : i = x[2]
      BY <2>2
    <3>3. PICK u \in Tasks : u = y[1]
      BY <2>2
    <3>4. PICK j \in Indices : j = y[2]
      BY <2>2
    <3>5. vma[t][i] = s /\ vma[u][j] = s /\ x = <<t, i>> /\ y = <<u, j>>
      BY <2>2, <3>1, <3>2, <3>3, <3>4
    <3>6. /\ vma[t][i] \notin OtherSlots(t)
          /\ \A k \in Indices : vma[t][k] = vma[t][i] => k = i
      <4>1. Fits(t, vma[t], area)
        BY <2>4
      <4> QED BY <3>5, <4>1, NoneIsNoSlot DEF Fits
    <3>7. t = u
      BY <3>5, <3>6 DEF OtherSlots
    <3>8. i = j
      BY <3>5, <3>6, <3>7
    <3> QED BY <3>5, <3>7, <3>8
  <2>7. CASE area[s] = None
    <3>1. X = {}
      BY <2>5, <2>7
    <3> QED BY <2>1, <2>7, <3>1, FS_EmptySet
  <2>8. CASE area[s] # None
    <3>1. \E t \in Tasks, i \in Indices : vma[t][i] = s
      <4>1. First \in Tasks /\ Fits(First, vma[First], area)
        BY <2>4, MemoryAssumption
      <4>2. CASE s \in OtherSlots(First)
        BY <4>2 DEF OtherSlots
      <4>3. CASE s \notin OtherSlots(First)
        <5>1. \E i \in Indices : vma[First][i] = s
          BY <2>8, <4>1, <4>3 DEF Fits
        <5> QED BY <4>1, <5>1
      <4> QED BY <4>2, <4>3
    <3>2. PICK x \in X : TRUE
      BY <2>3, <3>1
    <3>3. X = {x}
      BY <2>6
    <3>4. Cardinality(X) = 1
      BY <3>3, FS_Singleton
    <3> QED BY <2>1, <2>8, <3>4
  <2> QED BY <2>7, <2>8
<1>2. \A t \in Tasks : state[t] # "RUN" => Mine(t) = {}
  BY DEF AreaInv, Mine
<1>3. iref = Cardinality({s \in Slots : area[s] # None /\ area[s].ip})
  BY DEF AreaInv, IpSlots
<1> QED BY <1>1, <1>2, <1>3 DEF AreasOwned

(* What t gives up is its own. *)
LEMMA FreedFits ==
    ASSUME NEW t \in Tasks, Fits(t, vma[t], area), NEW I \in SUBSET Mine(t), NEW v, NEW a,
           v = [i \in Indices |-> IF i \in I THEN None ELSE vma[t][i]],
           a = FreedAreas(t, I)
    PROVE  Fits(t, v, a)
<1>1. PICK r : r = vma[t]
  OBVIOUS
<1>2. /\ r \in [Indices -> Slots \cup {None}]
      /\ area \in [Slots -> Areas \cup {None}]
      /\ \A s \in Slots : area[s] # None => area[s].addr % PGSIZE = 0
      /\ \A i \in Indices : r[i] # None =>
             r[i] \notin OtherSlots(t) /\ \A j \in Indices : r[j] = r[i] => j = i
      /\ \A s \in OtherSlots(t) : area[s] # None
      /\ \A s \in Slots \ OtherSlots(t) : area[s] # None <=> \E i \in Indices : r[i] = s
  BY <1>1 DEF Fits
<1>3. I \subseteq Indices /\ \A i \in I : r[i] # None
  BY <1>1 DEF Mine
<1>4. a = [s \in Slots |-> IF \E i \in I : r[i] = s THEN None ELSE area[s]]
  BY <1>1 DEF FreedAreas
<1>5. v = [i \in Indices |-> IF i \in I THEN None ELSE r[i]]
  BY <1>1
<1>6. OtherSlots(t) \subseteq Slots
  BY DEF OtherSlots
<1>7. \A s \in Slots : a[s] = IF \E i \in I : r[i] = s THEN None ELSE area[s]
  BY <1>4
<1>8. \A i \in Indices : v[i] = IF i \in I THEN None ELSE r[i]
  BY <1>5
<1>9. v \in [Indices -> Slots \cup {None}] /\ a \in [Slots -> Areas \cup {None}]
  BY <1>2, <1>4, <1>5
<1>10. \A s \in Slots : a[s] # None => a[s].addr % PGSIZE = 0
  BY <1>2, <1>7
<1>11. \A i \in Indices : v[i] # None =>
           v[i] \notin OtherSlots(t) /\ \A j \in Indices : v[j] = v[i] => j = i
  BY <1>2, <1>8
<1>12. \A s \in OtherSlots(t) : a[s] = area[s] /\ a[s] # None
  <2> SUFFICES ASSUME NEW s \in OtherSlots(t) PROVE a[s] = area[s] /\ a[s] # None
    OBVIOUS
  <2>1. ~\E i \in I : r[i] = s
    BY <1>2, <1>3
  <2> QED BY <1>2, <1>6, <1>7, <2>1
<1>13. \A s \in Slots \ OtherSlots(t) : a[s] # None <=> \E i \in Indices : v[i] = s
  <2> SUFFICES ASSUME NEW s \in Slots, s \notin OtherSlots(t)
               PROVE  a[s] # None <=> \E i \in Indices : v[i] = s
    OBVIOUS
  <2>1. CASE \E i \in I : r[i] = s
    <3>1. PICK i \in I : r[i] = s
      BY <2>1
    <3>2. \A j \in Indices : v[j] # s
      BY <1>2, <1>3, <1>8, <3>1, NoneIsNoSlot
    <3> QED BY <1>7, <2>1, <3>2
  <2>2. CASE ~\E i \in I : r[i] = s
    <3>1. \A j \in Indices : v[j] = s <=> r[j] = s
      BY <1>8, <2>2, NoneIsNoSlot
    <3> QED BY <1>2, <1>7, <2>2, <3>1
  <2> QED BY <2>1, <2>2
<1> QED BY <1>9, <1>10, <1>11, <1>12, <1>13 DEF Fits

(* l is a list of n members of S, none of them twice. *)
Picks(l, n, S) ==
    l \in Seq(S) /\ Len(l) = n /\ \A i, j \in 1 .. n : l[i] = l[j] => i = j

LowestStep(l, n, S) == Append(l, Min(S \ {l[i] : i \in 1 .. n - 1}))

LEMMA LowestStepPicks ==
    ASSUME NEW S \in SUBSET Nat, IsFiniteSet(S), NEW n \in Nat \ {0}, n <= Cardinality(S),
           NEW l, Picks(l, n - 1, S), NEW x, x = LowestStep(l, n, S)
    PROVE  Picks(x, n, S)
<1>0. n - 1 \in Nat /\ Cardinality(S) \in Nat
  BY FS_CardinalityType
<1>1. PICK R : R = {l[i] : i \in 1 .. n - 1}
  OBVIOUS
<1>2. l \in Seq(S) /\ Len(l) = n - 1 /\ \A i \in 1 .. n - 1 : l[i] \in S
  BY <1>0 DEF Picks
<1>3. S \ R # {}
  <2> SUFFICES ASSUME S \ R = {} PROVE FALSE
    OBVIOUS
  <2>1. PICK D : D = 1 .. n - 1
    OBVIOUS
  <2>2. IsFiniteSet(D) /\ Cardinality(D) = n - 1
    BY <1>0, <2>1, FS_Interval
  <2>3. PICK f : f = [i \in D |-> l[i]]
    OBVIOUS
  <2>4. f \in [D -> S] /\ \A y \in S : \E i \in D : f[i] = y
    BY <1>1, <1>2, <2>1, <2>3
  <2>5. f \in Surjection(D, S)
    BY <2>4 DEF Surjection
  <2>6. Cardinality(S) <= Cardinality(D)
    BY <2>2, <2>5, FS_Surjection
  <2> QED BY <1>0, <2>2, <2>6
<1>4. PICK e : e = Min(S \ R)
  OBVIOUS
<1>5. e \in S /\ e \notin R
  <2>1. S \ R \in SUBSET Nat
    OBVIOUS
  <2>2. e \in S \ R
    BY <1>3, <1>4, <2>1, MinIn
  <2> QED BY <2>2
<1>6. x = Append(l, e)
  BY <1>1, <1>4 DEF LowestStep
<1>7. /\ x \in Seq(S) /\ Len(x) = n
      /\ \A i \in 1 .. n - 1 : x[i] = l[i]
      /\ x[n] = e
  BY <1>0, <1>2, <1>5, <1>6
<1>8. \A i \in 1 .. n - 1 : x[i] # e
  BY <1>1, <1>5, <1>7
<1>9. ASSUME NEW i \in 1 .. n, NEW j \in 1 .. n, x[i] = x[j] PROVE i = j
  <2>1. CASE i # n /\ j # n
    <3>1. i \in 1 .. n - 1 /\ j \in 1 .. n - 1
      BY <2>1
    <3> QED BY <1>7, <1>9, <3>1 DEF Picks
  <2>2. CASE i = n /\ j # n
    <3>1. j \in 1 .. n - 1
      BY <2>2
    <3> QED BY <1>7, <1>8, <1>9, <2>2, <3>1
  <2>3. CASE i # n /\ j = n
    <3>1. i \in 1 .. n - 1
      BY <2>3
    <3> QED BY <1>7, <1>8, <1>9, <2>3, <3>1
  <2> QED BY <2>1, <2>2, <2>3
<1> QED BY <1>7, <1>9 DEF Picks

LEMMA LowestPicks ==
    ASSUME NEW S \in SUBSET Nat, IsFiniteSet(S), NEW N \in Nat, N <= Cardinality(S),
           NEW x, x = Lowest(S, N)
    PROVE  Picks(x, N, S)
<1> DEFINE l[n \in 0 .. N] == IF n = 0 THEN <<>> ELSE LowestStep(l[n - 1], n, S)
<1>1. x = l[N]
  BY DEF Lowest, LowestStep
<1>2. N \in 0 .. N
  OBVIOUS
<1>3. l = [n \in 0 .. N |-> IF n = 0 THEN <<>> ELSE LowestStep(l[n - 1], n, S)]
  <2> DEFINE Is(h, u) == u = [n \in 0 .. h |-> IF n = 0 THEN <<>> ELSE LowestStep(u[n - 1], n, S)]
             Bad == {h \in 0 .. N : ~\E u : Is(h, u)}
  <2>1. ASSUME Bad # {} PROVE FALSE
    <3>1. Bad \in SUBSET Nat
      OBVIOUS
    <3>2. PICK h \in Bad : \A j \in Bad : h <= j
      <4> HIDE DEF Bad
      <4> QED BY <2>1, <3>1, FirstOf
    <3>3. h \in 0 .. N /\ ~\E u : Is(h, u)
      BY <3>2
    <3>4. CASE h = 0
      <4>1. Is(0, [n \in 0 .. 0 |-> <<>>])
        OBVIOUS
      <4> HIDE DEF Is
      <4> QED BY <3>3, <3>4, <4>1
    <3>5. CASE h # 0
      <4>1. h - 1 \in 0 .. N /\ h - 1 \notin Bad
        <5> HIDE DEF Bad
        <5> QED BY <3>1, <3>2, <3>3, <3>5
      <4>2. PICK u : Is(h - 1, u)
        BY <4>1
      <4>3. \A n \in 0 .. h - 1 : u[n] = IF n = 0 THEN <<>> ELSE LowestStep(u[n - 1], n, S)
        BY <4>2
      <4> DEFINE v == [n \in 0 .. h |-> IF n = h THEN LowestStep(u[h - 1], h, S) ELSE u[n]]
      <4>4. \A n \in 0 .. h : v[n] = IF n = 0 THEN <<>> ELSE LowestStep(v[n - 1], n, S)
        <5> SUFFICES ASSUME NEW n \in 0 .. h
                     PROVE  v[n] = IF n = 0 THEN <<>> ELSE LowestStep(v[n - 1], n, S)
          OBVIOUS
        <5>1. CASE n = h
          <6>1. h - 1 \in 0 .. h /\ h - 1 # h
            BY <3>3, <3>5
          <6>2. v[h - 1] = u[h - 1]
            BY <6>1
          <6>3. v[h] = LowestStep(u[h - 1], h, S)
            BY <3>3
          <6> HIDE DEF v
          <6> QED BY <3>5, <5>1, <6>2, <6>3
        <5>2. CASE n # h
          <6>1. n \in 0 .. h - 1 /\ (n # 0 => n - 1 \in 0 .. h /\ n - 1 # h)
            BY <3>3, <5>2
          <6>2. v[n] = u[n] /\ (n # 0 => v[n - 1] = u[n - 1])
            BY <5>2, <6>1
          <6> HIDE DEF v
          <6> QED BY <4>3, <6>1, <6>2
        <5> QED BY <5>1, <5>2
      <4>5. v = [n \in 0 .. h |-> v[n]]
        OBVIOUS
      <4>6. Is(h, v)
        <5> HIDE DEF v
        <5> QED BY <4>4, <4>5
      <4> HIDE DEF Is
      <4> QED BY <3>3, <4>6
    <3> QED BY <3>4, <3>5
  <2>2. \E u : Is(N, u)
    <3> HIDE DEF Is
    <3> QED BY <1>2, <2>1
  <2> QED BY <2>2
<1> HIDE DEF l
<1> DEFINE Off == {n \in 0 .. N : ~Picks(l[n], n, S)}
<1>4. Picks(l[0], 0, S)
  <2>1. l[0] = <<>>
    BY <1>2, <1>3
  <2> QED BY <2>1 DEF Picks
<1>5. ASSUME NEW n \in 0 .. N, n # 0, Picks(l[n - 1], n - 1, S) PROVE Picks(l[n], n, S)
  <2>1. n \in Nat \ {0} /\ n <= Cardinality(S)
    <3>1. Cardinality(S) \in Nat
      BY FS_CardinalityType
    <3> QED BY <1>5, <3>1
  <2>2. PICK y : y = l[n - 1]
    OBVIOUS
  <2>3. PICK z : z = l[n]
    OBVIOUS
  <2>4. z = LowestStep(y, n, S)
    BY <1>3, <1>5, <2>2, <2>3
  <2>5. Picks(y, n - 1, S)
    BY <1>5, <2>2
  <2>6. Picks(z, n, S)
    BY <2>1, <2>4, <2>5, LowestStepPicks
  <2> QED BY <2>3, <2>6
<1>6. Off = {}
  <2> SUFFICES ASSUME Off # {} PROVE FALSE
    OBVIOUS
  <2>1. Off \in SUBSET Nat
    OBVIOUS
  <2>2. PICK n \in Off : \A j \in Off : n <= j
    <3> HIDE DEF Off
    <3> QED BY <2>1, FirstOf
  <2>3. n \in 0 .. N /\ ~Picks(l[n], n, S)
    BY <2>2
  <2>4. n # 0
    BY <1>4, <2>3
  <2>5. n - 1 \in 0 .. N /\ n - 1 \notin Off
    <3> HIDE DEF Off
    <3> QED BY <2>1, <2>2, <2>3, <2>4
  <2> QED BY <1>5, <2>3, <2>4, <2>5
<1> QED BY <1>1, <1>2, <1>6

(* The rank of an index among those of a set. *)
LEMMA Ranks ==
    ASSUME NEW I \in SUBSET Indices, NEW i \in I, NEW j \in I
    PROVE  /\ Cardinality({k \in I : k <= i}) \in 1 .. Cardinality(I)
           /\ Cardinality({k \in I : k <= i}) = Cardinality({k \in I : k <= j}) => i = j
<1>1. PICK A : A = {k \in I : k <= i}
  OBVIOUS
<1>2. PICK B : B = {k \in I : k <= j}
  OBVIOUS
<1>3. I \subseteq Nat /\ IsFiniteSet(I)
  <2>1. Indices \subseteq Nat
    BY MemorySizes DEF Indices
  <2>2. IsFiniteSet(Indices)
    BY FewEntries
  <2>3. IsFiniteSet(I)
    BY <2>2, FS_Subset
  <2> QED BY <2>1, <2>3
<1>4. A \in SUBSET I /\ B \in SUBSET I /\ i \in A /\ j \in B
  BY <1>1, <1>2, <1>3
<1>5. IsFiniteSet(A) /\ IsFiniteSet(B) /\ Cardinality(A) <= Cardinality(I)
  BY <1>3, <1>4, FS_Subset
<1>6. Cardinality(A) \in Nat /\ Cardinality(I) \in Nat /\ Cardinality(A) # 0
  BY <1>3, <1>4, <1>5, FS_CardinalityType, FS_EmptySet
<1>7. ASSUME Cardinality(A) = Cardinality(B) PROVE i = j
  <2>1. CASE i <= j
    <3>1. A \in SUBSET B
      <4>1. ASSUME NEW k \in A PROVE k \in B
        <5>1. k \in Nat /\ i \in Nat /\ j \in Nat
          BY <1>3, <1>4
        <5> QED BY <1>1, <1>2, <2>1, <5>1
      <4> QED BY <4>1
    <3>2. A = B
      BY <1>5, <1>7, <3>1, FS_Subset
    <3>3. j <= i
      BY <1>1, <1>4, <3>2
    <3> QED BY <1>3, <2>1, <3>3
  <2>2. CASE j <= i
    <3>1. B \in SUBSET A
      <4>1. ASSUME NEW k \in B PROVE k \in A
        <5>1. k \in Nat /\ i \in Nat /\ j \in Nat
          BY <1>3, <1>4
        <5> QED BY <1>1, <1>2, <2>2, <5>1
      <4> QED BY <4>1
    <3>2. A = B
      BY <1>5, <1>7, <3>1, FS_Subset
    <3>3. i <= j
      BY <1>2, <1>4, <3>2
    <3> QED BY <1>3, <2>2, <3>3
  <2> QED BY <1>3, <2>1, <2>2
<1> QED BY <1>1, <1>2, <1>5, <1>6, <1>7

FrameTypes ==
    /\ free \subseteq Frames /\ lost \subseteq Frames
    /\ trapframe \in [Tasks -> Frames \cup {None}]
    /\ pagetable \in [Tasks -> [Entries -> Frames \cup {None}]]

(* A call that leaves t with the page table of m and the trapframe tf. *)
LEMMA FramesMoved ==
    ASSUME FrameTypes, FrameInv, NEW t \in Tasks, NEW m, NEW W, Owns(m, W), NEW lo, NEW tf,
           Shared(t, W, lo, tf), free' = m.free, lost' = lo,
           pagetable' = [pagetable EXCEPT ![t] = m.pg], trapframe' = [trapframe EXCEPT ![t] = tf]
    PROVE  FrameTypes' /\ FrameInv'
<1>1. PICK pg : pg = m.pg
  OBVIOUS
<1>2. PICK fr : fr = m.free
  OBVIOUS
<1>3. Parts(fr, pg, tf, lo, Rest(t))
  BY <1>1, <1>2, End
<1>4. Parts(free', pg, tf, lost', Rest(t)) /\ pagetable' = [pagetable EXCEPT ![t] = pg]
  BY <1>1, <1>2, <1>3
<1>5. FrameInv'
  BY <1>4, Moved DEF FrameTypes
<1>6. /\ free' \subseteq Frames /\ lost' \subseteq Frames
      /\ tf \in Frames \cup {None} /\ pg \in [Entries -> Frames \cup {None}]
  BY <1>4 DEF Parts
<1>7. FrameTypes'
  BY <1>4, <1>6 DEF FrameTypes
<1> QED BY <1>5, <1>7

LEMMA FramesSame ==
    ASSUME FrameTypes, FrameInv, UNCHANGED <<free, lost, trapframe, pagetable>>
    PROVE  FrameTypes' /\ FrameInv'
  BY DEF FrameTypes, FrameInv, Rest

(* A call that only moves frames between the free list and the page table of t. *)
LEMMA FramesWithin ==
    ASSUME FrameTypes, FrameInv, NEW t \in Tasks, NEW m, Owns(m, Reach(t)), free' = m.free,
           pagetable' = [pagetable EXCEPT ![t] = m.pg], UNCHANGED <<trapframe, lost>>
    PROVE  FrameTypes' /\ FrameInv'
<1>1. PICK lo : lo = lost
  OBVIOUS
<1>2. PICK tf : tf = trapframe[t]
  OBVIOUS
<1>3. PICK W : W = Reach(t)
  OBVIOUS
<1>4. Shared(t, W, lo, tf) /\ Owns(m, W)
  BY <1>1, <1>2, <1>3, Apart3
<1>5. lost' = lo /\ trapframe' = [trapframe EXCEPT ![t] = tf]
  BY <1>1, <1>2 DEF FrameTypes
<1> QED BY <1>4, <1>5, FramesMoved

AreaTypes ==
    /\ area \in [Slots -> Areas \cup {None}]
    /\ \A s \in Slots : area[s] # None => area[s].addr % PGSIZE = 0
    /\ vma \in [Tasks -> [Indices -> Slots \cup {None}]]
    /\ iref \in Nat

LEMMA AreasGiven ==
    ASSUME AreaTypes, AreaInv, NEW t \in Tasks, NEW v, NEW a, Fits(t, v, a),
           vma' = [vma EXCEPT ![t] = v], area' = a,
           iref' = iref - Cardinality(OwnIp(vma[t], area)) + Cardinality(OwnIp(v, a)),
           StillRuns(t, v)
    PROVE  AreaTypes' /\ AreaInv'
<1>1. AreaInv'
  BY AreasMoved DEF AreaTypes
<1>2. /\ a \in [Slots -> Areas \cup {None}] /\ v \in [Indices -> Slots \cup {None}]
      /\ \A s \in Slots : a[s] # None => a[s].addr % PGSIZE = 0
  BY DEF Fits
<1>3. iref' \in Nat
  <2>1. PICK S : S = IpSlots(a)
    OBVIOUS
  <2>2. S \in SUBSET Slots
    BY <2>1 DEF IpSlots
  <2>3. IsFiniteSet(S)
    BY <2>2, FewEntries, FS_Subset
  <2>4. iref' = Cardinality(S)
    BY <1>1, <2>1 DEF AreaInv, IpSlots
  <2> QED BY <2>3, <2>4, FS_CardinalityType
<1>4. vma' \in [Tasks -> [Indices -> Slots \cup {None}]]
  BY <1>2 DEF AreaTypes
<1> QED BY <1>1, <1>2, <1>3, <1>4 DEF AreaTypes

LEMMA AreasSame ==
    ASSUME AreaTypes, AreaInv, UNCHANGED <<area, vma, iref, state>>
    PROVE  AreaTypes' /\ AreaInv'
  BY DEF AreaTypes, AreaInv, Fits, OtherSlots, IpSlots

(* v is the row w with more areas, in slots that were free. *)
Adds(w, b, v, a) ==
    /\ v \in [Indices -> Slots \cup {None}] /\ a \in [Slots -> Areas \cup {None}]
    /\ \A i \in Indices : w[i] # None => v[i] = w[i]
    /\ \A i \in Indices : w[i] = None /\ v[i] # None =>
           b[v[i]] = None /\ a[v[i]] # None /\ a[v[i]].addr % PGSIZE = 0
    /\ \A i, j \in Indices : w[i] = None /\ w[j] = None /\ v[i] # None /\ v[i] = v[j] => i = j
    /\ \A s \in Slots : (\A i \in Indices : w[i] = None => v[i] # s) => a[s] = b[s]

LEMMA AddedFits ==
    ASSUME NEW t \in Tasks, NEW w, NEW b, Fits(t, w, b), NEW v, NEW a, Adds(w, b, v, a)
    PROVE  Fits(t, v, a)
<1>1. /\ v \in [Indices -> Slots \cup {None}] /\ a \in [Slots -> Areas \cup {None}]
      /\ \A i \in Indices : w[i] # None => v[i] = w[i]
      /\ \A i \in Indices : w[i] = None /\ v[i] # None =>
             b[v[i]] = None /\ a[v[i]] # None /\ a[v[i]].addr % PGSIZE = 0
      /\ \A i, j \in Indices : w[i] = None /\ w[j] = None /\ v[i] # None /\ v[i] = v[j] => i = j
      /\ \A s \in Slots : (\A i \in Indices : w[i] = None => v[i] # s) => a[s] = b[s]
  BY DEF Adds
<1>2. /\ w \in [Indices -> Slots \cup {None}]
      /\ \A s \in Slots : b[s] # None => b[s].addr % PGSIZE = 0
      /\ \A i \in Indices : w[i] # None =>
             w[i] \notin OtherSlots(t) /\ \A j \in Indices : w[j] = w[i] => j = i
      /\ \A s \in OtherSlots(t) : b[s] = area[s] /\ b[s] # None
      /\ \A s \in Slots \ OtherSlots(t) : b[s] # None <=> \E i \in Indices : w[i] = s
  BY DEF Fits
<1>3. OtherSlots(t) \subseteq Slots
  BY DEF OtherSlots
<1>4. \A i \in Indices : w[i] # None => b[w[i]] # None
  BY <1>2
<1>5. \A s \in Slots : a[s] # None => a[s].addr % PGSIZE = 0
  <2> SUFFICES ASSUME NEW s \in Slots, a[s] # None PROVE a[s].addr % PGSIZE = 0
    OBVIOUS
  <2>1. CASE \E i \in Indices : w[i] = None /\ v[i] = s
    BY <1>1, <2>1, NoneIsNoSlot
  <2>2. CASE \A i \in Indices : w[i] = None => v[i] # s
    <3>1. a[s] = b[s]
      BY <1>1, <2>2
    <3> QED BY <1>2, <3>1
  <2> QED BY <2>1, <2>2
<1>6. \A i \in Indices : v[i] # None =>
          v[i] \notin OtherSlots(t) /\ \A j \in Indices : v[j] = v[i] => j = i
  <2> SUFFICES ASSUME NEW i \in Indices, v[i] # None
               PROVE  v[i] \notin OtherSlots(t) /\ \A j \in Indices : v[j] = v[i] => j = i
    OBVIOUS
  <2>1. CASE w[i] = None
    BY <1>1, <1>2, <1>4, <2>1
  <2>2. CASE w[i] # None
    BY <1>1, <1>2, <1>4, <2>2
  <2> QED BY <2>1, <2>2
<1>7. \A s \in OtherSlots(t) : a[s] = area[s] /\ a[s] # None
  <2> SUFFICES ASSUME NEW s \in OtherSlots(t) PROVE a[s] = area[s] /\ a[s] # None
    OBVIOUS
  <2>1. s \in Slots /\ \A i \in Indices : w[i] = None => v[i] # s
    BY <1>3, <1>6, NoneIsNoSlot
  <2> QED BY <1>1, <1>2, <2>1
<1>8. \A s \in Slots \ OtherSlots(t) : a[s] # None <=> \E i \in Indices : v[i] = s
  <2> SUFFICES ASSUME NEW s \in Slots, s \notin OtherSlots(t)
               PROVE  a[s] # None <=> \E i \in Indices : v[i] = s
    OBVIOUS
  <2>1. CASE \E i \in Indices : w[i] = None /\ v[i] = s
    BY <1>1, <2>1, NoneIsNoSlot
  <2>2. CASE \A i \in Indices : w[i] = None => v[i] # s
    <3>1. a[s] = b[s]
      BY <1>1, <2>2
    <3>2. \A i \in Indices : v[i] = s <=> w[i] = s
      BY <1>1, <2>2, NoneIsNoSlot
    <3> QED BY <1>2, <3>1, <3>2
  <2> QED BY <2>1, <2>2
<1> QED BY <1>1, <1>5, <1>6, <1>7, <1>8 DEF Fits

LEMMA MaxIn ==
    ASSUME NEW S, NEW N \in Nat, S \subseteq 0 .. N, S # {}
    PROVE  Max(S) \in S
<1>1. PICK R : R = {N - x : x \in S}
  OBVIOUS
<1>2. R \in SUBSET Nat /\ R # {}
  <2>1. \A x \in S : N - x \in Nat
    OBVIOUS
  <2>2. R # {}
    BY <1>1
  <2> QED BY <1>1, <2>1, <2>2
<1>3. PICK r \in R : \A y \in R : r <= y
  BY <1>2, FirstOf
<1>4. PICK x \in S : r = N - x
  BY <1>1
<1>5. \A y \in S : x >= y
  <2> SUFFICES ASSUME NEW y \in S PROVE x >= y
    OBVIOUS
  <2>1. N - y \in R /\ y \in 0 .. N /\ x \in 0 .. N
    BY <1>1
  <2>2. r <= N - y
    BY <1>3, <2>1
  <2> QED BY <1>4, <2>1, <2>2
<1> QED BY <1>5 DEF Max

(* The areas of t have a length in all. *)
SumStep(x, t, i) == x + (IF i \in Mine(t) THEN Of(t, i).length ELSE 0)

LEMMA VmaszNat ==
    ASSUME AreaTypes, NEW t \in Tasks, \A i \in Mine(t) : Of(t, i) # None
    PROVE  vmasz(t) \in Nat
<1>0. PICK N \in Nat : N = NOMMAPFILE
  BY MemorySizes
<1> DEFINE sum[i \in 0 .. N] == IF i = 0 THEN 0 ELSE SumStep(sum[i - 1], t, i)
<1>1. vmasz(t) = sum[N]
  BY <1>0 DEF vmasz, SumStep
<1>2. N \in 0 .. N
  OBVIOUS
<1>3. sum = [i \in 0 .. N |-> IF i = 0 THEN 0 ELSE SumStep(sum[i - 1], t, i)]
  <2> DEFINE Is(h, u) == u = [i \in 0 .. h |-> IF i = 0 THEN 0 ELSE SumStep(u[i - 1], t, i)]
             Bad == {h \in 0 .. N : ~\E u : Is(h, u)}
  <2>1. ASSUME Bad # {} PROVE FALSE
    <3>1. Bad \in SUBSET Nat
      OBVIOUS
    <3>2. PICK h \in Bad : \A j \in Bad : h <= j
      <4> HIDE DEF Bad
      <4> QED BY <2>1, <3>1, FirstOf
    <3>3. h \in 0 .. N /\ ~\E u : Is(h, u)
      BY <3>2
    <3>4. CASE h = 0
      <4>1. Is(0, [i \in 0 .. 0 |-> 0])
        OBVIOUS
      <4> HIDE DEF Is
      <4> QED BY <3>3, <3>4, <4>1
    <3>5. CASE h # 0
      <4>1. h - 1 \in 0 .. N /\ h - 1 \notin Bad
        <5> HIDE DEF Bad
        <5> QED BY <3>1, <3>2, <3>3, <3>5
      <4>2. PICK u : Is(h - 1, u)
        BY <4>1
      <4>3. \A i \in 0 .. h - 1 : u[i] = IF i = 0 THEN 0 ELSE SumStep(u[i - 1], t, i)
        BY <4>2
      <4> DEFINE v == [i \in 0 .. h |-> IF i = h THEN SumStep(u[h - 1], t, h) ELSE u[i]]
      <4>4. \A i \in 0 .. h : v[i] = IF i = 0 THEN 0 ELSE SumStep(v[i - 1], t, i)
        <5> SUFFICES ASSUME NEW i \in 0 .. h
                     PROVE  v[i] = IF i = 0 THEN 0 ELSE SumStep(v[i - 1], t, i)
          OBVIOUS
        <5>1. CASE i = h
          <6>1. h - 1 \in 0 .. h /\ h - 1 # h
            BY <3>3, <3>5
          <6>2. v[h - 1] = u[h - 1]
            BY <6>1
          <6>3. v[h] = SumStep(u[h - 1], t, h)
            BY <3>3
          <6> HIDE DEF v
          <6> QED BY <3>5, <5>1, <6>2, <6>3
        <5>2. CASE i # h
          <6>1. i \in 0 .. h - 1 /\ (i # 0 => i - 1 \in 0 .. h /\ i - 1 # h)
            BY <3>3, <5>2
          <6>2. v[i] = u[i] /\ (i # 0 => v[i - 1] = u[i - 1])
            BY <5>2, <6>1
          <6> HIDE DEF v
          <6> QED BY <4>3, <6>1, <6>2
        <5> QED BY <5>1, <5>2
      <4>5. v = [i \in 0 .. h |-> v[i]]
        OBVIOUS
      <4>6. Is(h, v)
        <5> HIDE DEF v
        <5> QED BY <4>4, <4>5
      <4> HIDE DEF Is
      <4> QED BY <3>3, <4>6
    <3> QED BY <3>4, <3>5
  <2>2. \E u : Is(N, u)
    <3> HIDE DEF Is
    <3> QED BY <1>2, <2>1
  <2> QED BY <2>2
<1> HIDE DEF sum
<1> DEFINE Off == {i \in 0 .. N : sum[i] \notin Nat}
<1>4. sum[0] \in Nat
  BY <1>2, <1>3
<1>5. ASSUME NEW i \in 0 .. N, i # 0, sum[i - 1] \in Nat PROVE sum[i] \in Nat
  <2>1. sum[i] = SumStep(sum[i - 1], t, i)
    BY <1>3, <1>5
  <2>2. i \in Mine(t) => Of(t, i).length \in Nat
    <3> SUFFICES ASSUME i \in Mine(t) PROVE Of(t, i).length \in Nat
      OBVIOUS
    <3>1. vma[t][i] \in Slots /\ area[vma[t][i]] # None
      BY DEF Mine, Of, AreaTypes
    <3>2. area[vma[t][i]] \in Areas
      BY <3>1 DEF AreaTypes
    <3>3. Of(t, i).length \in 0 .. Top
      BY <3>2 DEF Areas, Of
    <3> QED BY <3>3
  <2> QED BY <1>5, <2>1, <2>2 DEF SumStep
<1>6. Off = {}
  <2> SUFFICES ASSUME Off # {} PROVE FALSE
    OBVIOUS
  <2>1. Off \in SUBSET Nat
    OBVIOUS
  <2>2. PICK n \in Off : \A j \in Off : n <= j
    <3> HIDE DEF Off
    <3> QED BY <2>1, FirstOf
  <2>3. n \in 0 .. N /\ sum[n] \notin Nat
    BY <2>2
  <2>4. n # 0
    BY <1>4, <2>3
  <2>5. n - 1 \in 0 .. N /\ n - 1 \notin Off
    <3> HIDE DEF Off
    <3> QED BY <2>1, <2>2, <2>3, <2>4
  <2> QED BY <1>5, <2>3, <2>4, <2>5
<1> QED BY <1>1, <1>2, <1>6

LEMMA TopIs == Top \in Nat /\ LowPages * PGSIZE \in Nat /\ LowPages * PGSIZE <= Top
<1>1. PICK P \in Nat : P = PGSIZE
  BY MemorySizes
<1>2. PICK L \in Nat : L = LowPages
  BY MemorySizes
<1>3. PICK H \in Nat : H = HighPages
  BY MemorySizes
<1>4. (L + H) * P = L * P + H * P /\ L * P \in Nat /\ H * P \in Nat
  OBVIOUS
<1> QED BY <1>1, <1>2, <1>3, <1>4 DEF Top

(* The area of a segment fits. *)
LEMMA SegmentArea ==
    ASSUME NEW ph \in [vaddr : Nat, filesz : Nat, memsz : Nat],
           ph.vaddr + ph.filesz <= LowPages * PGSIZE, NEW a, a = LazyLoadSeg(ph)
    PROVE  a \in Areas /\ a.addr % PGSIZE = 0 /\ a.ip
<1>1. PICK v \in Nat : v = ph.vaddr
  OBVIOUS
<1>2. PICK z \in Nat : z = ph.filesz
  OBVIOUS
<1>3. PICK P \in Nat \ {0} : P = PGSIZE
  BY MemorySizes
<1>4. PGROUNDDOWN(v) \in Nat /\ PGROUNDDOWN(v) <= v /\ PGROUNDDOWN(v) % PGSIZE = 0
  BY Rounded
<1>5. v % P \in 0 .. v
  <2>1. PICK d \in Int : d = v \div P
    BY DivIs
  <2>2. P * d <= v /\ v < P * d + P /\ v = P * d + (v % P) /\ v % P \in Int
    BY <2>1, DivIs
  <2>3. d >= 0
    BY <2>1, DivOrder
  <2>4. P * d >= 0
    BY <2>3
  <2> QED BY <2>2, <2>4
<1>6. v + z <= Top /\ Top \in Nat
  BY <1>1, <1>2, TopIs
<1>7. PGROUNDDOWN(v) \in 0 .. Top /\ z + (v % P) \in 0 .. Top
  BY <1>4, <1>5, <1>6
<1>8. a = [addr |-> PGROUNDDOWN(v), length |-> z + (v % P), ip |-> TRUE, shared |-> FALSE]
  BY <1>1, <1>2, <1>3 DEF LazyLoadSeg
<1>9. PICK x \in 0 .. Top : x = PGROUNDDOWN(v)
  BY <1>7
<1>10. PICK y \in 0 .. Top : y = z + (v % P)
  BY <1>7
<1> QED BY <1>4, <1>8, <1>9, <1>10 DEF Areas

(* A task has its frames from fork until the wait of its parent. *)
LifeInv ==
    \A t \in Tasks :
        /\ state[t] = "UNUSED" => pagetable[t] = NoTable /\ trapframe[t] = None
        /\ state[t] # "UNUSED" => trapframe[t] # None

TaskTypes ==
    /\ state \in [Tasks -> {"UNUSED", "RUN", "ZOMBIE"}]
    /\ sz \in [Tasks -> 0 .. LowPages * PGSIZE]

MemoryInv ==
    TaskTypes /\ FrameTypes /\ AreaTypes /\ FrameInv /\ AreaInv /\ LifeInv

LEMMA MemoryInvTypes == MemoryInv => TypeOK
  BY DEF MemoryInv, TaskTypes, FrameTypes, AreaTypes, TypeOK

LEMMA AllSame ==
    ASSUME MemoryInv, UNCHANGED <<free, state, trapframe, pagetable, sz, area, vma, iref, lost>>
    PROVE  MemoryInv'
<1>1. FrameTypes' /\ FrameInv'
  BY FramesSame DEF MemoryInv
<1>2. AreaTypes' /\ AreaInv'
  BY AreasSame DEF MemoryInv
<1> QED BY <1>1, <1>2 DEF MemoryInv, TaskTypes, LifeInv

(* Every area of t is in the table. *)
LEMMA AreasThere ==
    ASSUME AreaTypes, AreaInv, NEW t \in Tasks, NEW i \in Mine(t)
    PROVE  i \in Indices /\ vma[t][i] \in Slots /\ Of(t, i) \in Areas /\ Of(t, i) # None
           /\ Of(t, i).addr % PGSIZE = 0
<1>1. Fits(t, vma[t], area)
  BY DEF AreaInv
<1>2. i \in Indices /\ vma[t][i] \in Slots /\ vma[t][i] \notin OtherSlots(t)
  BY <1>1 DEF Mine, Fits
<1>3. area[vma[t][i]] # None
  BY <1>1, <1>2 DEF Fits
<1> QED BY <1>2, <1>3 DEF AreaTypes, Of

(* The pages of an area are pages, and not tables. *)
LEMMA AreaPagesApart ==
    ASSUME NEW a \in Areas
    PROVE  AreaPages(a) \cap Tables = {}
<1>1. PICK x \in Nat : x = a.addr
  <2>1. a.addr \in 0 .. Top
    BY DEF Areas
  <2> QED BY <2>1
<1>2. PICK P \in Nat \ {0} : P = PGSIZE
  BY MemorySizes
<1>3. PICK d \in Int : d = x \div P /\ d >= 0
  <2>1. x \div P \in Int /\ x \div P >= 0
    BY DivIs, DivOrder
  <2> QED BY <2>1
<1>4. \A p \in AreaPages(a) : p \in Int /\ p >= 0
  BY <1>1, <1>2, <1>3 DEF AreaPages
<1>5. \A p \in Tables : p < 0
  BY DEF Tables, Map0, Root
<1> QED BY <1>4, <1>5

(* The free slots and those of t are those that no other task has. *)
LEMMA SlotsLeft ==
    ASSUME AreaTypes, AreaInv, NEW t \in Tasks, NEW S, S = {vma[t][i] : i \in Mine(t)}
    PROVE  /\ S \subseteq Slots /\ S \cap FreeSlots = {}
           /\ IsFiniteSet(FreeSlots \cup S) /\ IsFiniteSet(FreeSlots) /\ IsFiniteSet(Mine(t))
           /\ Cardinality(FreeSlots \cup S) = Cardinality(FreeSlots) + Cardinality(Mine(t))
<1>1. Fits(t, vma[t], area)
  BY DEF AreaInv
<1>2. PICK r : r = vma[t]
  OBVIOUS
<1>3. PICK M : M = Mine(t)
  OBVIOUS
<1>4. M \in SUBSET Indices /\ \A i \in M : r[i] \in Slots /\ area[r[i]] # None
  BY <1>2, <1>3, AreasThere DEF Of, Mine
<1>5. FreeSlots \in SUBSET Slots /\ S \in SUBSET Slots /\ FreeSlots \cap S = {}
  BY <1>2, <1>3, <1>4 DEF FreeSlots
<1>6. IsFiniteSet(M) /\ IsFiniteSet(FreeSlots) /\ IsFiniteSet(S)
  BY <1>4, <1>5, FewEntries, FS_Subset
<1>7. PICK f : f = [i \in M |-> r[i]]
  OBVIOUS
<1>8. \A i, j \in M : r[i] = r[j] => i = j
  BY <1>1, <1>2, <1>4, NoneIsNoSlot DEF Fits
<1>9. Pairs(f, M, S)
  BY <1>2, <1>3, <1>7, <1>8 DEF Pairs
<1>10. Cardinality(S) = Cardinality(M)
  BY <1>6, <1>9, SameCount
<1>11. /\ IsFiniteSet(FreeSlots \cup S)
       /\ Cardinality(FreeSlots \cup S) =
            Cardinality(FreeSlots) + Cardinality(S) - Cardinality(FreeSlots \cap S)
  BY <1>6, FS_Union
<1>12. Cardinality(FreeSlots \cap S) = 0 /\ Cardinality(FreeSlots) \in Nat /\ Cardinality(S) \in Nat
  BY <1>5, <1>6, FS_EmptySet, FS_CardinalityType
<1> QED BY <1>3, <1>5, <1>6, <1>10, <1>11, <1>12

(* What t gave up, when that is all it had. *)
LEMMA AllFreed ==
    ASSUME AreaTypes, AreaInv, NEW t \in Tasks, NEW a, a = FreedAreas(t, Mine(t)),
           NEW v, v = [i \in Indices |-> None]
    PROVE  /\ Fits(t, v, a) /\ Cardinality(OwnIp(v, a)) = 0
           /\ WithIp(t, Mine(t)) = Cardinality(OwnIp(vma[t], area))
           /\ \A s \in FreeSlots \cup {vma[t][i] : i \in Mine(t)} : a[s] = None
<1>1. PICK M : M = Mine(t)
  OBVIOUS
<1>2. M \in SUBSET Mine(t) /\ a = FreedAreas(t, M)
  BY <1>1
<1>3. Fits(t, vma[t], area)
  BY DEF AreaInv
<1>4. v = [i \in Indices |-> IF i \in M THEN None ELSE vma[t][i]]
  BY <1>1 DEF Mine
<1>5. Fits(t, v, a)
  BY <1>2, <1>3, <1>4, FreedFits
<1>6. OwnIp(v, a) = {}
  BY DEF OwnIp
<1>7. Cardinality(OwnIp(v, a)) = 0
  BY <1>6, FS_EmptySet
<1>8. {i \in Mine(t) : Of(t, i).ip} = OwnIp(vma[t], area)
  BY DEF OwnIp, Mine, Of
<1>9. \A s \in FreeSlots \cup {vma[t][i] : i \in Mine(t)} : s \in Slots
  <2>1. PICK S : S = {vma[t][i] : i \in Mine(t)}
    OBVIOUS
  <2>2. S \subseteq Slots
    BY <2>1, SlotsLeft
  <2> QED BY <2>1, <2>2 DEF FreeSlots
<1>10. \A s \in FreeSlots \cup {vma[t][i] : i \in Mine(t)} : a[s] = None
  BY <1>9 DEF FreedAreas, FreeSlots
<1> QED BY <1>5, <1>7, <1>8, <1>10 DEF WithIp

LEMMA LifeKept ==
    ASSUME LifeInv, NEW t \in Tasks,
           \A u \in Tasks \ {t} :
               state'[u] = state[u] /\ pagetable'[u] = pagetable[u] /\ trapframe'[u] = trapframe[u],
           state'[t] # "UNUSED", trapframe'[t] # None
    PROVE  LifeInv'
  BY DEF LifeInv

LEMMA WithinKept ==
    ASSUME MemoryInv, NEW t \in Tasks, state[t] # "UNUSED", NEW m, Owns(m, Reach(t)),
           free' = m.free, pagetable' = [pagetable EXCEPT ![t] = m.pg],
           \A u \in Tasks \ {t} : state'[u] = state[u],
           state'[t] # "UNUSED", UNCHANGED <<trapframe, lost>>
    PROVE  FrameTypes' /\ FrameInv' /\ LifeInv'
<1>1. FrameTypes' /\ FrameInv'
  BY FramesWithin DEF MemoryInv
<1>2. trapframe'[t] # None
  BY DEF MemoryInv, LifeInv
<1>3. \A u \in Tasks \ {t} : pagetable'[u] = pagetable[u] /\ trapframe'[u] = trapframe[u]
  BY DEF MemoryInv, FrameTypes
<1>4. LifeInv'
  BY <1>2, <1>3, LifeKept DEF MemoryInv
<1> QED BY <1>1, <1>4

LEMMA SizeChanged ==
    ASSUME TaskTypes, NEW t \in Tasks, NEW z \in 0 .. LowPages * PGSIZE,
           sz' = [sz EXCEPT ![t] = z], UNCHANGED state
    PROVE  TaskTypes'
  BY DEF TaskTypes

LEMMA GrowStep ==
    ASSUME MemoryInv, NEW t \in Tasks, NEW n \in Int, growtask(t, n)
    PROVE  MemoryInv'
<1>1. PICK z \in Nat : z = sz[t] /\ z <= LowPages * PGSIZE
  BY TopIs DEF MemoryInv, TaskTypes
<1>2. PICK new \in Int : new = z + n
  OBVIOUS
<1>3. PICK m : m = View(free, pagetable[t])
  OBVIOUS
<1>4. PICK up : up = userAlloc(m, z, new)
  OBVIOUS
<1>5. Owns(m, Reach(t)) /\ m.panic = "no"
  BY <1>3, Begin DEF MemoryInv
<1>6. /\ state[t] = "RUN" /\ n # 0 /\ new <= LowPages * PGSIZE
      /\ \/ n > 0 /\ up.panic # "no" /\ panicked' = up.panic /\ UNCHANGED <<free, pagetable, sz>>
         \/ n > 0 /\ up.panic = "no" /\ Became(t, up) /\ sz' = [sz EXCEPT ![t] = IF up.ok THEN new ELSE @]
         \/ /\ n < 0 /\ new >= 0
            /\ Became(t, userUnmap(m, Span(new, z)))
            /\ sz' = [sz EXCEPT ![t] = new]
         \/ n < 0 /\ new < 0 /\ UNCHANGED <<free, pagetable, sz, panicked>>
      /\ UNCHANGED <<state, trapframe, area, vma, iref, lost>>
  BY <1>1, <1>2, <1>3, <1>4 DEF growtask, Running
<1>7. AreaTypes' /\ AreaInv'
  BY <1>6, AreasSame DEF MemoryInv
<1>8. CASE UNCHANGED <<free, pagetable, sz>>
  BY <1>6, <1>8, AllSame
<1>9. CASE n > 0 /\ up.panic = "no" /\ Became(t, up) /\ sz' = [sz EXCEPT ![t] = IF up.ok THEN new ELSE @]
  <2>1. new \in Nat
    BY <1>1, <1>2, <1>9
  <2>2. Owns(up, Reach(t))
    <3>1. PICK U : U = Reach(t)
      OBVIOUS
    <3>2. (up.panic # "no" /\ ~Blank(m)) \/ Grown(m, up, U)
      BY <1>4, <1>5, <1>6, <2>1, <3>1, UserAllocOwns
    <3> QED BY <1>9, <3>1, <3>2 DEF Grown
  <2>3. FrameTypes' /\ FrameInv' /\ LifeInv'
    BY <1>6, <1>9, <2>2, WithinKept DEF Became
  <2>4. PICK y \in 0 .. LowPages * PGSIZE : y = IF up.ok THEN new ELSE z
    BY <1>1, <1>6, <2>1, TopIs
  <2>5. sz' = [sz EXCEPT ![t] = y]
    BY <1>1, <1>9, <2>4
  <2>6. TaskTypes'
    BY <1>6, <2>5, SizeChanged DEF MemoryInv
  <2> QED BY <1>7, <2>3, <2>6 DEF MemoryInv
<1>10. CASE new >= 0 /\ Became(t, userUnmap(m, Span(new, z))) /\ sz' = [sz EXCEPT ![t] = new]
  <2>1. new \in Nat /\ new \in 0 .. LowPages * PGSIZE
    BY <1>6, <1>10, TopIs
  <2>2. PICK ps : ps = Span(new, z)
    OBVIOUS
  <2>3. PICK x : x = userUnmap(m, ps)
    OBVIOUS
  <2>4. ps \cap Tables = {}
    BY <2>1, <2>2, SpanApart
  <2>5. Owns(x, Reach(t))
    BY <1>5, <2>3, <2>4, UnmapOwns
  <2>6. FrameTypes' /\ FrameInv' /\ LifeInv'
    BY <1>6, <1>10, <2>2, <2>3, <2>5, WithinKept DEF Became
  <2>7. TaskTypes'
    BY <1>6, <1>10, <2>1, SizeChanged DEF MemoryInv
  <2> QED BY <1>7, <2>6, <2>7 DEF MemoryInv
<1> QED BY <1>6, <1>8, <1>9, <1>10

LEMMA MmapStep ==
    ASSUME MemoryInv, NEW t \in Tasks, NEW length \in Nat, NEW shared \in BOOLEAN,
           sys_mmap(t, length, shared)
    PROVE  MemoryInv'
<1>1. AreaTypes /\ AreaInv
  BY DEF MemoryInv
<1>2. PICK addr : addr = PGROUNDDOWN(Top - vmasz(t) - PGROUNDUP(length))
  OBVIOUS
<1>3. PICK idle : idle = Indices \ Mine(t)
  OBVIOUS
<1>4. PICK s : s = Min(FreeSlots)
  OBVIOUS
<1>5. PICK k : k = Min(idle)
  OBVIOUS
<1>6. PICK x : x = [addr |-> addr, length |-> length, ip |-> FALSE, shared |-> shared]
  OBVIOUS
<1>7. /\ addr >= LowPages * PGSIZE
      /\ IF FreeSlots = {} \/ idle = {} THEN Panic("not enough vma")
         ELSE /\ area' = [area EXCEPT ![s] = x]
              /\ vma' = [vma EXCEPT ![t][k] = s]
              /\ UNCHANGED <<free, state, trapframe, pagetable, sz, iref, lost, panicked>>
  BY <1>2, <1>3, <1>4, <1>5, <1>6 DEF sys_mmap
<1>8. CASE Panic("not enough vma")
  BY <1>8, AllSame DEF Panic
<1>9. CASE /\ FreeSlots # {} /\ idle # {}
           /\ area' = [area EXCEPT ![s] = x] /\ vma' = [vma EXCEPT ![t][k] = s]
           /\ UNCHANGED <<free, state, trapframe, pagetable, sz, iref, lost, panicked>>
  <2>1. s \in FreeSlots /\ s \in Slots /\ area[s] = None
    <3>1. FreeSlots \in SUBSET Nat
      BY MemorySizes DEF FreeSlots, Slots
    <3>2. s \in FreeSlots
      BY <1>4, <1>9, <3>1, MinIn
    <3> QED BY <3>2 DEF FreeSlots
  <2>2. k \in Indices /\ vma[t][k] = None
    <3>1. idle \in SUBSET Nat
      BY <1>3, MemorySizes DEF Indices
    <3>2. k \in idle
      BY <1>5, <1>9, <3>1, MinIn
    <3> QED BY <1>3, <3>2 DEF Mine
  <2>3. x \in Areas /\ x.addr % PGSIZE = 0 /\ ~x.ip
    <3>1. PICK y \in Nat : y = vmasz(t)
      BY <1>1, AreasThere, VmaszNat
    <3>2. PICK l \in Nat : l = PGROUNDUP(length) /\ length <= l
      BY Rounded
    <3>3. PICK b \in Int : b = Top - y - l
      BY TopIs
    <3>4. PICK P \in Nat \ {0} : P = PGSIZE
      BY MemorySizes
    <3>5. PICK d \in Int : d = b \div P /\ P * d <= b
      BY DivIs
    <3>6. addr = d * P
      BY <1>2, <3>1, <3>2, <3>3, <3>4, <3>5 DEF PGROUNDDOWN
    <3>7. addr \in Int /\ addr >= 0 /\ addr <= b
      <4>1. d * P \in Int /\ d * P <= b
        BY <3>5
      <4>2. PICK q \in Nat : q = LowPages * PGSIZE
        BY TopIs
      <4>3. addr >= q
        BY <1>7, <4>2
      <4> QED BY <3>6, <4>1, <4>3
    <3>8. b \in Nat /\ PGROUNDDOWN(b) = addr
      BY <1>2, <3>1, <3>2, <3>3, <3>7
    <3>9. addr % PGSIZE = 0
      BY <3>8, Rounded
    <3>10. addr \in 0 .. Top /\ length \in 0 .. Top
      BY <3>2, <3>3, <3>7, TopIs
    <3> QED BY <1>6, <3>9, <3>10 DEF Areas
  <2>4. PICK w : w = vma[t]
    OBVIOUS
  <2>5. w \in [Indices -> Slots \cup {None}]
    BY <1>1, <2>4 DEF AreaTypes
  <2>6. PICK v : v = [w EXCEPT ![k] = s]
    OBVIOUS
  <2>7. PICK a : a = [area EXCEPT ![s] = x]
    OBVIOUS
  <2>8. vma' = [vma EXCEPT ![t] = v] /\ area' = a
    BY <1>1, <1>9, <2>4, <2>6, <2>7 DEF AreaTypes
  <2>9. Fits(t, w, area)
    BY <1>1, <2>4 DEF AreaInv
  <2>10. Adds(w, area, v, a)
    <3>1. v \in [Indices -> Slots \cup {None}] /\ a \in [Slots -> Areas \cup {None}]
      BY <1>1, <2>1, <2>3, <2>5, <2>6, <2>7 DEF AreaTypes
    <3>2. v[k] = s /\ \A i \in Indices \ {k} : v[i] = w[i]
      BY <2>2, <2>5, <2>6
    <3>3. a[s] = x /\ \A q \in Slots \ {s} : a[q] = area[q]
      BY <1>1, <2>1, <2>7 DEF AreaTypes
    <3>4. x # None
      BY <2>3, NoneAssumption
    <3> QED BY <2>1, <2>2, <2>3, <2>4, <3>1, <3>2, <3>3, <3>4 DEF Adds
  <2>11. Fits(t, v, a)
    BY <2>9, <2>10, AddedFits
  <2>12. OwnIp(v, a) = OwnIp(w, area)
    <3>1. v[k] = s /\ \A i \in Indices \ {k} : v[i] = w[i]
      BY <2>2, <2>5, <2>6
    <3>2. a[s] = x /\ \A q \in Slots \ {s} : a[q] = area[q]
      BY <1>1, <2>1, <2>7 DEF AreaTypes
    <3>3. \A i \in Indices : w[i] # None => w[i] \in Slots /\ w[i] # s
      BY <1>1, <2>1, <2>4, AreasThere DEF Mine, Of
    <3> QED BY <2>2, <2>3, <2>4, <3>1, <3>2, <3>3 DEF OwnIp
  <2>13. iref' = iref - Cardinality(OwnIp(vma[t], area)) + Cardinality(OwnIp(v, a))
    <3>1. IsFiniteSet(OwnIp(w, area))
      BY <2>9, IpCount
    <3>2. Cardinality(OwnIp(w, area)) \in Nat
      BY <3>1, FS_CardinalityType
    <3> QED BY <1>1, <1>9, <2>4, <2>12, <3>2 DEF AreaTypes
  <2>14. StillRuns(t, v)
    <3>1. state[t] = "RUN"
      BY DEF sys_mmap, Running
    <3> QED BY <1>9, <3>1 DEF StillRuns
  <2>15. AreaTypes' /\ AreaInv'
    BY <1>1, <2>8, <2>11, <2>13, <2>14, AreasGiven
  <2>16. FrameTypes' /\ FrameInv'
    BY <1>9, FramesSame DEF MemoryInv
  <2> QED BY <1>9, <2>15, <2>16 DEF MemoryInv, TaskTypes, LifeInv
<1> QED BY <1>7, <1>8, <1>9

LEMMA MunmapStep ==
    ASSUME MemoryInv, NEW t \in Tasks, NEW addr, sys_munmap(t, addr)
    PROVE  MemoryInv'
<1>1. AreaTypes /\ AreaInv
  BY DEF MemoryInv
<1>2. PICK in : in = {i \in Mine(t) : Of(t, i).addr <= addr /\ addr < Of(t, i).addr + Of(t, i).length}
  OBVIOUS
<1>3. PICK k : k = Min(in)
  OBVIOUS
<1>4. PICK x : x = Of(t, k)
  OBVIOUS
<1>5. PICK m : m = View(free, pagetable[t])
  OBVIOUS
<1>6. /\ state[t] = "RUN"
      /\ IF in = {} THEN Panic("no area")
         ELSE /\ ~x.ip
              /\ Became(t, userUnmap(m, AreaPages(x)))
              /\ area' = FreedAreas(t, {k})
              /\ vma' = [vma EXCEPT ![t][k] = None]
              /\ UNCHANGED <<state, trapframe, sz, iref, lost>>
  BY <1>2, <1>3, <1>4, <1>5 DEF sys_munmap, Running
<1>7. CASE Panic("no area")
  BY <1>7, AllSame DEF Panic
<1>8. CASE /\ in # {} /\ ~x.ip
           /\ Became(t, userUnmap(m, AreaPages(x)))
           /\ area' = FreedAreas(t, {k})
           /\ vma' = [vma EXCEPT ![t][k] = None]
           /\ UNCHANGED <<state, trapframe, sz, iref, lost>>
  <2>1. k \in Mine(t) /\ k \in Indices
    <3>1. in \in SUBSET Nat
      BY <1>2, MemorySizes DEF Mine, Indices
    <3>2. k \in in
      BY <1>3, <1>8, <3>1, MinIn
    <3> QED BY <1>2, <3>2 DEF Mine
  <2>2. x \in Areas
    BY <1>1, <1>4, <2>1, AreasThere
  <2>3. PICK ps : ps = AreaPages(x)
    OBVIOUS
  <2>4. ps \cap Tables = {}
    BY <2>2, <2>3, AreaPagesApart
  <2>5. PICK u : u = userUnmap(m, ps)
    OBVIOUS
  <2>6. Owns(m, Reach(t))
    BY <1>5, Begin DEF MemoryInv
  <2>7. Owns(u, Reach(t))
    BY <2>4, <2>5, <2>6, UnmapOwns
  <2>8. FrameTypes' /\ FrameInv' /\ LifeInv'
    BY <1>6, <1>8, <2>3, <2>5, <2>7, WithinKept DEF Became
  <2>9. PICK w : w = vma[t]
    OBVIOUS
  <2>10. w \in [Indices -> Slots \cup {None}] /\ Fits(t, w, area)
    BY <1>1, <2>9 DEF AreaTypes, AreaInv
  <2>11. PICK I \in SUBSET Mine(t) : I = {k}
    BY <2>1
  <2>12. PICK v : v = [i \in Indices |-> IF i \in I THEN None ELSE w[i]]
    OBVIOUS
  <2>13. PICK a : a = FreedAreas(t, I)
    OBVIOUS
  <2>14. Fits(t, v, a)
    BY <2>9, <2>10, <2>12, <2>13, FreedFits
  <2>15. vma' = [vma EXCEPT ![t] = v] /\ area' = a
    <3>1. v = [w EXCEPT ![k] = None]
      BY <2>1, <2>10, <2>11, <2>12
    <3> QED BY <1>1, <1>8, <2>9, <2>11, <2>13, <3>1 DEF AreaTypes
  <2>16. OwnIp(v, a) = OwnIp(w, area)
    <3>1. \A i \in Indices : v[i] = IF i = k THEN None ELSE w[i]
      BY <2>11, <2>12
    <3>2. \A s \in Slots : a[s] = IF w[k] = s THEN None ELSE area[s]
      BY <2>9, <2>11, <2>13 DEF FreedAreas
    <3>3. \A i \in Indices : w[i] # None => w[i] \in Slots /\ (i # k => w[i] # w[k])
      BY <2>1, <2>10 DEF Fits
    <3>4. ~area[w[k]].ip
      BY <1>4, <1>8, <2>9 DEF Of
    <3>5. ASSUME NEW i \in Indices
          PROVE  v[i] # None /\ a[v[i]].ip <=> w[i] # None /\ area[w[i]].ip
      <4>1. CASE i = k
        BY <3>1, <3>4, <4>1
      <4>2. CASE i # k
        BY <3>1, <3>2, <3>3, <4>2
      <4> QED BY <4>1, <4>2
    <3> QED BY <3>5 DEF OwnIp
  <2>17. iref' = iref - Cardinality(OwnIp(vma[t], area)) + Cardinality(OwnIp(v, a))
    <3>1. IsFiniteSet(OwnIp(w, area))
      BY <2>10, IpCount
    <3>2. Cardinality(OwnIp(w, area)) \in Nat
      BY <3>1, FS_CardinalityType
    <3> QED BY <1>1, <1>8, <2>9, <2>16, <3>2 DEF AreaTypes
  <2>18. StillRuns(t, v)
    BY <1>6, <1>8 DEF StillRuns
  <2>19. AreaTypes' /\ AreaInv'
    BY <1>1, <2>14, <2>15, <2>17, <2>18, AreasGiven
  <2> QED BY <1>8, <2>8, <2>19 DEF MemoryInv, TaskTypes
<1> QED BY <1>6, <1>7, <1>8

LEMMA ExitingStep ==
    ASSUME MemoryInv, NEW t \in Tasks, state[t] = "RUN", Exiting(t)
    PROVE  MemoryInv'
<1>1. AreaTypes /\ AreaInv
  BY DEF MemoryInv
<1>2. PICK m : m = View(free, pagetable[t])
  OBVIOUS
<1>3. PICK ps : ps = UNION {AreaPages(Of(t, i)) : i \in Mine(t)}
  OBVIOUS
<1>4. PICK u : u = userUnmap(m, ps)
  OBVIOUS
<1>5. PICK v : v = [i \in Indices |-> None]
  OBVIOUS
<1>6. PICK a : a = FreedAreas(t, Mine(t))
  OBVIOUS
<1>7. CASE UNCHANGED <<free, state, trapframe, pagetable, sz, area, vma, iref, lost>>
  BY <1>7, AllSame
<1>8. CASE /\ Became(t, u) /\ area' = a
           /\ iref' = iref - WithIp(t, Mine(t))
           /\ vma' = [vma EXCEPT ![t] = v]
           /\ state' = [state EXCEPT ![t] = "ZOMBIE"]
           /\ UNCHANGED <<trapframe, sz, lost>>
  <2>1. ps \cap Tables = {}
    <3> SUFFICES ASSUME NEW p \in ps PROVE p \notin Tables
      OBVIOUS
    <3>1. PICK i \in Mine(t) : p \in AreaPages(Of(t, i))
      BY <1>3
    <3>2. PICK x : x = Of(t, i)
      OBVIOUS
    <3>3. x \in Areas
      BY <1>1, <3>2, AreasThere
    <3>4. AreaPages(x) \cap Tables = {}
      BY <3>3, AreaPagesApart
    <3> QED BY <3>1, <3>2, <3>4
  <2>2. Owns(m, Reach(t))
    BY <1>2, Begin DEF MemoryInv
  <2>3. Owns(u, Reach(t))
    BY <1>4, <2>1, <2>2, UnmapOwns
  <2>4. state'[t] = "ZOMBIE" /\ \A q \in Tasks \ {t} : state'[q] = state[q]
    BY <1>8 DEF MemoryInv, TaskTypes
  <2>5. FrameTypes' /\ FrameInv' /\ LifeInv'
    BY <1>8, <2>3, <2>4, WithinKept DEF Became
  <2>6. /\ Fits(t, v, a) /\ Cardinality(OwnIp(v, a)) = 0
        /\ WithIp(t, Mine(t)) = Cardinality(OwnIp(vma[t], area))
    BY <1>1, <1>5, <1>6, AllFreed
  <2>7. iref' = iref - Cardinality(OwnIp(vma[t], area)) + Cardinality(OwnIp(v, a))
    <3>1. Fits(t, vma[t], area)
      BY <1>1 DEF AreaInv
    <3>2. PICK w : w = vma[t]
      OBVIOUS
    <3>3. IsFiniteSet(OwnIp(w, area))
      BY <3>1, <3>2, IpCount
    <3>4. Cardinality(OwnIp(w, area)) \in Nat
      BY <3>3, FS_CardinalityType
    <3> QED BY <1>1, <1>8, <2>6, <3>2, <3>4 DEF AreaTypes
  <2>8. StillRuns(t, v)
    BY <1>5, <2>4 DEF StillRuns
  <2>9. AreaTypes' /\ AreaInv'
    BY <1>1, <1>8, <2>6, <2>7, <2>8, AreasGiven
  <2>10. TaskTypes'
    BY <1>8 DEF MemoryInv, TaskTypes
  <2> QED BY <2>5, <2>9, <2>10 DEF MemoryInv
<1> QED BY <1>2, <1>3, <1>4, <1>5, <1>6, <1>7, <1>8 DEF Exiting, Panic

LEMMA TrapStep ==
    ASSUME MemoryInv, NEW t \in Tasks, NEW p \in Pages, usertrap(t, p)
    PROVE  MemoryInv'
<1>1. PICK m : m = View(free, pagetable[t])
  OBVIOUS
<1>2. PICK n : n = NewPage(m, p)
  OBVIOUS
<1>3. state[t] = "RUN" /\ pagetable[t][p] = None
  BY DEF usertrap, Running
<1>4. CASE Exiting(t)
  BY <1>3, <1>4, ExitingStep
<1>5. CASE Panic("null page")
  BY <1>5, AllSame DEF Panic
<1>6. CASE Became(t, n.m) /\ lost' = lost \cup n.left /\ UNCHANGED <<state, trapframe, sz, area, vma, iref>>
  <2>1. PICK U : U = Reach(t)
    OBVIOUS
  <2>2. Owns(m, U) /\ m.pg = pagetable[t]
    BY <1>1, <2>1, Begin DEF MemoryInv
  <2>3. Remapped(m, p, n) \/ Gained(m, U, p, n)
    BY <1>2, <2>2, NewPageOwns
  <2>4. Gained(m, U, p, n)
    BY <1>3, <2>2, <2>3 DEF Remapped
  <2>5. PICK L : L = n.left
    OBVIOUS
  <2>6. PICK W : W = U \ L
    OBVIOUS
  <2>7. L \subseteq U /\ Owns(n.m, W)
    BY <2>4, <2>5, <2>6 DEF Gained
  <2>8. PICK lo : lo = lost \cup L
    OBVIOUS
  <2>9. PICK tf : tf = trapframe[t]
    OBVIOUS
  <2>10. Shared(t, W, lo, tf)
    <3>1. Shared(t, U, lost, tf)
      BY <2>1, <2>9, Apart3 DEF MemoryInv
    <3>2. U \subseteq Frames
      BY <2>2 DEF Owns
    <3> QED BY <2>6, <2>7, <2>8, <3>1, <3>2 DEF Shared
  <2>11. lost' = lo /\ trapframe' = [trapframe EXCEPT ![t] = tf]
    BY <1>6, <2>5, <2>8, <2>9 DEF MemoryInv, FrameTypes
  <2>12. PICK y : y = n.m
    OBVIOUS
  <2>13. Owns(y, W) /\ free' = y.free /\ pagetable' = [pagetable EXCEPT ![t] = y.pg]
    BY <1>6, <2>7, <2>12 DEF Became
  <2>14. FrameTypes' /\ FrameInv'
    BY <2>10, <2>11, <2>13, FramesMoved DEF MemoryInv
  <2>15. AreaTypes' /\ AreaInv'
    BY <1>6, AreasSame DEF MemoryInv
  <2>16. LifeInv'
    BY <1>3, <1>6, <2>13 DEF MemoryInv, LifeInv, FrameTypes
  <2> QED BY <1>6, <2>14, <2>15, <2>16 DEF MemoryInv, TaskTypes
<1> QED BY <1>1, <1>2, <1>4, <1>5, <1>6 DEF usertrap

LEMMA FreeTaskStep ==
    ASSUME MemoryInv, NEW t \in Tasks, freeTask(t)
    PROVE  MemoryInv'
<1>1. PICK tf : tf = trapframe[t]
  OBVIOUS
<1>2. PICK fr : fr = free \cup {tf}
  OBVIOUS
<1>3. PICK x : x = View(fr, pagetable[t])
  OBVIOUS
<1>4. PICK z \in Nat : z = sz[t]
  BY TopIs DEF MemoryInv, TaskTypes
<1>5. PICK m : m = FreeTaskPagetable(x, z)
  OBVIOUS
<1>6. /\ state[t] = "ZOMBIE"
      /\ IF m.panic # "no" THEN Panic(m.panic)
         ELSE /\ Became(t, m)
              /\ trapframe' = [trapframe EXCEPT ![t] = None]
              /\ sz' = [sz EXCEPT ![t] = 0]
              /\ state' = [state EXCEPT ![t] = "UNUSED"]
              /\ UNCHANGED <<area, vma, iref, lost>>
  BY <1>1, <1>2, <1>3, <1>4, <1>5 DEF freeTask
<1>7. CASE Panic(m.panic)
  BY <1>7, AllSame DEF Panic
<1>8. CASE /\ m.panic = "no" /\ Became(t, m)
           /\ trapframe' = [trapframe EXCEPT ![t] = None]
           /\ sz' = [sz EXCEPT ![t] = 0]
           /\ state' = [state EXCEPT ![t] = "UNUSED"]
           /\ UNCHANGED <<area, vma, iref, lost>>
  <2>1. PICK y : y = View(free, pagetable[t])
    OBVIOUS
  <2>2. PICK U : U = Reach(t)
    OBVIOUS
  <2>3. Owns(y, U) /\ y.free = free
    BY <2>1, <2>2, Begin DEF MemoryInv
  <2>4. tf \in Frames
    BY <1>1, <1>6 DEF MemoryInv, LifeInv, FrameTypes
  <2>5. Shared(t, U, lost, tf)
    BY <1>1, <2>2, Apart3 DEF MemoryInv
  <2>6. PICK L : L = {tf}
    OBVIOUS
  <2>7. PICK W : W = U \cup L
    OBVIOUS
  <2>8. Joins(U, L, W)
    BY <2>4, <2>5, <2>6, <2>7 DEF Joins, Shared
  <2>9. x = WithFree(y, fr) /\ fr = y.free \cup L
    <3>1. PICK pg : pg = pagetable[t]
      OBVIOUS
    <3>2. y = [free |-> free, pg |-> pg, ok |-> TRUE, panic |-> "no"]
      BY <2>1, <3>1 DEF View
    <3>3. x = [free |-> fr, pg |-> pg, ok |-> TRUE, panic |-> "no"]
      BY <1>3, <3>1 DEF View
    <3>4. x = WithFree(y, fr)
      <4>1. PICK q : q = WithFree(y, fr)
        OBVIOUS
      <4>2. y \in Views /\ fr \in SUBSET Frames
        BY <1>2, <2>3, <2>4 DEF Owns, MemoryInv, FrameTypes
      <4>3. /\ q \in Views /\ q.free = fr /\ q.pg = y.pg
            /\ q.ok = y.ok /\ q.panic = y.panic
        BY <4>1, <4>2, FreeChanged
      <4>4. q = [free |-> q.free, pg |-> q.pg, ok |-> q.ok, panic |-> q.panic]
        BY <4>3, ViewFields
      <4>5. y.pg = pg /\ y.ok = TRUE /\ y.panic = "no"
        BY <3>2
      <4> QED BY <3>3, <4>1, <4>3, <4>4, <4>5
    <3> QED BY <1>2, <2>3, <2>6, <3>4
  <2>10. Owns(x, W)
    BY <2>3, <2>8, <2>9, FreeMore
  <2>11. (m.panic = "freewalk: leaf" /\ ~Blank(x)) \/ Freed(x, m, W)
    BY <1>5, <2>10, FreeTableOwns
  <2>12. Owns(m, W) /\ m.pg = NoTable
    BY <1>8, <2>11 DEF Freed
  <2>13. PICK lo : lo = lost
    OBVIOUS
  <2>14. PICK nn : nn = None
    OBVIOUS
  <2>15. Shared(t, W, lo, nn)
    <3>1. U \subseteq Frames /\ None \notin Frames
      BY <2>3, NoneIsNoFrame DEF Owns
    <3> QED BY <1>1, <2>4, <2>5, <2>6, <2>7, <2>13, <2>14, <3>1 DEF Shared
  <2>16. lost' = lo /\ trapframe' = [trapframe EXCEPT ![t] = nn]
    BY <1>8, <2>13, <2>14
  <2>17. free' = m.free /\ pagetable' = [pagetable EXCEPT ![t] = m.pg]
    BY <1>8 DEF Became
  <2>18. FrameTypes' /\ FrameInv'
    BY <2>12, <2>15, <2>16, <2>17, FramesMoved DEF MemoryInv
  <2>19. LifeInv'
    BY <1>8, <2>12, <2>17 DEF MemoryInv, LifeInv, FrameTypes, TaskTypes
  <2>20. AreaTypes'
    BY <1>8 DEF MemoryInv, AreaTypes
  <2>21. AreaInv'
    <3>1. \A u \in Tasks : state'[u] # "RUN" => state[u] # "RUN"
      BY <1>6, <1>8 DEF MemoryInv, TaskTypes
    <3> QED BY <1>8, <3>1 DEF MemoryInv, AreaInv, Fits, OtherSlots, IpSlots
  <2>22. TaskTypes'
    BY <1>8, TopIs DEF MemoryInv, TaskTypes
  <2> QED BY <2>18, <2>19, <2>20, <2>21, <2>22 DEF MemoryInv
<1> QED BY <1>6, <1>7, <1>8

(* The areas of a program in place of those that t had. *)
LEMMA LoadedStep ==
    ASSUME MemoryInv, NEW t \in Tasks, state[t] = "RUN", UNCHANGED state,
           NEW segs, NEW n \in Nat, n <= NOMMAPFILE,
           n <= Cardinality(FreeSlots) + Cardinality(Mine(t)),
           \A k \in 1 .. n : /\ segs[k] \in [vaddr : Nat, filesz : Nat, memsz : Nat]
                             /\ segs[k].vaddr + segs[k].filesz <= LowPages * PGSIZE,
           Loaded(t, segs, n)
    PROVE  AreaTypes' /\ AreaInv'
<1>1. AreaTypes /\ AreaInv
  BY DEF MemoryInv
<1>2. PICK own : own = {vma[t][i] : i \in Mine(t)}
  OBVIOUS
<1>3. PICK S : S = FreeSlots \cup own
  OBVIOUS
<1>4. PICK slots : slots = Lowest(S, n)
  OBVIOUS
<1>5. S \in SUBSET Slots /\ IsFiniteSet(S) /\ n <= Cardinality(S)
  <2>1. own \subseteq Slots /\ IsFiniteSet(FreeSlots \cup own)
        /\ Cardinality(FreeSlots \cup own) = Cardinality(FreeSlots) + Cardinality(Mine(t))
    BY <1>1, <1>2, SlotsLeft
  <2> QED BY <1>3, <2>1 DEF FreeSlots
<1>6. S \in SUBSET Nat
  BY <1>5, MemorySizes DEF Slots
<1>7. Picks(slots, n, S)
  BY <1>4, <1>5, <1>6, LowestPicks
<1>8. \A i \in 1 .. n : slots[i] \in S /\ slots[i] \in Slots /\ slots[i] # None
  BY <1>5, <1>7, NoneIsNoSlot DEF Picks
<1>9. \A i, j \in 1 .. n : slots[i] = slots[j] => i = j
  BY <1>7 DEF Picks
<1>10. PICK b : b = FreedAreas(t, Mine(t))
  OBVIOUS
<1>11. PICK w : w = [i \in Indices |-> None]
  OBVIOUS
<1>12. /\ Fits(t, w, b) /\ WithIp(t, Mine(t)) = Cardinality(OwnIp(vma[t], area))
       /\ \A s \in S : b[s] = None
  BY <1>1, <1>2, <1>3, <1>10, <1>11, AllFreed
<1>13. PICK v : v = [i \in Indices |-> IF i <= n THEN slots[i] ELSE None]
  OBVIOUS
<1>14. PICK a : a = [s \in Slots |->
            IF \E k \in 1 .. n : slots[k] = s THEN LazyLoadSeg(segs[CHOOSE k \in 1 .. n : slots[k] = s])
            ELSE b[s]]
  OBVIOUS
<1>15. vma' = [vma EXCEPT ![t] = v] /\ area' = a /\ iref' = iref - WithIp(t, Mine(t)) + n
  BY <1>2, <1>3, <1>4, <1>10, <1>13, <1>14 DEF Loaded
<1>16. 1 .. n \subseteq Indices
  BY MemorySizes DEF Indices
<1>17. \A i \in Indices : v[i] = IF i \in 1 .. n THEN slots[i] ELSE None
  BY <1>13, MemorySizes DEF Indices
<1>18. \A s \in Slots : (\A k \in 1 .. n : slots[k] # s) => a[s] = b[s]
  BY <1>14
<1>19. ASSUME NEW k \in 1 .. n
       PROVE  a[slots[k]] \in Areas /\ a[slots[k]].addr % PGSIZE = 0 /\ a[slots[k]].ip
  <2>1. PICK s \in Slots : s = slots[k]
    BY <1>8
  <2>2. PICK j : j = CHOOSE q \in 1 .. n : slots[q] = s
    OBVIOUS
  <2>3. j \in 1 .. n /\ slots[j] = s
    BY <2>1, <2>2
  <2>4. a[s] = LazyLoadSeg(segs[j])
    BY <1>14, <2>1, <2>2
  <2>5. PICK ph : ph = segs[j]
    OBVIOUS
  <2>6. ph \in [vaddr : Nat, filesz : Nat, memsz : Nat] /\ ph.vaddr + ph.filesz <= LowPages * PGSIZE
    BY <2>3, <2>5
  <2>7. PICK x : x = LazyLoadSeg(ph)
    OBVIOUS
  <2>8. x \in Areas /\ x.addr % PGSIZE = 0 /\ x.ip
    BY <2>6, <2>7, SegmentArea
  <2> QED BY <2>1, <2>4, <2>5, <2>7, <2>8
<1>20. \A s \in Slots : a[s] \in Areas \cup {None}
  <2> SUFFICES ASSUME NEW s \in Slots PROVE a[s] \in Areas \cup {None}
    OBVIOUS
  <2>1. CASE \E k \in 1 .. n : slots[k] = s
    BY <1>19, <2>1
  <2>2. CASE \A k \in 1 .. n : slots[k] # s
    BY <1>12, <1>18, <2>2 DEF Fits
  <2> QED BY <2>1, <2>2
<1>21. v \in [Indices -> Slots \cup {None}] /\ a \in [Slots -> Areas \cup {None}]
  <2>1. \A i \in Indices : v[i] \in Slots \cup {None}
    BY <1>8, <1>17
  <2>2. v = [i \in Indices |-> v[i]] /\ a = [s \in Slots |-> a[s]]
    BY <1>13, <1>14
  <2> QED BY <1>20, <2>1, <2>2
<1>22. \A i \in Indices : w[i] = None
  BY <1>11
<1>23. Adds(w, b, v, a)
  <2>1. ASSUME NEW i \in Indices, v[i] # None
        PROVE  b[v[i]] = None /\ a[v[i]] # None /\ a[v[i]].addr % PGSIZE = 0
    <3>1. i \in 1 .. n /\ v[i] = slots[i]
      BY <1>17, <2>1
    <3> QED BY <1>8, <1>12, <1>19, <3>1, NoneAssumption
  <2>2. \A i, j \in Indices : v[i] # None /\ v[i] = v[j] => i = j
    BY <1>9, <1>17
  <2>3. ASSUME NEW s \in Slots, \A i \in Indices : v[i] # s PROVE a[s] = b[s]
    <3>1. \A k \in 1 .. n : slots[k] # s
      BY <1>16, <1>17, <2>3
    <3> QED BY <1>18, <3>1
  <2> QED BY <1>21, <1>22, <2>1, <2>2, <2>3 DEF Adds
<1>24. Fits(t, v, a)
  BY <1>12, <1>23, AddedFits
<1>25. OwnIp(v, a) = 1 .. n
  <2>1. ASSUME NEW i \in Indices PROVE v[i] # None /\ a[v[i]].ip <=> i \in 1 .. n
    <3>1. CASE i \in 1 .. n
      BY <1>8, <1>17, <1>19, <3>1
    <3>2. CASE i \notin 1 .. n
      BY <1>17, <3>2
    <3> QED BY <3>1, <3>2
  <2> QED BY <1>16, <2>1 DEF OwnIp
<1>26. Cardinality(OwnIp(v, a)) = n
  BY <1>25, FS_Interval
<1>27. iref' = iref - Cardinality(OwnIp(vma[t], area)) + Cardinality(OwnIp(v, a))
  BY <1>12, <1>15, <1>26
<1>28. StillRuns(t, v)
  BY DEF StillRuns
<1> QED BY <1>1, <1>15, <1>24, <1>27, <1>28, AreasGiven

(* The arguments' frames aside, a view has the frames that t had. *)
LEMMA FewerFree ==
    ASSUME MemoryInv, NEW t \in Tasks, NEW fr \in SUBSET free, NEW x, x = View(fr, pagetable[t]),
           NEW W, W = Reach(t) \ (free \ fr)
    PROVE  Owns(x, W) /\ x.pg = pagetable[t] /\ x.free = fr
<1>1. PICK y : y = View(free, pagetable[t])
  OBVIOUS
<1>2. PICK U : U = Reach(t)
  OBVIOUS
<1>3. Owns(y, U) /\ y.free = free /\ y.pg = pagetable[t] /\ free \subseteq U /\ U \subseteq Frames
  <2>1. Owns(y, U) /\ y.free = free /\ y.pg = pagetable[t]
    BY <1>1, <1>2, Begin DEF MemoryInv
  <2> QED BY <1>2, <2>1 DEF Reach, MemoryInv, FrameTypes
<1>4. PICK L : L = free \ fr
  OBVIOUS
<1>5. Joins(W, L, U) /\ L \subseteq y.free /\ fr = y.free \ L
  BY <1>2, <1>3, <1>4 DEF Joins
<1>6. PICK q : q = WithFree(y, fr)
  OBVIOUS
<1>7. /\ Owns(q, W) /\ q.pg = y.pg /\ q.ok = y.ok /\ q.panic = y.panic
  BY <1>3, <1>5, <1>6, FreeLess
<1>8. q = x
  <2>1. PICK pg : pg = pagetable[t]
    OBVIOUS
  <2>2. y = [free |-> free, pg |-> pg, ok |-> TRUE, panic |-> "no"]
    BY <1>1, <2>1 DEF View
  <2>3. x = [free |-> fr, pg |-> pg, ok |-> TRUE, panic |-> "no"]
    BY <2>1 DEF View
  <2>4. y \in Views /\ fr \in SUBSET Frames
    BY <1>3 DEF Owns
  <2>5. /\ q \in Views /\ q.free = fr /\ q.pg = y.pg
        /\ q.ok = y.ok /\ q.panic = y.panic
    BY <1>6, <2>4, FreeChanged
  <2>6. q = [free |-> q.free, pg |-> q.pg, ok |-> q.ok, panic |-> q.panic]
    BY <2>5, ViewFields
  <2>7. y.pg = pg /\ y.ok = TRUE /\ y.panic = "no"
    BY <2>2
  <2> QED BY <2>3, <2>5, <2>6, <2>7
<1>9. x.pg = pagetable[t] /\ x.free = fr
  BY DEF View
<1> QED BY <1>7, <1>8, <1>9

LEMMA ExecStep ==
    ASSUME MemoryInv, NEW t \in Tasks, NEW img \in Images, NEW args, exec(t, img, args)
    PROVE  MemoryInv'
<1>1. PICK held : held = {f \in free : Cardinality({g \in free : g < f}) < args}
  OBVIOUS
<1>2. PICK fr : fr = free \ held
  OBVIOUS
<1>3. PICK pt : pt = taskPagetable(fr)
  OBVIOUS
<1>4. PICK segs : segs = img.segs
  OBVIOUS
<1>5. PICK n : n = Max({k \in 0 .. Len(segs) : \A j \in 1 .. k : segs[j].memsz >= segs[j].filesz})
  OBVIOUS
<1>6. PICK size : size = IF n = 0 THEN 0 ELSE segs[n].vaddr + segs[n].memsz
  OBVIOUS
<1>7. PICK R : R = PGROUNDUP(size)
  OBVIOUS
<1>8. PICK stack : stack = userAlloc(pt, R, R + PGSIZE)
  OBVIOUS
<1>9. PICK fail : fail = IF n < Len(segs) THEN pt ELSE stack
  OBVIOUS
<1>10. PICK left : left = FreeTaskPagetable(fail, size)
  OBVIOUS
<1>11. PICK old : old = View(stack.free, pagetable[t])
  OBVIOUS
<1>12. PICK z \in Nat : z = sz[t]
  BY TopIs DEF MemoryInv, TaskTypes
<1>13. PICK done : done = FreeTaskPagetable(old, z)
  OBVIOUS
<1>14. /\ state[t] = "RUN" /\ pt.ok /\ R + PGSIZE <= LowPages * PGSIZE
       /\ \/ /\ free' = pt.free \cup held
             /\ lost' = lost \cup (free \ (pt.free \cup held))
             /\ UNCHANGED <<state, trapframe, pagetable, sz, area, vma, iref, panicked>>
          \/ UNCHANGED vars
          \/ /\ area' = FreedAreas(t, Mine(t))
             /\ vma' = [vma EXCEPT ![t] = [i \in Indices |-> None]]
             /\ iref' = iref - WithIp(t, Mine(t))
             /\ UNCHANGED <<free, state, trapframe, pagetable, sz, lost, panicked>>
          \/ /\ n > NOMMAPFILE \/ n > Cardinality(FreeSlots) + Cardinality(Mine(t))
             /\ Panic("not enough vma")
          \/ /\ ~(n > NOMMAPFILE) /\ ~(n > Cardinality(FreeSlots) + Cardinality(Mine(t)))
             /\ n < Len(segs) \/ ~stack.ok
             /\ Loaded(t, segs, n)
             /\ free' = left.free \cup held
             /\ UNCHANGED <<state, trapframe, pagetable, sz, lost, panicked>>
          \/ Panic(done.panic)
          \/ /\ ~(n > NOMMAPFILE) /\ ~(n > Cardinality(FreeSlots) + Cardinality(Mine(t)))
             /\ done.panic = "no"
             /\ Loaded(t, segs, n)
             /\ free' = done.free \cup held
             /\ pagetable' = [pagetable EXCEPT ![t] = stack.pg]
             /\ sz' = [sz EXCEPT ![t] = R + PGSIZE]
             /\ UNCHANGED <<state, trapframe, lost, panicked>>
  BY ZenonT(100), <1>1, <1>2, <1>3, <1>4, <1>5, <1>6, <1>7, <1>8, <1>9, <1>10, <1>11, <1>12, <1>13 DEF exec, Running
<1>15. segs \in Seq([vaddr : Nat, filesz : Nat, memsz : Nat])
       /\ \A k \in DOMAIN segs : segs[k].vaddr + segs[k].filesz <= LowPages * PGSIZE
  BY <1>4, ImagesAssumption
<1>16. /\ n \in Nat /\ n <= Len(segs)
       /\ \A k \in 1 .. n : /\ segs[k] \in [vaddr : Nat, filesz : Nat, memsz : Nat]
                             /\ segs[k].vaddr + segs[k].filesz <= LowPages * PGSIZE
  <2>1. PICK N \in Nat : N = Len(segs)
    BY <1>15
  <2>2. PICK good : good = {k \in 0 .. N : \A j \in 1 .. k : segs[j].memsz >= segs[j].filesz}
    OBVIOUS
  <2>3. 0 \in good /\ good \subseteq 0 .. N
    BY <2>2
  <2>4. n \in good
    BY <1>5, <2>1, <2>2, <2>3, MaxIn
  <2>5. n \in 0 .. N
    BY <2>3, <2>4
  <2>6. \A k \in 1 .. n : k \in DOMAIN segs
    BY <1>15, <2>1, <2>5
  <2>7. \A k \in DOMAIN segs : segs[k] \in [vaddr : Nat, filesz : Nat, memsz : Nat]
    <3>1. PICK T : T = [vaddr : Nat, filesz : Nat, memsz : Nat]
      OBVIOUS
    <3>2. segs \in Seq(T)
      BY <1>15, <3>1
    <3>3. \A k \in DOMAIN segs : segs[k] \in T
      BY <3>2
    <3> QED BY <3>1, <3>3
  <2>8. n \in Nat /\ n <= Len(segs)
    BY <2>1, <2>5
  <2> QED BY <1>15, <2>6, <2>7, <2>8
<1>17. size \in Nat
  <2>1. CASE n = 0
    BY <1>6, <2>1
  <2>2. CASE n # 0
    <3>1. n \in 1 .. n
      BY <1>16, <2>2
    <3> QED BY <1>6, <1>16, <2>2, <3>1
  <2> QED BY <2>1, <2>2
<1>18. R \in Nat /\ R + PGSIZE \in Nat
  <2>1. R \in Nat
    BY <1>7, <1>17, Rounded
  <2> QED BY <2>1, MemorySizes
<1>19. held \subseteq free /\ fr \in SUBSET free /\ fr \in SUBSET Frames /\ free \subseteq Frames
  BY <1>1, <1>2 DEF MemoryInv, FrameTypes
<1>20. Owns(pt, fr) /\ pt.panic = "no" /\ Blank(pt)
  BY <1>3, <1>19, TaskPagetableOwns
<1>21. Owns(stack, fr) /\ stack.panic = "no" /\ (~stack.ok => Blank(stack))
  <2>1. PICK new \in Nat : new = R + PGSIZE
    BY <1>18
  <2>2. (stack.panic # "no" /\ ~Blank(pt)) \/ Grown(pt, stack, fr)
    BY <1>8, <1>14, <1>18, <1>20, <2>1, UserAllocOwns
  <2> QED BY <1>20, <2>2 DEF Grown
<1>22. pt.free \subseteq fr /\ stack.free \subseteq fr
  BY <1>20, <1>21, ViewFields DEF Owns, Has
<1>23. PICK U : U = Reach(t)
  OBVIOUS
<1>24. U \subseteq Frames /\ free \subseteq U
  BY <1>19, <1>23 DEF Reach
<1>25. PICK tf : tf = trapframe[t]
  OBVIOUS
<1>26. CASE /\ free' = pt.free \cup held
            /\ lost' = lost \cup (free \ (pt.free \cup held))
            /\ UNCHANGED <<state, trapframe, pagetable, sz, area, vma, iref, panicked>>
  <2>1. PICK g : g = pt.free \cup held
    OBVIOUS
  <2>2. g \in SUBSET free
    BY <1>19, <1>22, <2>1
  <2>3. PICK x : x = View(g, pagetable[t])
    OBVIOUS
  <2>4. PICK W : W = U \ (free \ g)
    OBVIOUS
  <2>5. Owns(x, W) /\ x.pg = pagetable[t] /\ x.free = g
    BY <1>23, <2>2, <2>3, <2>4, FewerFree
  <2>6. PICK lo : lo = lost \cup (free \ g)
    OBVIOUS
  <2>7. Shared(t, W, lo, tf)
    <3>1. Shared(t, U, lost, tf)
      BY <1>23, <1>25, Apart3 DEF MemoryInv
    <3> QED BY <1>24, <2>4, <2>6, <3>1 DEF Shared
  <2>8. /\ free' = x.free /\ lost' = lo
        /\ pagetable' = [pagetable EXCEPT ![t] = x.pg] /\ trapframe' = [trapframe EXCEPT ![t] = tf]
    BY <1>25, <1>26, <2>1, <2>5, <2>6 DEF MemoryInv, FrameTypes
  <2>9. FrameTypes' /\ FrameInv'
    BY <2>5, <2>7, <2>8, FramesMoved DEF MemoryInv
  <2>10. AreaTypes' /\ AreaInv'
    BY <1>26, AreasSame DEF MemoryInv
  <2> QED BY <1>26, <2>9, <2>10 DEF MemoryInv, TaskTypes, LifeInv
<1>27. CASE UNCHANGED vars
  BY <1>27, AllSame DEF vars
<1>28. CASE /\ area' = FreedAreas(t, Mine(t))
            /\ vma' = [vma EXCEPT ![t] = [i \in Indices |-> None]]
            /\ iref' = iref - WithIp(t, Mine(t))
            /\ UNCHANGED <<free, state, trapframe, pagetable, sz, lost, panicked>>
  <2>1. AreaTypes /\ AreaInv
    BY DEF MemoryInv
  <2>2. PICK a : a = FreedAreas(t, Mine(t))
    OBVIOUS
  <2>3. PICK v : v = [i \in Indices |-> None]
    OBVIOUS
  <2>4. /\ Fits(t, v, a) /\ Cardinality(OwnIp(v, a)) = 0
        /\ WithIp(t, Mine(t)) = Cardinality(OwnIp(vma[t], area))
    BY <2>1, <2>2, <2>3, AllFreed
  <2>5. iref' = iref - Cardinality(OwnIp(vma[t], area)) + Cardinality(OwnIp(v, a))
    <3>1. PICK w : w = vma[t]
      OBVIOUS
    <3>2. Fits(t, w, area)
      BY <2>1, <3>1 DEF AreaInv
    <3>3. IsFiniteSet(OwnIp(w, area))
      BY <3>2, IpCount
    <3>4. Cardinality(OwnIp(w, area)) \in Nat
      BY <3>3, FS_CardinalityType
    <3> QED BY <1>28, <2>1, <2>4, <3>1, <3>4 DEF AreaTypes
  <2>6. StillRuns(t, v)
    BY <1>14, <1>28 DEF StillRuns
  <2>7. AreaTypes' /\ AreaInv'
    BY <1>28, <2>1, <2>2, <2>3, <2>4, <2>5, <2>6, AreasGiven
  <2>8. FrameTypes' /\ FrameInv'
    BY <1>28, FramesSame DEF MemoryInv
  <2> QED BY <1>28, <2>7, <2>8 DEF MemoryInv, TaskTypes, LifeInv
<1>29. CASE Panic("not enough vma") \/ Panic(done.panic)
  BY <1>29, AllSame DEF Panic
<1>30. ASSUME ~(n > NOMMAPFILE), ~(n > Cardinality(FreeSlots) + Cardinality(Mine(t))),
              Loaded(t, segs, n), UNCHANGED state
       PROVE  AreaTypes' /\ AreaInv'
  <2>1. n <= NOMMAPFILE
    BY <1>16, <1>30, MemorySizes
  <2>2. Cardinality(FreeSlots) \in Nat /\ Cardinality(Mine(t)) \in Nat
    <3>1. FreeSlots \in SUBSET Slots /\ Mine(t) \in SUBSET Indices
      BY DEF FreeSlots, Mine
    <3>2. IsFiniteSet(FreeSlots) /\ IsFiniteSet(Mine(t))
      BY <3>1, FewEntries, FS_Subset
    <3> QED BY <3>2, FS_CardinalityType
  <2>3. n <= Cardinality(FreeSlots) + Cardinality(Mine(t))
    BY <1>16, <1>30, <2>2
  <2> QED BY <1>14, <1>16, <1>30, <2>1, <2>3, LoadedStep
<1>31. CASE /\ ~(n > NOMMAPFILE) /\ ~(n > Cardinality(FreeSlots) + Cardinality(Mine(t)))
            /\ n < Len(segs) \/ ~stack.ok
            /\ Loaded(t, segs, n)
            /\ free' = left.free \cup held
            /\ UNCHANGED <<state, trapframe, pagetable, sz, lost, panicked>>
  <2>1. Owns(fail, fr) /\ Blank(fail)
    BY <1>9, <1>20, <1>21, <1>31
  <2>2. (left.panic = "freewalk: leaf" /\ ~Blank(fail)) \/ Freed(fail, left, fr)
    BY <1>10, <1>17, <2>1, FreeTableOwns
  <2>3. left.free = fr
    BY <2>1, <2>2 DEF Freed
  <2>4. free' = free
    BY <1>2, <1>19, <1>31, <2>3
  <2>5. FrameTypes' /\ FrameInv'
    BY <1>31, <2>4, FramesSame DEF MemoryInv
  <2>6. AreaTypes' /\ AreaInv'
    BY <1>30, <1>31
  <2> QED BY <1>31, <2>5, <2>6 DEF MemoryInv, TaskTypes, LifeInv
<1>32. CASE /\ ~(n > NOMMAPFILE) /\ ~(n > Cardinality(FreeSlots) + Cardinality(Mine(t)))
            /\ done.panic = "no"
            /\ Loaded(t, segs, n)
            /\ free' = done.free \cup held
            /\ pagetable' = [pagetable EXCEPT ![t] = stack.pg]
            /\ sz' = [sz EXCEPT ![t] = R + PGSIZE]
            /\ UNCHANGED <<state, trapframe, lost, panicked>>
  <2>1. PICK g : g = stack.free
    OBVIOUS
  <2>2. g \in SUBSET free
    BY <1>19, <1>22, <2>1
  <2>3. PICK V : V = U \ (free \ g)
    OBVIOUS
  <2>4. Owns(old, V)
    BY <1>11, <1>23, <2>1, <2>2, <2>3, FewerFree
  <2>5. (done.panic = "freewalk: leaf" /\ ~Blank(old)) \/ Freed(old, done, V)
    BY <1>13, <2>4, FreeTableOwns
  <2>6. done.free = V
    BY <1>32, <2>5 DEF Freed
  <2>7. PICK L : L = U \ fr
    OBVIOUS
  <2>8. Joins(fr, L, U)
    BY <1>19, <1>24, <2>7 DEF Joins
  <2>9. PICK h : h = stack.free \cup L
    OBVIOUS
  <2>10. h = done.free \cup held
    BY <1>2, <1>19, <1>22, <1>24, <2>1, <2>3, <2>6, <2>7, <2>9
  <2>11. PICK y : y = WithFree(stack, h)
    OBVIOUS
  <2>12. Owns(y, U) /\ y.pg = stack.pg
    BY <1>21, <2>8, <2>9, <2>11, FreeMore
  <2>13. y.free = h
    <3>1. stack \in Views /\ h \in SUBSET Frames
      BY <1>19, <1>21, <1>22, <1>24, <2>7, <2>9 DEF Owns
    <3> QED BY <2>11, <3>1, FreeChanged
  <2>14. free' = y.free /\ pagetable' = [pagetable EXCEPT ![t] = y.pg]
    BY <1>32, <2>10, <2>12, <2>13
  <2>15. FrameTypes' /\ FrameInv' /\ LifeInv'
    BY <1>14, <1>23, <1>32, <2>12, <2>14, WithinKept
  <2>16. AreaTypes' /\ AreaInv'
    BY <1>30, <1>32
  <2>17. TaskTypes'
    <3>1. PICK b \in Nat : b = LowPages * PGSIZE
      BY TopIs
    <3>2. PICK q \in Nat : q = R + PGSIZE
      BY <1>18
    <3>3. q \in 0 .. b
      <4>1. R + PGSIZE <= LowPages * PGSIZE
        BY <1>14
      <4>2. q <= b
        BY <3>1, <3>2, <4>1
      <4> QED BY <4>2
    <3> QED BY <1>32, <3>1, <3>2, <3>3, SizeChanged DEF MemoryInv
  <2> QED BY <2>15, <2>16, <2>17 DEF MemoryInv
<1> QED BY <1>14, <1>26, <1>27, <1>28, <1>29, <1>31, <1>32

(* The child's areas are copies of the parent's, in free slots. *)
LEMMA ForkStep ==
    ASSUME MemoryInv, NEW t \in Tasks, NEW c \in Tasks \ {t}, NEW cloning, fork(t, c, cloning)
    PROVE  MemoryInv'
<1> DEFINE new == Lowest(FreeSlots, Cardinality(Mine(t)))
           Nth(i) == new[Cardinality({j \in Mine(t) : j <= i})]
<1>1. PICK tf : tf = Min(free)
  OBVIOUS
<1>2. PICK fr : fr = free \ {tf}
  OBVIOUS
<1>3. PICK pt : pt = taskPagetable(fr)
  OBVIOUS
<1>4. PICK ps : ps = IF cloning THEN Span(0, sz[t]) ELSE Copied(t)
  OBVIOUS
<1>5. PICK from : from = pagetable[t]
  OBVIOUS
<1>6. PICK m : m = CopyPages(pt, from, ps)
  OBVIOUS
<1>7. PICK v : v = [i \in Indices |-> IF i \in Mine(t) THEN Nth(i) ELSE None]
  OBVIOUS
<1>8. PICK a : a = [s \in Slots |-> IF \E i \in Mine(t) : Nth(i) = s
                                    THEN Of(t, CHOOSE i \in Mine(t) : Nth(i) = s) ELSE area[s]]
  OBVIOUS
<1>9. /\ state[c] = "UNUSED" /\ free # {}
      /\ \/ \E text : Panic(text)
         \/ /\ m.panic = "no" /\ ~(Cardinality(Mine(t)) > Cardinality(FreeSlots))
            /\ Became(c, m)
            /\ trapframe' = [trapframe EXCEPT ![c] = tf]
            /\ sz' = [sz EXCEPT ![c] = sz[t]]
            /\ vma' = [vma EXCEPT ![c] = v]
            /\ area' = a
            /\ iref' = iref + WithIp(t, Mine(t))
            /\ state' = [state EXCEPT ![c] = "RUN"]
            /\ UNCHANGED lost
  BY <1>1, <1>2, <1>3, <1>4, <1>5, <1>6, <1>7, <1>8 DEF fork
<1>10. CASE \E text : Panic(text)
  BY <1>10, AllSame DEF Panic
<1>11. CASE /\ m.panic = "no" /\ ~(Cardinality(Mine(t)) > Cardinality(FreeSlots))
            /\ Became(c, m)
            /\ trapframe' = [trapframe EXCEPT ![c] = tf]
            /\ sz' = [sz EXCEPT ![c] = sz[t]]
            /\ vma' = [vma EXCEPT ![c] = v]
            /\ area' = a
            /\ iref' = iref + WithIp(t, Mine(t))
            /\ state' = [state EXCEPT ![c] = "RUN"]
            /\ UNCHANGED lost
  <2>1. tf \in free /\ fr \in SUBSET Frames /\ free \subseteq Frames
    <3>1. free \in SUBSET Nat
      BY MemoryAssumption DEF MemoryInv, FrameTypes
    <3>2. tf \in free
      BY <1>1, <1>9, <3>1, MinIn
    <3> QED BY <1>2, <3>2 DEF MemoryInv, FrameTypes
  <2>2. Owns(pt, fr)
    BY <1>3, <2>1, TaskPagetableOwns
  <2>3. Owns(m, fr)
    <3>1. m.panic # "no" \/ Owns(m, fr)
      BY <1>6, <2>2, CopyPagesOwns
    <3> QED BY <1>11, <3>1
  <2>4. PICK lo : lo = lost
    OBVIOUS
  <2>5. Shared(c, fr, lo, tf)
    <3>1. pagetable[c] = NoTable /\ trapframe[c] = None
      BY <1>9 DEF MemoryInv, LifeInv
    <3>2. Reach(c) = free
      BY <2>1, <3>1, NoneIsNoFrame DEF Reach, NoTable
    <3>3. Shared(c, free, lost, None)
      <4>1. Shared(c, Reach(c), lost, trapframe[c])
        BY Apart3 DEF MemoryInv
      <4> QED BY <3>1, <3>2, <4>1
    <3> QED BY <1>2, <2>1, <2>4, <3>1, <3>3, NoneIsNoFrame DEF Shared
  <2>6. lost' = lo /\ free' = m.free /\ pagetable' = [pagetable EXCEPT ![c] = m.pg]
    BY <1>11, <2>4 DEF Became
  <2>7. FrameTypes' /\ FrameInv'
    BY <1>11, <2>3, <2>5, <2>6, FramesMoved DEF MemoryInv
  <2>8. LifeInv'
    <3>1. \A u \in Tasks \ {c} :
              state'[u] = state[u] /\ pagetable'[u] = pagetable[u] /\ trapframe'[u] = trapframe[u]
      BY <1>11, <2>6 DEF MemoryInv, TaskTypes, FrameTypes
    <3>2. state'[c] # "UNUSED" /\ trapframe'[c] # None
      BY <1>11, <2>1, NoneIsNoFrame DEF MemoryInv, TaskTypes, FrameTypes
    <3> QED BY <3>1, <3>2, LifeKept DEF MemoryInv
  <2>9. TaskTypes'
    BY <1>11 DEF MemoryInv, TaskTypes
  <2>10. AreaTypes /\ AreaInv
    BY DEF MemoryInv
  <2>11. PICK M \in SUBSET Indices : M = Mine(t)
    BY DEF Mine
  <2>12. ASSUME NEW i \in M PROVE Nth(i) \in FreeSlots /\ \A j \in M : Nth(i) = Nth(j) => i = j
    <3>1. FreeSlots \in SUBSET Slots /\ FreeSlots \in SUBSET Nat
      BY MemorySizes DEF FreeSlots, Slots
    <3>2. IsFiniteSet(FreeSlots) /\ IsFiniteSet(M)
      BY <3>1, FewEntries, FS_Subset
    <3>3. PICK n \in Nat : n = Cardinality(M)
      BY <3>2, FS_CardinalityType
    <3>4. n <= Cardinality(FreeSlots)
      BY <1>11, <2>11, <3>2, <3>3, FS_CardinalityType
    <3>5. PICK l : l = Lowest(FreeSlots, n)
      OBVIOUS
    <3>6. Picks(l, n, FreeSlots)
      BY <3>1, <3>2, <3>4, <3>5, LowestPicks
    <3>7. \A k \in M : Nth(k) = l[Cardinality({j \in M : j <= k})]
      BY <2>11, <3>3, <3>5
    <3>8. PICK r : r = [k \in M |-> Cardinality({j \in M : j <= k})]
      OBVIOUS
    <3>9. \A k \in M : Nth(k) = l[r[k]]
      BY <3>7, <3>8
    <3>10. \A k, j \in M : r[k] \in 1 .. n /\ (r[k] = r[j] => k = j)
      BY <3>3, <3>8, Ranks
    <3> HIDE DEF Nth
    <3> QED BY <3>6, <3>9, <3>10 DEF Picks
  <2>13. \A i \in Indices : v[i] = IF i \in M THEN Nth(i) ELSE None
    BY <1>7, <2>11
  <2>14. \A s \in Slots : (\A i \in M : Nth(i) # s) => a[s] = area[s]
    <3> HIDE DEF Nth
    <3> QED BY <1>8, <2>11
  <2>15. ASSUME NEW i \in M PROVE a[Nth(i)] = Of(t, i)
    <3> HIDE DEF Nth
    <3>1. PICK s \in Slots : s = Nth(i)
      BY <2>12 DEF FreeSlots
    <3>2. PICK k : k = CHOOSE j \in Mine(t) : Nth(j) = s
      OBVIOUS
    <3>3. k \in M /\ Nth(k) = s
      BY <2>11, <3>1, <3>2
    <3>4. k = i
      BY <2>12, <3>1, <3>3
    <3>5. a[s] = Of(t, k)
      BY <1>8, <2>11, <3>1, <3>2
    <3> QED BY <3>1, <3>4, <3>5
  <2> HIDE DEF Nth
  <2>16. \A i \in M : Of(t, i) \in Areas /\ Of(t, i) # None /\ Of(t, i).addr % PGSIZE = 0
    BY <2>10, <2>11, AreasThere
  <2>17. \A i \in M : Nth(i) \in Slots /\ Nth(i) # None /\ area[Nth(i)] = None
    BY <2>12, NoneIsNoSlot DEF FreeSlots
  <2>18. v \in [Indices -> Slots \cup {None}] /\ a \in [Slots -> Areas \cup {None}]
    <3>1. \A i \in Indices : v[i] \in Slots \cup {None}
      BY <2>13, <2>17
    <3>2. ASSUME NEW s \in Slots PROVE a[s] \in Areas \cup {None}
      <4>1. CASE \E i \in M : Nth(i) = s
        BY <2>15, <2>16, <4>1
      <4>2. CASE \A i \in M : Nth(i) # s
        BY <2>10, <2>14, <4>2 DEF AreaTypes
      <4> QED BY <4>1, <4>2
    <3>3. v = [i \in Indices |-> v[i]] /\ a = [s \in Slots |-> a[s]]
      BY <1>7, <1>8
    <3> QED BY <3>1, <3>2, <3>3
  <2>19. PICK w : w = vma[c]
    OBVIOUS
  <2>20. Fits(c, w, area) /\ \A i \in Indices : w[i] = None
    BY <1>9, <2>10, <2>19 DEF AreaInv
  <2>21. Adds(w, area, v, a)
    <3>1. ASSUME NEW i \in Indices, v[i] # None
          PROVE  area[v[i]] = None /\ a[v[i]] # None /\ a[v[i]].addr % PGSIZE = 0
      BY <2>13, <2>15, <2>16, <2>17, <3>1
    <3>2. \A i, j \in Indices : v[i] # None /\ v[i] = v[j] => i = j
      BY <2>12, <2>13
    <3>3. ASSUME NEW s \in Slots, \A i \in Indices : v[i] # s PROVE a[s] = area[s]
      <4>1. \A i \in M : Nth(i) # s
        BY <2>13, <3>3
      <4> QED BY <2>14, <4>1
    <3> QED BY <2>18, <2>20, <3>1, <3>2, <3>3 DEF Adds
  <2>22. Fits(c, v, a)
    BY <2>20, <2>21, AddedFits
  <2>23. OwnIp(v, a) = {i \in Mine(t) : Of(t, i).ip} /\ OwnIp(w, area) = {}
    <3>1. ASSUME NEW i \in Indices PROVE v[i] # None /\ a[v[i]].ip <=> i \in M /\ Of(t, i).ip
      <4>1. CASE i \in M
        BY <2>13, <2>15, <2>17, <4>1
      <4>2. CASE i \notin M
        BY <2>13, <4>2
      <4> QED BY <4>1, <4>2
    <3> QED BY <2>11, <2>20, <3>1 DEF OwnIp
  <2>24. iref' = iref - Cardinality(OwnIp(vma[c], area)) + Cardinality(OwnIp(v, a))
    <3>1. Cardinality(OwnIp(w, area)) = 0
      BY <2>23, FS_EmptySet
    <3>2. Cardinality(OwnIp(v, a)) = WithIp(t, Mine(t))
      BY <2>23 DEF WithIp
    <3>3. IsFiniteSet(OwnIp(v, a))
      BY <2>22, IpCount
    <3>4. Cardinality(OwnIp(v, a)) \in Nat
      BY <3>3, FS_CardinalityType
    <3> QED BY <1>11, <2>10, <2>19, <3>1, <3>2, <3>4 DEF AreaTypes
  <2>25. StillRuns(c, v)
    BY <1>11 DEF StillRuns, MemoryInv, TaskTypes
  <2>26. AreaTypes' /\ AreaInv'
    BY <1>11, <2>10, <2>22, <2>24, <2>25, AreasGiven
  <2> QED BY <2>7, <2>8, <2>9, <2>26 DEF MemoryInv
<1> QED BY <1>9, <1>10, <1>11

LEMMA InitInv == Init => MemoryInv
<1> SUFFICES ASSUME Init PROVE MemoryInv
  OBVIOUS
<1>1. PICK tf : tf = Min(Frames)
  OBVIOUS
<1>2. PICK fr : fr = Frames \ {tf}
  OBVIOUS
<1>3. PICK pt : pt = taskPagetable(fr)
  OBVIOUS
<1>4. PICK two \in Nat : two = 2 * PGSIZE
  BY MemorySizes
<1>5. PICK m : m = userAlloc(pt, 0, two)
  OBVIOUS
<1>6. /\ free = m.free
      /\ state = [t \in Tasks |-> IF t = First THEN "RUN" ELSE "UNUSED"]
      /\ trapframe = [t \in Tasks |-> IF t = First THEN tf ELSE None]
      /\ pagetable = [t \in Tasks |-> IF t = First THEN m.pg ELSE NoTable]
      /\ sz = [t \in Tasks |-> IF t = First THEN two ELSE 0]
      /\ area = [s \in Slots |-> None]
      /\ vma = [t \in Tasks |-> [i \in Indices |-> None]]
      /\ iref = 0 /\ lost = {} /\ panicked = "no"
  BY <1>1, <1>2, <1>3, <1>4, <1>5 DEF Init
<1>7. tf \in Frames /\ fr \in SUBSET Frames
  <2>1. Frames \in SUBSET Nat /\ Frames # {}
    BY MemoryAssumption
  <2>2. tf \in Frames
    BY <1>1, <2>1, MinIn
  <2> QED BY <1>2, <2>2
<1>8. two <= LowPages * PGSIZE
  <2>1. PICK P \in Nat : P = PGSIZE
    BY MemorySizes
  <2>2. PICK L \in Nat : L = LowPages /\ L >= 2
    BY MemorySizes, MemoryAssumption
  <2>3. PICK k \in Nat : L = 2 + k
    <3>1. L - 2 \in Nat /\ L = 2 + (L - 2)
      BY <2>2
    <3> QED BY <3>1
  <2>4. (2 + k) * P = 2 * P + k * P /\ k * P \in Nat
    OBVIOUS
  <2>5. 2 * P <= L * P
    BY <2>3, <2>4
  <2> QED BY <1>4, <2>1, <2>2, <2>5
<1>9. Owns(pt, fr) /\ pt.panic = "no" /\ Blank(pt)
  BY <1>3, <1>7, TaskPagetableOwns
<1>10. Owns(m, fr)
  <2>1. PICK old \in Nat : old = 0
    OBVIOUS
  <2>2. (m.panic # "no" /\ ~Blank(pt)) \/ Grown(pt, m, fr)
    BY <1>5, <1>8, <1>9, <2>1, UserAllocOwns
  <2> QED BY <1>9, <2>2 DEF Grown
<1>11. m.free \in SUBSET Frames /\ m.pg \in [Entries -> Frames \cup {None}]
  BY <1>10, ViewFields DEF Owns
<1>12. NoTable \in [Entries -> Frames \cup {None}]
  BY DEF NoTable
<1>13. FrameTypes
  BY <1>6, <1>7, <1>11, <1>12 DEF FrameTypes
<1>14. TaskTypes
  BY <1>4, <1>6, <1>8, TopIs DEF TaskTypes
<1>15. First \in Tasks
  BY MemoryAssumption
<1>16. LifeInv
  BY <1>6, <1>7, NoneIsNoFrame DEF LifeInv
<1>17. FrameInv
  <2>1. \A f \in Frames : f \in m.free \/ HeldBy(tf, m.pg, f)
    BY <1>2, <1>10 DEF Owns, Has, HeldBy
  <2>2. \A f \in Frames : ~HeldBy(None, NoTable, f)
    BY NoneIsNoFrame DEF HeldBy, NoTable
  <2>3. /\ tf \notin m.free
        /\ \A e \in Entries : m.pg[e] # None =>
               /\ m.pg[e] # tf /\ m.pg[e] \notin m.free
               /\ \A d \in Entries : m.pg[d] = m.pg[e] => d = e
    BY <1>2, <1>7, <1>10, <1>11 DEF Owns, Has, Apart
  <2>4. ASSUME NEW t \in Tasks, t = First
        PROVE  Parts(free, pagetable[t], trapframe[t], lost, Rest(t))
    <3>1. Rest(t) = Frames
      BY <1>6, <2>2, <2>4 DEF Rest
    <3>2. pagetable[t] = m.pg /\ trapframe[t] = tf
      BY <1>6, <2>4
    <3>3. Parts(m.free, m.pg, tf, {}, Frames)
      BY <1>7, <1>11, <2>1, <2>3 DEF Parts
    <3> QED BY <1>6, <3>1, <3>2, <3>3
  <2>5. ASSUME NEW t \in Tasks, t # First
        PROVE  Parts(free, pagetable[t], trapframe[t], lost, Rest(t))
    <3>1. \A f \in Frames : f \in Rest(t) <=> ~HeldBy(tf, m.pg, f)
      BY <1>6, <1>15, <2>2, <2>5 DEF Rest
    <3>2. pagetable[t] = NoTable /\ trapframe[t] = None
      BY <1>6, <2>5
    <3>3. \A f \in Frames : f \in Rest(t) <=> f \in m.free
      BY <1>11, <2>1, <2>3, <3>1, NoneIsNoFrame DEF HeldBy
    <3>4. PICK S : S = Rest(t)
      OBVIOUS
    <3>5. Parts(m.free, NoTable, None, {}, S)
      BY <1>11, <1>12, <2>2, <3>3, <3>4, NoneIsNoFrame DEF Parts, NoTable
    <3> QED BY <1>6, <3>2, <3>4, <3>5
  <2> QED BY <2>4, <2>5 DEF FrameInv
<1>18. AreaTypes
  BY <1>6 DEF AreaTypes
<1>19. AreaInv
  <2>1. IpSlots(area) = {}
    BY <1>6 DEF IpSlots
  <2>2. Cardinality(IpSlots(area)) = 0
    BY <2>1, FS_EmptySet
  <2>3. \A t \in Tasks : \A i \in Indices : vma[t][i] = None
    BY <1>6
  <2>4. ASSUME NEW t \in Tasks PROVE Fits(t, vma[t], area)
    <3>1. OtherSlots(t) = {}
      BY <2>3, NoneIsNoSlot DEF OtherSlots
    <3> QED BY <1>6, <1>18, <2>3, <3>1, NoneIsNoSlot DEF Fits, AreaTypes
  <2> QED BY <1>6, <2>2, <2>3, <2>4 DEF AreaInv
<1> QED BY <1>13, <1>14, <1>16, <1>17, <1>18, <1>19 DEF MemoryInv

LEMMA NextInv == MemoryInv /\ [Next]_vars => MemoryInv'
<1> SUFFICES ASSUME MemoryInv, [Next]_vars PROVE MemoryInv'
  OBVIOUS
<1>1. CASE UNCHANGED vars
  BY <1>1, AllSame DEF vars
<1>2. ASSUME NEW t \in Tasks, NEW c \in Tasks \ {t}, NEW cloning \in BOOLEAN, fork(t, c, cloning)
      PROVE  MemoryInv'
  BY <1>2, ForkStep
<1>3. ASSUME NEW t \in Tasks, NEW img \in Images, NEW args \in 0 .. 1, exec(t, img, args)
      PROVE  MemoryInv'
  BY <1>3, ExecStep
<1>4. ASSUME NEW t \in Tasks, NEW n \in Grow, growtask(t, n) PROVE MemoryInv'
  BY <1>4, GrowStep, ImagesAssumption
<1>5. ASSUME NEW t \in Tasks, NEW a \in Map, sys_mmap(t, a.length, a.shared) PROVE MemoryInv'
  <2>1. PICK length \in Nat : length = a.length
    BY ImagesAssumption
  <2>2. PICK shared \in BOOLEAN : shared = a.shared
    BY ImagesAssumption
  <2> QED BY <1>5, <2>1, <2>2, MmapStep
<1>6. ASSUME NEW t \in Tasks, NEW p \in Pages, sys_munmap(t, p * PGSIZE) PROVE MemoryInv'
  BY <1>6, MunmapStep
<1>7. ASSUME NEW t \in Tasks, NEW p \in Pages, usertrap(t, p) PROVE MemoryInv'
  BY <1>7, TrapStep
<1>8. ASSUME NEW t \in Tasks, exit(t) PROVE MemoryInv'
  BY <1>8, ExitingStep DEF exit, Running
<1>9. ASSUME NEW t \in Tasks, freeTask(t) PROVE MemoryInv'
  BY <1>9, FreeTaskStep
<1> QED BY <1>1, <1>2, <1>3, <1>4, <1>5, <1>6, <1>7, <1>8, <1>9 DEF Next

(* In every reachable state each frame and each area has exactly one owner,
   whichever calls fork, exec, brk, mmap, munmap, the page fault, exit and
   wait make, and however far each of them came before it failed. *)
THEOREM MemoryInvHolds == Spec => []MemoryInv
  BY InitInv, NextInv, PTL DEF Spec

(* A frame is in the free list of MemAllocator, in one entry of one page table
   or in one trapframe, or it was lost by exec of a missing file or by a page
   fault without a table: userAlloc, userUnmap, userVmCopy, freewalk and the
   calls built of them free none twice, share none and drop no other. *)
THEOREM FramesAlwaysOwned == Spec => []FramesOwned
<1>1. MemoryInv => FramesOwned
  BY MemoryInvTypes, FramesAreOwned DEF MemoryInv
<1> QED BY <1>1, MemoryInvHolds, PTL

(* A used slot of vma_table_ is an area of one running task, under one index:
   fork, exec, mmap, munmap and exit hand out no slot twice and leave none
   behind, and the inode of the programs keeps as many references as areas. *)
THEOREM AreasAlwaysOwned == Spec => []AreasOwned
<1>1. MemoryInv => AreasOwned
  BY MemoryInvTypes, AreasAreOwned DEF MemoryInv
<1> QED BY <1>1, MemoryInvHolds, PTL

-----------------------------------------------------------------------------
(* The kernel heap.                                                         *)

\* The levels are powers of two: 2^n is the number of subsets of n things.
LEMMA PowerZero == 2 ^ 0 = 1
  OBVIOUS

LEMMA PowerNat ==
    ASSUME NEW n \in Nat
    PROVE  2 ^ n \in Nat
<1>1. IsFiniteSet(1 .. n) /\ Cardinality(1 .. n) = n
  <2>1. PICK k \in Int : k = 1
    OBVIOUS
  <2>2. IsFiniteSet(k .. n) /\ Cardinality(k .. n) = IF k > n THEN 0 ELSE n - k + 1
    BY FS_Interval
  <2> QED BY <2>1, <2>2
<1>2. IsFiniteSet(SUBSET (1 .. n)) /\ Cardinality(SUBSET (1 .. n)) = 2 ^ Cardinality(1 .. n)
  BY <1>1, FS_SUBSET
<1> QED BY <1>1, <1>2, FS_CardinalityType

LEMMA PowerStep ==
    ASSUME NEW n \in Nat
    PROVE  2 ^ (n + 1) = 2 ^ n + 2 ^ n
<1> DEFINE S == 1 .. n
           T == 1 .. n + 1
           P == SUBSET S
           Q == {A \cup {n + 1} : A \in P}
<1>1. IsFiniteSet(S) /\ Cardinality(S) = n /\ IsFiniteSet(T) /\ Cardinality(T) = n + 1
  <2>1. PICK k \in Int : k = 1
    OBVIOUS
  <2>2. IsFiniteSet(k .. n) /\ Cardinality(k .. n) = IF k > n THEN 0 ELSE n - k + 1
    BY FS_Interval
  <2>3. PICK m \in Int : m = n + 1
    OBVIOUS
  <2>4. IsFiniteSet(k .. m) /\ Cardinality(k .. m) = IF k > m THEN 0 ELSE m - k + 1
    BY FS_Interval
  <2> QED BY <2>1, <2>2, <2>3, <2>4
<1>2. /\ IsFiniteSet(P) /\ Cardinality(P) = 2 ^ n
      /\ IsFiniteSet(SUBSET T) /\ Cardinality(SUBSET T) = 2 ^ (n + 1)
  <2>1. IsFiniteSet(SUBSET S) /\ Cardinality(SUBSET S) = 2 ^ Cardinality(S)
    BY <1>1, FS_SUBSET
  <2>2. IsFiniteSet(SUBSET T) /\ Cardinality(SUBSET T) = 2 ^ Cardinality(T)
    BY <1>1, FS_SUBSET
  <2> QED BY <1>1, <2>1, <2>2
<1>3. SUBSET T = P \cup Q
  <2>1. ASSUME NEW A \in SUBSET T, n + 1 \in A PROVE A \in Q
    <3>1. A \ {n + 1} \in P /\ A = (A \ {n + 1}) \cup {n + 1}
      BY <2>1
    <3> QED BY <3>1
  <2>2. ASSUME NEW A \in SUBSET T, n + 1 \notin A PROVE A \in P
    <3>1. \A x \in T : x # n + 1 => x \in S
      OBVIOUS
    <3>2. A \subseteq S
      BY <2>2, <3>1
    <3> QED BY <3>2
  <2>3. S \subseteq T /\ n + 1 \in T
    OBVIOUS
  <2>4. P \subseteq SUBSET T
    BY <2>3
  <2>5. ASSUME NEW q \in Q PROVE q \in SUBSET T
    BY <2>3
  <2> HIDE DEF P, Q
  <2> QED BY <2>1, <2>2, <2>4, <2>5
<1>4. P \cap Q = {}
  BY n + 1 \notin S
<1>5. ExistsBijection(P, Q)
  <2> DEFINE f == [A \in P |-> A \cup {n + 1}]
  <2>1. f \in [P -> Q]
    OBVIOUS
  <2>2. ASSUME NEW A \in P, NEW B \in P, f[A] = f[B] PROVE A = B
    <3>1. A = (A \cup {n + 1}) \ {n + 1} /\ B = (B \cup {n + 1}) \ {n + 1}
      OBVIOUS
    <3> QED BY <2>2, <3>1
  <2>3. \A q \in Q : \E A \in P : f[A] = q
    OBVIOUS
  <2> HIDE DEF f
  <2>4. f \in Bijection(P, Q)
    BY <2>1, <2>2, <2>3 DEF Bijection, Injection, Surjection, IsInjective
  <2> QED BY <2>4 DEF ExistsBijection
<1>6. IsFiniteSet(Q) /\ Cardinality(Q) = Cardinality(P)
  BY <1>2, <1>5, FS_Bijection
<1>7. Cardinality(P \cup Q) = Cardinality(P) + Cardinality(Q) - Cardinality(P \cap Q)
  BY <1>2, <1>6, FS_Union
<1>8. Cardinality(P \cap Q) = 0
  BY <1>4, FS_EmptySet
<1>9. Cardinality(P) \in Nat
  BY <1>2, FS_CardinalityType
<1>10. Cardinality(SUBSET T) = Cardinality(P) + Cardinality(P)
  <2> PICK c \in Nat : c = Cardinality(P)
    BY <1>9
  <2>1. Cardinality(P \cup Q) = c + c
    <3> HIDE DEF P, Q
    <3> QED BY <1>6, <1>7, <1>8
  <2> QED BY <1>3, <2>1
<1> QED BY <1>2, <1>10

(* The size of a block of level l. *)
Size(l) == 2 ^ l

LEMMA SizeIs ==
    ASSUME NEW l \in Nat
    PROVE  /\ Size(l) \in Nat /\ Size(l) > 0
           /\ Size(l + 1) = Size(l) + Size(l)
           /\ Size(0) = 1
<1> DEFINE Bad == {n \in Nat : ~(Size(n) > 0)}
<1>1. \A n \in Nat : Size(n) \in Nat /\ Size(n + 1) = Size(n) + Size(n)
  BY PowerNat, PowerStep DEF Size
<1>2. Size(0) = 1
  BY PowerZero DEF Size
<1>3. ASSUME Bad # {} PROVE FALSE
  <2>1. PICK n \in Bad : \A k \in Bad : n <= k
    <3>1. Bad \in SUBSET Nat
      OBVIOUS
    <3> HIDE DEF Bad
    <3> QED BY <1>3, <3>1, FirstOf
  <2>2. n \in Nat /\ n # 0 /\ ~(Size(n) > 0)
    BY <1>2, <2>1
  <2>3. n - 1 \in Nat /\ n - 1 \notin Bad
    BY <2>1, <2>2
  <2>4. Size(n - 1) > 0
    BY <2>3
  <2>5. Size((n - 1) + 1) = Size(n - 1) + Size(n - 1) /\ Size(n - 1) \in Nat
    BY <1>1, <2>3
  <2>6. (n - 1) + 1 = n
    BY <2>2
  <2> QED BY <2>2, <2>4, <2>5, <2>6
<1> QED BY <1>1, <1>2, <1>3

\* Between two levels the sizes differ by an even factor.
LEMMA SizeSplit ==
    ASSUME NEW k \in Nat, NEW i \in Nat, k < i
    PROVE  \E m \in Nat \ {0} : Size(i) = (2 * m) * Size(k)
<1> DEFINE Bad == {n \in Nat : k < n /\ ~\E m \in Nat \ {0} : Size(n) = (2 * m) * Size(k)}
<1>1. ASSUME Bad # {} PROVE FALSE
  <2>1. PICK n \in Bad : \A j \in Bad : n <= j
    <3>1. Bad \in SUBSET Nat
      OBVIOUS
    <3> HIDE DEF Bad
    <3> QED BY <1>1, <3>1, FirstOf
  <2>2. n \in Nat /\ k < n /\ ~\E m \in Nat \ {0} : Size(n) = (2 * m) * Size(k)
    BY <2>1
  <2>3. n - 1 \in Nat /\ (n - 1) + 1 = n /\ n - 1 \notin Bad
    BY <2>1, <2>2
  <2>4. Size(n) = Size(n - 1) + Size(n - 1)
    BY <2>3, SizeIs
  <2>5. PICK s \in Nat : s = Size(k)
    BY SizeIs
  <2>6. CASE k = n - 1
    <3>1. Size(n) = (2 * 1) * Size(k)
      BY <2>4, <2>5, <2>6
    <3> QED BY <2>2, <3>1
  <2>7. CASE k # n - 1
    <3>1. k < n - 1
      BY <2>2, <2>7
    <3>2. PICK m \in Nat \ {0} : Size(n - 1) = (2 * m) * Size(k)
      BY <2>3, <3>1
    <3>3. PICK m2 \in Nat \ {0} : m2 = 2 * m
      OBVIOUS
    <3>4. Size(n) = (2 * m2) * Size(k)
      BY <2>4, <2>5, <3>2, <3>3
    <3> QED BY <2>2, <3>4
  <2> QED BY <2>6, <2>7
<1> QED BY <1>1

LEMMA SizeGrows ==
    ASSUME NEW k \in Nat, NEW i \in Nat, k < i
    PROVE  Size(k) + Size(k) <= Size(i)
<1>1. PICK m \in Nat \ {0} : Size(i) = (2 * m) * Size(k)
  BY SizeSplit
<1>2. PICK s \in Nat : s = Size(k)
  BY SizeIs
<1>3. PICK n \in Nat : n = m - 1
  OBVIOUS
<1>4. n * s \in Nat
  OBVIOUS
<1>5. (2 * m) * s = (s + s) + (n * s + n * s)
  BY <1>3
<1> QED BY <1>1, <1>2, <1>4, <1>5

\* Blocks of a level lie at multiples of its size.
Aligned(a, l) == \E c \in Nat : a = c * Size(l)

LEMMA AlignedNat ==
    ASSUME NEW l \in Nat, NEW a, Aligned(a, l)
    PROVE  a \in Nat
<1>1. PICK c \in Nat : a = c * Size(l)
  BY DEF Aligned
<1>2. PICK s \in Nat : s = Size(l)
  BY SizeIs
<1> QED BY <1>1, <1>2

LEMMA BuddyIs ==
    ASSUME NEW l \in Nat, NEW c \in Nat, NEW a, a = c * Size(l)
    PROVE  get_buddy(a, l) = IF c % 2 = 0 THEN a + Size(l) ELSE a - Size(l)
<1>1. PICK s \in Nat \ {0} : s = Size(l)
  BY SizeIs
<1>2. a \in Nat /\ s * c <= a /\ a < s * c + s
  BY <1>1
<1>3. a \div s = c
  BY <1>2, DivUnique
<1> QED BY <1>1, <1>3 DEF get_buddy, Size

\* A block and its buddy are the halves of a block of the next level.
LEMMA BuddyFacts ==
    ASSUME NEW l \in Nat, NEW a, Aligned(a, l)
    PROVE  /\ Aligned(get_buddy(a, l), l)
           /\ get_buddy(get_buddy(a, l), l) = a
           /\ \/ get_buddy(a, l) = a + Size(l) /\ Aligned(a, l + 1)
              \/ get_buddy(a, l) = a - Size(l) /\ Aligned(get_buddy(a, l), l + 1)
<1>1. PICK c \in Nat : a = c * Size(l)
  BY DEF Aligned
<1>2. PICK s \in Nat \ {0} : s = Size(l)
  BY SizeIs
<1>3. Size(l + 1) = s + s
  BY <1>2, SizeIs
<1>4. CASE c % 2 = 0
  <2>1. PICK d \in Nat : c = d + d
    <3>1. PICK q \in Int : q = c \div 2
      OBVIOUS
    <3>2. c = q + q /\ q \in Nat
      BY <1>4, <3>1
    <3> QED BY <3>2
  <2>2. PICK e \in Nat : e = c + 1
    OBVIOUS
  <2>3. e % 2 = 1
    BY <1>4, <2>2
  <2>4. get_buddy(a, l) = a + s
    BY <1>1, <1>2, <1>4, BuddyIs
  <2>5. a + s = e * s /\ (a + s) - s = a
    BY <1>1, <1>2, <2>2
  <2>6. get_buddy(a + s, l) = (a + s) - s
    BY <1>2, <2>3, <2>5, BuddyIs
  <2>7. a = d * (s + s)
    BY <1>1, <1>2, <2>1
  <2> QED BY <1>2, <1>3, <2>4, <2>5, <2>6, <2>7 DEF Aligned
<1>5. CASE c % 2 # 0
  <2>1. PICK d \in Nat : c = d + d + 1
    <3>1. PICK q \in Int : q = c \div 2
      OBVIOUS
    <3>2. c = q + q + 1 /\ q \in Nat
      BY <1>5, <3>1
    <3> QED BY <3>2
  <2>2. PICK e \in Nat : e = d + d
    OBVIOUS
  <2>3. e % 2 = 0
    BY <2>2
  <2>4. get_buddy(a, l) = a - s
    BY <1>1, <1>2, <1>5, BuddyIs
  <2>5. a - s = e * s /\ (a - s) + s = a
    BY <1>1, <1>2, <2>1, <2>2
  <2>6. get_buddy(a - s, l) = (a - s) + s
    BY <1>2, <2>3, <2>5, BuddyIs
  <2>7. a - s = d * (s + s)
    BY <1>1, <1>2, <2>1
  <2> QED BY <1>2, <1>3, <2>4, <2>5, <2>6, <2>7 DEF Aligned
<1> QED BY <1>4, <1>5

\* A block of a higher level is the left half of each smaller split.
LEMMA SplitFacts ==
    ASSUME NEW k \in Nat, NEW i \in Nat, k < i, NEW a, Aligned(a, i)
    PROVE  /\ get_buddy(a, k) = a + Size(k)
           /\ Aligned(a, k) /\ Aligned(a + Size(k), k)
<1>1. PICK c \in Nat : a = c * Size(i)
  BY DEF Aligned
<1>2. PICK m \in Nat \ {0} : Size(i) = (2 * m) * Size(k)
  BY SizeSplit
<1>3. PICK s \in Nat \ {0} : s = Size(k)
  BY SizeIs
<1>4. PICK d \in Nat : d = c * m
  OBVIOUS
<1>5. PICK e \in Nat : e = d + d
  OBVIOUS
<1>6. a = e * s
  <2>1. a = c * ((2 * m) * s)
    BY <1>1, <1>2, <1>3
  <2>2. c * ((2 * m) * s) = (2 * (c * m)) * s
    OBVIOUS
  <2> QED BY <1>4, <1>5, <2>1, <2>2
<1>7. e % 2 = 0
  BY <1>5
<1>8. get_buddy(a, k) = a + Size(k)
  BY <1>3, <1>6, <1>7, BuddyIs
<1>9. PICK f \in Nat : f = e + 1
  OBVIOUS
<1>10. a + s = f * s
  BY <1>6, <1>9
<1> QED BY <1>3, <1>6, <1>8, <1>10 DEF Aligned

-----------------------------------------------------------------------------
(* How blocks lie in the pages.                                             *)

HeapTop == NPages * PageSize
PageOf(x) == PageSize * (x \div PageSize)

LEMMA HeapSizes ==
    /\ MAX_LEVEL \in Nat /\ MIN_LEVEL \in Nat /\ MIN_LEVEL <= MAX_LEVEL
    /\ MAX_LEVEL \in Levels /\ Levels \subseteq Nat
    /\ PageSize = Size(MAX_LEVEL) /\ PageSize \in Nat \ {0}
    /\ HeapTop \in Nat /\ Bytes = 0 .. HeapTop - 1
    /\ \A l \in Levels : Size(l) \in Nat \ {0}
<1>1. MAX_LEVEL \in Nat /\ MIN_LEVEL \in Nat /\ MIN_LEVEL <= MAX_LEVEL /\ NPages \in Nat
  BY BuddyAssumption
<1>2. MAX_LEVEL \in Levels /\ Levels \subseteq Nat
  BY <1>1 DEF Levels
<1>3. \A l \in Nat : Size(l) \in Nat \ {0}
  BY SizeIs
<1>4. PageSize = Size(MAX_LEVEL)
  BY DEF PageSize, Size
<1>5. PageSize \in Nat \ {0}
  BY <1>1, <1>3, <1>4
<1>6. HeapTop \in Nat /\ Bytes = 0 .. HeapTop - 1
  BY <1>1, <1>5 DEF HeapTop, Bytes
<1> QED BY <1>1, <1>2, <1>3, <1>4, <1>5, <1>6

\* A byte is in one page, which is a block of the highest level.
LEMMA PageOfIs ==
    ASSUME NEW x \in Bytes, NEW p, Aligned(p, MAX_LEVEL)
    PROVE  PageOf(x) = p <=> p <= x /\ x < p + PageSize
<1>1. PICK S \in Nat \ {0} : S = PageSize
  BY HeapSizes
<1>2. PICK c \in Nat : p = S * c
  <2>1. PICK c \in Nat : p = c * S
    BY <1>1, HeapSizes DEF Aligned
  <2> QED BY <2>1
<1>3. x \in Int
  BY HeapSizes
<1>4. PICK d \in Int : d = x \div S
  BY <1>3, DivIs
<1>5. S * d <= x /\ x < S * d + S
  BY <1>3, <1>4, DivIs
<1>6. S * c <= x /\ x < S * c + S => d = c
  BY <1>3, <1>4, DivUnique
<1>7. PageOf(x) = S * d
  BY <1>1, <1>4 DEF PageOf
<1>8. S * d = S * c => S * c <= x /\ x < S * c + S
  BY <1>5
<1> QED BY <1>1, <1>2, <1>6, <1>7, <1>8

LEMMA PageOfAligned ==
    ASSUME NEW x \in Bytes
    PROVE  Aligned(PageOf(x), MAX_LEVEL) /\ PageOf(x) <= x /\ x < PageOf(x) + PageSize
<1>1. PICK S \in Nat \ {0} : S = PageSize
  BY HeapSizes
<1>2. x \in Nat
  BY HeapSizes
<1>3. PICK d \in Int : d = x \div S
  BY <1>2, DivIs
<1>4. S * d <= x /\ x < S * d + S
  BY <1>2, <1>3, DivIs
<1>5. d >= 0
  <2> SUFFICES ASSUME d < 0 PROVE FALSE
    OBVIOUS
  <2>1. PICK e \in Nat : e = -d - 1
    OBVIOUS
  <2>2. S * e \in Nat
    OBVIOUS
  <2>3. S * d = -(S * e) - S
    BY <2>1
  <2> QED BY <1>2, <1>4, <2>2, <2>3
<1>6. PageOf(x) = d * S
  BY <1>1, <1>3 DEF PageOf
<1>7. d * S = S * d
  BY <1>3
<1> QED BY <1>1, <1>4, <1>5, <1>6, <1>7, HeapSizes DEF Aligned

CoversByte(a, l, x) == a <= x /\ x < a + Size(l)
Clear(a, l, b, k) == a + Size(l) <= b \/ b + Size(k) <= a
BlockFits(a, l) == Aligned(a, l) /\ a + Size(l) <= HeapTop
Covered(B, x) == \E l \in Levels : \E a \in Nat : <<a, l>> \in B /\ CoversByte(a, l, x)

\* The blocks B cover every byte once but those of the pages P.
Tiles(B, P) ==
    /\ B \in SUBSET (Nat \X Levels) /\ P \in SUBSET Nat
    /\ \A l \in Levels : \A a \in Nat : <<a, l>> \in B => BlockFits(a, l)
    /\ \A l \in Levels, k \in Levels : \A a \in Nat, b \in Nat :
         <<a, l>> \in B /\ <<b, k>> \in B => <<a, l>> = <<b, k>> \/ Clear(a, l, b, k)
    /\ \A x \in Bytes : Covered(B, x) <=> PageOf(x) \notin P
    /\ \A p \in P : BlockFits(p, MAX_LEVEL)

Outside(a, l, lo, hi) == a + Size(l) <= lo \/ hi <= a
Inside(a, l, lo, hi) == lo <= a /\ a + Size(l) <= hi

\* From lo to hi the blocks change; the others stay.
Regroups(B, P, B2, P2, lo, hi) ==
    /\ B2 \in SUBSET (Nat \X Levels) /\ P2 \in SUBSET Nat
    /\ \A l \in Levels : \A a \in Nat : <<a, l>> \in B =>
         Outside(a, l, lo, hi) \/ Inside(a, l, lo, hi)
    /\ \A l \in Levels : \A a \in Nat : Outside(a, l, lo, hi) =>
         (<<a, l>> \in B2 <=> <<a, l>> \in B)
    /\ \A l \in Levels : \A a \in Nat : <<a, l>> \in B2 /\ ~Outside(a, l, lo, hi) =>
         Inside(a, l, lo, hi) /\ BlockFits(a, l)
    /\ \A l \in Levels, k \in Levels : \A a \in Nat, b \in Nat :
         <<a, l>> \in B2 /\ <<b, k>> \in B2
         /\ ~Outside(a, l, lo, hi) /\ ~Outside(b, k, lo, hi)
         => <<a, l>> = <<b, k>> \/ Clear(a, l, b, k)
    /\ \A x \in Bytes : lo <= x /\ x < hi => (Covered(B2, x) <=> PageOf(x) \notin P2)
    /\ \A x \in Bytes : x < lo \/ hi <= x => (PageOf(x) \in P2 <=> PageOf(x) \in P)
    /\ \A p \in P2 : BlockFits(p, MAX_LEVEL)

LEMMA Regrouped ==
    ASSUME NEW B, NEW P, NEW B2, NEW P2, NEW lo \in Nat, NEW hi \in Nat,
           Tiles(B, P), Regroups(B, P, B2, P2, lo, hi)
    PROVE  Tiles(B2, P2)
<1>1. \A l \in Levels : Size(l) \in Nat \ {0}
  BY HeapSizes
<1>2. ASSUME NEW l \in Levels, NEW a \in Nat, <<a, l>> \in B2 PROVE BlockFits(a, l)
  <2>1. CASE Outside(a, l, lo, hi)
    BY <1>2, <2>1 DEF Tiles, Regroups
  <2>2. CASE ~Outside(a, l, lo, hi)
    BY <1>2, <2>2 DEF Regroups
  <2> QED BY <2>1, <2>2
<1>3. ASSUME NEW l \in Levels, NEW k \in Levels, NEW a \in Nat, NEW b \in Nat,
             <<a, l>> \in B2, <<b, k>> \in B2
      PROVE  <<a, l>> = <<b, k>> \/ Clear(a, l, b, k)
  <2>1. CASE Outside(a, l, lo, hi) /\ Outside(b, k, lo, hi)
    BY <1>3, <2>1 DEF Tiles, Regroups
  <2>2. CASE ~Outside(a, l, lo, hi) /\ ~Outside(b, k, lo, hi)
    BY <1>3, <2>2 DEF Regroups
  <2>3. CASE Outside(a, l, lo, hi) /\ ~Outside(b, k, lo, hi)
    <3>1. Inside(b, k, lo, hi)
      BY <1>3, <2>3 DEF Regroups
    <3> QED BY <1>1, <2>3, <3>1 DEF Outside, Inside, Clear
  <2>4. CASE ~Outside(a, l, lo, hi) /\ Outside(b, k, lo, hi)
    <3>1. Inside(a, l, lo, hi)
      BY <1>3, <2>4 DEF Regroups
    <3> QED BY <1>1, <2>4, <3>1 DEF Outside, Inside, Clear
  <2> QED BY <2>1, <2>2, <2>3, <2>4
<1>4. ASSUME NEW x \in Bytes PROVE Covered(B2, x) <=> PageOf(x) \notin P2
  <2>0. x \in Nat
    BY HeapSizes
  <2>1. CASE lo <= x /\ x < hi
    BY <2>1 DEF Regroups
  <2>2. CASE x < lo \/ hi <= x
    <3>1. ASSUME NEW l \in Levels, NEW a \in Nat, CoversByte(a, l, x)
          PROVE  ~Inside(a, l, lo, hi)
      BY <1>1, <2>0, <2>2, <3>1 DEF CoversByte, Inside
    <3>2. ASSUME NEW l \in Levels, NEW a \in Nat, CoversByte(a, l, x)
          PROVE  <<a, l>> \in B2 <=> <<a, l>> \in B
      <4>1. <<a, l>> \in B => Outside(a, l, lo, hi)
        BY <3>1, <3>2 DEF Regroups
      <4>2. <<a, l>> \in B2 => Outside(a, l, lo, hi)
        BY <3>1, <3>2 DEF Regroups
      <4>3. Outside(a, l, lo, hi) => (<<a, l>> \in B2 <=> <<a, l>> \in B)
        BY DEF Regroups
      <4> QED BY <4>1, <4>2, <4>3
    <3>3. Covered(B2, x) <=> Covered(B, x)
      BY <3>2 DEF Covered
    <3>4. Covered(B, x) <=> PageOf(x) \notin P
      BY DEF Tiles
    <3>5. PageOf(x) \in P2 <=> PageOf(x) \in P
      BY <2>2 DEF Regroups
    <3> QED BY <3>3, <3>4, <3>5
  <2> QED BY <2>0, <2>1, <2>2
<1>5. B2 \in SUBSET (Nat \X Levels) /\ P2 \in SUBSET Nat /\ \A p \in P2 : BlockFits(p, MAX_LEVEL)
  BY DEF Regroups
<1> QED BY <1>2, <1>3, <1>4, <1>5 DEF Tiles

\* A block has bytes, which lie in no free page.
LEMMA BlockBytes ==
    ASSUME NEW B, NEW P, Tiles(B, P), NEW l \in Levels, NEW a \in Nat, <<a, l>> \in B,
           NEW x \in Nat, CoversByte(a, l, x)
    PROVE  x \in Bytes /\ PageOf(x) \notin P
<1>1. Size(l) \in Nat /\ a + Size(l) <= HeapTop /\ HeapTop \in Nat
  BY HeapSizes DEF Tiles, BlockFits
<1>2. x \in Bytes
  BY <1>1, HeapSizes DEF CoversByte
<1>3. Covered(B, x)
  BY DEF Covered
<1> QED BY <1>2, <1>3 DEF Tiles

\* A free page and a block do not overlap.
LEMMA PageApart ==
    ASSUME NEW B, NEW P, Tiles(B, P), NEW l \in Levels, NEW a \in Nat, <<a, l>> \in B,
           NEW p \in P
    PROVE  Outside(a, l, p, p + PageSize)
<1> SUFFICES ASSUME ~Outside(a, l, p, p + PageSize) PROVE FALSE
  OBVIOUS
<1>1. Size(l) \in Nat \ {0} /\ PageSize \in Nat \ {0} /\ p \in Nat
  BY HeapSizes DEF Tiles
<1>2. PICK x \in Nat : x = IF a < p THEN p ELSE a
  BY <1>1
<1>3. CoversByte(a, l, x) /\ p <= x /\ x < p + PageSize
  BY <1>1, <1>2 DEF CoversByte, Outside
<1>4. x \in Bytes /\ PageOf(x) \notin P
  BY <1>3, BlockBytes
<1>5. PageOf(x) = p
  BY <1>3, <1>4, PageOfIs DEF Tiles, BlockFits
<1> QED BY <1>4, <1>5

\* What is left of a block when its other halves are split off down to lv.
Halves(b, lv, i) == {<<b + Size(k), k>> : k \in lv .. i - 1}
Pieces(b, lv, i) == {<<b, lv>>} \cup Halves(b, lv, i)

LEMMA PieceFacts ==
    ASSUME NEW i \in Levels, NEW lv \in Levels, lv <= i, NEW b \in Nat, BlockFits(b, i),
           NEW l, NEW a, <<a, l>> \in Pieces(b, lv, i)
    PROVE  /\ l \in Levels /\ a \in Nat /\ Inside(a, l, b, b + Size(i)) /\ BlockFits(a, l)
           /\ \/ a = b /\ l = lv
              \/ l \in lv .. i - 1 /\ a = b + Size(l)
<1>1. i \in Nat /\ lv \in Nat /\ Aligned(b, i) /\ b + Size(i) <= HeapTop /\ HeapTop \in Nat
  BY HeapSizes DEF BlockFits
<1>2. Size(i) \in Nat \ {0} /\ Size(lv) \in Nat \ {0}
  BY HeapSizes
<1>3. CASE a = b /\ l = lv
  <2>1. Size(lv) <= Size(i)
    <3>1. CASE lv = i
      BY <3>1, <1>2
    <3>2. CASE lv # i
      <4>1. Size(lv) + Size(lv) <= Size(i)
        BY <1>1, <3>2, SizeGrows
      <4> QED BY <1>2, <4>1
    <3> QED BY <3>1, <3>2
  <2>2. Aligned(b, lv)
    <3>1. CASE lv = i
      BY <3>1, <1>1
    <3>2. CASE lv # i
      BY <1>1, <3>2, SplitFacts
    <3> QED BY <3>1, <3>2
  <2> QED BY <1>1, <1>2, <1>3, <2>1, <2>2 DEF Inside, BlockFits
<1>4. CASE ~(a = b /\ l = lv)
  <2>1. PICK k \in lv .. i - 1 : <<a, l>> = <<b + Size(k), k>>
    BY <1>4 DEF Pieces, Halves
  <2>2. a = b + Size(k) /\ l = k
    BY <2>1
  <2>3. k \in Nat /\ k < i /\ k \in Levels
    BY <1>1, HeapSizes DEF Levels
  <2>4. Size(k) \in Nat \ {0}
    BY <2>3, HeapSizes
  <2>5. Size(k) + Size(k) <= Size(i)
    BY <1>1, <2>3, SizeGrows
  <2>6. Aligned(b + Size(k), k)
    BY <1>1, <2>3, SplitFacts
  <2> QED BY <1>1, <1>2, <2>2, <2>3, <2>4, <2>5, <2>6 DEF Inside, BlockFits
<1> QED BY <1>3, <1>4

LEMMA PiecesApart ==
    ASSUME NEW i \in Levels, NEW lv \in Levels, lv <= i, NEW b \in Nat, BlockFits(b, i),
           NEW l, NEW a, <<a, l>> \in Pieces(b, lv, i),
           NEW k, NEW c, <<c, k>> \in Pieces(b, lv, i), <<a, l>> # <<c, k>>
    PROVE  Clear(a, l, c, k)
<1>1. /\ l \in Levels /\ a \in Nat
      /\ (a = b /\ l = lv) \/ (l \in lv .. i - 1 /\ a = b + Size(l))
  BY PieceFacts
<1>2. /\ k \in Levels /\ c \in Nat
      /\ (c = b /\ k = lv) \/ (k \in lv .. i - 1 /\ c = b + Size(k))
  BY PieceFacts
<1>3. /\ l \in Nat /\ k \in Nat /\ lv \in Nat
      /\ Size(l) \in Nat \ {0} /\ Size(k) \in Nat \ {0} /\ Size(lv) \in Nat \ {0}
  BY <1>1, <1>2, HeapSizes
<1>4. CASE l < k
  <2>1. Size(l) + Size(l) <= Size(k)
    BY <1>3, <1>4, SizeGrows
  <2>2. c = b + Size(k)
    BY <1>1, <1>2, <1>3, <1>4
  <2> QED BY <1>1, <1>3, <2>1, <2>2 DEF Clear
<1>5. CASE k < l
  <2>1. Size(k) + Size(k) <= Size(l)
    BY <1>3, <1>5, SizeGrows
  <2>2. a = b + Size(l)
    BY <1>1, <1>2, <1>3, <1>5
  <2> QED BY <1>2, <1>3, <2>1, <2>2 DEF Clear
<1>6. CASE l = k
  <2>1. (a = b /\ c = b + Size(l)) \/ (c = b /\ a = b + Size(l))
    <3>1. a # c
      BY <1>6
    <3> QED BY <1>1, <1>2, <1>6, <3>1
  <2> QED BY <1>3, <1>6, <2>1 DEF Clear
<1> QED BY <1>3, <1>4, <1>5, <1>6

LEMMA PiecesCover ==
    ASSUME NEW i \in Levels, NEW lv \in Levels, lv <= i, NEW b \in Nat, BlockFits(b, i),
           NEW x \in Nat, b <= x, x < b + Size(i)
    PROVE  \E l \in Levels : \E a \in Nat : <<a, l>> \in Pieces(b, lv, i) /\ CoversByte(a, l, x)
<1> DEFINE S == {k \in lv .. i : x < b + Size(k)}
<1>1. lv \in Nat /\ i \in Nat
  BY HeapSizes
<1>2. S \in SUBSET Nat /\ i \in S
  BY <1>1
<1>3. PICK k \in S : \A j \in S : k <= j
  <2> HIDE DEF S
  <2> QED BY <1>2, FirstOf
<1>4. k \in lv .. i /\ x < b + Size(k) /\ k \in Levels
  BY <1>1, <1>3, HeapSizes DEF Levels
<1>5. CASE k = lv
  <2>1. <<b, lv>> \in Pieces(b, lv, i) /\ CoversByte(b, lv, x)
    BY <1>4, <1>5 DEF Pieces, CoversByte
  <2> QED BY <2>1
<1>6. CASE k # lv
  <2>1. PICK j \in Nat : j = k - 1
    BY <1>1, <1>4, <1>6
  <2>2. j \in lv .. i - 1 /\ j \in Levels /\ j \notin S /\ j + 1 = k
    BY <1>1, <1>3, <1>4, <1>6, <2>1, HeapSizes DEF Levels
  <2>3. ~(x < b + Size(j))
    BY <1>1, <2>2
  <2>4. Size(k) = Size(j) + Size(j) /\ Size(j) \in Nat
    BY <2>1, <2>2, SizeIs
  <2>5. CoversByte(b + Size(j), j, x) /\ b + Size(j) \in Nat
    BY <1>4, <2>3, <2>4 DEF CoversByte
  <2>6. <<b + Size(j), j>> \in Pieces(b, lv, i)
    BY <2>2 DEF Pieces, Halves
  <2> QED BY <2>2, <2>5, <2>6
<1> QED BY <1>5, <1>6

\* A block and any other one that covers part of it are the same.
LEMMA OthersOutside ==
    ASSUME NEW B, NEW P, Tiles(B, P), NEW i \in Levels, NEW b \in Nat, <<b, i>> \in B,
           NEW l \in Levels, NEW a \in Nat, <<a, l>> \in B, <<a, l>> # <<b, i>>
    PROVE  Outside(a, l, b, b + Size(i))
<1>1. Clear(a, l, b, i)
  BY DEF Tiles
<1> QED BY <1>1, HeapSizes DEF Clear, Outside

LEMMA InsideNotOutside ==
    ASSUME NEW l \in Levels, NEW a \in Nat, NEW lo \in Nat, NEW hi \in Nat,
           Inside(a, l, lo, hi)
    PROVE  ~Outside(a, l, lo, hi)
  BY HeapSizes DEF Inside, Outside

LEMMA SplitTiles ==
    ASSUME NEW B, NEW P, Tiles(B, P), NEW i \in Levels, NEW b \in Nat, <<b, i>> \in B,
           NEW lv \in Levels, lv <= i,
           NEW B2, B2 = (B \ {<<b, i>>}) \cup Pieces(b, lv, i)
    PROVE  Tiles(B2, P)
<1>1. PICK hi \in Nat : hi = b + Size(i)
  BY HeapSizes
<1>2. BlockFits(b, i)
  BY DEF Tiles
<1>3. B \in SUBSET (Nat \X Levels) /\ P \in SUBSET Nat
  BY DEF Tiles
<1>4. ASSUME NEW p \in Pieces(b, lv, i) PROVE p \in Nat \X Levels
  <2>1. PICK a, l : p = <<a, l>>
    BY DEF Pieces, Halves
  <2>2. a \in Nat /\ l \in Levels
    BY <1>2, <2>1, PieceFacts
  <2> QED BY <2>1, <2>2
<1>5. B2 \in SUBSET (Nat \X Levels)
  BY <1>3, <1>4
<1>6. ASSUME NEW l \in Levels, NEW a \in Nat, <<a, l>> \in Pieces(b, lv, i)
      PROVE  Inside(a, l, b, hi) /\ BlockFits(a, l) /\ ~Outside(a, l, b, hi)
  <2>1. Inside(a, l, b, hi) /\ BlockFits(a, l)
    BY <1>1, <1>2, <1>6, PieceFacts
  <2> QED BY <2>1, InsideNotOutside
<1>7. Inside(b, i, b, hi) /\ ~Outside(b, i, b, hi)
  <2>1. Inside(b, i, b, hi)
    BY <1>1 DEF Inside
  <2> QED BY <2>1, InsideNotOutside
<1>8. ASSUME NEW l \in Levels, NEW a \in Nat, <<a, l>> \in B
      PROVE  Outside(a, l, b, hi) \/ <<a, l>> = <<b, i>>
  BY <1>1, <1>8, OthersOutside
<1>9. ASSUME NEW l \in Levels, NEW a \in Nat, <<a, l>> \in B2, ~Outside(a, l, b, hi)
      PROVE  <<a, l>> \in Pieces(b, lv, i)
  BY <1>8, <1>9
<1>10. ASSUME NEW x \in Bytes, b <= x, x < hi
       PROVE  Covered(B2, x) /\ PageOf(x) \notin P
  <2>0. x \in Nat
    BY HeapSizes
  <2>1. CoversByte(b, i, x)
    BY <1>1, <1>10 DEF CoversByte
  <2>2. PageOf(x) \notin P
    BY <2>0, <2>1, BlockBytes
  <2>3. Covered(B2, x)
    BY <1>1, <1>2, <1>10, <2>0, PiecesCover DEF Covered
  <2> QED BY <2>2, <2>3
<1>11. ASSUME NEW l \in Levels, NEW k \in Levels, NEW a \in Nat, NEW c \in Nat,
              <<a, l>> \in B2, <<c, k>> \in B2,
              ~Outside(a, l, b, hi), ~Outside(c, k, b, hi)
       PROVE  <<a, l>> = <<c, k>> \/ Clear(a, l, c, k)
  BY <1>2, <1>9, <1>11, PiecesApart
<1>12. ASSUME NEW l \in Levels, NEW a \in Nat, Outside(a, l, b, hi)
       PROVE  <<a, l>> \in B2 <=> <<a, l>> \in B
  BY <1>6, <1>7, <1>12
<1>13. \A p \in P : BlockFits(p, MAX_LEVEL)
  BY DEF Tiles
<1>14. \A l \in Levels : \A a \in Nat : <<a, l>> \in B =>
         Outside(a, l, b, hi) \/ Inside(a, l, b, hi)
  BY <1>7, <1>8
<1>15. \A l \in Levels : \A a \in Nat : <<a, l>> \in B2 /\ ~Outside(a, l, b, hi) =>
         Inside(a, l, b, hi) /\ BlockFits(a, l)
  BY <1>6, <1>9
<1>16. Regroups(B, P, B2, P, b, hi)
  BY <1>3, <1>5, <1>10, <1>11, <1>12, <1>13, <1>14, <1>15 DEF Regroups
<1> QED BY <1>16, Regrouped

LEMMA JoinTiles ==
    ASSUME NEW B, NEW P, Tiles(B, P), NEW l \in Levels, l + 1 \in Levels, NEW m \in Nat,
           Aligned(m, l + 1), <<m, l>> \in B, <<m + Size(l), l>> \in B,
           NEW B2, B2 = (B \ {<<m, l>>, <<m + Size(l), l>>}) \cup {<<m, l + 1>>}
    PROVE  Tiles(B2, P)
<1>0. PICK s \in Nat \ {0} : s = Size(l)
  BY HeapSizes
<1>1. Size(l + 1) = s + s /\ l \in Nat
  BY <1>0, SizeIs, HeapSizes
<1>2. PICK c \in Nat : c = m + s
  OBVIOUS
<1>3. PICK hi \in Nat : hi = m + s + s
  OBVIOUS
<1>4. PICK u \in Levels : u = l + 1
  OBVIOUS
<1>5. <<m, l>> \in B /\ <<c, l>> \in B /\ B2 = (B \ {<<m, l>>, <<c, l>>}) \cup {<<m, u>>}
  BY <1>0, <1>2, <1>4
<1>6. BlockFits(c, l) /\ \A p \in P : BlockFits(p, MAX_LEVEL)
  BY <1>5 DEF Tiles
<1>7. BlockFits(m, u) /\ u # l /\ Size(u) = s + s
  BY <1>0, <1>1, <1>2, <1>4, <1>6, HeapSizes DEF BlockFits
<1>8. B \in SUBSET (Nat \X Levels) /\ P \in SUBSET Nat /\ B2 \in SUBSET (Nat \X Levels)
  BY <1>5 DEF Tiles
<1>9. Inside(m, l, m, hi) /\ Inside(c, l, m, hi) /\ Inside(m, u, m, hi)
  BY <1>0, <1>2, <1>3, <1>7 DEF Inside
<1>10. ~Outside(m, l, m, hi) /\ ~Outside(c, l, m, hi) /\ ~Outside(m, u, m, hi)
  BY <1>9, InsideNotOutside
<1>11. ASSUME NEW k \in Levels, NEW a \in Nat, <<a, k>> \in B
       PROVE  Outside(a, k, m, hi) \/ <<a, k>> = <<m, l>> \/ <<a, k>> = <<c, l>>
  <2> SUFFICES ASSUME <<a, k>> # <<m, l>>, <<a, k>> # <<c, l>> PROVE Outside(a, k, m, hi)
    OBVIOUS
  <2>1. Outside(a, k, m, m + Size(l)) /\ Outside(a, k, c, c + Size(l))
    BY <1>5, <1>11, OthersOutside
  <2>2. PICK t \in Nat \ {0} : t = Size(k)
    BY HeapSizes
  <2>3. (a + t <= m \/ m + s <= a) /\ (a + t <= c \/ c + s <= a)
    BY <1>0, <2>1, <2>2 DEF Outside
  <2>4. a + t <= m \/ hi <= a
    BY <1>2, <1>3, <2>3
  <2> QED BY <2>2, <2>4 DEF Outside
<1>12. ASSUME NEW k \in Levels, NEW a \in Nat, <<a, k>> \in B2, ~Outside(a, k, m, hi)
       PROVE  <<a, k>> = <<m, u>>
  BY <1>5, <1>11, <1>12
<1>13. ASSUME NEW k \in Levels, NEW a \in Nat, Outside(a, k, m, hi)
       PROVE  <<a, k>> \in B2 <=> <<a, k>> \in B
  BY <1>5, <1>10, <1>13
<1>14. ASSUME NEW x \in Bytes, m <= x, x < hi
       PROVE  Covered(B2, x) /\ PageOf(x) \notin P
  <2>0. x \in Nat
    BY HeapSizes
  <2>1. CoversByte(m, l, x) \/ CoversByte(c, l, x)
    BY <1>0, <1>2, <1>3, <1>14, <2>0 DEF CoversByte
  <2>2. PageOf(x) \notin P
    BY <1>5, <2>0, <2>1, BlockBytes
  <2>3. <<m, u>> \in B2 /\ CoversByte(m, u, x)
    BY <1>3, <1>5, <1>7, <1>14 DEF CoversByte
  <2> QED BY <2>2, <2>3 DEF Covered
<1>15. ASSUME NEW j \in Levels, NEW k \in Levels, NEW a \in Nat, NEW b \in Nat,
              <<a, j>> \in B2, <<b, k>> \in B2,
              ~Outside(a, j, m, hi), ~Outside(b, k, m, hi)
       PROVE  <<a, j>> = <<b, k>> \/ Clear(a, j, b, k)
  <2>1. <<a, j>> = <<m, u>> /\ <<b, k>> = <<m, u>>
    BY <1>12, <1>15
  <2> QED BY <2>1
<1>16. \A k \in Levels : \A a \in Nat : <<a, k>> \in B2 /\ ~Outside(a, k, m, hi) =>
         Inside(a, k, m, hi) /\ BlockFits(a, k)
  BY <1>7, <1>9, <1>12
<1>17. \A k \in Levels : \A a \in Nat : <<a, k>> \in B =>
         Outside(a, k, m, hi) \/ Inside(a, k, m, hi)
  BY <1>9, <1>11
<1>18. Regroups(B, P, B2, P, m, hi)
  BY <1>6, <1>8, <1>13, <1>14, <1>15, <1>16, <1>17 DEF Regroups
<1> QED BY <1>18, Regrouped

LEMMA MergeTiles ==
    ASSUME NEW B, NEW P, Tiles(B, P), NEW l \in Levels, l # MAX_LEVEL, NEW a \in Nat,
           <<a, l>> \in B, NEW c, c = get_buddy(a, l), <<c, l>> \in B,
           NEW m, m = IF a < c THEN a ELSE c,
           NEW B2, B2 = (B \ {<<a, l>>, <<c, l>>}) \cup {<<m, l + 1>>}
    PROVE  Tiles(B2, P) /\ m \in Nat /\ l + 1 \in Levels
<1>1. Aligned(a, l) /\ c \in Nat
  BY DEF Tiles, BlockFits
<1>2. l \in Nat /\ l + 1 \in Levels
  BY HeapSizes DEF Levels
<1>3. Size(l) \in Nat \ {0}
  BY HeapSizes
<1>4. CASE c = a + Size(l) /\ Aligned(a, l + 1)
  <2>1. m = a
    BY <1>3, <1>4
  <2>2. B2 = (B \ {<<m, l>>, <<m + Size(l), l>>}) \cup {<<m, l + 1>>}
    BY <1>4, <2>1
  <2>3. <<m, l>> \in B /\ <<m + Size(l), l>> \in B
    BY <1>4, <2>1
  <2>4. Aligned(m, l + 1) /\ m \in Nat
    BY <1>4, <2>1
  <2>5. Tiles(B2, P)
    BY <1>2, <2>2, <2>3, <2>4, JoinTiles
  <2> QED BY <1>2, <2>4, <2>5
<1>5. CASE c = a - Size(l) /\ Aligned(c, l + 1)
  <2>1. m = c /\ a = c + Size(l)
    BY <1>1, <1>3, <1>5
  <2>2. B2 = (B \ {<<m, l>>, <<m + Size(l), l>>}) \cup {<<m, l + 1>>}
    BY <2>1
  <2>3. <<m, l>> \in B /\ <<m + Size(l), l>> \in B
    BY <2>1
  <2>4. Aligned(m, l + 1) /\ m \in Nat
    BY <1>1, <1>5, <2>1
  <2>5. Tiles(B2, P)
    BY <1>2, <2>2, <2>3, <2>4, JoinTiles
  <2> QED BY <1>2, <2>4, <2>5
<1> QED BY <1>1, <1>2, <1>4, <1>5, BuddyFacts

LEMMA TakeTiles ==
    ASSUME NEW B, NEW P, Tiles(B, P), NEW p \in P,
           NEW B2, B2 = B \cup {<<p, MAX_LEVEL>>}
    PROVE  /\ Tiles(B2, P \ {p})
           /\ \A l \in Levels : <<p, l>> \notin B
<1>1. /\ p \in Nat /\ BlockFits(p, MAX_LEVEL) /\ P \in SUBSET Nat /\ B \in SUBSET (Nat \X Levels)
      /\ \A q \in P : BlockFits(q, MAX_LEVEL)
  BY DEF Tiles
<1>2. PICK M \in Levels : M = MAX_LEVEL
  BY HeapSizes
<1>3. PICK hi \in Nat : hi = p + PageSize
  BY <1>1, HeapSizes
<1>4. Inside(p, M, p, hi) /\ ~Outside(p, M, p, hi)
  <2>1. Inside(p, M, p, hi)
    BY <1>1, <1>2, <1>3, HeapSizes DEF Inside
  <2> QED BY <1>1, <2>1, InsideNotOutside
<1>5. ASSUME NEW l \in Levels, NEW a \in Nat, <<a, l>> \in B
      PROVE  Outside(a, l, p, hi)
  BY <1>3, <1>5, PageApart
<1>6. \A l \in Levels : <<p, l>> \notin B
  <2> SUFFICES ASSUME NEW l \in Levels, <<p, l>> \in B PROVE FALSE
    OBVIOUS
  <2>1. Outside(p, l, p, hi)
    BY <1>1, <1>5
  <2> QED BY <1>1, <1>3, <2>1, HeapSizes DEF Outside
<1>7. B2 = B \cup {<<p, M>>} /\ B2 \in SUBSET (Nat \X Levels)
  BY <1>1, <1>2
<1>8. ASSUME NEW l \in Levels, NEW a \in Nat, <<a, l>> \in B2, ~Outside(a, l, p, hi)
      PROVE  <<a, l>> = <<p, M>>
  BY <1>5, <1>7, <1>8
<1>9. ASSUME NEW x \in Bytes
      PROVE  PageOf(x) = p <=> p <= x /\ x < hi
  BY <1>1, <1>3, PageOfIs DEF BlockFits
<1>10. ASSUME NEW x \in Bytes, p <= x, x < hi
       PROVE  Covered(B2, x) /\ PageOf(x) \notin P \ {p}
  <2>1. CoversByte(p, M, x) /\ <<p, M>> \in B2
    BY <1>2, <1>3, <1>7, <1>10, HeapSizes DEF CoversByte
  <2> QED BY <1>1, <1>9, <1>10, <2>1 DEF Covered
<1>11. ASSUME NEW x \in Bytes, x < p \/ hi <= x
       PROVE  PageOf(x) \in P \ {p} <=> PageOf(x) \in P
  <2>1. x \in Nat
    BY HeapSizes
  <2> QED BY <1>1, <1>9, <1>11, <2>1
<1>12. ASSUME NEW j \in Levels, NEW k \in Levels, NEW a \in Nat, NEW b \in Nat,
              <<a, j>> \in B2, <<b, k>> \in B2,
              ~Outside(a, j, p, hi), ~Outside(b, k, p, hi)
       PROVE  <<a, j>> = <<b, k>> \/ Clear(a, j, b, k)
  <2>1. <<a, j>> = <<p, M>> /\ <<b, k>> = <<p, M>>
    BY <1>8, <1>12
  <2> QED BY <2>1
<1>13. ASSUME NEW l \in Levels, NEW a \in Nat, Outside(a, l, p, hi)
       PROVE  <<a, l>> \in B2 <=> <<a, l>> \in B
  BY <1>4, <1>7, <1>13
<1>14. \A l \in Levels : \A a \in Nat : <<a, l>> \in B2 /\ ~Outside(a, l, p, hi) =>
         Inside(a, l, p, hi) /\ BlockFits(a, l)
  BY <1>1, <1>2, <1>4, <1>8
<1>15. PICK Q \in SUBSET Nat : Q = P \ {p}
  BY <1>1
<1>16. Regroups(B, P, B2, Q, p, hi)
  BY <1>1, <1>5, <1>7, <1>10, <1>11, <1>12, <1>13, <1>14, <1>15 DEF Regroups
<1>17. Tiles(B2, Q)
  BY <1>1, <1>16, Regrouped
<1> QED BY <1>6, <1>15, <1>17

LEMMA ReturnTiles ==
    ASSUME NEW B, NEW P, Tiles(B, P), NEW b \in Nat, <<b, MAX_LEVEL>> \in B,
           NEW B2, B2 = B \ {<<b, MAX_LEVEL>>}
    PROVE  Tiles(B2, P \cup {b}) /\ b \notin P
<1>1. /\ BlockFits(b, MAX_LEVEL) /\ P \in SUBSET Nat /\ B \in SUBSET (Nat \X Levels)
      /\ \A q \in P : BlockFits(q, MAX_LEVEL)
  BY HeapSizes DEF Tiles
<1>2. PICK M \in Levels : M = MAX_LEVEL
  BY HeapSizes
<1>3. PICK hi \in Nat : hi = b + Size(M)
  BY HeapSizes
<1>4. hi = b + PageSize
  BY <1>2, <1>3, HeapSizes
<1>5. Inside(b, M, b, hi) /\ ~Outside(b, M, b, hi)
  <2>1. Inside(b, M, b, hi)
    BY <1>3, HeapSizes DEF Inside
  <2> QED BY <2>1, InsideNotOutside
<1>6. ASSUME NEW l \in Levels, NEW a \in Nat, <<a, l>> \in B
      PROVE  Outside(a, l, b, hi) \/ <<a, l>> = <<b, M>>
  BY <1>2, <1>3, <1>6, OthersOutside
<1>7. B2 = B \ {<<b, M>>} /\ B2 \in SUBSET (Nat \X Levels)
  BY <1>1, <1>2
<1>8. ASSUME NEW l \in Levels, NEW a \in Nat, <<a, l>> \in B2
      PROVE  Outside(a, l, b, hi)
  BY <1>6, <1>7, <1>8
<1>9. ASSUME NEW x \in Bytes
      PROVE  PageOf(x) = b <=> b <= x /\ x < hi
  BY <1>1, <1>4, PageOfIs DEF BlockFits
<1>10. ASSUME NEW x \in Bytes, b <= x, x < hi
       PROVE  ~Covered(B2, x) /\ PageOf(x) \in P \cup {b}
  <2>0. x \in Nat
    BY HeapSizes
  <2>1. ASSUME NEW l \in Levels, NEW a \in Nat, <<a, l>> \in B2, CoversByte(a, l, x) PROVE FALSE
    BY <1>8, <1>10, <2>0, <2>1, HeapSizes DEF Outside, CoversByte
  <2> QED BY <1>9, <1>10, <2>1 DEF Covered
<1>11. ASSUME NEW x \in Bytes, x < b \/ hi <= x
       PROVE  PageOf(x) \in P \cup {b} <=> PageOf(x) \in P
  <2>1. x \in Nat
    BY HeapSizes
  <2> QED BY <1>9, <1>11, <2>1
<1>12. ASSUME NEW l \in Levels, NEW a \in Nat, Outside(a, l, b, hi)
       PROVE  <<a, l>> \in B2 <=> <<a, l>> \in B
  BY <1>5, <1>7, <1>12
<1>13. b \notin P
  <2> SUFFICES ASSUME b \in P PROVE FALSE
    OBVIOUS
  <2>1. b \in Nat /\ CoversByte(b, M, b)
    BY HeapSizes DEF CoversByte
  <2>2. b \in Bytes /\ PageOf(b) \notin P
    BY <1>2, <2>1, BlockBytes
  <2>3. PageOf(b) = b
    BY <1>3, <1>9, <2>2, HeapSizes
  <2> QED BY <2>2, <2>3
<1>14. PICK Q \in SUBSET Nat : Q = P \cup {b}
  BY <1>1
<1>15. \A q \in Q : BlockFits(q, MAX_LEVEL)
  BY <1>1, <1>14
<1>16. \A l \in Levels : \A a \in Nat : <<a, l>> \in B =>
         Outside(a, l, b, hi) \/ Inside(a, l, b, hi)
  BY <1>5, <1>6
<1>17. Regroups(B, P, B2, Q, b, hi)
  BY <1>7, <1>8, <1>10, <1>11, <1>12, <1>14, <1>15, <1>16 DEF Regroups
<1>18. Tiles(B2, Q)
  BY <1>17, Regrouped
<1> QED BY <1>13, <1>14, <1>18

-----------------------------------------------------------------------------
(* Lists whose members are there once.                                      *)

Once(s) == IsInjective(s)

LEMMA PushedOnce ==
    ASSUME NEW S, NEW s \in Seq(S), NEW e \in S, Once(s), e \notin ToSet(s)
    PROVE  /\ <<e>> \o s \in Seq(S) /\ Once(<<e>> \o s)
           /\ ToSet(<<e>> \o s) = ToSet(s) \cup {e}
<1> PICK t : t = <<e>> \o s
  OBVIOUS
<1>1. /\ t \in Seq(S) /\ Len(t) = Len(s) + 1 /\ t[1] = e /\ Len(s) \in Nat
      /\ \A i \in 1 .. Len(s) : t[i + 1] = s[i]
      /\ DOMAIN t = 1 .. Len(t) /\ DOMAIN s = 1 .. Len(s)
  OBVIOUS
<1>2. \A i \in DOMAIN t : i = 1 \/ (i - 1 \in DOMAIN s /\ t[i] = s[i - 1])
  <2> SUFFICES ASSUME NEW i \in DOMAIN t, i # 1 PROVE i - 1 \in DOMAIN s /\ t[i] = s[i - 1]
    OBVIOUS
  <2>1. i - 1 \in 1 .. Len(s) /\ (i - 1) + 1 = i
    BY <1>1
  <2> QED BY <1>1, <2>1
<1>3. ToSet(t) = ToSet(s) \cup {e}
  <2>1. ASSUME NEW x \in ToSet(t) PROVE x \in ToSet(s) \cup {e}
    BY <1>1, <1>2 DEF ToSet
  <2>2. ASSUME NEW x \in ToSet(s) PROVE x \in ToSet(t)
    <3>1. PICK i \in 1 .. Len(s) : x = s[i]
      BY <1>1 DEF ToSet
    <3>2. i + 1 \in DOMAIN t /\ t[i + 1] = x
      BY <1>1, <3>1
    <3> QED BY <3>2 DEF ToSet
  <2>3. e \in ToSet(t)
    <3>1. 1 \in DOMAIN t
      BY <1>1
    <3> QED BY <1>1, <3>1 DEF ToSet
  <2> QED BY <2>1, <2>2, <2>3
<1>4. Once(t)
  <2> SUFFICES ASSUME NEW i \in DOMAIN t, NEW j \in DOMAIN t, t[i] = t[j] PROVE i = j
    BY DEF Once, IsInjective
  <2>1. \A k \in DOMAIN s : s[k] # e
    BY DEF ToSet
  <2>2. \A k \in DOMAIN s, m \in DOMAIN s : s[k] = s[m] => k = m
    BY DEF Once, IsInjective
  <2>3. i \in Int /\ j \in Int
    BY <1>1
  <2>4. CASE i = 1
    BY <1>1, <1>2, <2>1, <2>4
  <2>5. CASE j = 1
    BY <1>1, <1>2, <2>1, <2>5
  <2>6. CASE i # 1 /\ j # 1
    <3>1. i - 1 = j - 1
      BY <1>2, <2>2, <2>6
    <3> QED BY <2>3, <3>1
  <2> QED BY <2>4, <2>5, <2>6
<1> QED BY <1>1, <1>3, <1>4

PartOf(p, s, a, m) == Len(p) = m /\ \A j \in 1 .. m : p[j] = s[a + j]

LEMMA PartIs ==
    ASSUME NEW S, NEW s \in Seq(S), NEW a \in Nat, NEW m \in Nat, a + m <= Len(s),
           NEW lo, lo = a + 1, NEW hi, hi = a + m,
           NEW p, p = SubSeq(s, lo, hi)
    PROVE  p \in Seq(S) /\ PartOf(p, s, a, m)
<1>1. p \in Seq(S) /\ Len(p) = m
  OBVIOUS
<1>2. ASSUME NEW j \in 1 .. m PROVE p[j] = s[a + j]
  <2>1. p = [k \in 1 .. (1 + hi - lo) |-> s[(lo + k) - 1]]
    BY DEF SubSeq
  <2>2. 1 + hi - lo = m /\ (lo + j) - 1 = a + j
    OBVIOUS
  <2> QED BY <2>1, <2>2
<1> QED BY <1>1, <1>2 DEF PartOf

LEMMA Joined ==
    ASSUME NEW S, NEW p \in Seq(S), NEW q \in Seq(S)
    PROVE  /\ p \o q \in Seq(S) /\ Len(p \o q) = Len(p) + Len(q)
           /\ \A j \in 1 .. Len(p) : (p \o q)[j] = p[j]
           /\ \A j \in 1 .. Len(q) : (p \o q)[Len(p) + j] = q[j]
           /\ DOMAIN (p \o q) = 1 .. Len(p) + Len(q)
  OBVIOUS

\* A list without its i-th member: every other one has moved up by Shift.
Shift(i, j) == IF j < i THEN j ELSE j + 1

LEMMA RemovedAt ==
    ASSUME NEW S, NEW s \in Seq(S), NEW i \in 1 .. Len(s)
    PROVE  /\ RemoveAt(s, i) \in Seq(S) /\ Len(RemoveAt(s, i)) = Len(s) - 1
           /\ \A j \in 1 .. Len(s) - 1 : RemoveAt(s, i)[j] = s[Shift(i, j)]
           /\ DOMAIN RemoveAt(s, i) = 1 .. Len(s) - 1
           /\ DOMAIN s = 1 .. Len(s) /\ Len(s) \in Nat
<1>n. PICK n \in Nat : n = Len(s)
  OBVIOUS
<1>0. i \in 1 .. n /\ DOMAIN s = 1 .. n
  BY <1>n
<1>a. PICK a \in Nat : a = i - 1
  BY <1>n, <1>0
<1>b. PICK b \in Nat : b = n - i
  <2>1. n - i \in Nat
    BY <1>n, <1>0
  <2> QED BY <2>1
<1>c. PICK p : p = SubSeq(s, 1, i - 1)
  OBVIOUS
<1>d. PICK q : q = SubSeq(s, i + 1, Len(s))
  OBVIOUS
<1>1. p \in Seq(S) /\ PartOf(p, s, 0, a)
  <2>1. 0 + a <= Len(s) /\ 1 = 0 + 1 /\ i - 1 = 0 + a
    BY <1>n, <1>0, <1>a
  <2> QED BY <2>1, <1>c, PartIs
<1>2. q \in Seq(S) /\ PartOf(q, s, i, b)
  <2>1. i + b <= Len(s) /\ Len(s) = i + b /\ i \in Nat
    BY <1>n, <1>0, <1>b
  <2> QED BY <2>1, <1>d, PartIs
<1>p. /\ Len(p) = i - 1 /\ Len(q) = n - i
      /\ \A j \in 1 .. i - 1 : p[j] = s[j]
      /\ \A j \in 1 .. n - i : q[j] = s[i + j]
  BY <1>a, <1>b, <1>1, <1>2 DEF PartOf
<1>3. PICK t \in Seq(S) :
          /\ t = p \o q /\ Len(t) = Len(p) + Len(q)
          /\ \A j \in 1 .. Len(p) : t[j] = p[j]
          /\ \A j \in 1 .. Len(q) : t[Len(p) + j] = q[j]
          /\ DOMAIN t = 1 .. Len(p) + Len(q)
  BY <1>1, <1>2, Joined
<1>4. Len(t) = n - 1 /\ DOMAIN t = 1 .. n - 1
  <2>1. Len(p) + Len(q) = n - 1
    BY <1>0, <1>p
  <2> QED BY <1>3, <2>1
<1>5. \A j \in 1 .. n - 1 : t[j] = s[Shift(i, j)]
  <2> SUFFICES ASSUME NEW j \in 1 .. n - 1 PROVE t[j] = s[Shift(i, j)]
    OBVIOUS
  <2>1. CASE j < i
    <3>1. j \in 1 .. i - 1 /\ j \in 1 .. Len(p)
      BY <1>0, <1>p, <2>1
    <3>2. t[j] = p[j]
      BY <1>3, <3>1
    <3>3. p[j] = s[j]
      BY <1>p, <3>1
    <3> QED BY <2>1, <3>2, <3>3 DEF Shift
  <2>2. CASE ~(j < i)
    <3>1. PICK k \in 1 .. n - i : k = j - (i - 1)
      BY <1>0, <2>2
    <3>2. k \in 1 .. Len(q)
      BY <1>p
    <3>3. t[Len(p) + k] = q[k]
      BY <1>3, <3>2
    <3>4. Len(p) + k = j
      BY <1>0, <1>p, <3>1
    <3>5. q[k] = s[i + k] /\ i + k = j + 1
      BY <1>0, <1>p, <3>1
    <3> QED BY <2>2, <3>3, <3>4, <3>5 DEF Shift
  <2> QED BY <2>1, <2>2
<1>6. RemoveAt(s, i) = t
  BY <1>c, <1>d, <1>3, Zenon DEF RemoveAt
<1> QED BY <1>n, <1>0, <1>3, <1>4, <1>5, <1>6

LEMMA RemovedOnce ==
    ASSUME NEW S, NEW s \in Seq(S), Once(s), NEW i \in 1 .. Len(s)
    PROVE  /\ RemoveAt(s, i) \in Seq(S) /\ Once(RemoveAt(s, i))
           /\ ToSet(RemoveAt(s, i)) = ToSet(s) \ {s[i]}
<1> PICK t : t = RemoveAt(s, i)
  OBVIOUS
<1> PICK n : n = Len(s)
  OBVIOUS
<1>1. /\ t \in Seq(S) /\ DOMAIN t = 1 .. n - 1 /\ DOMAIN s = 1 .. n /\ n \in Nat
      /\ \A j \in 1 .. n - 1 : t[j] = s[Shift(i, j)]
  BY RemovedAt
<1>2. i \in 1 .. n
  OBVIOUS
<1>3. \A k \in DOMAIN s, m \in DOMAIN s : s[k] = s[m] => k = m
  BY DEF Once, IsInjective
<1>4. \A j \in 1 .. n - 1 : Shift(i, j) \in 1 .. n /\ Shift(i, j) # i
  BY <1>1, <1>2 DEF Shift
<1>5. \A j \in 1 .. n - 1, k \in 1 .. n - 1 : Shift(i, j) = Shift(i, k) => j = k
  BY <1>1, <1>2 DEF Shift
<1>6. \A k \in 1 .. n : k # i => \E j \in 1 .. n - 1 : Shift(i, j) = k
  <2> SUFFICES ASSUME NEW k \in 1 .. n, k # i PROVE \E j \in 1 .. n - 1 : Shift(i, j) = k
    OBVIOUS
  <2>1. PICK j \in Int : j = IF k < i THEN k ELSE k - 1
    BY <1>1
  <2>2. j \in 1 .. n - 1 /\ Shift(i, j) = k
    BY <1>1, <1>2, <2>1 DEF Shift
  <2> QED BY <2>2
<1>7. Once(t)
  <2> SUFFICES ASSUME NEW j \in 1 .. n - 1, NEW k \in 1 .. n - 1, t[j] = t[k] PROVE j = k
    BY <1>1 DEF Once, IsInjective
  <2>1. s[Shift(i, j)] = s[Shift(i, k)]
    BY <1>1
  <2>2. Shift(i, j) = Shift(i, k)
    BY <1>1, <1>3, <1>4, <2>1
  <2> QED BY <1>5, <2>2
<1>8. ASSUME NEW x \in ToSet(t) PROVE x \in ToSet(s) \ {s[i]}
  <2>1. PICK j \in 1 .. n - 1 : x = s[Shift(i, j)]
    BY <1>1, <1>8 DEF ToSet
  <2> QED BY <1>1, <1>2, <1>3, <1>4, <2>1 DEF ToSet
<1>9. ASSUME NEW x \in ToSet(s), x # s[i] PROVE x \in ToSet(t)
  <2>1. PICK k \in 1 .. n : x = s[k]
    BY <1>1, <1>9 DEF ToSet
  <2>2. PICK j \in 1 .. n - 1 : Shift(i, j) = k
    BY <1>6, <1>9, <2>1
  <2> QED BY <1>1, <2>1, <2>2 DEF ToSet
<1> QED BY <1>1, <1>7, <1>8, <1>9

LEMMA RemovedFirst ==
    ASSUME NEW S, NEW s \in Seq(S), Once(s), NEW e \in ToSet(s)
    PROVE  /\ RemoveFirst(s, e) \in Seq(S) /\ Once(RemoveFirst(s, e))
           /\ ToSet(RemoveFirst(s, e)) = ToSet(s) \ {e}
<1> DEFINE I == {i \in 1 .. Len(s) : s[i] = e}
<1>1. I # {} /\ I \in SUBSET Nat
  BY DEF ToSet
<1>2. SelectInSeq(s, LAMBDA v : v = e) = Min(I)
  BY <1>1 DEF SelectInSeq
<1>3. Min(I) \in I
  <2> HIDE DEF I
  <2>1. PICK n \in I : \A m \in I : n <= m
    BY <1>1, FirstOf
  <2> QED BY <2>1 DEF Min
<1>4. Min(I) \in 1 .. Len(s) /\ s[Min(I)] = e
  BY <1>3
<1>5. RemoveFirst(s, e) = RemoveAt(s, Min(I))
  BY <1>2, <1>4 DEF RemoveFirst
<1> HIDE DEF I
<1> QED BY <1>4, <1>5, RemovedOnce

LEMMA TailOnce ==
    ASSUME NEW S, NEW s \in Seq(S), Once(s), s # <<>>
    PROVE  /\ Tail(s) \in Seq(S) /\ Once(Tail(s)) /\ Head(s) \in ToSet(s) /\ Head(s) \in S
           /\ ToSet(Tail(s)) = ToSet(s) \ {Head(s)}
<1> PICK n : n = Len(s)
  OBVIOUS
<1>1. n \in Nat /\ n # 0 /\ DOMAIN s = 1 .. n /\ Head(s) = s[1] /\ s[1] \in S
  OBVIOUS
<1> PICK t : t = Tail(s)
  OBVIOUS
<1>2. t \in Seq(S) /\ DOMAIN t = 1 .. n - 1 /\ \A j \in 1 .. n - 1 : t[j] = s[j + 1]
  BY <1>1
<1>3. \A k \in DOMAIN s, m \in DOMAIN s : s[k] = s[m] => k = m
  BY DEF Once, IsInjective
<1>4. \A j \in 1 .. n - 1 : j + 1 \in 1 .. n /\ j + 1 # 1 /\ 1 \in 1 .. n
  BY <1>1
<1>5. Once(t)
  BY <1>1, <1>2, <1>3, <1>4 DEF Once, IsInjective
<1>6. ASSUME NEW x \in ToSet(t) PROVE x \in ToSet(s) \ {s[1]}
  <2>1. PICK j \in 1 .. n - 1 : x = s[j + 1]
    BY <1>2, <1>6 DEF ToSet
  <2> QED BY <1>1, <1>3, <1>4, <2>1 DEF ToSet
<1>7. ASSUME NEW x \in ToSet(s), x # s[1] PROVE x \in ToSet(t)
  <2>1. PICK k \in 1 .. n : x = s[k]
    BY <1>1, <1>7 DEF ToSet
  <2>2. k - 1 \in 1 .. n - 1 /\ (k - 1) + 1 = k
    BY <1>1, <1>7, <2>1
  <2> QED BY <1>2, <2>1, <2>2 DEF ToSet
<1>8. s[1] \in ToSet(s)
  BY <1>1 DEF ToSet
<1> QED BY <1>1, <1>2, <1>5, <1>6, <1>7, <1>8

-----------------------------------------------------------------------------
(* The free lists F, the pages pg and the blocks U that are in no list.     *)

FreeIn(F) == {x \in Nat \X Levels : x[1] \in ToSet(F[x[2]])}

ListsOK(F) ==
    /\ F \in [Levels -> Seq(Nat)]
    /\ \A l \in Levels : Once(F[l])
    /\ F[MAX_LEVEL] = <<>>
    /\ \A l \in Levels : \A a \in ToSet(F[l]) : get_buddy(a, l) \notin ToSet(F[l])

Holds(F, pg, U) ==
    /\ ListsOK(F) /\ pg \in Seq(Nat) /\ Once(pg)
    /\ FreeIn(F) \cap U = {}
    /\ Tiles(FreeIn(F) \cup U, ToSet(pg))

LEMMA FreeInIs ==
    ASSUME NEW F, NEW a, NEW l
    PROVE  <<a, l>> \in FreeIn(F) <=> a \in Nat /\ l \in Levels /\ a \in ToSet(F[l])
  BY DEF FreeIn

LEMMA ListFacts ==
    ASSUME NEW F, ListsOK(F), NEW l \in Levels
    PROVE  F[l] \in Seq(Nat) /\ Once(F[l]) /\ ToSet(F[l]) \in SUBSET Nat
<1>1. F[l] \in Seq(Nat) /\ Once(F[l])
  BY DEF ListsOK
<1>2. \A s \in Seq(Nat) : ToSet(s) \in SUBSET Nat
  BY DEF ToSet
<1> QED BY <1>1, <1>2

LEMMA EmptySet ==
    /\ ToSet(<<>>) = {}
    /\ \A S : \A s \in Seq(S) : s # <<>> <=> ToSet(s) # {}
<1>1. ToSet(<<>>) = {}
  BY DEF ToSet
<1>2. ASSUME NEW S, NEW s \in Seq(S), s # <<>> PROVE ToSet(s) # {}
  <2>1. 1 \in DOMAIN s
    BY <1>2
  <2> QED BY <2>1 DEF ToSet
<1> QED BY <1>1, <1>2

\* Two blocks of a tiling do not begin at the same place.
LEMMA OneAt ==
    ASSUME NEW B, NEW P, Tiles(B, P), NEW a \in Nat, NEW l \in Levels, NEW k \in Levels,
           <<a, l>> \in B, <<a, k>> \in B
    PROVE  l = k
<1> SUFFICES ASSUME l # k PROVE FALSE
  OBVIOUS
<1>1. Clear(a, l, a, k)
  BY DEF Tiles
<1> QED BY <1>1, HeapSizes DEF Clear

\* A change of one list.
LEMMA OneList ==
    ASSUME NEW F, ListsOK(F), NEW i \in Levels, NEW s \in Seq(Nat), Once(s),
           NEW F2, F2 = [F EXCEPT ![i] = s],
           i = MAX_LEVEL => s = <<>>,
           \A a \in ToSet(s) : get_buddy(a, i) \notin ToSet(s)
    PROVE  /\ ListsOK(F2)
           /\ \A a \in Nat, l \in Levels : <<a, l>> \in FreeIn(F2) <=>
                IF l = i THEN a \in ToSet(s) ELSE <<a, l>> \in FreeIn(F)
<1>1. F2 \in [Levels -> Seq(Nat)] /\ F2[i] = s /\ \A l \in Levels : l # i => F2[l] = F[l]
  BY DEF ListsOK
<1>2. ListsOK(F2)
  BY <1>1 DEF ListsOK
<1>3. ASSUME NEW a \in Nat, NEW l \in Levels
      PROVE  <<a, l>> \in FreeIn(F2) <=>
                IF l = i THEN a \in ToSet(s) ELSE <<a, l>> \in FreeIn(F)
  BY <1>1, FreeInIs
<1> QED BY <1>2, <1>3

\* Sets of blocks that have the same members are the same.
LEMMA SameBlocks ==
    ASSUME NEW A \in SUBSET (Nat \X Levels), NEW B \in SUBSET (Nat \X Levels),
           \A a \in Nat, l \in Levels : <<a, l>> \in A <=> <<a, l>> \in B
    PROVE  A = B
<1>1. ASSUME NEW x \in Nat \X Levels PROVE x \in A <=> x \in B
  <2>1. x = <<x[1], x[2]>> /\ x[1] \in Nat /\ x[2] \in Levels
    OBVIOUS
  <2> QED BY <2>1
<1> QED BY <1>1

LEMMA HoldsTypes ==
    ASSUME NEW F, NEW pg, NEW U, Holds(F, pg, U)
    PROVE  /\ U \in SUBSET (Nat \X Levels) /\ FreeIn(F) \in SUBSET (Nat \X Levels)
           /\ ToSet(pg) \in SUBSET Nat
  BY DEF Holds, Tiles, FreeIn

\* alloc takes the first block of a list,
LEMMA FirstTaken ==
    ASSUME NEW F, NEW pg, NEW U, Holds(F, pg, U), NEW i \in Levels, F[i] # <<>>,
           NEW b, b = Head(F[i]), NEW F2, F2 = [F EXCEPT ![i] = Tail(F[i])]
    PROVE  /\ Holds(F2, pg, U \cup {<<b, i>>}) /\ b \in Nat
           /\ \A l \in Levels : <<b, l>> \notin U
<1>1. ListsOK(F) /\ F[i] \in Seq(Nat) /\ Once(F[i])
  BY ListFacts DEF Holds
<1>2. PICK s : s = Tail(F[i])
  OBVIOUS
<1>3. /\ s \in Seq(Nat) /\ Once(s) /\ b \in ToSet(F[i]) /\ b \in Nat
      /\ ToSet(s) = ToSet(F[i]) \ {b}
  BY <1>1, <1>2, TailOnce
<1>4. F2 = [F EXCEPT ![i] = s]
  BY <1>2
<1>5. i = MAX_LEVEL => s = <<>>
  BY DEF Holds, ListsOK
<1>6. \A a \in ToSet(s) : get_buddy(a, i) \notin ToSet(s)
  BY <1>1, <1>3 DEF ListsOK
<1>7. /\ ListsOK(F2)
      /\ \A a \in Nat, l \in Levels : <<a, l>> \in FreeIn(F2) <=>
           IF l = i THEN a \in ToSet(s) ELSE <<a, l>> \in FreeIn(F)
  BY <1>1, <1>3, <1>4, <1>5, <1>6, OneList
<1>8. <<b, i>> \in FreeIn(F) /\ \A a \in Nat : <<a, i>> \in FreeIn(F) <=> a \in ToSet(F[i])
  BY <1>3, FreeInIs
<1>9. /\ U \in SUBSET (Nat \X Levels) /\ FreeIn(F) \in SUBSET (Nat \X Levels)
      /\ FreeIn(F2) \in SUBSET (Nat \X Levels) /\ FreeIn(F) \cap U = {}
  BY HoldsTypes DEF Holds, FreeIn
<1>10. FreeIn(F2) = FreeIn(F) \ {<<b, i>>}
  <2>1. \A a \in Nat, l \in Levels :
            <<a, l>> \in FreeIn(F2) <=> <<a, l>> \in FreeIn(F) \ {<<b, i>>}
    BY <1>3, <1>7, <1>8
  <2>2. FreeIn(F) \ {<<b, i>>} \in SUBSET (Nat \X Levels)
    BY <1>9
  <2> QED BY <1>9, <2>1, <2>2, SameBlocks
<1>11. FreeIn(F2) \cup (U \cup {<<b, i>>}) = FreeIn(F) \cup U
  BY <1>8, <1>10
<1>12. FreeIn(F2) \cap (U \cup {<<b, i>>}) = {}
  BY <1>9, <1>10
<1>13. Holds(F2, pg, U \cup {<<b, i>>})
  BY <1>7, <1>11, <1>12 DEF Holds
<1>14. ASSUME NEW l \in Levels, <<b, l>> \in U PROVE FALSE
  <2>0. PICK B : B = FreeIn(F) \cup U
    OBVIOUS
  <2>1. Tiles(B, ToSet(pg)) /\ <<b, l>> \in B /\ <<b, i>> \in B
    BY <1>8, <1>14, <2>0 DEF Holds
  <2>2. l = i
    BY <1>3, <2>1, OneAt
  <2> QED BY <1>8, <1>9, <1>14, <2>2
<1> QED BY <1>3, <1>13, <1>14

\* or a page.
LEMMA PageTaken ==
    ASSUME NEW F, NEW pg, NEW U, Holds(F, pg, U), pg # <<>>, NEW p, p = Head(pg)
    PROVE  /\ Holds(F, Tail(pg), U \cup {<<p, MAX_LEVEL>>}) /\ p \in Nat
           /\ \A l \in Levels : <<p, l>> \notin U
<1>1. /\ Tail(pg) \in Seq(Nat) /\ Once(Tail(pg)) /\ p \in ToSet(pg) /\ p \in Nat
      /\ ToSet(Tail(pg)) = ToSet(pg) \ {p}
  BY TailOnce DEF Holds
<1>2. PICK B : B = FreeIn(F) \cup U
  OBVIOUS
<1>3. PICK P : P = ToSet(pg)
  OBVIOUS
<1>4. Tiles(B, P) /\ p \in P
  BY <1>1, <1>2, <1>3 DEF Holds
<1>5. Tiles(B \cup {<<p, MAX_LEVEL>>}, P \ {p}) /\ \A l \in Levels : <<p, l>> \notin B
  BY <1>4, TakeTiles
<1>6. FreeIn(F) \cup (U \cup {<<p, MAX_LEVEL>>}) = B \cup {<<p, MAX_LEVEL>>}
  BY <1>2
<1>7. FreeIn(F) \cap (U \cup {<<p, MAX_LEVEL>>}) = {}
  BY <1>2, <1>5, HeapSizes DEF Holds
<1>8. ListsOK(F)
  BY DEF Holds
<1>9. Holds(F, Tail(pg), U \cup {<<p, MAX_LEVEL>>})
  BY <1>1, <1>3, <1>5, <1>6, <1>7, <1>8 DEF Holds
<1> QED BY <1>1, <1>2, <1>5, <1>9

\* The halves of a block go to the lists of their levels, which were empty.
LEMMA SplitHolds ==
    ASSUME NEW F, NEW pg, NEW V, NEW b \in Nat, NEW i \in Levels,
           Holds(F, pg, V \cup {<<b, i>>}), <<b, i>> \notin V,
           NEW lv \in Levels, lv <= i, \A k \in lv .. i - 1 : F[k] = <<>>,
           NEW F2, F2 = SplitLists(F, b, lv, i)
    PROVE  Holds(F2, pg, V \cup {<<b, lv>>})
<1>0. PICK U : U = V \cup {<<b, i>>}
  OBVIOUS
<1>1. PICK B : B = FreeIn(F) \cup U
  OBVIOUS
<1>2. PICK P : P = ToSet(pg)
  OBVIOUS
<1>3. /\ Tiles(B, P) /\ <<b, i>> \in B /\ ListsOK(F) /\ FreeIn(F) \cap U = {}
      /\ pg \in Seq(Nat) /\ Once(pg)
  BY <1>0, <1>1, <1>2 DEF Holds
<1>4. BlockFits(b, i) /\ B \in SUBSET (Nat \X Levels)
  BY <1>3 DEF Tiles
<1>5. lv \in Nat /\ i \in Nat /\ i <= MAX_LEVEL
  BY HeapSizes DEF Levels
<1>6. ASSUME NEW k \in lv .. i - 1
      PROVE  k \in Levels /\ k # MAX_LEVEL /\ get_buddy(b, k) = b + Size(k) /\ b + Size(k) \in Nat
  <2>1. k \in Levels /\ k \in Nat /\ k < i
    BY <1>5, HeapSizes DEF Levels
  <2>2. get_buddy(b, k) = b + Size(k)
    BY <1>4, <1>5, <2>1, SplitFacts DEF BlockFits
  <2> QED BY <1>5, <2>1, <2>2, HeapSizes
<1>7. ASSUME NEW k \in lv .. i - 1
      PROVE  F2[k] = <<b + Size(k)>>
  <2>1. F2[k] = <<b + Size(k)>> \o <<>>
    BY <1>6 DEF SplitLists
  <2> QED BY <1>6, <2>1
<1>8. \A k \in Levels : k \notin lv .. i - 1 => F2[k] = F[k]
  BY DEF SplitLists
<1>9. ASSUME NEW n \in Nat
      PROVE  /\ <<n>> \in Seq(Nat) /\ Once(<<n>>) /\ ToSet(<<n>>) = {n}
  BY DEF Once, IsInjective, ToSet
<1>a. ASSUME NEW k \in lv .. i - 1
      PROVE  ToSet(F2[k]) = {b + Size(k)}
  <2>1. PICK n \in Nat : n = b + Size(k)
    BY <1>6
  <2>2. F2[k] = <<n>>
    BY <1>7, <2>1
  <2> QED BY <1>9, <2>1, <2>2
<1>10. ListsOK(F2)
  <2>1. F2 \in [Levels -> Seq(Nat)]
    <3>1. \A k \in Levels : F2[k] \in Seq(Nat)
      BY <1>3, <1>6, <1>7, <1>8, <1>9 DEF ListsOK
    <3>2. F2 = [k \in Levels |-> F2[k]]
      BY DEF SplitLists
    <3> QED BY <3>1, <3>2
  <2>2. ASSUME NEW k \in Levels PROVE Once(F2[k])
    BY <1>3, <1>6, <1>7, <1>8, <1>9 DEF ListsOK
  <2>3. F2[MAX_LEVEL] = <<>>
    BY <1>3, <1>6, <1>8, HeapSizes DEF ListsOK
  <2>4. ASSUME NEW k \in Levels, NEW a \in ToSet(F2[k])
        PROVE  get_buddy(a, k) \notin ToSet(F2[k])
    <3>1. CASE k \notin lv .. i - 1
      BY <1>3, <1>8, <3>1 DEF ListsOK
    <3>2. CASE k \in lv .. i - 1
      <4>1. ToSet(F2[k]) = {b + Size(k)} /\ a = b + Size(k) /\ a = get_buddy(b, k)
        BY <1>6, <1>a, <3>2
      <4>2. k \in Nat /\ k < i
        BY <1>5, <3>2
      <4>3. Aligned(b, k)
        BY <1>4, <1>5, <4>2, SplitFacts DEF BlockFits
      <4>4. get_buddy(a, k) = b
        BY <4>1, <4>2, <4>3, BuddyFacts
      <4>5. b # b + Size(k)
        BY <1>6, <3>2, HeapSizes
      <4> QED BY <4>1, <4>4, <4>5
    <3> QED BY <3>1, <3>2
  <2> QED BY <2>1, <2>2, <2>3, <2>4 DEF ListsOK
<1>11. FreeIn(F2) = FreeIn(F) \cup Halves(b, lv, i)
  <2>1. FreeIn(F2) \in SUBSET (Nat \X Levels) /\ FreeIn(F) \in SUBSET (Nat \X Levels)
    BY DEF FreeIn
  <2>2. Halves(b, lv, i) \in SUBSET (Nat \X Levels)
    BY <1>6 DEF Halves
  <2>3. ASSUME NEW a \in Nat, NEW l \in Levels
        PROVE  <<a, l>> \in FreeIn(F2) <=> <<a, l>> \in FreeIn(F) \cup Halves(b, lv, i)
    <3>1. <<a, l>> \in Halves(b, lv, i) <=> l \in lv .. i - 1 /\ a = b + Size(l)
      BY DEF Halves
    <3>2. CASE l \in lv .. i - 1
      <4>1. <<a, l>> \in FreeIn(F2) <=> a = b + Size(l)
        BY <1>6, <1>a, <3>2, FreeInIs
      <4>2. <<a, l>> \notin FreeIn(F)
        BY <3>2, FreeInIs, EmptySet
      <4> QED BY <3>1, <3>2, <4>1, <4>2
    <3>3. CASE l \notin lv .. i - 1
      <4>1. <<a, l>> \in FreeIn(F2) <=> <<a, l>> \in FreeIn(F)
        BY <1>8, <3>3, FreeInIs
      <4> QED BY <3>1, <3>3, <4>1
    <3> QED BY <3>2, <3>3
  <2>4. FreeIn(F) \cup Halves(b, lv, i) \in SUBSET (Nat \X Levels)
    BY <2>1, <2>2
  <2> QED BY <2>1, <2>3, <2>4, SameBlocks
<1>12. PICK U2 : U2 = V \cup {<<b, lv>>}
  OBVIOUS
<1>13. <<b, i>> \notin FreeIn(F)
  BY <1>0, <1>3
<1>14. FreeIn(F2) \cup U2 = (B \ {<<b, i>>}) \cup Pieces(b, lv, i)
  BY <1>0, <1>1, <1>11, <1>12, <1>13 DEF Pieces
<1>15. Tiles(FreeIn(F2) \cup U2, P)
  BY <1>3, <1>14, SplitTiles
<1>16. FreeIn(F2) \cap U2 = {}
  <2> SUFFICES ASSUME NEW x \in FreeIn(F2), x \in U2 PROVE FALSE
    OBVIOUS
  <2>1. PICK a \in Nat, l \in Levels : x = <<a, l>>
    BY DEF FreeIn
  <2>2. CASE x \in FreeIn(F)
    <3>1. x \notin U
      BY <1>3, <2>2
    <3>2. x = <<b, lv>> /\ x \in B /\ x # <<b, i>>
      BY <1>0, <1>1, <1>12, <2>2, <3>1
    <3>3. lv = i
      BY <1>3, <3>2, OneAt
    <3> QED BY <3>2, <3>3
  <2>3. CASE x \in Halves(b, lv, i)
    <3>1. l \in lv .. i - 1 /\ a = b + Size(l) /\ l # i
      BY <1>5, <2>1, <2>3 DEF Halves
    <3>2. a # b
      BY <3>1, HeapSizes
    <3>3. <<a, l>> \in V /\ <<a, l>> \in B
      BY <1>0, <1>1, <1>12, <2>1, <3>2
    <3>4. Clear(a, l, b, i)
      <4>1. <<a, l>> # <<b, i>>
        BY <3>2
      <4> QED BY <1>3, <3>3, <4>1 DEF Tiles
    <3>5. Size(l) + Size(l) <= Size(i)
      <4>1. l \in Nat /\ l < i
        BY <1>5, <3>1
      <4> QED BY <1>5, <4>1, SizeGrows
    <3> QED BY <3>1, <3>4, <3>5, HeapSizes DEF Clear
  <2> QED BY <1>11, <2>2, <2>3
<1> QED BY <1>2, <1>3, <1>10, <1>12, <1>15, <1>16 DEF Holds

\* free: a free buddy joins the block,
JoinsBuddy(F, i, b, c, F2, m) ==
    F2 = [F EXCEPT ![i] = RemoveFirst(F[i], c)] /\ m = IF b < c THEN b ELSE c

LEMMA MergeHolds ==
    ASSUME NEW F, NEW pg, NEW V, NEW b \in Nat, NEW i \in Levels, i # MAX_LEVEL,
           Holds(F, pg, V \cup {<<b, i>>}), <<b, i>> \notin V,
           NEW c, c = get_buddy(b, i), c \in ToSet(F[i]),
           NEW F2, NEW m, JoinsBuddy(F, i, b, c, F2, m)
    PROVE  /\ Holds(F2, pg, V \cup {<<m, i + 1>>}) /\ <<m, i + 1>> \notin V
           /\ m \in Nat /\ i + 1 \in Levels
<1>0. PICK U : U = V \cup {<<b, i>>}
  OBVIOUS
<1>j. F2 = [F EXCEPT ![i] = RemoveFirst(F[i], c)] /\ m = IF b < c THEN b ELSE c
  BY DEF JoinsBuddy
<1>1. PICK B : B = FreeIn(F) \cup U
  OBVIOUS
<1>2. PICK P : P = ToSet(pg)
  OBVIOUS
<1>3. /\ Tiles(B, P) /\ <<b, i>> \in B /\ ListsOK(F) /\ FreeIn(F) \cap U = {}
      /\ pg \in Seq(Nat) /\ Once(pg)
  BY <1>0, <1>1, <1>2 DEF Holds
<1>4. F[i] \in Seq(Nat) /\ Once(F[i]) /\ ToSet(F[i]) \in SUBSET Nat
  BY <1>3, ListFacts
<1>5. PICK s : s = RemoveFirst(F[i], c)
  OBVIOUS
<1>6. s \in Seq(Nat) /\ Once(s) /\ ToSet(s) = ToSet(F[i]) \ {c} /\ c \in Nat
  BY <1>4, <1>5, RemovedFirst
<1>7. /\ ListsOK(F2)
      /\ \A a \in Nat, l \in Levels : <<a, l>> \in FreeIn(F2) <=>
           IF l = i THEN a \in ToSet(s) ELSE <<a, l>> \in FreeIn(F)
  <2>1. F2 = [F EXCEPT ![i] = s]
    BY <1>5, <1>j
  <2>2. \A a \in ToSet(s) : get_buddy(a, i) \notin ToSet(s)
    BY <1>3, <1>6 DEF ListsOK
  <2> QED BY <1>3, <1>6, <2>1, <2>2, OneList
<1>8. <<c, i>> \in FreeIn(F) /\ \A a \in Nat : <<a, i>> \in FreeIn(F) <=> a \in ToSet(F[i])
  BY <1>6, FreeInIs
<1>9. FreeIn(F2) \in SUBSET (Nat \X Levels) /\ B \in SUBSET (Nat \X Levels)
  BY <1>3 DEF FreeIn, Tiles
<1>10. FreeIn(F2) = FreeIn(F) \ {<<c, i>>}
  <2>1. \A a \in Nat, l \in Levels :
            <<a, l>> \in FreeIn(F2) <=> <<a, l>> \in FreeIn(F) \ {<<c, i>>}
    BY <1>6, <1>7, <1>8
  <2>2. FreeIn(F) \ {<<c, i>>} \in SUBSET (Nat \X Levels)
    BY DEF FreeIn
  <2> QED BY <1>9, <2>1, <2>2, SameBlocks
<1>11. PICK B2 : B2 = (B \ {<<b, i>>, <<c, i>>}) \cup {<<m, i + 1>>}
  OBVIOUS
<1>12. <<c, i>> \in B
  BY <1>1, <1>8
<1>13. Tiles(B2, P) /\ m \in Nat /\ i + 1 \in Levels
  BY <1>3, <1>11, <1>12, <1>j, MergeTiles
<1>14. <<m, i + 1>> \notin B
  <2> SUFFICES ASSUME <<m, i + 1>> \in B PROVE FALSE
    OBVIOUS
  <2>1. <<m, i>> \in B
    BY <1>3, <1>12, <1>j
  <2>2. i = i + 1
    BY <1>3, <1>13, <2>1, OneAt
  <2> QED BY <2>2, HeapSizes
<1>15. <<b, i>> \notin FreeIn(F) /\ <<c, i>> \notin U
  BY <1>0, <1>3, <1>8
<1>16. PICK U2 : U2 = V \cup {<<m, i + 1>>}
  OBVIOUS
<1>17. FreeIn(F2) \cup U2 = B2
  BY <1>0, <1>1, <1>10, <1>11, <1>15, <1>16
<1>18. FreeIn(F2) \cap U2 = {}
  BY <1>0, <1>1, <1>3, <1>10, <1>14, <1>16
<1>19. Holds(F2, pg, U2)
  BY <1>2, <1>3, <1>7, <1>13, <1>17, <1>18 DEF Holds
<1> QED BY <1>0, <1>1, <1>13, <1>14, <1>16, <1>19

\* or the block goes to the list of its level,
LEMMA PlaceHolds ==
    ASSUME NEW F, NEW pg, NEW V, NEW b \in Nat, NEW i \in Levels, i # MAX_LEVEL,
           Holds(F, pg, V \cup {<<b, i>>}), <<b, i>> \notin V,
           get_buddy(b, i) \notin ToSet(F[i]),
           NEW F2, F2 = [F EXCEPT ![i] = <<b>> \o F[i]]
    PROVE  Holds(F2, pg, V)
<1>0. PICK U : U = V \cup {<<b, i>>}
  OBVIOUS
<1>1. PICK B : B = FreeIn(F) \cup U
  OBVIOUS
<1>2. PICK P : P = ToSet(pg)
  OBVIOUS
<1>3. /\ Tiles(B, P) /\ <<b, i>> \in B /\ ListsOK(F) /\ FreeIn(F) \cap U = {}
      /\ pg \in Seq(Nat) /\ Once(pg)
  BY <1>0, <1>1, <1>2 DEF Holds
<1>4. F[i] \in Seq(Nat) /\ Once(F[i]) /\ ToSet(F[i]) \in SUBSET Nat
  BY <1>3, ListFacts
<1>5. PICK s : s = <<b>> \o F[i]
  OBVIOUS
<1>6. <<b, i>> \notin FreeIn(F) /\ \A a \in Nat : <<a, i>> \in FreeIn(F) <=> a \in ToSet(F[i])
  BY <1>0, <1>3, FreeInIs
<1>7. s \in Seq(Nat) /\ Once(s) /\ ToSet(s) = ToSet(F[i]) \cup {b}
  BY <1>4, <1>5, <1>6, PushedOnce
<1>8. ASSUME NEW a \in ToSet(s) PROVE get_buddy(a, i) \notin ToSet(s)
  <2>1. a \in Nat /\ <<a, i>> \in B
    BY <1>0, <1>1, <1>4, <1>6, <1>7
  <2>2. Aligned(a, i) /\ i \in Nat
    BY <1>3, <2>1, HeapSizes DEF Tiles, BlockFits
  <2>3. get_buddy(get_buddy(a, i), i) = a
    BY <2>2, BuddyFacts
  <2>4. get_buddy(a, i) # a
    <3>1. get_buddy(a, i) = a + Size(i) \/ get_buddy(a, i) = a - Size(i)
      BY <2>2, BuddyFacts
    <3> QED BY <2>1, <3>1, HeapSizes
  <2>5. CASE a = b
    BY <1>7, <2>4, <2>5
  <2>6. CASE a \in ToSet(F[i])
    <3>1. get_buddy(a, i) \notin ToSet(F[i])
      BY <1>3, <2>6 DEF ListsOK
    <3>2. get_buddy(a, i) # b
      BY <2>3, <2>6
    <3> QED BY <1>7, <3>1, <3>2
  <2> QED BY <1>7, <2>5, <2>6
<1>9. /\ ListsOK(F2)
      /\ \A a \in Nat, l \in Levels : <<a, l>> \in FreeIn(F2) <=>
           IF l = i THEN a \in ToSet(s) ELSE <<a, l>> \in FreeIn(F)
  <2>1. F2 = [F EXCEPT ![i] = s]
    BY <1>5
  <2> QED BY <1>3, <1>7, <1>8, <2>1, OneList
<1>10. FreeIn(F2) = FreeIn(F) \cup {<<b, i>>}
  <2>1. \A a \in Nat, l \in Levels :
            <<a, l>> \in FreeIn(F2) <=> <<a, l>> \in FreeIn(F) \cup {<<b, i>>}
    BY <1>6, <1>7, <1>9
  <2>2. FreeIn(F) \cup {<<b, i>>} \in SUBSET (Nat \X Levels)
    BY DEF FreeIn
  <2>3. FreeIn(F2) \in SUBSET (Nat \X Levels)
    BY DEF FreeIn
  <2> QED BY <2>1, <2>2, <2>3, SameBlocks
<1>11. FreeIn(F2) \cup V = B
  BY <1>0, <1>1, <1>10
<1>12. FreeIn(F2) \cap V = {}
  BY <1>0, <1>3, <1>10
<1> QED BY <1>2, <1>3, <1>9, <1>11, <1>12 DEF Holds

\* or, as a whole page, back to MemAllocator.
LEMMA ReturnHolds ==
    ASSUME NEW F, NEW pg, NEW V, NEW b \in Nat,
           Holds(F, pg, V \cup {<<b, MAX_LEVEL>>}), <<b, MAX_LEVEL>> \notin V
    PROVE  Holds(F, <<b>> \o pg, V)
<1>0. PICK U : U = V \cup {<<b, MAX_LEVEL>>}
  OBVIOUS
<1>1. PICK B : B = FreeIn(F) \cup U
  OBVIOUS
<1>2. PICK P : P = ToSet(pg)
  OBVIOUS
<1>3. /\ Tiles(B, P) /\ <<b, MAX_LEVEL>> \in B /\ ListsOK(F) /\ FreeIn(F) \cap U = {}
      /\ pg \in Seq(Nat) /\ Once(pg)
  BY <1>0, <1>1, <1>2 DEF Holds
<1>4. PICK B2 : B2 = B \ {<<b, MAX_LEVEL>>}
  OBVIOUS
<1>5. Tiles(B2, P \cup {b}) /\ b \notin P
  BY <1>3, <1>4, ReturnTiles
<1>6. <<b>> \o pg \in Seq(Nat) /\ Once(<<b>> \o pg) /\ ToSet(<<b>> \o pg) = P \cup {b}
  BY <1>2, <1>3, <1>5, PushedOnce
<1>7. FreeIn(F) \cup V = B2
  BY <1>0, <1>1, <1>3, <1>4
<1>8. FreeIn(F) \cap V = {}
  BY <1>0, <1>3
<1> QED BY <1>3, <1>5, <1>6, <1>7, <1>8 DEF Holds

-----------------------------------------------------------------------------
(* alloc and free on the heap.  C are the pages that are coming: alloc has  *)
(* them from MemAllocator and has not written their header yet.             *)

Used(h) == {x \in Bytes \X Levels : h.level[x[1]] = x[2]}
Whole(C) == {x \in Nat \X Levels : x[1] \in C /\ x[2] = MAX_LEVEL}

HeapOK(h, C) ==
    /\ h = [freelist |-> h.freelist, pages |-> h.pages, level |-> h.level]
    /\ h.level \in [Bytes -> Levels \cup {-1}]
    /\ C \subseteq Bytes /\ \A p \in C : h.level[p] = -1
    /\ Holds(h.freelist, h.pages, Used(h) \cup Whole(C))

LevelsOK(h) == h.level \in [Bytes -> Levels \cup {-1}]
NotInUse(h, b) == h.level[b] = -1

LEMMA UsedIs ==
    ASSUME NEW h, NEW a, NEW l
    PROVE  <<a, l>> \in Used(h) <=> a \in Bytes /\ l \in Levels /\ h.level[a] = l
  BY DEF Used

LEMMA UsedTypes ==
    ASSUME NEW h
    PROVE  Used(h) \in SUBSET (Nat \X Levels)
  BY HeapSizes DEF Used

LEMMA LevelFree == -1 \notin Levels
  BY HeapSizes

\* The header of a block that was not in use is written.
LEMMA Headed ==
    ASSUME NEW h, LevelsOK(h),
           NEW h2, NEW b \in Bytes, NEW l \in Levels, NotInUse(h, b),
           h2.level = [h.level EXCEPT ![b] = l]
    PROVE  LevelsOK(h2) /\ Used(h2) = Used(h) \cup {<<b, l>>}
<1>1. h2.level \in [Bytes -> Levels \cup {-1}]
  BY DEF LevelsOK
<1>2. ASSUME NEW a \in Nat, NEW k \in Levels
      PROVE  <<a, k>> \in Used(h2) <=> <<a, k>> \in Used(h) \cup {<<b, l>>}
  <2>1. a \in Bytes => h2.level[a] = IF a = b THEN l ELSE h.level[a]
    BY DEF LevelsOK
  <2>2. h.level[b] # k
    BY LevelFree DEF NotInUse
  <2>3. CASE a = b
    <3>1. <<a, k>> \notin Used(h)
      BY <2>2, <2>3, UsedIs
    <3>2. <<a, k>> \in Used(h2) <=> k = l
      BY <2>1, <2>3, UsedIs
    <3> QED BY <2>3, <3>1, <3>2
  <2>4. CASE a # b
    <3>1. <<a, k>> \in Used(h2) <=> <<a, k>> \in Used(h)
      BY <2>1, <2>4, UsedIs
    <3> QED BY <2>4, <3>1
  <2> QED BY <2>3, <2>4
<1>3. b \in Nat
  BY HeapSizes
<1>4. Used(h) \cup {<<b, l>>} \in SUBSET (Nat \X Levels) /\ Used(h2) \in SUBSET (Nat \X Levels)
  BY <1>3, UsedTypes
<1> QED BY <1>1, <1>2, <1>4, SameBlocks DEF LevelsOK

\* The header of a block in use is cleared.
LEMMA Cleared ==
    ASSUME NEW h, h.level \in [Bytes -> Levels \cup {-1}],
           NEW h2, NEW b \in Bytes, NEW l \in Levels, h.level[b] = l,
           h2.level = [h.level EXCEPT ![b] = -1]
    PROVE  /\ h2.level \in [Bytes -> Levels \cup {-1}]
           /\ Used(h) = Used(h2) \cup {<<b, l>>} /\ <<b, l>> \notin Used(h2)
<1>1. h2.level \in [Bytes -> Levels \cup {-1}]
  OBVIOUS
<1>2. ASSUME NEW a \in Nat, NEW k \in Levels
      PROVE  <<a, k>> \in Used(h) <=> <<a, k>> \in Used(h2) \cup {<<b, l>>}
  <2>1. a \in Bytes => h2.level[a] = IF a = b THEN -1 ELSE h.level[a]
    OBVIOUS
  <2>2. -1 # k
    BY LevelFree
  <2> QED BY <2>1, <2>2, UsedIs
<1>3. b \in Nat
  BY HeapSizes
<1>4. Used(h2) \cup {<<b, l>>} \in SUBSET (Nat \X Levels) /\ Used(h) \in SUBSET (Nat \X Levels)
  BY <1>3, UsedTypes
<1>5. h2.level[b] = -1
  OBVIOUS
<1>6. <<b, l>> \notin Used(h2)
  BY <1>5, LevelFree, UsedIs
<1> QED BY <1>1, <1>2, <1>4, <1>6, SameBlocks

\* What alloc has found when it takes it: the first block of a list, or a
\* page, with the lists from lv up to it empty.
FirstFound(h, f, lv) ==
    /\ f.from = "freelist" /\ f.i \in Levels /\ lv <= f.i
    /\ f.list = h.freelist[f.i] /\ f.list # <<>>
    /\ \A k \in lv .. f.i - 1 : h.freelist[k] = <<>>

PageFound(h, f, lv, C) ==
    /\ f.from = "pages" /\ f.i = MAX_LEVEL /\ C = {Head(f.list)}
    /\ \A k \in lv .. MAX_LEVEL - 1 : h.freelist[k] = <<>>

CarveFrom(h, F, b, i, lv) ==
    [freelist |-> SplitLists(F, b, lv, i), pages |-> h.pages,
     level |-> [h.level EXCEPT ![b] = lv]]

EmptyFrom(F, lv, i) == \A k \in lv .. i - 1 : F[k] = <<>>

LEMMA CarveIs ==
    ASSUME NEW h, NEW F, F = h.freelist,
           NEW f, NEW lv, NEW b, b = Head(f.list), NEW i, i = f.i,
           NEW F2, F2 = Without(F, f),
           NEW h2, h2 = Carve(h, f, lv)
    PROVE  h2 = CarveFrom(h, F2, b, i, lv)
  BY Zenon DEF Carve, CarveFrom

LEMMA InBytes ==
    ASSUME NEW F, NEW pg, NEW U, Holds(F, pg, U),
           NEW b \in Nat, NEW l \in Levels, <<b, l>> \in U
    PROVE  b \in Bytes
<1>1. PICK B : B = FreeIn(F) \cup U
  OBVIOUS
<1>2. PICK P : P = ToSet(pg)
  OBVIOUS
<1>3. Tiles(B, P) /\ <<b, l>> \in B
  BY <1>1, <1>2 DEF Holds
<1>4. CoversByte(b, l, b)
  BY HeapSizes DEF CoversByte
<1> QED BY <1>3, <1>4, BlockBytes

LEMMA NotUsed ==
    ASSUME NEW h, LevelsOK(h), NEW a \in Bytes,
           \A l \in Levels : <<a, l>> \notin Used(h)
    PROVE  NotInUse(h, a)
<1>1. h.level[a] \in Levels => <<a, h.level[a]>> \in Used(h)
  BY UsedIs
<1> QED BY <1>1 DEF LevelsOK, NotInUse

CanCarve(h, F, b, i, lv) ==
    /\ LevelsOK(h) /\ i \in Levels /\ lv \in Levels /\ lv <= i /\ b \in Nat
    /\ Holds(F, h.pages, Used(h) \cup {<<b, i>>}) /\ <<b, i>> \notin Used(h)
    /\ EmptyFrom(F, lv, i) /\ NotInUse(h, b)

Carved(h, h2, b, lv) ==
    HeapOK(h2, {}) /\ b \in Bytes /\ NotInUse(h, b) /\ h2.level = [h.level EXCEPT ![b] = lv]

LEMMA CarveFromOK ==
    ASSUME NEW h, NEW F, NEW b, NEW i, NEW lv, CanCarve(h, F, b, i, lv),
           NEW h2, h2 = CarveFrom(h, F, b, i, lv)
    PROVE  Carved(h, h2, b, lv)
<1>0. PICK V : V = Used(h)
  OBVIOUS
<1>z. PICK pg : pg = h.pages
  OBVIOUS
<1>y. /\ LevelsOK(h) /\ i \in Levels /\ lv \in Levels /\ lv <= i /\ b \in Nat
      /\ Holds(F, pg, V \cup {<<b, i>>}) /\ <<b, i>> \notin V
      /\ EmptyFrom(F, lv, i) /\ NotInUse(h, b)
  BY <1>0, <1>z DEF CanCarve
<1>1. PICK F2 : F2 = SplitLists(F, b, lv, i)
  OBVIOUS
<1>2. Holds(F2, pg, V \cup {<<b, lv>>})
  BY <1>1, <1>y, SplitHolds DEF EmptyFrom
<1>3. h2 = [freelist |-> F2, pages |-> pg, level |-> [h.level EXCEPT ![b] = lv]]
  BY <1>1, <1>z DEF CarveFrom
<1>4. /\ h2.freelist = F2 /\ h2.pages = pg /\ h2.level = [h.level EXCEPT ![b] = lv]
      /\ h2 = [freelist |-> h2.freelist, pages |-> h2.pages, level |-> h2.level]
  BY <1>3
<1>5. b \in Bytes
  <2>1. PICK U : U = V \cup {<<b, lv>>}
    OBVIOUS
  <2>2. Holds(F2, pg, U) /\ <<b, lv>> \in U
    BY <1>2, <2>1
  <2> QED BY <1>y, <2>2, InBytes
<1>6. LevelsOK(h2) /\ Used(h2) = Used(h) \cup {<<b, lv>>}
  <2>1. h2.level = [h.level EXCEPT ![b] = lv]
    BY <1>4
  <2> QED BY <1>y, <1>5, <2>1, Headed
<1>7. Used(h2) \cup Whole({}) = V \cup {<<b, lv>>}
  BY <1>0, <1>6 DEF Whole
<1>8. Holds(h2.freelist, h2.pages, Used(h2) \cup Whole({}))
  BY <1>2, <1>4, <1>7
<1>9. HeapOK(h2, {})
  BY <1>4, <1>6, <1>8 DEF HeapOK, LevelsOK
<1> QED BY <1>y, <1>4, <1>5, <1>9 DEF Carved

\* C is the page that f has taken.
LookFound(h, f, lv, C) == (FirstFound(h, f, lv) /\ C = {}) \/ PageFound(h, f, lv, C)

LEMMA CarveOK ==
    ASSUME NEW h, NEW C, HeapOK(h, C), NEW f, NEW lv \in Levels,
           LookFound(h, f, lv, C),
           NEW b, b = Head(f.list), NEW h2, h2 = Carve(h, f, lv)
    PROVE  Carved(h, h2, b, lv)
<1>0. PICK F : F = h.freelist
  OBVIOUS
<1>a. PICK pg : pg = h.pages
  OBVIOUS
<1>1. /\ LevelsOK(h) /\ F \in [Levels -> Seq(Nat)]
      /\ Holds(F, pg, Used(h) \cup Whole(C))
  BY <1>0, <1>a DEF HeapOK, LevelsOK, Holds, ListsOK
<1>2. PICK i : i = f.i
  OBVIOUS
<1>3. PICK V : V = Used(h)
  OBVIOUS
<1>6. CASE FirstFound(h, f, lv) /\ C = {}
  <2>1. /\ f.from # "pages" /\ i \in Levels /\ lv <= i /\ F[i] # <<>>
        /\ b = Head(F[i]) /\ f.list = F[i]
        /\ \A k \in lv .. i - 1 : F[k] = <<>>
    BY <1>0, <1>2, <1>6 DEF FirstFound
  <2>2. Holds(F, pg, V)
    <3>1. Used(h) \cup Whole(C) = V
      BY <1>3, <1>6 DEF Whole
    <3> QED BY <1>1, <3>1
  <2>3. PICK F2 : F2 = [F EXCEPT ![i] = Tail(F[i])]
    OBVIOUS
  <2>4. /\ Holds(F2, pg, V \cup {<<b, i>>}) /\ b \in Nat
        /\ \A l \in Levels : <<b, l>> \notin V
    BY <2>1, <2>2, <2>3, FirstTaken
  <2>5. h2 = CarveFrom(h, F2, b, i, lv)
    <3>1. F2 = Without(F, f)
      BY <1>2, <2>1, <2>3 DEF Without
    <3> QED BY <1>0, <1>2, <3>1, CarveIs
  <2>6. EmptyFrom(F2, lv, i)
    <3> SUFFICES ASSUME NEW k \in lv .. i - 1 PROVE F2[k] = <<>>
      BY DEF EmptyFrom
    <3>1. k \in Levels /\ k # i
      BY <2>1, HeapSizes DEF Levels
    <3> QED BY <1>1, <2>1, <2>3, <3>1
  <2>7. b \in Bytes
    <3>1. PICK U : U = V \cup {<<b, i>>}
      OBVIOUS
    <3>2. Holds(F2, pg, U) /\ <<b, i>> \in U
      BY <2>4, <3>1
    <3> QED BY <2>1, <2>4, <3>2, InBytes
  <2>8. NotInUse(h, b)
    BY <1>1, <1>3, <2>4, <2>7, NotUsed
  <2>9. <<b, i>> \notin V
    BY <2>1, <2>4
  <2>10. CanCarve(h, F2, b, i, lv)
    BY <1>1, <1>a, <1>3, <2>1, <2>4, <2>6, <2>8, <2>9 DEF CanCarve
  <2> QED BY <2>5, <2>10, CarveFromOK
<1>7. CASE PageFound(h, f, lv, C)
  <2>1. /\ f.from = "pages" /\ i = MAX_LEVEL /\ C = {b}
        /\ EmptyFrom(F, lv, i)
    BY <1>0, <1>2, <1>7 DEF PageFound, EmptyFrom
  <2>2. b \in Bytes /\ b \in Nat /\ NotInUse(h, b)
    BY <2>1, HeapSizes DEF HeapOK, NotInUse
  <2>3. i \in Levels /\ lv <= i
    BY <2>1, HeapSizes DEF Levels
  <2>4. Whole(C) = {<<b, i>>}
    <3>1. Whole(C) \in SUBSET (Nat \X Levels) /\ {<<b, i>>} \in SUBSET (Nat \X Levels)
      BY <2>2, <2>3 DEF Whole
    <3>2. \A a \in Nat, l \in Levels : <<a, l>> \in Whole(C) <=> <<a, l>> \in {<<b, i>>}
      BY <2>1 DEF Whole
    <3> QED BY <3>1, <3>2, SameBlocks
  <2>5. <<b, i>> \notin V
    BY <1>3, <2>2, LevelFree, UsedIs DEF NotInUse
  <2>6. h2 = CarveFrom(h, F, b, i, lv)
    <3>1. F = Without(F, f)
      BY <2>1 DEF Without
    <3> QED BY <1>0, <1>2, <3>1, CarveIs
  <2>7. Holds(F, pg, V \cup {<<b, i>>})
    BY <1>1, <1>3, <2>4
  <2>10. CanCarve(h, F, b, i, lv)
    BY <1>1, <1>a, <1>3, <2>1, <2>2, <2>3, <2>5, <2>7 DEF CanCarve
  <2> QED BY <2>6, <2>10, CarveFromOK
<1> QED BY <1>6, <1>7 DEF LookFound

-----------------------------------------------------------------------------
(* free: the block joins free buddies, level by level.                      *)

Going(F, b, p) == [freelist |-> F, block |-> b, placed |-> p]

FreeInv(V, pg, s, i) ==
    \/ s = Going(s.freelist, s.block, TRUE) /\ Holds(s.freelist, pg, V)
    \/ /\ s = Going(s.freelist, s.block, FALSE) /\ s.block \in Nat
       /\ Holds(s.freelist, pg, V \cup {<<s.block, i>>}) /\ <<s.block, i>> \notin V

LEMMA GoingIs ==
    ASSUME NEW F, NEW b
    PROVE  /\ Going(F, b, TRUE).freelist = F /\ Going(F, b, TRUE).block = b
           /\ Going(F, b, FALSE).freelist = F /\ Going(F, b, FALSE).block = b
  BY DEF Going

LEMMA MergeAtOK ==
    ASSUME NEW V, NEW pg, NEW s, NEW i \in Levels, i # MAX_LEVEL, FreeInv(V, pg, s, i),
           NEW s2, s2 = MergeAt(s, i)
    PROVE  FreeInv(V, pg, s2, i + 1)
<1>0. PICK F : F = s.freelist
  OBVIOUS
<1>a. PICK b : b = s.block
  OBVIOUS
<1>1. CASE s = Going(F, b, TRUE) /\ Holds(F, pg, V)
  <2>1. s.placed
    BY <1>1 DEF Going
  <2>2. s2 = s
    BY <2>1 DEF MergeAt
  <2> QED BY <1>0, <1>a, <1>1, <2>2 DEF FreeInv
<1>2. CASE /\ s = Going(F, b, FALSE) /\ b \in Nat
           /\ Holds(F, pg, V \cup {<<b, i>>}) /\ <<b, i>> \notin V
  <2>1. ~s.placed
    BY <1>2 DEF Going
  <2>2. PICK c : c = get_buddy(b, i)
    OBVIOUS
  <2>3. F \in [Levels -> Seq(Nat)]
    BY <1>2 DEF Holds, ListsOK
  <2>4. s = [freelist |-> F, block |-> b, placed |-> FALSE]
    BY <1>2 DEF Going
  <2>5. CASE c \in ToSet(F[i])
    <3>1. s2 = [s EXCEPT !.freelist[i] = RemoveFirst(@, c), !.block = IF @ < c THEN @ ELSE c]
      BY <1>0, <1>a, <2>1, <2>2, <2>5 DEF MergeAt
    <3>2. PICK r : r = RemoveFirst(F[i], c)
      OBVIOUS
    <3>3. PICK F2 : F2 = [F EXCEPT ![i] = RemoveFirst(F[i], c)]
      OBVIOUS
    <3>4. PICK m : m = IF b < c THEN b ELSE c
      OBVIOUS
    <3>5. s2 = Going(F2, m, FALSE)
      BY <2>4, <3>1, <3>3, <3>4 DEF Going
    <3>a. JoinsBuddy(F, i, b, c, F2, m)
      BY <3>3, <3>4 DEF JoinsBuddy
    <3>6. /\ Holds(F2, pg, V \cup {<<m, i + 1>>}) /\ <<m, i + 1>> \notin V
          /\ m \in Nat
      BY <1>2, <2>2, <2>5, <3>a, MergeHolds
    <3>7. s2.freelist = F2 /\ s2.block = m
      BY <3>5 DEF Going
    <3>8. s2 = Going(s2.freelist, s2.block, FALSE)
      BY <3>5, <3>7
    <3> QED BY <3>6, <3>7, <3>8 DEF FreeInv
  <2>6. CASE c \notin ToSet(F[i])
    <3>1. s2 = [s EXCEPT !.freelist[i] = <<b>> \o @, !.placed = TRUE]
      BY <1>0, <1>a, <2>1, <2>2, <2>6 DEF MergeAt
    <3>3. PICK F2 : F2 = [F EXCEPT ![i] = <<b>> \o F[i]]
      OBVIOUS
    <3>5. s2 = Going(F2, b, TRUE)
      BY <2>4, <3>1, <3>3 DEF Going
    <3>6. Holds(F2, pg, V)
      BY <1>2, <2>2, <2>6, <3>3, PlaceHolds
    <3>7. s2.freelist = F2 /\ s2.block = b
      BY <3>5 DEF Going
    <3>8. s2 = Going(s2.freelist, s2.block, TRUE)
      BY <3>5, <3>7
    <3> QED BY <3>6, <3>7, <3>8 DEF FreeInv
  <2> QED BY <2>5, <2>6
<1> QED BY <1>0, <1>a, <1>1, <1>2 DEF FreeInv

\* The turns of the loop from level lo to hi, as a function.
Turns(F, b, lo, hi, u) ==
    u = [i \in lo .. hi |-> IF i = lo THEN Going(F, b, FALSE) ELSE MergeAt(u[i - 1], i - 1)]

LEMMA TurnsStart ==
    ASSUME NEW F, NEW b, NEW lo \in Nat
    PROVE  \E u : Turns(F, b, lo, lo, u)
<1>1. PICK u : u = [i \in lo .. lo |-> Going(F, b, FALSE)]
  OBVIOUS
<1>2. u = [i \in lo .. lo |-> IF i = lo THEN Going(F, b, FALSE) ELSE MergeAt(u[i - 1], i - 1)]
  BY <1>1
<1> QED BY <1>2 DEF Turns

LEMMA TurnsStep ==
    ASSUME NEW F, NEW b, NEW lo \in Nat, NEW h \in Nat, lo < h, NEW u, Turns(F, b, lo, h - 1, u)
    PROVE  \E v : Turns(F, b, lo, h, v)
<1>1. \A k \in lo .. h - 1 : u[k] = IF k = lo THEN Going(F, b, FALSE) ELSE MergeAt(u[k - 1], k - 1)
  BY DEF Turns
<1> DEFINE v == [k \in lo .. h |-> IF k = h THEN MergeAt(u[h - 1], h - 1) ELSE u[k]]
<1>2. \A k \in lo .. h : v[k] = IF k = lo THEN Going(F, b, FALSE) ELSE MergeAt(v[k - 1], k - 1)
  <2> SUFFICES ASSUME NEW k \in lo .. h
               PROVE  v[k] = IF k = lo THEN Going(F, b, FALSE) ELSE MergeAt(v[k - 1], k - 1)
    OBVIOUS
  <2>1. CASE k = h
    <3>1. h - 1 \in lo .. h /\ h - 1 # h
      OBVIOUS
    <3>2. v[h - 1] = u[h - 1]
      BY <3>1
    <3>3. v[h] = MergeAt(u[h - 1], h - 1)
      OBVIOUS
    <3>4. k # lo
      BY <2>1
    <3> HIDE DEF v
    <3> QED BY <2>1, <3>2, <3>3, <3>4
  <2>2. CASE k # h
    <3>1. k \in lo .. h - 1 /\ (k # lo => k - 1 \in lo .. h /\ k - 1 # h)
      BY <2>2
    <3>2. v[k] = u[k] /\ (k # lo => v[k - 1] = u[k - 1])
      BY <2>2, <3>1
    <3> HIDE DEF v
    <3> QED BY <1>1, <3>1, <3>2
  <2> QED BY <2>1, <2>2
<1>3. v = [k \in lo .. h |-> v[k]]
  OBVIOUS
<1>4. Turns(F, b, lo, h, v)
  <2> HIDE DEF v
  <2> QED BY <1>2, <1>3 DEF Turns
<1> HIDE DEF v
<1> QED BY <1>4

LEMMA TurnsExist ==
    ASSUME NEW F, NEW b, NEW lo \in Nat, NEW hi \in Nat, lo <= hi
    PROVE  \E u : Turns(F, b, lo, hi, u)
<1> DEFINE Bad == {h \in lo .. hi : ~\E u : Turns(F, b, lo, h, u)}
<1>1. ASSUME Bad # {} PROVE FALSE
  <2>1. Bad \in SUBSET Nat
    OBVIOUS
  <2>2. PICK h \in Bad : \A j \in Bad : h <= j
    <3> HIDE DEF Bad
    <3> QED BY <1>1, <2>1, FirstOf
  <2>3. h \in lo .. hi /\ ~\E u : Turns(F, b, lo, h, u)
    BY <2>2
  <2>4. h # lo
    BY <2>3, TurnsStart
  <2>5. h - 1 \in lo .. hi /\ h - 1 \notin Bad /\ h \in Nat /\ lo < h
    <3> HIDE DEF Bad
    <3> QED BY <2>1, <2>2, <2>3, <2>4
  <2>6. PICK u : Turns(F, b, lo, h - 1, u)
    BY <2>5
  <2> HIDE DEF Bad
  <2> QED BY <2>3, <2>5, <2>6, TurnsStep
<1>2. hi \in lo .. hi
  OBVIOUS
<1> QED BY <1>1, <1>2

LEMMA TurnsOK ==
    ASSUME NEW F, NEW b \in Nat, NEW lo \in Levels, NEW V, NEW pg,
           Holds(F, pg, V \cup {<<b, lo>>}), <<b, lo>> \notin V,
           NEW u, Turns(F, b, lo, MAX_LEVEL, u)
    PROVE  FreeInv(V, pg, u[MAX_LEVEL], MAX_LEVEL)
<1>0. lo \in Nat /\ MAX_LEVEL \in Nat /\ lo <= MAX_LEVEL /\ Levels = 0 .. MAX_LEVEL
  BY HeapSizes DEF Levels
<1>1. \A k \in lo .. MAX_LEVEL : u[k] = IF k = lo THEN Going(F, b, FALSE) ELSE MergeAt(u[k - 1], k - 1)
  BY DEF Turns
<1> DEFINE Off == {k \in lo .. MAX_LEVEL : ~FreeInv(V, pg, u[k], k)}
<1>2. FreeInv(V, pg, u[lo], lo)
  <2>1. PICK s : s = u[lo]
    OBVIOUS
  <2>2. s = Going(F, b, FALSE)
    <3>1. lo \in lo .. MAX_LEVEL
      BY <1>0
    <3> QED BY <1>1, <2>1, <3>1
  <2>3. s.freelist = F /\ s.block = b /\ s = Going(s.freelist, s.block, FALSE)
    BY <2>2, GoingIs
  <2>4. FreeInv(V, pg, s, lo)
    BY <2>3 DEF FreeInv
  <2> QED BY <2>1, <2>4
<1>3. ASSUME Off # {} PROVE FALSE
  <2>1. Off \in SUBSET Nat
    BY <1>0
  <2>2. PICK k \in Off : \A j \in Off : k <= j
    <3> HIDE DEF Off
    <3> QED BY <1>3, <2>1, FirstOf
  <2>3. k \in lo .. MAX_LEVEL /\ ~FreeInv(V, pg, u[k], k)
    BY <2>2
  <2>4. k # lo
    BY <1>2, <2>3
  <2>5. PICK j : j = k - 1
    OBVIOUS
  <2>6. j \in lo .. MAX_LEVEL /\ j \notin Off /\ j \in Levels /\ j # MAX_LEVEL /\ k = j + 1
    <3>1. k - 1 \in lo .. MAX_LEVEL /\ k - 1 \notin Off /\ k - 1 # MAX_LEVEL /\ k = (k - 1) + 1
      <4> HIDE DEF Off
      <4> QED BY <1>0, <2>1, <2>2, <2>3, <2>4
    <3> HIDE DEF Off
    <3> QED BY <1>0, <2>5, <3>1
  <2>7. PICK s : s = u[j]
    OBVIOUS
  <2>8. FreeInv(V, pg, s, j)
    BY <2>6, <2>7
  <2>9. PICK s2 : s2 = u[k]
    OBVIOUS
  <2>10. s2 = MergeAt(s, j)
    BY <1>1, <2>3, <2>4, <2>5, <2>7, <2>9
  <2>11. FreeInv(V, pg, s2, j + 1)
    BY <2>6, <2>8, <2>10, MergeAtOK
  <2> QED BY <2>3, <2>6, <2>9, <2>11
<1>4. MAX_LEVEL \in lo .. MAX_LEVEL
  BY <1>0
<1> QED BY <1>3, <1>4

LEMMA FreeOK ==
    ASSUME NEW h, HeapOK(h, {}), NEW b \in Bytes, ~NotInUse(h, b),
           NEW h2, h2 = buddy_free(h, b)
    PROVE  HeapOK(h2, {}) /\ h2.level = [h.level EXCEPT ![b] = -1]
<1> DEFINE lv == h.level[b]
<1> DEFINE m[i \in lv .. MAX_LEVEL] ==
              IF i = lv THEN [freelist |-> h.freelist, block |-> b, placed |-> FALSE]
                        ELSE MergeAt(m[i - 1], i - 1)
<1>1. PICK e : e = m[MAX_LEVEL]
  OBVIOUS
<1>2. PICK pg2 : pg2 = IF e.placed THEN h.pages ELSE <<e.block>> \o h.pages
  OBVIOUS
<1>3. PICK L2 : L2 = [h.level EXCEPT ![b] = -1]
  OBVIOUS
<1>4. h2 = [freelist |-> m[MAX_LEVEL].freelist,
            pages |-> IF m[MAX_LEVEL].placed THEN h.pages ELSE <<m[MAX_LEVEL].block>> \o h.pages,
            level |-> [h.level EXCEPT ![b] = -1]]
  BY Zenon DEF buddy_free
<1>5. PICK F : F = h.freelist
  OBVIOUS
<1>6. Turns(F, b, lv, MAX_LEVEL, m)
  <2>1. lv \in Nat /\ lv <= MAX_LEVEL /\ MAX_LEVEL \in Nat
    BY HeapSizes DEF HeapOK, NotInUse, Levels
  <2>2. PICK u : Turns(F, b, lv, MAX_LEVEL, u)
    BY <2>1, TurnsExist
  <2>3. u = [i \in lv .. MAX_LEVEL |->
              IF i = lv THEN [freelist |-> h.freelist, block |-> b, placed |-> FALSE]
                        ELSE MergeAt(u[i - 1], i - 1)]
    BY <1>5, <2>2 DEF Turns, Going
  <2>4. m = [i \in lv .. MAX_LEVEL |->
              IF i = lv THEN [freelist |-> h.freelist, block |-> b, placed |-> FALSE]
                        ELSE MergeAt(m[i - 1], i - 1)]
    BY <2>3
  <2> HIDE DEF m
  <2> QED BY <1>5, <2>4 DEF Turns, Going
<1> HIDE DEF m
<1>7. h2 = [freelist |-> e.freelist, pages |-> pg2, level |-> L2]
  BY <1>1, <1>2, <1>3, <1>4
<1>8. PICK V : V = Used(h2)
  OBVIOUS
<1>9. /\ h2.freelist = e.freelist /\ h2.pages = pg2 /\ h2.level = L2
      /\ h2 = [freelist |-> h2.freelist, pages |-> h2.pages, level |-> h2.level]
  BY <1>7
<1>10. lv \in Levels /\ LevelsOK(h) /\ Holds(F, h.pages, Used(h) \cup Whole({}))
  BY <1>5 DEF HeapOK, NotInUse, LevelsOK
<1> HIDE DEF lv
<1>l. PICK l \in Levels : l = lv
  BY <1>10
<1>11. LevelsOK(h2) /\ Used(h) = V \cup {<<b, l>>} /\ <<b, l>> \notin V
  <2>1. h2.level = [h.level EXCEPT ![b] = -1]
    BY <1>3, <1>9
  <2>2. h.level[b] = l
    BY <1>l DEF lv
  <2> QED BY <1>8, <1>10, <2>1, <2>2, Cleared DEF LevelsOK
<1>12. PICK pg : pg = h.pages
  OBVIOUS
<1>13. Holds(F, pg, V \cup {<<b, l>>})
  BY <1>10, <1>11, <1>12 DEF Whole
<1>14. FreeInv(V, pg, e, MAX_LEVEL)
  <2>1. Turns(F, b, l, MAX_LEVEL, m) /\ b \in Nat
    BY <1>6, <1>l, HeapSizes
  <2> QED BY <1>1, <1>11, <1>13, <2>1, TurnsOK
<1>15. Holds(e.freelist, pg2, V)
  <2>1. CASE e = Going(e.freelist, e.block, TRUE) /\ Holds(e.freelist, pg, V)
    <3>1. e.placed
      BY <2>1 DEF Going
    <3> QED BY <1>2, <1>12, <2>1, <3>1
  <2>2. CASE /\ e = Going(e.freelist, e.block, FALSE) /\ e.block \in Nat
             /\ Holds(e.freelist, pg, V \cup {<<e.block, MAX_LEVEL>>})
             /\ <<e.block, MAX_LEVEL>> \notin V
    <3>1. ~e.placed
      BY <2>2 DEF Going
    <3>2. PICK c : c = e.block
      OBVIOUS
    <3>3. PICK G : G = e.freelist
      OBVIOUS
    <3>4. Holds(G, <<c>> \o pg, V)
      BY <2>2, <3>2, <3>3, ReturnHolds
    <3> QED BY <1>2, <1>12, <3>1, <3>2, <3>3, <3>4
  <2> QED BY <1>14, <2>1, <2>2 DEF FreeInv
<1>16. V \cup Whole({}) = V
  BY DEF Whole
<1>17. HeapOK(h2, {})
  BY <1>8, <1>9, <1>11, <1>15, <1>16 DEF HeapOK, LevelsOK
<1> QED BY <1>3, <1>9, <1>17

-----------------------------------------------------------------------------
(* What alloc finds.                                                        *)

LEMMA CalcLevel ==
    ASSUME NEW n \in Nat, n <= PageSize
    PROVE  calc_level(n) \in Levels /\ n <= Size(calc_level(n))
<1> DEFINE Big == {l \in MIN_LEVEL .. MAX_LEVEL : n <= Size(l)}
<1>1. MIN_LEVEL .. MAX_LEVEL \in SUBSET Levels /\ MAX_LEVEL \in Big /\ Big \in SUBSET Nat
  BY HeapSizes DEF Levels
<1>2. PICK l \in Big : \A j \in Big : l <= j
  <2> HIDE DEF Big
  <2> QED BY <1>1, FirstOf
<1>3. n <= 2 ^ l /\ \A k \in MIN_LEVEL .. l - 1 : n > 2 ^ k
  <2>1. n <= 2 ^ l
    BY <1>2 DEF Size
  <2>2. ASSUME NEW k \in MIN_LEVEL .. l - 1 PROVE n > 2 ^ k
    <3>1. k \in MIN_LEVEL .. MAX_LEVEL /\ k \notin Big
      BY <1>1, <1>2, HeapSizes
    <3>2. ~(n <= Size(k)) /\ Size(k) \in Nat
      BY <1>1, <3>1, HeapSizes
    <3> QED BY <3>2 DEF Size
  <2> QED BY <2>1, <2>2
<1>4. /\ calc_level(n) \in MIN_LEVEL .. MAX_LEVEL /\ n <= 2 ^ calc_level(n)
  <2>1. l \in MIN_LEVEL .. MAX_LEVEL
    BY <1>2
  <2> QED BY <1>3, <2>1 DEF calc_level
<1> QED BY <1>1, <1>4 DEF Size

FoundRecords == [from : {"pages", "freelist"}, i : Levels, list : Seq(Nat)]

LEMMA FoundOK ==
    ASSUME NEW h, HeapOK(h, {}), NEW lv \in Levels, NEW f, f = Found(h, lv)
    PROVE  /\ f \in FoundRecords
           /\ \/ f.from = "pages" /\ f.i = MAX_LEVEL /\ f.list = h.pages
                 /\ \A k \in lv .. MAX_LEVEL - 1 : h.freelist[k] = <<>>
              \/ FirstFound(h, f, lv)
<1> DEFINE at == {i \in lv .. MAX_LEVEL : h.freelist[i] # <<>>}
<1>1. /\ h.freelist \in [Levels -> Seq(Nat)] /\ h.pages \in Seq(Nat)
      /\ lv \in Nat /\ MAX_LEVEL \in Nat /\ Levels = 0 .. MAX_LEVEL /\ MAX_LEVEL \in Levels
  BY HeapSizes DEF HeapOK, Holds, ListsOK, Levels
<1>2. CASE at = {}
  <2>1. f = [from |-> "pages", i |-> MAX_LEVEL, list |-> h.pages]
    BY <1>2 DEF Found
  <2>2. f.from = "pages" /\ f.i = MAX_LEVEL /\ f.list = h.pages /\ f \in FoundRecords
    BY <1>1, <2>1 DEF FoundRecords
  <2>3. ASSUME NEW k \in lv .. MAX_LEVEL - 1 PROVE h.freelist[k] = <<>>
    <3>1. k \in lv .. MAX_LEVEL
      BY <1>1
    <3>2. k \notin at
      BY <1>2
    <3> QED BY <3>1, <3>2
  <2> QED BY <2>2, <2>3
<1>3. CASE at # {}
  <2>1. at \in SUBSET Nat
    BY <1>1
  <2>2. PICK i : i = CHOOSE n \in at : \A j \in at : n <= j
    OBVIOUS
  <2>3. i \in at /\ \A j \in at : i <= j
    <3>1. \E j \in at : \A k \in at : j <= k
      <4> HIDE DEF at
      <4> QED BY <1>3, <2>1, FirstOf
    <3> HIDE DEF at
    <3> QED BY <2>2, <3>1
  <2>4. f = [from |-> "freelist", i |-> i, list |-> h.freelist[i]]
    BY <1>3, <2>2 DEF Found
  <2>5. i \in Levels /\ lv <= i /\ h.freelist[i] # <<>> /\ i \in Nat
    BY <1>1, <2>3
  <2>6. f.from = "freelist" /\ f.i = i /\ f.list = h.freelist[i] /\ f \in FoundRecords
    BY <1>1, <2>4, <2>5 DEF FoundRecords
  <2>7. \A k \in lv .. i - 1 : h.freelist[k] = <<>>
    BY <1>1, <2>3, <2>5
  <2>8. FirstFound(h, f, lv)
    BY <2>5, <2>6, <2>7 DEF FirstFound
  <2> QED BY <2>6, <2>8
<1> QED BY <1>2, <1>3

PageBy(f) == IF f.from = "pages" THEN {Head(f.list)} ELSE {}

LEMMA LookedOK ==
    ASSUME NEW h, HeapOK(h, {}), NEW lv \in Levels, NEW f, f = Found(h, lv), f.list # <<>>,
           NEW h1, h1 = WithoutPage(h, f)
    PROVE  /\ HeapOK(h1, PageBy(f)) /\ LookFound(h1, f, lv, PageBy(f)) /\ h1.level = h.level
           /\ f \in FoundRecords
<1>1. f \in FoundRecords
  BY FoundOK
<1>2. CASE f.from = "pages" /\ f.i = MAX_LEVEL /\ f.list = h.pages
           /\ \A k \in lv .. MAX_LEVEL - 1 : h.freelist[k] = <<>>
  <2>1. PICK F : F = h.freelist
    OBVIOUS
  <2>2. PICK pg : pg = h.pages
    OBVIOUS
  <2>3. PICK L : L = h.level
    OBVIOUS
  <2>4. h = [freelist |-> F, pages |-> pg, level |-> L]
    BY <2>1, <2>2, <2>3 DEF HeapOK
  <2>5. PICK pg2 : pg2 = Tail(pg)
    OBVIOUS
  <2>6. h1 = [freelist |-> F, pages |-> pg2, level |-> L]
    <3>1. h1 = [h EXCEPT !.pages = Tail(h.pages)]
      BY <1>2 DEF WithoutPage
    <3>2. h1 = [h EXCEPT !.pages = pg2]
      BY <2>2, <2>5, <3>1
    <3> QED BY <2>4, <3>2
  <2>7. /\ h1.freelist = F /\ h1.pages = pg2 /\ h1.level = L
        /\ h1 = [freelist |-> h1.freelist, pages |-> h1.pages, level |-> h1.level]
    BY <2>6
  <2>8. PICK p : p = Head(pg)
    OBVIOUS
  <2>9. PICK U : U = Used(h)
    OBVIOUS
  <2>10. Holds(F, pg, U)
    BY <2>1, <2>2, <2>9 DEF HeapOK, Whole
  <2>11. /\ Holds(F, pg2, U \cup {<<p, MAX_LEVEL>>}) /\ p \in Nat
         /\ \A l \in Levels : <<p, l>> \notin U
    <3>1. pg # <<>>
      BY <1>2, <2>2
    <3> QED BY <2>5, <2>8, <2>10, <3>1, PageTaken
  <2>12. PageBy(f) = {p}
    BY <1>2, <2>2, <2>8 DEF PageBy
  <2>13. Used(h1) = U
    BY <2>3, <2>7, <2>9 DEF Used
  <2>14. Whole({p}) = {<<p, MAX_LEVEL>>}
    <3>1. Whole({p}) \in SUBSET (Nat \X Levels) /\ {<<p, MAX_LEVEL>>} \in SUBSET (Nat \X Levels)
      BY <2>11, HeapSizes DEF Whole
    <3>2. \A a \in Nat, l \in Levels : <<a, l>> \in Whole({p}) <=> <<a, l>> \in {<<p, MAX_LEVEL>>}
      BY DEF Whole
    <3> QED BY <3>1, <3>2, SameBlocks
  <2>15. p \in Bytes
    <3>1. PICK U2 : U2 = U \cup {<<p, MAX_LEVEL>>}
      OBVIOUS
    <3>2. Holds(F, pg2, U2) /\ <<p, MAX_LEVEL>> \in U2
      BY <2>11, <3>1
    <3> QED BY <2>11, <3>2, HeapSizes, InBytes
  <2>16. LevelsOK(h) /\ LevelsOK(h1)
    BY <2>3, <2>7 DEF HeapOK, LevelsOK
  <2>17. NotInUse(h1, p)
    BY <2>11, <2>13, <2>15, <2>16, NotUsed
  <2>18. HeapOK(h1, {p})
    <3>1. Holds(h1.freelist, h1.pages, Used(h1) \cup Whole({p}))
      BY <2>7, <2>11, <2>13, <2>14
    <3> QED BY <2>7, <2>15, <2>16, <2>17, <3>1 DEF HeapOK, LevelsOK, NotInUse
  <2>19. PageFound(h1, f, lv, {p})
    BY <1>2, <2>1, <2>2, <2>7, <2>8 DEF PageFound
  <2> QED BY <1>1, <2>3, <2>7, <2>12, <2>18, <2>19 DEF LookFound
<1>3. CASE FirstFound(h, f, lv)
  <2>1. h1 = h /\ PageBy(f) = {}
    BY <1>3 DEF FirstFound, WithoutPage, PageBy
  <2> QED BY <1>1, <1>3, <2>1 DEF LookFound
<1> QED BY <1>2, <1>3, FoundOK

LEMMA AllocOK ==
    ASSUME NEW h, HeapOK(h, {}), NEW size, size + HeaderSize \in Nat,
           size + HeaderSize <= PageSize, HasRoom(h, size),
           NEW h2, h2 = buddy_alloc(h, size), NEW b, b = Placed(h, size)
    PROVE  \E lv \in Levels : Carved(h, h2, b, lv)
<1>1. PICK n \in Nat : n = size + HeaderSize
  OBVIOUS
<1>2. PICK lv \in Levels : lv = calc_level(n)
  BY <1>1, CalcLevel
<1>3. PICK f : f = Found(h, lv)
  OBVIOUS
<1>4. PICK h1 : h1 = WithoutPage(h, f)
  OBVIOUS
<1>5. f.list # <<>> /\ b = Head(f.list) /\ h2 = Carve(h1, f, lv)
  BY <1>1, <1>2, <1>3, <1>4 DEF HasRoom, Placed, buddy_alloc
<1>6. PICK C : C = PageBy(f)
  OBVIOUS
<1>7. HeapOK(h1, C) /\ LookFound(h1, f, lv, C) /\ h1.level = h.level
  BY <1>3, <1>4, <1>5, <1>6, LookedOK
<1>8. Carved(h1, h2, b, lv)
  BY <1>5, <1>7, CarveOK
<1>9. Carved(h, h2, b, lv)
  BY <1>7, <1>8 DEF Carved, NotInUse
<1> QED BY <1>9

-----------------------------------------------------------------------------
(* The blocks of a state of the heap.                                       *)

ComingOf(lk) ==
    {Head(lk[u].found.list) : u \in {v \in Users : lk[v] # Nobody /\ lk[v].found.from = "pages"}}

ComingPages == ComingOf(look)

LEMMA BlocksAre ==
    ASSUME NEW F, F = heap.freelist, NEW C, C = ComingPages, NEW U, U = Used(heap) \cup Whole(C),
           HeapOK(heap, C)
    PROVE  Blocks = FreeIn(F) \cup U
<1>1. /\ F \in [Levels -> Seq(Nat)] /\ heap.level \in [Bytes -> Levels \cup {-1}]
      /\ U \in SUBSET (Nat \X Levels) /\ FreeIn(F) \in SUBSET (Nat \X Levels) /\ C \in SUBSET Bytes
      /\ \A l \in Levels : ToSet(F[l]) \in SUBSET Nat
  <2>1. Holds(F, heap.pages, U)
    BY DEF HeapOK
  <2>2. ListsOK(F)
    BY <2>1 DEF Holds
  <2>3. F \in [Levels -> Seq(Nat)]
    BY <2>2 DEF ListsOK
  <2> QED BY <2>1, <2>2, <2>3, ListFacts, HoldsTypes DEF HeapOK
<1>2. Bytes \in SUBSET Nat /\ MAX_LEVEL \in Levels
  BY HeapSizes
<1>3. ASSUME NEW a, NEW l
      PROVE  <<a, l>> \in Free <=> <<a, l>> \in FreeIn(F)
  <2>1. <<a, l>> \in Free <=> l \in Levels /\ a \in ToSet(F[l])
    BY DEF Free
  <2> QED BY <1>1, <2>1, FreeInIs
<1>4. ASSUME NEW a, NEW l
      PROVE  <<a, l>> \in Coming <=> <<a, l>> \in Whole(C)
  <2>1. <<a, l>> \in Coming <=> l = MAX_LEVEL /\ a \in C
    BY DEF Coming, ComingPages, ComingOf
  <2> QED BY <1>1, <1>2, <2>1 DEF Whole
<1>5. PICK T : T = {<<b, heap.level[b]>> : b \in InUse}
  OBVIOUS
<1>6. ASSUME NEW a, NEW l
      PROVE  <<a, l>> \in T <=> <<a, l>> \in Used(heap)
  <2>1. <<a, l>> \in T <=> a \in Bytes /\ heap.level[a] # -1 /\ l = heap.level[a]
    BY <1>5 DEF InUse
  <2> QED BY <1>1, <2>1, LevelFree, UsedIs
<1>7. Blocks \in SUBSET (Nat \X Levels)
  <2>1. \A x \in Free : x = <<x[1], x[2]>> /\ x[1] \in Nat /\ x[2] \in Levels
    BY <1>1 DEF Free
  <2>2. \A x \in Coming : x = <<x[1], x[2]>> /\ x[1] \in Nat /\ x[2] \in Levels
    BY <1>1, <1>2 DEF Coming, ComingPages, ComingOf
  <2>3. \A x \in T : x = <<x[1], x[2]>> /\ x[1] \in Nat /\ x[2] \in Levels
    BY <1>1, <1>2, <1>5 DEF InUse
  <2>4. Blocks = Free \cup Coming \cup T
    BY <1>5 DEF Blocks
  <2>5. \A x \in Blocks : x \in Nat \X Levels
    BY <2>1, <2>2, <2>3, <2>4
  <2> QED BY <2>5
<1>8. \A a \in Nat, l \in Levels : <<a, l>> \in Blocks <=> <<a, l>> \in FreeIn(F) \cup U
  BY <1>3, <1>4, <1>5, <1>6 DEF Blocks
<1>9. FreeIn(F) \cup U \in SUBSET (Nat \X Levels)
  BY <1>1
<1> QED BY <1>7, <1>8, <1>9, SameBlocks

LEMMA OneBlock ==
    ASSUME NEW B, NEW P, Tiles(B, P), NEW x \in Bytes
    PROVE  Cardinality({b \in B : x \in b[1] .. b[1] + 2 ^ b[2] - 1})
             = IF PageOf(x) \in P THEN 0 ELSE 1
<1>1. PICK S : S = {b \in B : x \in b[1] .. b[1] + 2 ^ b[2] - 1}
  OBVIOUS
<1>2. B \in SUBSET (Nat \X Levels) /\ x \in Nat
  BY HeapSizes DEF Tiles
<1>3. ASSUME NEW a \in Nat, NEW l \in Levels
      PROVE  <<a, l>> \in S <=> <<a, l>> \in B /\ CoversByte(a, l, x)
  <2>1. PICK s \in Nat : s = Size(l)
    BY HeapSizes
  <2>2. x \in a .. a + s - 1 <=> a <= x /\ x < a + s
    BY <1>2
  <2>3. <<a, l>> \in S <=> <<a, l>> \in B /\ x \in a .. a + 2 ^ l - 1
    BY <1>1
  <2> QED BY <2>1, <2>2, <2>3 DEF Size, CoversByte
<1>4. S \in SUBSET (Nat \X Levels)
  BY <1>1, <1>2
<1>5. CASE PageOf(x) \in P
  <2>1. ~Covered(B, x)
    BY <1>5 DEF Tiles
  <2>2. \A a \in Nat, l \in Levels : <<a, l>> \notin S
    BY <1>3, <2>1 DEF Covered
  <2>3. S = {}
    <3>1. \A b \in S : b = <<b[1], b[2]>> /\ b[1] \in Nat /\ b[2] \in Levels
      BY <1>4
    <3> QED BY <2>2, <3>1
  <2>4. Cardinality(S) = 0
    BY <2>3, FS_EmptySet
  <2> QED BY <1>1, <1>5, <2>4
<1>6. CASE PageOf(x) \notin P
  <2>1. Covered(B, x)
    BY <1>6 DEF Tiles
  <2>2. PICK l \in Levels, a \in Nat : <<a, l>> \in B /\ CoversByte(a, l, x)
    BY <2>1 DEF Covered
  <2>3. ASSUME NEW b \in Nat, NEW k \in Levels, <<b, k>> \in S
        PROVE  <<b, k>> = <<a, l>>
    <3>1. CoversByte(b, k, x) /\ <<b, k>> \in B
      BY <1>3, <2>3
    <3>2. ~Clear(a, l, b, k)
      BY <1>2, <2>2, <3>1, HeapSizes DEF CoversByte, Clear
    <3> QED BY <2>2, <3>1, <3>2 DEF Tiles
  <2>4. S = {<<a, l>>}
    <3>1. \A b \in S : b = <<b[1], b[2]>> /\ b[1] \in Nat /\ b[2] \in Levels
      BY <1>4
    <3>2. <<a, l>> \in S
      BY <1>3, <2>2
    <3> QED BY <2>3, <3>1, <3>2
  <2>5. Cardinality(S) = 1
    BY <2>4, FS_Singleton
  <2> QED BY <1>1, <1>6, <2>5
<1> QED BY <1>5, <1>6

\* An object is in use and fits behind its header.
ObjectsFit == \A o \in objects : o.at \in InUse /\ o.size + HeaderSize <= Size(heap.level[o.at])

LEMMA OwnedBlocks ==
    ASSUME HeapOK(heap, ComingPages), ObjectsFit
    PROVE  BlocksOwned
<1>1. PICK F : F = heap.freelist
  OBVIOUS
<1>2. PICK C : C = ComingPages
  OBVIOUS
<1>3. PICK U : U = Used(heap) \cup Whole(C)
  OBVIOUS
<1>4. PICK B : B = FreeIn(F) \cup U
  OBVIOUS
<1>5. PICK P : P = ToSet(heap.pages)
  OBVIOUS
<1>6. Holds(F, heap.pages, U) /\ HeapOK(heap, C)
  BY <1>1, <1>2, <1>3 DEF HeapOK
<1>7. Tiles(B, P) /\ ListsOK(F) /\ Once(heap.pages)
  BY <1>4, <1>5, <1>6 DEF Holds
<1>8. Blocks = B
  BY <1>1, <1>2, <1>3, <1>4, <1>6, BlocksAre
<1>9. ASSUME NEW x \in Bytes
      PROVE  Cardinality({b \in Blocks : x \in b[1] .. b[1] + 2 ^ b[2] - 1})
               = IF PageSize * (x \div PageSize) \in ToSet(heap.pages) THEN 0 ELSE 1
  BY <1>5, <1>7, <1>8, OneBlock DEF PageOf
<1>10. /\ \A l \in Levels : IsInjective(heap.freelist[l])
       /\ IsInjective(heap.pages) /\ heap.freelist[MAX_LEVEL] = <<>>
  BY <1>1, <1>7 DEF ListsOK, Once
<1>11. \A l \in 0 .. MAX_LEVEL - 1 : \A a \in ToSet(heap.freelist[l]) :
         get_buddy(a, l) \notin ToSet(heap.freelist[l])
  <2>1. 0 .. MAX_LEVEL - 1 \in SUBSET Levels
    BY HeapSizes DEF Levels
  <2> QED BY <1>1, <1>7, <2>1 DEF ListsOK
<1>12. \A o \in objects : o.at \in InUse /\ o.size + HeaderSize <= 2 ^ heap.level[o.at]
  BY DEF ObjectsFit, Size
<1> QED BY <1>9, <1>10, <1>11, <1>12 DEF BlocksOwned

-----------------------------------------------------------------------------
(* The chains of the map and its iterator.                                  *)

NodeRecords == [at : Bytes, key : Keys, val : Vals]

ChainOK(s, b) ==
    /\ s \in Seq(NodeRecords)
    /\ \A i \in DOMAIN s : Hash[s[i].key] = b
    /\ \A i, j \in DOMAIN s : s[i].key = s[j].key => i = j

ChainsIn(H) ==
    H = [b \in Buckets |-> H[b]] /\ \A b \in Buckets : ChainOK(H[b], b)

ChainsOK == ChainsIn(hashtable)

LEMMA BucketsNat ==
    /\ Buckets \in SUBSET Nat
    /\ \A b \in Buckets : \A c \in Nat : c <= b => c \in Buckets
<1>1. PICK t \in Nat : t = 2 ^ Order
  BY MapAssumption, PowerNat
<1>2. Buckets = 0 .. t - 1
  BY <1>1 DEF Buckets
<1> QED BY <1>2

LEMMA ChainFacts ==
    ASSUME NEW s, NEW b, ChainOK(s, b)
    PROVE  /\ Len(s) \in Nat /\ DOMAIN s = 1 .. Len(s) /\ (s # <<>> <=> 1 \in DOMAIN s)
           /\ \A i \in DOMAIN s : i \in Nat /\ Hash[s[i].key] = b
           /\ \A i \in DOMAIN s : s[i] \in NodeRecords
  BY DEF ChainOK

LEMMA NodeIs ==
    ASSUME NEW b, NEW i
    PROVE  <<b, i>> \in Nodes <=> b \in Buckets /\ i \in DOMAIN hashtable[b]
  BY DEF Nodes

LEMMA NodesPairs ==
    ASSUME ChainsOK
    PROVE  Nodes \in SUBSET (Nat \X Nat)
<1> SUFFICES ASSUME NEW x \in Nodes PROVE x \in Nat \X Nat
  OBVIOUS
<1>1. PICK b \in Buckets : \E i \in DOMAIN hashtable[b] : x = <<b, i>>
  BY DEF Nodes
<1>2. PICK i \in DOMAIN hashtable[b] : x = <<b, i>>
  BY <1>1
<1>3. i \in Nat /\ b \in Nat
  BY BucketsNat, ChainFacts DEF ChainsOK, ChainsIn
<1> QED BY <1>2, <1>3

Before(x, y) == x[1] < y[1] \/ (x[1] = y[1] /\ x[2] < y[2])
Upto(x) == {y \in Nodes : Before(y, x)}

\* The iterator goes to the first node at or after a chain,
LEMMA FirstInIs ==
    ASSUME ChainsOK, NEW from \in Nat, NEW y, y = FirstIn(from)
    PROVE  \/ \A x \in Nodes : x[1] < from
           \/ /\ y \in Nodes /\ from <= y[1] /\ y[2] = 1
              /\ \A x \in Nodes : from <= x[1] => y[1] <= x[1]
<1> DEFINE full == {b \in Buckets : b >= from /\ hashtable[b] # <<>>}
<1>1. ASSUME NEW x \in Nodes, from <= x[1] PROVE x[1] \in full
  <2>1. PICK b \in Nat, i \in Nat : x = <<b, i>>
    BY NodesPairs
  <2>2. b \in Buckets /\ i \in DOMAIN hashtable[b]
    BY <2>1, NodeIs
  <2>3. hashtable[b] # <<>>
    BY <2>2
  <2> QED BY <1>1, <2>1, <2>2, <2>3
<1>2. full \in SUBSET Nat
  BY BucketsNat
<1>3. CASE full = {}
  <2>1. ASSUME NEW x \in Nodes PROVE x[1] < from
    <3>1. x[1] \in Nat
      BY NodesPairs
    <3>2. ~(from <= x[1])
      <4> HIDE DEF full
      <4> QED BY <1>1, <1>3
    <3> QED BY <3>1, <3>2
  <2> QED BY <2>1
<1>4. CASE full # {}
  <2>1. PICK b : b = CHOOSE d \in full : \A c \in full : d <= c
    OBVIOUS
  <2>2. b \in full /\ \A c \in full : b <= c
    <3>1. \E d \in full : \A c \in full : d <= c
      <4> HIDE DEF full
      <4> QED BY <1>2, <1>4, FirstOf
    <3> HIDE DEF full
    <3> QED BY <2>1, <3>1
  <2>3. y = <<b, 1>>
    BY <1>4, <2>1 DEF FirstIn
  <2>4. b \in Buckets /\ b >= from /\ hashtable[b] # <<>> /\ b \in Nat
    BY <1>2, <2>2
  <2>5. 1 \in DOMAIN hashtable[b]
    BY <2>4, ChainFacts DEF ChainsOK, ChainsIn
  <2>6. y \in Nodes
    BY <2>3, <2>4, <2>5, NodeIs
  <2>7. \A x \in Nodes : from <= x[1] => b <= x[1]
    <3> HIDE DEF full
    <3> QED BY <1>1, <2>2
  <2> QED BY <2>3, <2>4, <2>6, <2>7
<1> QED BY <1>3, <1>4

\* and from a node to the one after it.
LEMMA NextNode ==
    ASSUME ChainsOK, NEW x \in Nodes, NEW y, y = increment(x)
    PROVE  \/ \A z \in Nodes : z = x \/ Before(z, x)
           \/ y \in Nodes /\ \A z \in Nodes : Before(z, y) <=> z = x \/ Before(z, x)
<1>1. PICK b \in Nat, i \in Nat : x = <<b, i>>
  BY NodesPairs
<1>2. b \in Buckets /\ i \in DOMAIN hashtable[b]
  BY <1>1, NodeIs
<1>3. PICK s : s = hashtable[b]
  OBVIOUS
<1>4. ChainOK(s, b)
  BY <1>2, <1>3 DEF ChainsOK, ChainsIn
<1>5. Len(s) \in Nat /\ DOMAIN s = 1 .. Len(s) /\ Hash[s[i].key] = b
  BY <1>2, <1>3, <1>4, ChainFacts
<1>6. y = IF i < Len(s) THEN <<b, i + 1>> ELSE FirstIn(b + 1)
  <2>1. x[1] = b /\ x[2] = i
    BY <1>1
  <2> QED BY <1>3, <1>5, <2>1 DEF increment
<1>7. ASSUME NEW z \in Nodes
      PROVE  /\ z = <<z[1], z[2]>> /\ z[1] \in Nat /\ z[2] \in Nat \ {0}
             /\ z[1] = b => z[2] <= Len(s)
  <2>1. PICK c \in Nat, j \in Nat : z = <<c, j>>
    BY NodesPairs
  <2>2. c \in Buckets /\ j \in DOMAIN hashtable[c]
    BY <2>1, NodeIs
  <2>3. PICK t : t = hashtable[c]
    OBVIOUS
  <2>4. Len(t) \in Nat /\ j \in 1 .. Len(t)
    BY <2>2, <2>3, ChainFacts DEF ChainsOK, ChainsIn
  <2> QED BY <1>3, <2>1, <2>3, <2>4
<1>8. CASE i < Len(s)
  <2>1. y = <<b, i + 1>> /\ i + 1 \in DOMAIN s
    BY <1>5, <1>6, <1>8
  <2>2. y \in Nodes
    BY <1>2, <1>3, <2>1, NodeIs
  <2>3. ASSUME NEW z \in Nodes
        PROVE  Before(z, y) <=> z = x \/ Before(z, x)
    <3>1. z = x <=> z[1] = b /\ z[2] = i
      BY <1>1, <1>7
    <3>2. y[1] = b /\ y[2] = i + 1 /\ x[1] = b /\ x[2] = i
      BY <1>1, <2>1
    <3>3. z[1] \in Nat /\ z[2] \in Nat
      BY <1>7
    <3> QED BY <3>1, <3>2, <3>3 DEF Before
  <2> QED BY <2>2, <2>3
<1>9. CASE ~(i < Len(s))
  <2>1. PICK f \in Nat : f = b + 1
    OBVIOUS
  <2>2. y = FirstIn(f) /\ i = Len(s)
    BY <1>2, <1>3, <1>5, <1>6, <1>9, <2>1
  <2>3. x[1] = b /\ x[2] = i
    BY <1>1
  <2>4. CASE \A z \in Nodes : z[1] < f
    <3>1. ASSUME NEW z \in Nodes PROVE z = x \/ Before(z, x)
      <4>1. z[1] < f
        BY <2>4
      <4>2. z = x <=> z[1] = b /\ z[2] = i
        BY <1>1, <1>7
      <4>3. z[1] \in Nat /\ z[2] \in Nat /\ (z[1] = b => z[2] <= i)
        BY <1>7, <2>2
      <4> QED BY <2>1, <2>3, <4>1, <4>2, <4>3 DEF Before
    <3> QED BY <3>1
  <2>5. CASE /\ y \in Nodes /\ f <= y[1] /\ y[2] = 1
             /\ \A z \in Nodes : f <= z[1] => y[1] <= z[1]
    <3>1. ASSUME NEW z \in Nodes PROVE Before(z, y) <=> z = x \/ Before(z, x)
      <4>1. f <= z[1] => y[1] <= z[1]
        BY <2>5
      <4>2. z = x <=> z[1] = b /\ z[2] = i
        BY <1>1, <1>7
      <4>3. z[1] \in Nat /\ z[2] \in Nat \ {0} /\ (z[1] = b => z[2] <= i)
        BY <1>7, <2>2
      <4>4. y[1] \in Nat /\ f <= y[1] /\ y[2] = 1
        BY <1>7, <2>5
      <4> QED BY <2>1, <2>3, <4>1, <4>2, <4>3, <4>4 DEF Before
    <3> QED BY <2>5, <3>1
  <2> QED BY <2>2, <2>4, <2>5, FirstInIs
<1> QED BY <1>8, <1>9

Walk(hi, w) == w = [n \in 0 .. hi |-> IF n = 0 THEN begin ELSE increment(w[n - 1])]
Met(w, n) == {w[j] : j \in 0 .. n - 1}

LEMMA WalkStart == \E w : Walk(0, w)
<1>1. PICK w : w = [n \in 0 .. 0 |-> begin]
  OBVIOUS
<1>2. w = [n \in 0 .. 0 |-> IF n = 0 THEN begin ELSE increment(w[n - 1])]
  BY <1>1
<1> QED BY <1>2 DEF Walk

LEMMA WalkStep ==
    ASSUME NEW h \in Nat, 0 < h, NEW u, Walk(h - 1, u)
    PROVE  \E v : Walk(h, v)
<1>1. \A k \in 0 .. h - 1 : u[k] = IF k = 0 THEN begin ELSE increment(u[k - 1])
  BY DEF Walk
<1> DEFINE v == [k \in 0 .. h |-> IF k = h THEN increment(u[h - 1]) ELSE u[k]]
<1>2. \A k \in 0 .. h : v[k] = IF k = 0 THEN begin ELSE increment(v[k - 1])
  <2> SUFFICES ASSUME NEW k \in 0 .. h
               PROVE  v[k] = IF k = 0 THEN begin ELSE increment(v[k - 1])
    OBVIOUS
  <2>1. CASE k = h
    <3>1. h - 1 \in 0 .. h /\ h - 1 # h
      OBVIOUS
    <3>2. v[h - 1] = u[h - 1]
      BY <3>1
    <3>3. v[h] = increment(u[h - 1])
      OBVIOUS
    <3>4. k # 0
      BY <2>1
    <3> HIDE DEF v
    <3> QED BY <2>1, <3>2, <3>3, <3>4
  <2>2. CASE k # h
    <3>1. k \in 0 .. h - 1 /\ (k # 0 => k - 1 \in 0 .. h /\ k - 1 # h)
      BY <2>2
    <3>2. v[k] = u[k] /\ (k # 0 => v[k - 1] = u[k - 1])
      BY <2>2, <3>1
    <3> HIDE DEF v
    <3> QED BY <1>1, <3>1, <3>2
  <2> QED BY <2>1, <2>2
<1>3. v = [k \in 0 .. h |-> v[k]]
  OBVIOUS
<1>4. Walk(h, v)
  <2> HIDE DEF v
  <2> QED BY <1>2, <1>3 DEF Walk
<1> HIDE DEF v
<1> QED BY <1>4

LEMMA WalkExists ==
    ASSUME NEW hi \in Nat
    PROVE  \E w : Walk(hi, w)
<1> DEFINE Bad == {h \in Nat : ~\E u : Walk(h, u)}
<1>1. ASSUME Bad # {} PROVE FALSE
  <2>1. Bad \in SUBSET Nat
    OBVIOUS
  <2>2. PICK h \in Bad : \A j \in Bad : h <= j
    <3> HIDE DEF Bad
    <3> QED BY <1>1, <2>1, FirstOf
  <2>3. h \in Nat /\ ~\E u : Walk(h, u)
    BY <2>2
  <2>4. h # 0
    BY <2>3, WalkStart
  <2>5. h - 1 \in Nat /\ h - 1 \notin Bad /\ 0 < h
    <3> HIDE DEF Bad
    <3> QED BY <2>1, <2>2, <2>3, <2>4
  <2>6. PICK u : Walk(h - 1, u)
    BY <2>5
  <2> HIDE DEF Bad
  <2> QED BY <2>3, <2>5, <2>6, WalkStep
<1> QED BY <1>1

WalkInv(w, n) ==
    w[n] \in Nodes /\ Upto(w[n]) = Met(w, n) /\ Cardinality(Upto(w[n])) = n

LEMMA WalkMeets ==
    ASSUME ChainsOK, IsFiniteSet(Nodes), NEW N \in Nat, N = Cardinality(Nodes),
           NEW w, Walk(N, w), NEW n \in Nat, n < N
    PROVE  WalkInv(w, n)
<1>1. \A k \in 0 .. N : w[k] = IF k = 0 THEN begin ELSE increment(w[k - 1])
  BY DEF Walk
<1> DEFINE Off == {k \in Nat : k < N /\ ~WalkInv(w, k)}
<1>2. ASSUME 0 < N PROVE WalkInv(w, 0)
  <2>1. PICK y : y = FirstIn(0)
    OBVIOUS
  <2>2. w[0] = y
    BY <1>1, <2>1 DEF begin
  <2>3. PICK z : z \in Nodes
    BY <1>2, FS_EmptySet
  <2>4. ASSUME NEW x \in Nodes PROVE x[1] \in Nat /\ x[2] \in Nat /\ 1 <= x[2]
    <3>1. PICK b \in Nat, i \in Nat : x = <<b, i>>
      BY NodesPairs
    <3>2. b \in Buckets /\ i \in DOMAIN hashtable[b]
      BY <3>1, NodeIs
    <3>3. PICK t : t = hashtable[b]
      OBVIOUS
    <3>4. Len(t) \in Nat /\ i \in 1 .. Len(t)
      BY <3>2, <3>3, ChainFacts DEF ChainsOK, ChainsIn
    <3> QED BY <3>1, <3>4
  <2>5. ~(\A x \in Nodes : x[1] < 0)
    BY <2>3, <2>4
  <2>6. y \in Nodes /\ y[2] = 1 /\ \A x \in Nodes : 0 <= x[1] => y[1] <= x[1]
    BY <2>1, <2>5, FirstInIs
  <2>7. ASSUME NEW x \in Nodes PROVE ~Before(x, y)
    <3>1. y[1] <= x[1] /\ 1 <= x[2] /\ y[2] = 1
      BY <2>4, <2>6
    <3>2. x[1] \in Nat /\ x[2] \in Nat /\ y[1] \in Nat
      BY <2>4, <2>6
    <3> QED BY <3>1, <3>2 DEF Before
  <2>8. Upto(y) = {} /\ Met(w, 0) = {}
    BY <2>7 DEF Upto, Met
  <2> QED BY <2>2, <2>6, <2>8, FS_EmptySet DEF WalkInv
<1>3. ASSUME Off # {} PROVE FALSE
  <2>1. Off \in SUBSET Nat
    OBVIOUS
  <2>2. PICK k \in Off : \A j \in Off : k <= j
    <3> HIDE DEF Off
    <3> QED BY <1>3, <2>1, FirstOf
  <2>3. k \in Nat /\ k < N /\ ~WalkInv(w, k)
    BY <2>2
  <2>4. k # 0
    BY <1>2, <2>3
  <2>5. PICK j \in Nat : j = k - 1
    BY <2>3, <2>4
  <2>6. j < N /\ k = j + 1 /\ k \in 0 .. N
    BY <2>3, <2>5
  <2>7. j \notin Off
    <3> HIDE DEF Off
    <3> QED BY <2>2, <2>3, <2>6
  <2>8. WalkInv(w, j)
    BY <2>6, <2>7
  <2>9. PICK x \in Nodes : x = w[j]
    BY <2>8 DEF WalkInv
  <2>10. PICK y : y = w[k]
    OBVIOUS
  <2>11. y = increment(x)
    BY <1>1, <2>4, <2>5, <2>6, <2>9, <2>10
  <2>12. PICK S : S = Upto(x)
    OBVIOUS
  <2>13. S = Met(w, j) /\ Cardinality(S) = j /\ S \in SUBSET Nodes
    BY <2>8, <2>9, <2>12 DEF WalkInv, Upto
  <2>14. x \notin S
    <3>1. x[1] \in Nat /\ x[2] \in Nat
      BY NodesPairs
    <3> QED BY <2>12, <3>1 DEF Upto, Before
  <2>15. IsFiniteSet(S) /\ IsFiniteSet(S \cup {x}) /\ Cardinality(S \cup {x}) = k
    <3>1. IsFiniteSet(S)
      BY <2>13, FS_Subset
    <3> QED BY <2>6, <2>13, <2>14, <3>1, FS_AddElement
  <2>16. ~\A z \in Nodes : z = x \/ Before(z, x)
    <3> SUFFICES ASSUME \A z \in Nodes : z = x \/ Before(z, x) PROVE FALSE
      OBVIOUS
    <3>1. S \cup {x} = Nodes
      BY <2>12, <2>13 DEF Upto
    <3> QED BY <2>3, <2>15, <3>1
  <2>17. y \in Nodes /\ \A z \in Nodes : Before(z, y) <=> z = x \/ Before(z, x)
    BY <2>11, <2>16, NextNode
  <2>18. Upto(y) = S \cup {x}
    BY <2>12, <2>17 DEF Upto
  <2>19. Met(w, k) = Met(w, j) \cup {x}
    <3>1. 0 .. k - 1 = (0 .. j - 1) \cup {j}
      BY <2>5, <2>6
    <3> QED BY <2>9, <3>1 DEF Met
  <2>20. WalkInv(w, k)
    BY <2>10, <2>13, <2>15, <2>17, <2>18, <2>19 DEF WalkInv
  <2> QED BY <2>3, <2>20
<1> QED BY <1>3

LEMMA VisitedNodes ==
    ASSUME ChainsOK, IsFiniteSet(Nodes)
    PROVE  ToSet(Visited) = Nodes
<1>1. PICK N \in Nat : N = Cardinality(Nodes)
  BY FS_CardinalityType
<1> DEFINE w[n \in 0 .. Cardinality(Nodes)] ==
              IF n = 0 THEN begin ELSE increment(w[n - 1])
<1>2. Visited = [n \in 1 .. Cardinality(Nodes) |-> w[n - 1]]
  BY Zenon DEF Visited
<1>3. Walk(N, w)
  <2>1. PICK u : Walk(N, u)
    BY WalkExists
  <2>2. u = [n \in 0 .. Cardinality(Nodes) |-> IF n = 0 THEN begin ELSE increment(u[n - 1])]
    BY <1>1, <2>1 DEF Walk
  <2>3. w = [n \in 0 .. Cardinality(Nodes) |-> IF n = 0 THEN begin ELSE increment(w[n - 1])]
    BY <2>2
  <2> HIDE DEF w
  <2> QED BY <1>1, <2>3 DEF Walk
<1> HIDE DEF w
<1>4. ToSet(Visited) = {w[n - 1] : n \in 1 .. N}
  <2>1. Visited = [n \in 1 .. N |-> w[n - 1]]
    BY <1>1, <1>2
  <2>2. DOMAIN Visited = 1 .. N /\ \A n \in 1 .. N : Visited[n] = w[n - 1]
    BY <2>1
  <2> QED BY <2>2 DEF ToSet
<1>5. CASE N = 0
  <2>1. Nodes = {}
    BY <1>1, <1>5, FS_EmptySet
  <2>2. 1 .. N = {}
    BY <1>5
  <2> QED BY <1>4, <2>1, <2>2
<1>6. CASE N # 0
  <2>1. PICK n \in Nat : n = N - 1
    BY <1>6
  <2>2. n < N /\ N = n + 1
    BY <2>1
  <2>3. WalkInv(w, n)
    BY <1>1, <1>3, <2>2, WalkMeets
  <2>4. PICK x \in Nodes : x = w[n]
    BY <2>3 DEF WalkInv
  <2>5. PICK S : S = Met(w, n)
    OBVIOUS
  <2>6. S = Upto(x) /\ Cardinality(S) = n /\ S \in SUBSET Nodes
    BY <2>3, <2>4, <2>5 DEF WalkInv, Upto
  <2>7. x \notin S
    <3>1. x[1] \in Nat /\ x[2] \in Nat
      BY NodesPairs
    <3> QED BY <2>6, <3>1 DEF Upto, Before
  <2>8. S \cup {x} = Nodes
    <3>1. IsFiniteSet(S)
      BY <2>6, FS_Subset
    <3>2. Cardinality(S \cup {x}) = N
      BY <2>2, <2>6, <2>7, <3>1, FS_AddElement
    <3>3. S \cup {x} \in SUBSET Nodes
      BY <2>6
    <3> QED BY <1>1, <3>2, <3>3, FS_Subset
  <2>9. {w[k - 1] : k \in 1 .. N} = S \cup {x}
    <3>1. \A k \in 1 .. N : k - 1 \in 0 .. n - 1 \/ k - 1 = n
      BY <2>2
    <3>2. \A j \in 0 .. n - 1 : j + 1 \in 1 .. N /\ (j + 1) - 1 = j
      BY <2>2
    <3>3. N \in 1 .. N /\ N - 1 = n
      BY <2>1, <2>2
    <3>4. ASSUME NEW z \in {w[k - 1] : k \in 1 .. N} PROVE z \in S \cup {x}
      BY <2>4, <2>5, <3>1 DEF Met
    <3>5. ASSUME NEW z \in S \cup {x} PROVE z \in {w[k - 1] : k \in 1 .. N}
      <4>1. CASE z = x
        BY <2>4, <3>3, <4>1
      <4>2. CASE z \in S
        <5>1. PICK j \in 0 .. n - 1 : z = w[j]
          BY <2>5, <4>2 DEF Met
        <5> QED BY <3>2, <5>1
      <4> QED BY <3>5, <4>1, <4>2
    <3> QED BY <3>4, <3>5
  <2> QED BY <1>4, <2>8, <2>9
<1> QED BY <1>5, <1>6

-----------------------------------------------------------------------------
(* The map as the set of its nodes.                                         *)

MapEntries(H) == UNION {ToSet(H[b]) : b \in Buckets}

LEMMA HashBucket == \A k \in Keys : Hash[k] \in Buckets
<1>1. PICK m \in Nat : m = Order - 1
  BY MapAssumption
<1>2. PICK t \in Nat : t = 2 ^ m
  BY PowerNat
<1>3. Order = m + 1
  BY <1>1, MapAssumption
<1>4. 2 ^ Order = t + t
  BY <1>2, <1>3, PowerStep
<1>5. Buckets = 0 .. t + t - 1
  BY <1>4 DEF Buckets
<1>6. \A k \in Keys : Hash[k] \in 0 .. t - 1
  BY <1>1, <1>2, MapAssumption
<1> QED BY <1>5, <1>6

\* A chain by its members.
ChainSet(S, b) ==
    /\ \A r \in S : Hash[r.key] = b
    /\ \A r, q \in S : r.key = q.key => r = q

LEMMA ChainBySet ==
    ASSUME NEW s, NEW b
    PROVE  ChainOK(s, b) <=> s \in Seq(NodeRecords) /\ Once(s) /\ ChainSet(ToSet(s), b)
<1>1. ASSUME ChainOK(s, b)
      PROVE  s \in Seq(NodeRecords) /\ Once(s) /\ ChainSet(ToSet(s), b)
  <2>1. s \in Seq(NodeRecords) /\ Once(s)
    BY <1>1 DEF ChainOK, Once, IsInjective
  <2>2. ChainSet(ToSet(s), b)
    BY <1>1 DEF ChainOK, ChainSet, ToSet
  <2> QED BY <2>1, <2>2
<1>2. ASSUME s \in Seq(NodeRecords), Once(s), ChainSet(ToSet(s), b)
      PROVE  ChainOK(s, b)
  <2>1. \A i \in DOMAIN s : s[i] \in ToSet(s)
    BY DEF ToSet
  <2>2. \A i \in DOMAIN s : Hash[s[i].key] = b
    BY <1>2, <2>1 DEF ChainSet
  <2>3. \A i, j \in DOMAIN s : s[i].key = s[j].key => i = j
    <3> SUFFICES ASSUME NEW i \in DOMAIN s, NEW j \in DOMAIN s, s[i].key = s[j].key
                 PROVE  i = j
      OBVIOUS
    <3>1. s[i] = s[j]
      BY <1>2, <2>1 DEF ChainSet
    <3> QED BY <1>2, <3>1 DEF Once, IsInjective
  <2> QED BY <1>2, <2>2, <2>3 DEF ChainOK
<1> QED BY <1>1, <1>2

LEMMA EntryIs ==
    ASSUME NEW H, ChainsIn(H)
    PROVE  /\ MapEntries(H) \in SUBSET NodeRecords
           /\ \A r \in MapEntries(H) : Hash[r.key] \in Buckets /\ r \in ToSet(H[Hash[r.key]])
           /\ \A b \in Buckets : ToSet(H[b]) \in SUBSET MapEntries(H)
           /\ \A r, q \in MapEntries(H) : r.key = q.key => r = q
<1>1. \A b \in Buckets : H[b] \in Seq(NodeRecords) /\ ChainSet(ToSet(H[b]), b)
  BY ChainBySet DEF ChainsIn
<1>2. ASSUME NEW b \in Buckets PROVE ToSet(H[b]) \in SUBSET NodeRecords
  <2>1. PICK s : s = H[b]
    OBVIOUS
  <2>2. s \in Seq(NodeRecords)
    BY <1>1, <2>1
  <2>3. ToSet(s) \in SUBSET NodeRecords
    BY <2>2 DEF ToSet
  <2> QED BY <2>1, <2>3
<1>3. ASSUME NEW r \in MapEntries(H)
      PROVE  r \in NodeRecords /\ Hash[r.key] \in Buckets /\ r \in ToSet(H[Hash[r.key]])
  <2>1. PICK b \in Buckets : r \in ToSet(H[b])
    BY DEF MapEntries
  <2>2. Hash[r.key] = b
    BY <1>1, <2>1 DEF ChainSet
  <2> QED BY <1>2, <2>1, <2>2
<1>4. \A b \in Buckets : ToSet(H[b]) \in SUBSET MapEntries(H)
  BY DEF MapEntries
<1>5. \A r, q \in MapEntries(H) : r.key = q.key => r = q
  BY <1>1, <1>3 DEF ChainSet
<1> QED BY <1>3, <1>4, <1>5

\* A change of one chain.
WithChain(H, b, s) == [H EXCEPT ![b] = s]

LEMMA OneChain ==
    ASSUME NEW H, ChainsIn(H), NEW b \in Buckets, NEW s, ChainOK(s, b),
           NEW H2, H2 = WithChain(H, b, s)
    PROVE  /\ ChainsIn(H2)
           /\ \A r : r \in MapEntries(H2) <=>
                r \in ToSet(s) \/ \E c \in Buckets : c # b /\ r \in ToSet(H[c])
<1>1. H2 = [c \in Buckets |-> H2[c]] /\ H2[b] = s /\ \A c \in Buckets : c # b => H2[c] = H[c]
  BY DEF ChainsIn, WithChain
<1>2. ChainsIn(H2)
  BY <1>1 DEF ChainsIn
<1>3. ASSUME NEW r
      PROVE  r \in MapEntries(H2) <=> \E c \in Buckets : r \in ToSet(H2[c])
  BY DEF MapEntries
<1> QED BY <1>1, <1>2, <1>3

NewKey(H, k) == \A q \in MapEntries(H) : q.key # k
Linked(H, b, r) == <<r>> \o H[b]

LEMMA EntryPut ==
    ASSUME NEW H, ChainsIn(H), NEW r \in NodeRecords,
           NewKey(H, r.key),
           NEW b, b = Hash[r.key], NEW s, s = Linked(H, b, r),
           NEW H2, H2 = WithChain(H, b, s)
    PROVE  ChainsIn(H2) /\ MapEntries(H2) = MapEntries(H) \cup {r}
<1>1. b \in Buckets
  BY HashBucket DEF NodeRecords
<1>2. H[b] \in Seq(NodeRecords) /\ Once(H[b]) /\ ChainSet(ToSet(H[b]), b)
  BY <1>1, ChainBySet DEF ChainsIn
<1>3. ToSet(H[b]) \in SUBSET MapEntries(H)
  BY <1>1, EntryIs
<1>4. r \notin ToSet(H[b])
  BY <1>3 DEF NewKey
<1>5. s \in Seq(NodeRecords) /\ Once(s) /\ ToSet(s) = ToSet(H[b]) \cup {r}
  BY <1>2, <1>4, PushedOnce DEF Linked
<1>6. ChainSet(ToSet(s), b)
  BY <1>2, <1>3, <1>5 DEF ChainSet, NewKey
<1>7. ChainOK(s, b)
  BY <1>5, <1>6, ChainBySet
<1>8. /\ ChainsIn(H2)
      /\ \A q : q \in MapEntries(H2) <=>
           q \in ToSet(s) \/ \E c \in Buckets : c # b /\ q \in ToSet(H[c])
  BY <1>1, <1>7, OneChain
<1>9. \A q : q \in MapEntries(H) <=>
           q \in ToSet(H[b]) \/ \E c \in Buckets : c # b /\ q \in ToSet(H[c])
  BY <1>1 DEF MapEntries
<1> QED BY <1>5, <1>8, <1>9

LEMMA EntryPolled ==
    ASSUME NEW H, ChainsIn(H), NEW b \in Buckets, NEW i \in DOMAIN H[b],
           NEW r, r = H[b][i], NEW s, s = RemoveAt(H[b], i),
           NEW H2, H2 = WithChain(H, b, s)
    PROVE  ChainsIn(H2) /\ MapEntries(H2) = MapEntries(H) \ {r} /\ r \in MapEntries(H)
<1>1. PICK t : t = H[b]
  OBVIOUS
<1>2. t \in Seq(NodeRecords) /\ Once(t) /\ ChainSet(ToSet(t), b) /\ ToSet(t) \in SUBSET MapEntries(H)
  BY <1>1, ChainBySet, EntryIs DEF ChainsIn
<1>3. i \in 1 .. Len(t) /\ r = t[i] /\ s = RemoveAt(t, i)
  BY <1>1, <1>2
<1>4. s \in Seq(NodeRecords) /\ Once(s) /\ ToSet(s) = ToSet(t) \ {r}
  BY <1>2, <1>3, RemovedOnce
<1>5. r \in ToSet(t)
  BY <1>1, <1>3 DEF ToSet
<1>6. ChainSet(ToSet(s), b)
  BY <1>2, <1>4 DEF ChainSet
<1>7. ChainOK(s, b)
  BY <1>4, <1>6, ChainBySet
<1>8. /\ ChainsIn(H2)
      /\ \A q : q \in MapEntries(H2) <=>
           q \in ToSet(s) \/ \E c \in Buckets : c # b /\ q \in ToSet(H[c])
  BY <1>7, OneChain
<1>9. \A q : q \in MapEntries(H) <=>
           q \in ToSet(t) \/ \E c \in Buckets : c # b /\ q \in ToSet(H[c])
  BY <1>1 DEF MapEntries
<1>10. \A c \in Buckets : c # b => r \notin ToSet(H[c])
  <2> SUFFICES ASSUME NEW c \in Buckets, r \in ToSet(H[c]) PROVE c = b
    OBVIOUS
  <2>1. ChainSet(ToSet(H[c]), c)
    BY ChainBySet DEF ChainsIn
  <2> QED BY <1>2, <1>5, <2>1 DEF ChainSet
<1> QED BY <1>2, <1>4, <1>5, <1>8, <1>9, <1>10

\* get answers with the value of the node that has the key.
LEMMA GetIs ==
    ASSUME ChainsOK, NEW k \in Keys
    PROVE  /\ \A r \in MapEntries(hashtable) : r.key = k =>
                /\ Reached(k) \in DOMAIN Chain(k) /\ Chain(k)[Reached(k)] = r
                /\ get(k) = r.val
           /\ (\A r \in MapEntries(hashtable) : r.key # k) => get(k) = Nobody
<1>1. PICK b : b = Hash[k]
  OBVIOUS
<1>2. PICK s : s = hashtable[b]
  OBVIOUS
<1>3. Chain(k) = s /\ b \in Buckets /\ ChainOK(s, b)
  BY <1>1, <1>2, HashBucket DEF Chain, ChainsOK, ChainsIn
<1>4. ToSet(s) \in SUBSET MapEntries(hashtable)
  BY <1>2, <1>3, EntryIs DEF ChainsOK
<1>5. \A i \in DOMAIN s : s[i] \in ToSet(s) /\ i \in Nat
  BY <1>3 DEF ToSet, ChainOK
<1> DEFINE same == {i \in DOMAIN s : s[i].key = k}
<1>6. ASSUME NEW r \in MapEntries(hashtable), r.key = k
      PROVE  Reached(k) \in DOMAIN s /\ s[Reached(k)] = r /\ get(k) = r.val
  <2>1. r \in ToSet(s)
    BY <1>1, <1>2, <1>6, EntryIs DEF ChainsOK
  <2>2. PICK i \in DOMAIN s : s[i] = r
    BY <2>1 DEF ToSet
  <2>3. i \in same /\ same \in SUBSET Nat
    BY <1>5, <1>6, <2>2
  <2>4. \A j \in same : j = i
    BY <1>3, <1>6, <2>2 DEF ChainOK
  <2>5. PICK n : n = CHOOSE m \in same : \A j \in same : m <= j
    OBVIOUS
  <2>6. n = i
    <3>1. i <= i
      BY <2>3
    <3> HIDE DEF same
    <3> QED BY <2>3, <2>4, <2>5, <3>1
  <2>7. Reached(k) = n
    BY <1>3, <2>3, <2>5 DEF Reached
  <2>8. get(k) = s[Reached(k)].val
    BY <1>3, <1>6, <2>2 DEF get
  <2> QED BY <2>2, <2>6, <2>7, <2>8
<1>7. ASSUME \A r \in MapEntries(hashtable) : r.key # k PROVE get(k) = Nobody
  BY <1>3, <1>4, <1>5, <1>7 DEF get
<1> QED BY <1>3, <1>6, <1>7

\* The nodes by their place are as many as by their record.
LEMMA NodeEntry ==
    ASSUME ChainsOK
    PROVE  /\ \A x \in Nodes : hashtable[x[1]][x[2]] \in MapEntries(hashtable)
           /\ \A r \in MapEntries(hashtable) : \E x \in Nodes : hashtable[x[1]][x[2]] = r
           /\ \A x, y \in Nodes : hashtable[x[1]][x[2]] = hashtable[y[1]][y[2]] => x = y
<1>1. ASSUME NEW x \in Nodes
      PROVE  /\ x = <<x[1], x[2]>> /\ x[1] \in Buckets /\ x[2] \in DOMAIN hashtable[x[1]]
             /\ Hash[hashtable[x[1]][x[2]].key] = x[1] /\ ChainOK(hashtable[x[1]], x[1])
  <2>1. x = <<x[1], x[2]>>
    BY NodesPairs
  <2>2. x[1] \in Buckets /\ x[2] \in DOMAIN hashtable[x[1]]
    BY <2>1, NodeIs
  <2>3. PICK b : b = x[1]
    OBVIOUS
  <2>4. PICK i : i = x[2]
    OBVIOUS
  <2>5. ChainOK(hashtable[b], b) /\ i \in DOMAIN hashtable[b]
    BY <2>2, <2>3, <2>4 DEF ChainsOK, ChainsIn
  <2>6. Hash[hashtable[b][i].key] = b
    BY <2>5 DEF ChainOK
  <2> QED BY <2>1, <2>2, <2>3, <2>4, <2>5, <2>6
<1>2. \A x \in Nodes : hashtable[x[1]][x[2]] \in MapEntries(hashtable)
  BY <1>1 DEF MapEntries, ToSet
<1>3. ASSUME NEW r \in MapEntries(hashtable) PROVE \E x \in Nodes : hashtable[x[1]][x[2]] = r
  <2>1. PICK b \in Buckets : r \in ToSet(hashtable[b])
    BY DEF MapEntries
  <2>2. PICK i \in DOMAIN hashtable[b] : hashtable[b][i] = r
    BY <2>1 DEF ToSet
  <2>3. PICK x : x = <<b, i>>
    OBVIOUS
  <2>4. x \in Nodes /\ x[1] = b /\ x[2] = i
    BY <2>3, NodeIs
  <2> QED BY <2>2, <2>4
<1>4. ASSUME NEW x \in Nodes, NEW y \in Nodes, hashtable[x[1]][x[2]] = hashtable[y[1]][y[2]]
      PROVE  x = y
  <2>1. x[1] = y[1]
    BY <1>1, <1>4
  <2>2. x[2] = y[2]
    BY <1>1, <1>4, <2>1 DEF ChainOK
  <2> QED BY <1>1, <2>1, <2>2
<1> QED BY <1>2, <1>3, <1>4

-----------------------------------------------------------------------------
(* Who has the blocks in use: an object, a node of the map or nobody.       *)

ObjectRecords == [at : Bytes, size : Sizes]
AtsOf(R) == {r.at : r \in R}
AtsApart(R) == \A r, q \in R : r.at = q.at => r = q

\* The blocks of the objects O, of the nodes E and of the leaked nodes K.
Owned(h, O, E, K) ==
    /\ O \in SUBSET ObjectRecords /\ E \in SUBSET NodeRecords /\ K \in SUBSET Bytes
    /\ AtsApart(O) /\ AtsApart(E)
    /\ AtsOf(O) \cap AtsOf(E) = {} /\ AtsOf(O) \cap K = {} /\ AtsOf(E) \cap K = {}
    /\ \A a \in Bytes : ~NotInUse(h, a) <=> a \in AtsOf(O) \cup AtsOf(E) \cup K
    /\ \A o \in O : o.size + HeaderSize <= Size(h.level[o.at])

LEMMA AtsIn ==
    ASSUME NEW R, NEW r
    PROVE  /\ r \in R => r.at \in AtsOf(R)
           /\ AtsOf(R \cup {r}) = AtsOf(R) \cup {r.at}
           /\ AtsApart(R) /\ r \in R => AtsOf(R \ {r}) = AtsOf(R) \ {r.at}
           /\ AtsApart(R) => AtsApart(R \ {r})
           /\ AtsApart(R) /\ r.at \notin AtsOf(R) => AtsApart(R \cup {r})
  BY DEF AtsOf, AtsApart

LEMMA OwnedTypes ==
    ASSUME NEW h, NEW O, NEW E, NEW K, Owned(h, O, E, K)
    PROVE  AtsOf(O) \in SUBSET Bytes /\ AtsOf(E) \in SUBSET Bytes
  BY DEF Owned, AtsOf, ObjectRecords, NodeRecords

LEMMA OwnedSame ==
    ASSUME NEW h, NEW O, NEW E, NEW K, Owned(h, O, E, K), NEW h2, h2.level = h.level
    PROVE  Owned(h2, O, E, K)
  BY DEF Owned, NotInUse

\* A block that was not in use becomes so.
TakenBlock(h, h2, b, lv) ==
    LevelsOK(h) /\ b \in Bytes /\ NotInUse(h, b) /\ lv \in Levels
    /\ h2.level = [h.level EXCEPT ![b] = lv]

LEMMA TakenIs ==
    ASSUME NEW h, NEW h2, NEW b, NEW lv, TakenBlock(h, h2, b, lv),
           NEW O, NEW E, NEW K, Owned(h, O, E, K)
    PROVE  /\ b \notin AtsOf(O) /\ b \notin AtsOf(E) /\ b \notin K /\ b \in Bytes
           /\ \A a \in Bytes : ~NotInUse(h2, a) <=> a = b \/ a \in AtsOf(O) \cup AtsOf(E) \cup K
           /\ \A o \in O : o.size + HeaderSize <= Size(h2.level[o.at])
           /\ h2.level[b] = lv
<1>1. b \notin AtsOf(O) /\ b \notin AtsOf(E) /\ b \notin K /\ b \in Bytes
  BY DEF Owned, TakenBlock
<1>2. \A a \in Bytes : h2.level[a] = IF a = b THEN lv ELSE h.level[a]
  BY DEF TakenBlock, LevelsOK
<1>3. lv # -1
  BY LevelFree DEF TakenBlock
<1>4. \A a \in Bytes : ~NotInUse(h2, a) <=> a = b \/ a \in AtsOf(O) \cup AtsOf(E) \cup K
  BY <1>2, <1>3 DEF Owned, NotInUse
<1>5. \A o \in O : o.at \in AtsOf(O) /\ o.at \in Bytes
  BY AtsIn, OwnedTypes
<1>6. \A o \in O : h2.level[o.at] = h.level[o.at]
  BY <1>1, <1>2, <1>5
<1>7. \A o \in O : o.size + HeaderSize <= Size(h2.level[o.at])
  BY <1>6 DEF Owned
<1> QED BY <1>1, <1>2, <1>4, <1>7

LEMMA OwnedObject ==
    ASSUME NEW h, NEW h2, NEW lv, NEW o \in ObjectRecords, TakenBlock(h, h2, o.at, lv),
           NEW O, NEW E, NEW K, Owned(h, O, E, K), o.size + HeaderSize <= Size(lv)
    PROVE  Owned(h2, O \cup {o}, E, K)
<1>1. PICK b : b = o.at
  OBVIOUS
<1>2. /\ b \notin AtsOf(O) /\ b \notin AtsOf(E) /\ b \notin K /\ b \in Bytes
      /\ \A a \in Bytes : ~NotInUse(h2, a) <=> a = b \/ a \in AtsOf(O) \cup AtsOf(E) \cup K
      /\ \A p \in O : p.size + HeaderSize <= Size(h2.level[p.at])
      /\ h2.level[b] = lv
  BY <1>1, TakenIs
<1>3. PICK O2 : O2 = O \cup {o}
  OBVIOUS
<1>4. AtsOf(O2) = AtsOf(O) \cup {b} /\ AtsApart(O2)
  BY <1>1, <1>2, <1>3, AtsIn DEF Owned
<1>5. \A p \in O2 : p.size + HeaderSize <= Size(h2.level[p.at])
  BY <1>1, <1>2, <1>3
<1>6. /\ O2 \in SUBSET ObjectRecords /\ E \in SUBSET NodeRecords /\ K \in SUBSET Bytes /\ AtsApart(E)
      /\ AtsOf(O2) \cap AtsOf(E) = {} /\ AtsOf(O2) \cap K = {} /\ AtsOf(E) \cap K = {}
  BY <1>2, <1>3, <1>4 DEF Owned
<1>7. \A a \in Bytes : ~NotInUse(h2, a) <=> a \in AtsOf(O2) \cup AtsOf(E) \cup K
  BY <1>2, <1>4
<1>8. Owned(h2, O2, E, K)
  BY <1>4, <1>5, <1>6, <1>7 DEF Owned
<1> QED BY <1>3, <1>8

LEMMA OwnedNode ==
    ASSUME NEW h, NEW h2, NEW lv, NEW r \in NodeRecords, TakenBlock(h, h2, r.at, lv),
           NEW O, NEW E, NEW K, Owned(h, O, E, K)
    PROVE  Owned(h2, O, E \cup {r}, K)
<1>1. PICK b : b = r.at
  OBVIOUS
<1>2. /\ b \notin AtsOf(O) /\ b \notin AtsOf(E) /\ b \notin K /\ b \in Bytes
      /\ \A a \in Bytes : ~NotInUse(h2, a) <=> a = b \/ a \in AtsOf(O) \cup AtsOf(E) \cup K
      /\ \A p \in O : p.size + HeaderSize <= Size(h2.level[p.at])
  BY <1>1, TakenIs
<1>3. PICK E2 : E2 = E \cup {r}
  OBVIOUS
<1>4. AtsOf(E2) = AtsOf(E) \cup {b} /\ AtsApart(E2)
  BY <1>1, <1>2, <1>3, AtsIn DEF Owned
<1>6. /\ O \in SUBSET ObjectRecords /\ E2 \in SUBSET NodeRecords /\ K \in SUBSET Bytes /\ AtsApart(O)
      /\ AtsOf(O) \cap AtsOf(E2) = {} /\ AtsOf(O) \cap K = {} /\ AtsOf(E2) \cap K = {}
  BY <1>2, <1>3, <1>4 DEF Owned
<1>7. \A a \in Bytes : ~NotInUse(h2, a) <=> a \in AtsOf(O) \cup AtsOf(E2) \cup K
  BY <1>2, <1>4
<1>8. Owned(h2, O, E2, K)
  BY <1>2, <1>4, <1>6, <1>7 DEF Owned
<1> QED BY <1>3, <1>8

LEMMA OwnedLeak ==
    ASSUME NEW h, NEW h2, NEW lv, NEW b, TakenBlock(h, h2, b, lv),
           NEW O, NEW E, NEW K, Owned(h, O, E, K)
    PROVE  Owned(h2, O, E, K \cup {b})
<1>2. /\ b \notin AtsOf(O) /\ b \notin AtsOf(E) /\ b \notin K /\ b \in Bytes
      /\ \A a \in Bytes : ~NotInUse(h2, a) <=> a = b \/ a \in AtsOf(O) \cup AtsOf(E) \cup K
      /\ \A p \in O : p.size + HeaderSize <= Size(h2.level[p.at])
  BY TakenIs
<1>3. PICK K2 : K2 = K \cup {b}
  OBVIOUS
<1>6. /\ O \in SUBSET ObjectRecords /\ E \in SUBSET NodeRecords /\ K2 \in SUBSET Bytes
      /\ AtsApart(O) /\ AtsApart(E)
      /\ AtsOf(O) \cap AtsOf(E) = {} /\ AtsOf(O) \cap K2 = {} /\ AtsOf(E) \cap K2 = {}
  BY <1>2, <1>3 DEF Owned
<1>7. \A a \in Bytes : ~NotInUse(h2, a) <=> a \in AtsOf(O) \cup AtsOf(E) \cup K2
  BY <1>2, <1>3
<1>8. Owned(h2, O, E, K2)
  BY <1>2, <1>6, <1>7 DEF Owned
<1> QED BY <1>3, <1>8

\* A block in use is freed.
FreedBlock(h, h2, b) ==
    LevelsOK(h) /\ b \in Bytes /\ h2.level = [h.level EXCEPT ![b] = -1]

LEMMA FreedIs ==
    ASSUME NEW h, NEW h2, NEW b, FreedBlock(h, h2, b)
    PROVE  /\ \A a \in Bytes : NotInUse(h2, a) <=> a = b \/ NotInUse(h, a)
           /\ \A a \in Bytes : a # b => h2.level[a] = h.level[a]
  BY DEF FreedBlock, LevelsOK, NotInUse

LEMMA OwnedDelete ==
    ASSUME NEW h, NEW h2, NEW O, NEW E, NEW K, Owned(h, O, E, K), NEW o \in O,
           FreedBlock(h, h2, o.at)
    PROVE  Owned(h2, O \ {o}, E, K)
<1>1. PICK b : b = o.at
  OBVIOUS
<1>2. /\ \A a \in Bytes : NotInUse(h2, a) <=> a = b \/ NotInUse(h, a)
      /\ \A a \in Bytes : a # b => h2.level[a] = h.level[a]
  BY <1>1, FreedIs
<1>3. PICK O2 : O2 = O \ {o}
  OBVIOUS
<1>4. AtsOf(O2) = AtsOf(O) \ {b} /\ AtsApart(O2) /\ b \in AtsOf(O)
  BY <1>1, <1>3, AtsIn DEF Owned
<1>5. \A p \in O2 : p.size + HeaderSize <= Size(h2.level[p.at])
  <2>1. \A p \in O2 : p \in O /\ p.at \in Bytes /\ p.at \in AtsOf(O2)
    BY <1>3, AtsIn, OwnedTypes
  <2>2. \A p \in O2 : h2.level[p.at] = h.level[p.at]
    BY <1>2, <1>4, <2>1
  <2> QED BY <2>1, <2>2 DEF Owned
<1>6. /\ O2 \in SUBSET ObjectRecords /\ E \in SUBSET NodeRecords /\ K \in SUBSET Bytes /\ AtsApart(E)
      /\ AtsOf(O2) \cap AtsOf(E) = {} /\ AtsOf(O2) \cap K = {} /\ AtsOf(E) \cap K = {}
      /\ b \notin AtsOf(E) /\ b \notin K
  BY <1>3, <1>4 DEF Owned
<1>7. \A a \in Bytes : ~NotInUse(h2, a) <=> a \in AtsOf(O2) \cup AtsOf(E) \cup K
  BY <1>2, <1>4, <1>6 DEF Owned
<1>8. Owned(h2, O2, E, K)
  BY <1>4, <1>5, <1>6, <1>7 DEF Owned
<1> QED BY <1>3, <1>8

LEMMA OwnedPoll ==
    ASSUME NEW h, NEW h2, NEW O, NEW E, NEW K, Owned(h, O, E, K), NEW r \in E,
           FreedBlock(h, h2, r.at)
    PROVE  Owned(h2, O, E \ {r}, K)
<1>1. PICK b : b = r.at
  OBVIOUS
<1>2. /\ \A a \in Bytes : NotInUse(h2, a) <=> a = b \/ NotInUse(h, a)
      /\ \A a \in Bytes : a # b => h2.level[a] = h.level[a]
  BY <1>1, FreedIs
<1>3. PICK E2 : E2 = E \ {r}
  OBVIOUS
<1>4. AtsOf(E2) = AtsOf(E) \ {b} /\ AtsApart(E2) /\ b \in AtsOf(E)
  BY <1>1, <1>3, AtsIn DEF Owned
<1>6. /\ O \in SUBSET ObjectRecords /\ E2 \in SUBSET NodeRecords /\ K \in SUBSET Bytes /\ AtsApart(O)
      /\ AtsOf(O) \cap AtsOf(E2) = {} /\ AtsOf(O) \cap K = {} /\ AtsOf(E2) \cap K = {}
      /\ b \notin AtsOf(O) /\ b \notin K
  BY <1>3, <1>4 DEF Owned
<1>5. \A p \in O : p.size + HeaderSize <= Size(h2.level[p.at])
  <2>1. \A p \in O : p.at \in Bytes /\ p.at \in AtsOf(O)
    BY AtsIn, OwnedTypes
  <2>2. \A p \in O : h2.level[p.at] = h.level[p.at]
    BY <1>2, <1>6, <2>1
  <2> QED BY <2>1, <2>2 DEF Owned
<1>7. \A a \in Bytes : ~NotInUse(h2, a) <=> a \in AtsOf(O) \cup AtsOf(E2) \cup K
  BY <1>2, <1>4, <1>6 DEF Owned
<1>8. Owned(h2, O, E2, K)
  BY <1>4, <1>5, <1>6, <1>7 DEF Owned
<1> QED BY <1>3, <1>8

-----------------------------------------------------------------------------
(* The inductive invariant.                                                 *)

LookRecords == [size : Sizes, found : FoundRecords]
LevelOf(size) == calc_level(size + HeaderSize)

\* At most one task has looked and not taken yet; what it has found is still there.
HeapIn(h, lk) ==
    /\ lk \in [Users -> LookRecords \cup {Nobody}]
    /\ \A u, v \in Users : lk[u] # Nobody /\ lk[v] # Nobody => u = v
    /\ HeapOK(h, ComingOf(lk))
    /\ \A u \in Users : lk[u] # Nobody =>
         LookFound(h, lk[u].found, LevelOf(lk[u].size), ComingOf(lk))

\* The map remembers what was put.
KeptIn(kp, E) ==
    /\ kp \in [Keys -> Vals \cup {Nobody}]
    /\ \A k \in Keys :
         \/ kp[k] = Nobody /\ \A r \in E : r.key # k
         \/ \E r \in E : r.key = k /\ r.val = kp[k]

HeapInv ==
    /\ HeapIn(heap, look)
    /\ ChainsOK
    /\ Owned(heap, objects, MapEntries(hashtable), leaked)
    /\ KeptIn(kept, MapEntries(hashtable))

LEMMA SizeLevel ==
    ASSUME NEW n \in Nat, n + HeaderSize <= PageSize
    PROVE  /\ n + HeaderSize \in Nat
           /\ LevelOf(n) \in Levels /\ n + HeaderSize <= Size(LevelOf(n))
<1>1. PICK m \in Nat : m = n + HeaderSize
  BY BuddyAssumption
<1> QED BY <1>1, CalcLevel DEF LevelOf

LEMMA NoneComing ==
    ASSUME NEW lk, \A u \in Users : lk[u] = Nobody
    PROVE  ComingOf(lk) = {}
  BY DEF ComingOf

LEMMA OneComing ==
    ASSUME NEW lk, NEW u \in Users, lk[u] # Nobody, \A v \in Users \ {u} : lk[v] = Nobody
    PROVE  ComingOf(lk) = PageBy(lk[u].found)
<1>1. CASE lk[u].found.from = "pages"
  <2>1. {v \in Users : lk[v] # Nobody /\ lk[v].found.from = "pages"} = {u}
    BY <1>1
  <2> QED BY <1>1, <2>1 DEF ComingOf, PageBy
<1>2. CASE lk[u].found.from # "pages"
  <2>1. {v \in Users : lk[v] # Nobody /\ lk[v].found.from = "pages"} = {}
    BY <1>2
  <2> QED BY <1>2, <2>1 DEF ComingOf, PageBy
<1> QED BY <1>1, <1>2

LEMMA HeapQuiet ==
    ASSUME NEW h, NEW lk, \A u \in Users : lk[u] = Nobody
    PROVE  /\ HeapIn(h, lk) => HeapOK(h, {})
           /\ HeapOK(h, {}) /\ lk \in [Users -> LookRecords \cup {Nobody}] => HeapIn(h, lk)
  BY NoneComing DEF HeapIn

LEMMA AloneIs ==
    ASSUME ~Preemptible, NEW u \in Users, Goes(u)
    PROVE  \A v \in Users \ {u} : look[v] = Nobody
  BY DEF Goes

LEMMA CarvedTaken ==
    ASSUME NEW h, NEW C, HeapOK(h, C), NEW h2, NEW b, NEW lv \in Levels, Carved(h, h2, b, lv)
    PROVE  HeapOK(h2, {}) /\ TakenBlock(h, h2, b, lv)
  BY DEF Carved, TakenBlock, HeapOK, LevelsOK

LEMMA LookKeeps ==
    ASSUME ~Preemptible, HeapInv, NEW u \in Users, NEW size \in Sizes, Look(u, size)
    PROVE  HeapIn(heap', look') /\ heap'.level = heap.level /\ objects' = objects
<1>1. /\ \A v \in Users : look[v] = Nobody
      /\ look \in [Users -> LookRecords \cup {Nobody}]
      /\ HeapOK(heap, {}) /\ objects' = objects
  <2>1. \A v \in Users : look[v] = Nobody
    BY AloneIs DEF Look
  <2> QED BY <2>1, HeapQuiet DEF HeapInv, HeapIn, Look
<1>2. PICK lv \in Levels : lv = LevelOf(size)
  BY SizeLevel, BuddyAssumption
<1>3. PICK f : f = Found(heap, lv)
  OBVIOUS
<1>4. CASE f.list = <<>>
  <2>1. UNCHANGED <<heap, look>>
    BY <1>2, <1>3, <1>4 DEF Look, LevelOf
  <2> QED BY <1>1, <2>1 DEF HeapInv
<1>5. CASE f.list # <<>>
  <2>1. PICK y : y = [size |-> size, found |-> f]
    OBVIOUS
  <2>2. PICK h1 : h1 = heap'
    OBVIOUS
  <2>3. PICK lk : lk = look'
    OBVIOUS
  <2>4. lk = [look EXCEPT ![u] = y] /\ h1 = WithoutPage(heap, f)
    BY <1>2, <1>3, <1>5, <2>1, <2>2, <2>3 DEF Look, LevelOf
  <2>5. PICK C : C = PageBy(f)
    OBVIOUS
  <2>6. /\ HeapOK(h1, C) /\ LookFound(h1, f, lv, C) /\ h1.level = heap.level
        /\ f \in FoundRecords
    BY <1>1, <1>3, <1>5, <2>4, <2>5, LookedOK
  <2>7. y \in LookRecords /\ y.size = size /\ y.found = f
    BY <2>1, <2>6 DEF LookRecords
  <2>8. y # Nobody
    BY <2>7, BuddyAssumption DEF LookRecords, FoundRecords
  <2>9. /\ lk \in [Users -> LookRecords \cup {Nobody}] /\ lk[u] = y
        /\ \A v \in Users \ {u} : lk[v] = Nobody
    BY <1>1, <2>4, <2>7
  <2>10. ComingOf(lk) = C
    BY <2>5, <2>7, <2>8, <2>9, OneComing
  <2>11. HeapIn(h1, lk)
    <3>1. \A v \in Users : lk[v] # Nobody => v = u
      BY <2>9
    <3> QED BY <1>2, <2>6, <2>7, <2>9, <2>10, <3>1 DEF HeapIn
  <2> QED BY <1>1, <2>2, <2>3, <2>6, <2>11
<1> QED BY <1>4, <1>5

LEMMA TakeKeeps ==
    ASSUME ~Preemptible, HeapInv, NEW u \in Users, Take(u)
    PROVE  /\ HeapIn(heap', look')
           /\ Owned(heap', objects', MapEntries(hashtable), leaked)
<1>1. PICK y \in LookRecords : y = look[u]
  BY DEF Take, HeapInv, HeapIn
<1>2. PICK f \in FoundRecords : f = y.found
  BY DEF LookRecords
<1>3. PICK size \in Sizes : size = y.size
  BY DEF LookRecords
<1>4. PICK lv \in Levels : lv = LevelOf(size) /\ size + HeaderSize <= Size(lv)
  BY SizeLevel, BuddyAssumption
<1>5. PICK C : C = ComingOf(look)
  OBVIOUS
<1>6. HeapOK(heap, C) /\ LookFound(heap, f, lv, C)
  BY <1>1, <1>2, <1>3, <1>4, <1>5 DEF HeapInv, HeapIn, Take
<1>7. PICK b : b = Head(f.list)
  OBVIOUS
<1>8. PICK h2 : h2 = heap'
  OBVIOUS
<1>9. h2 = Carve(heap, f, lv) /\ objects' = objects \cup {[at |-> b, size |-> size]}
      /\ look' = [look EXCEPT ![u] = Nobody]
  BY <1>1, <1>2, <1>3, <1>4, <1>7, <1>8 DEF Take, LevelOf
<1>10. Carved(heap, h2, b, lv)
  BY <1>6, <1>7, <1>9, CarveOK
<1>11. HeapOK(h2, {}) /\ TakenBlock(heap, h2, b, lv)
  BY <1>6, <1>10, CarvedTaken
<1>12. HeapIn(h2, look')
  <2>1. PICK lk : lk = look'
    OBVIOUS
  <2>2. lk \in [Users -> LookRecords \cup {Nobody}] /\ \A v \in Users : lk[v] = Nobody
    BY <1>9, <2>1, AloneIs DEF HeapInv, HeapIn, Take
  <2> QED BY <1>11, <2>1, <2>2, HeapQuiet
<1>13. PICK o : o = [at |-> b, size |-> size]
  OBVIOUS
<1>14. o \in ObjectRecords /\ o.at = b /\ o.size = size
  BY <1>11, <1>13 DEF TakenBlock, ObjectRecords
<1>15. PICK E : E = MapEntries(hashtable)
  OBVIOUS
<1>16. Owned(h2, objects \cup {o}, E, leaked)
  <2>1. Owned(heap, objects, E, leaked)
    BY <1>15 DEF HeapInv
  <2> QED BY <1>4, <1>11, <1>14, <2>1, OwnedObject
<1> QED BY <1>8, <1>9, <1>12, <1>13, <1>15, <1>16

LEMMA DeleteKeeps ==
    ASSUME ~Preemptible, HeapInv, NEW u \in Users, NEW o \in objects, Delete(u, o)
    PROVE  /\ HeapIn(heap', look')
           /\ Owned(heap', objects', MapEntries(hashtable), leaked)
<1>1. /\ \A v \in Users : look[v] = Nobody
      /\ look \in [Users -> LookRecords \cup {Nobody}]
      /\ HeapOK(heap, {}) /\ look' = look /\ objects' = objects \ {o}
  <2>1. \A v \in Users : look[v] = Nobody
    BY AloneIs DEF Delete
  <2> QED BY <2>1, HeapQuiet DEF HeapInv, HeapIn, Delete
<1>2. PICK E : E = MapEntries(hashtable)
  OBVIOUS
<1>3. Owned(heap, objects, E, leaked)
  BY <1>2 DEF HeapInv
<1>4. PICK b : b = o.at
  OBVIOUS
<1>5. b \in Bytes /\ ~NotInUse(heap, b)
  <2>1. b \in AtsOf(objects)
    BY <1>4, AtsIn
  <2> QED BY <1>3, <2>1, OwnedTypes DEF Owned
<1>6. PICK h2 : h2 = heap'
  OBVIOUS
<1>7. h2 = buddy_free(heap, b)
  BY <1>4, <1>6 DEF Delete
<1>8. HeapOK(h2, {}) /\ h2.level = [heap.level EXCEPT ![b] = -1]
  BY <1>1, <1>5, <1>7, FreeOK
<1>9. FreedBlock(heap, h2, b)
  BY <1>1, <1>5, <1>8 DEF FreedBlock, HeapOK, LevelsOK
<1>10. Owned(h2, objects \ {o}, E, leaked)
  BY <1>3, <1>4, <1>9, OwnedDelete
<1>11. HeapIn(h2, look)
  BY <1>1, <1>8, HeapQuiet
<1> QED BY <1>1, <1>2, <1>6, <1>10, <1>11

LEMMA PutKeeps ==
    ASSUME ~Preemptible, HeapInv, NEW u \in Users, NEW k \in Keys, NEW v \in Vals, put(u, k, v)
    PROVE  HeapInv'
<1>1. /\ \A w \in Users : look[w] = Nobody
      /\ look \in [Users -> LookRecords \cup {Nobody}]
      /\ HeapOK(heap, {}) /\ look' = look /\ objects' = objects /\ leaked' = leaked
  <2>1. \A w \in Users : look[w] = Nobody
    BY AloneIs DEF put
  <2> QED BY <2>1, HeapQuiet DEF HeapInv, HeapIn, put
<1>2. PICK E : E = MapEntries(hashtable)
  OBVIOUS
<1>3. Owned(heap, objects, E, leaked) /\ KeptIn(kept, E) /\ ChainsIn(hashtable)
  BY <1>2 DEF HeapInv, ChainsOK
<1>4. PICK b : b = Placed(heap, NodeSize)
  OBVIOUS
<1>5. PICK h2 : h2 = heap'
  OBVIOUS
<1>6. h2 = buddy_alloc(heap, NodeSize) /\ HasRoom(heap, NodeSize)
  BY <1>5 DEF put
<1>7. PICK lv \in Levels : Carved(heap, h2, b, lv)
  BY <1>1, <1>4, <1>6, MapAssumption, SizeLevel, AllocOK
<1>8. HeapOK(h2, {}) /\ TakenBlock(heap, h2, b, lv)
  BY <1>1, <1>7, CarvedTaken
<1>9. PICK r : r = [at |-> b, key |-> k, val |-> v]
  OBVIOUS
<1>10. r \in NodeRecords /\ r.at = b /\ r.key = k /\ r.val = v
  BY <1>8, <1>9 DEF TakenBlock, NodeRecords
<1>11. \A q \in E : q.key # k
  <2> SUFFICES ASSUME NEW q \in E, q.key = k PROVE FALSE
    OBVIOUS
  <2>1. get(k) = q.val
    BY <1>2, GetIs DEF HeapInv
  <2>2. q.val \in Vals
    BY <1>3 DEF Owned, NodeRecords
  <2> QED BY <2>1, <2>2, MapAssumption DEF put
<1>12. PICK H2 : H2 = hashtable'
  OBVIOUS
<1>13. PICK c : c = Hash[k]
  OBVIOUS
<1>14. PICK s : s = <<r>> \o hashtable[c]
  OBVIOUS
<1>15. H2 = WithChain(hashtable, c, s)
  BY <1>4, <1>9, <1>12, <1>13, <1>14 DEF put, WithChain
<1>16. ChainsIn(H2) /\ MapEntries(H2) = E \cup {r}
  <2>1. NewKey(hashtable, r.key) /\ s = Linked(hashtable, c, r)
    BY <1>2, <1>10, <1>11, <1>14 DEF NewKey, Linked
  <2>2. c = Hash[r.key] /\ r \in NodeRecords
    BY <1>10, <1>13
  <2>3. ChainsIn(H2) /\ MapEntries(H2) = MapEntries(hashtable) \cup {r}
    BY <1>3, <1>15, <2>1, <2>2, EntryPut
  <2> QED BY <1>2, <2>3
<1>17. Owned(h2, objects, E \cup {r}, leaked)
  BY <1>3, <1>8, <1>10, OwnedNode
<1>18. HeapIn(h2, look)
  BY <1>1, <1>8, HeapQuiet
<1>19. KeptIn(kept', E \cup {r})
  <2>1. kept' = [kept EXCEPT ![k] = v]
    BY DEF put
  <2>2. kept' \in [Keys -> Vals \cup {Nobody}]
    BY <1>3, <2>1 DEF KeptIn
  <2>3. ASSUME NEW j \in Keys
        PROVE  \/ kept'[j] = Nobody /\ \A q \in E \cup {r} : q.key # j
               \/ \E q \in E \cup {r} : q.key = j /\ q.val = kept'[j]
    <3>1. CASE j = k
      BY <1>3, <1>10, <2>1, <3>1 DEF KeptIn
    <3>2. CASE j # k
      BY <1>3, <1>10, <2>1, <3>2 DEF KeptIn
    <3> QED BY <3>1, <3>2
  <2> QED BY <2>2, <2>3 DEF KeptIn
<1> QED BY <1>1, <1>5, <1>12, <1>16, <1>17, <1>18, <1>19 DEF HeapInv, ChainsOK

LEMMA PollKeeps ==
    ASSUME ~Preemptible, HeapInv, NEW u \in Users, NEW k \in Keys, poll(u, k)
    PROVE  HeapInv'
<1>1. /\ \A w \in Users : look[w] = Nobody
      /\ look \in [Users -> LookRecords \cup {Nobody}]
      /\ HeapOK(heap, {}) /\ look' = look /\ objects' = objects
  <2>1. \A w \in Users : look[w] = Nobody
    BY AloneIs DEF poll
  <2> QED BY <2>1, HeapQuiet DEF HeapInv, HeapIn, poll
<1>2. PICK E : E = MapEntries(hashtable)
  OBVIOUS
<1>3. Owned(heap, objects, E, leaked) /\ KeptIn(kept, E) /\ ChainsIn(hashtable)
  BY <1>2 DEF HeapInv, ChainsOK
<1>4. PICK b : b = Placed(heap, NodeSize)
  OBVIOUS
<1>5. PICK h1 : h1 = buddy_alloc(heap, NodeSize)
  OBVIOUS
<1>6. HasRoom(heap, NodeSize)
  BY DEF poll
<1>7. PICK lv \in Levels : Carved(heap, h1, b, lv)
  BY <1>1, <1>4, <1>5, <1>6, MapAssumption, SizeLevel, AllocOK
<1>8. HeapOK(h1, {}) /\ TakenBlock(heap, h1, b, lv)
  BY <1>1, <1>7, CarvedTaken
<1>9. PICK K2 : K2 = leaked \cup {b}
  OBVIOUS
<1>10. Owned(h1, objects, E, K2)
  BY <1>3, <1>8, <1>9, OwnedLeak
<1>11. PICK r \in E : r.key = k
  BY <1>3 DEF KeptIn, poll
<1>12. PICK i : i = Reached(k)
  OBVIOUS
<1>13. PICK c : c = Hash[k]
  OBVIOUS
<1>14. c \in Buckets /\ i \in DOMAIN hashtable[c] /\ hashtable[c][i] = r
  BY <1>2, <1>11, <1>12, <1>13, HashBucket, GetIs DEF HeapInv, Chain
<1>15. PICK a : a = r.at
  OBVIOUS
<1>16. PICK h2 : h2 = heap'
  OBVIOUS
<1>17. h2 = buddy_free(h1, a) /\ leaked' = K2
  BY <1>4, <1>5, <1>9, <1>12, <1>13, <1>14, <1>15, <1>16 DEF poll, Chain
<1>18. a \in Bytes /\ ~NotInUse(h1, a)
  <2>1. a \in AtsOf(E)
    BY <1>15, AtsIn
  <2> QED BY <1>10, <2>1, OwnedTypes DEF Owned
<1>19. HeapOK(h2, {}) /\ h2.level = [h1.level EXCEPT ![a] = -1]
  BY <1>8, <1>17, <1>18, FreeOK
<1>20. FreedBlock(h1, h2, a)
  BY <1>8, <1>18, <1>19 DEF FreedBlock, HeapOK, LevelsOK
<1>21. Owned(h2, objects, E \ {r}, K2)
  BY <1>10, <1>15, <1>20, OwnedPoll
<1>22. PICK H2 : H2 = hashtable'
  OBVIOUS
<1>23. PICK s : s = RemoveAt(hashtable[c], i)
  OBVIOUS
<1>24. H2 = WithChain(hashtable, c, s)
  BY <1>12, <1>13, <1>22, <1>23 DEF poll, WithChain, Unlinked
<1>25. ChainsIn(H2) /\ MapEntries(H2) = E \ {r}
  BY <1>2, <1>3, <1>14, <1>23, <1>24, EntryPolled
<1>26. HeapIn(h2, look)
  BY <1>1, <1>19, HeapQuiet
<1>27. KeptIn(kept', E \ {r})
  <2>1. kept' = [kept EXCEPT ![k] = Nobody]
    BY DEF poll
  <2>2. kept' \in [Keys -> Vals \cup {Nobody}]
    BY <1>3, <2>1 DEF KeptIn
  <2>3. \A q \in E : q.key = k => q = r
    BY <1>2, <1>3, <1>11, EntryIs
  <2>4. ASSUME NEW j \in Keys
        PROVE  \/ kept'[j] = Nobody /\ \A q \in E \ {r} : q.key # j
               \/ \E q \in E \ {r} : q.key = j /\ q.val = kept'[j]
    <3>1. CASE j = k
      BY <1>3, <2>1, <2>3, <3>1 DEF KeptIn
    <3>2. CASE j # k
      BY <1>3, <1>11, <2>1, <3>2 DEF KeptIn
    <3> QED BY <3>1, <3>2
  <2> QED BY <2>2, <2>4 DEF KeptIn
<1> QED BY <1>1, <1>16, <1>17, <1>21, <1>22, <1>25, <1>26, <1>27 DEF HeapInv, ChainsOK

LEMMA Times ==
    ASSUME NEW S \in Nat \ {0}, NEW a \in Nat, NEW b \in Nat, a < b
    PROVE  a * S + S <= b * S /\ a * S \in Nat /\ b * S \in Nat
<1>1. PICK e \in Nat : e = b - a - 1
  OBVIOUS
<1>2. e * S \in Nat /\ a * S \in Nat
  OBVIOUS
<1>3. b * S = a * S + S + e * S
  <2>1. b = a + 1 + e
    BY <1>1
  <2> QED BY <2>1
<1> QED BY <1>2, <1>3

\* At the start every page is free.
LEMMA PagesStart ==
    ASSUME NEW pg, pg = [n \in 1 .. NPages |-> (NPages - n) * PageSize]
    PROVE  pg \in Seq(Nat) /\ Once(pg) /\ Tiles({}, ToSet(pg))
<1>1. PICK S \in Nat \ {0} : S = PageSize
  BY HeapSizes
<1>2. PICK N \in Nat : N = NPages
  BY BuddyAssumption
<1>3. pg = [n \in 1 .. N |-> (N - n) * S] /\ HeapTop = N * S
  BY <1>1, <1>2 DEF HeapTop
<1>4. DOMAIN pg = 1 .. N /\ \A n \in 1 .. N : pg[n] = (N - n) * S
  BY <1>3
<1>5. ASSUME NEW n \in 1 .. N
      PROVE  pg[n] \in Nat /\ BlockFits(pg[n], MAX_LEVEL)
  <2>1. PICK c \in Nat : c = N - n
    OBVIOUS
  <2>2. c < N
    BY <2>1
  <2>3. pg[n] = c * S
    BY <1>4, <2>1
  <2>4. c * S + S <= N * S /\ c * S \in Nat
    BY <2>2, Times
  <2> QED BY <1>1, <1>3, <2>3, <2>4, HeapSizes DEF BlockFits, Aligned
<1>6. pg \in Seq(Nat)
  <2>1. pg = [n \in 1 .. N |-> pg[n]]
    BY <1>3, <1>4
  <2>2. [n \in 1 .. N |-> pg[n]] \in Seq(Nat)
    BY <1>5
  <2> QED BY <2>1, <2>2
<1>7. ASSUME NEW i \in 1 .. N, NEW j \in 1 .. N, i < j PROVE pg[i] # pg[j]
  <2>1. PICK c \in Nat : c = N - j
    OBVIOUS
  <2>2. PICK d \in Nat : d = N - i
    OBVIOUS
  <2>3. c < d
    BY <1>7, <2>1, <2>2
  <2>4. c * S + S <= d * S /\ c * S \in Nat /\ d * S \in Nat
    BY <2>3, Times
  <2>5. pg[j] = c * S /\ pg[i] = d * S
    BY <1>4, <2>1, <2>2
  <2> QED BY <2>4, <2>5
<1>8. Once(pg)
  <2> SUFFICES ASSUME NEW i \in 1 .. N, NEW j \in 1 .. N, pg[i] = pg[j] PROVE i = j
    BY <1>4 DEF Once, IsInjective
  <2>1. i < j \/ j < i \/ i = j
    OBVIOUS
  <2>2. ~(i < j)
    BY <1>7
  <2>3. ~(j < i)
    BY <1>7
  <2> QED BY <2>1, <2>2, <2>3
<1>9. ASSUME NEW x \in Bytes PROVE PageOf(x) \in ToSet(pg)
  <2>1. Aligned(PageOf(x), MAX_LEVEL) /\ PageOf(x) <= x
    BY PageOfAligned
  <2>2. PICK d \in Nat : PageOf(x) = d * S
    BY <1>1, <2>1, HeapSizes DEF Aligned
  <2>3. x < N * S /\ x \in Nat
    BY <1>3, HeapSizes
  <2>4. d < N
    <3> SUFFICES ASSUME N <= d PROVE FALSE
      OBVIOUS
    <3>1. N = d \/ N < d
      OBVIOUS
    <3>2. N < d => N * S + S <= d * S
      BY Times
    <3> QED BY <2>1, <2>2, <2>3, <3>1, <3>2
  <2>5. PICK n \in 1 .. N : n = N - d
    BY <2>4
  <2>6. pg[n] = d * S
    <3>1. N - n = d
      BY <2>5
    <3> QED BY <1>4, <3>1
  <2> QED BY <1>4, <2>2, <2>6 DEF ToSet
<1>10. ToSet(pg) \in SUBSET Nat /\ \A p \in ToSet(pg) : BlockFits(p, MAX_LEVEL)
  BY <1>4, <1>5 DEF ToSet
<1>11. \A x \in Bytes : Covered({}, x) <=> PageOf(x) \notin ToSet(pg)
  BY <1>9 DEF Covered
<1>12. Tiles({}, ToSet(pg))
  <2> PICK P : P = ToSet(pg)
    OBVIOUS
  <2>1. P \in SUBSET Nat /\ (\A p \in P : BlockFits(p, MAX_LEVEL))
        /\ \A x \in Bytes : Covered({}, x) <=> PageOf(x) \notin P
    BY <1>10, <1>11
  <2>2. Tiles({}, P)
    BY <2>1 DEF Tiles
  <2> QED BY <2>2
<1> QED BY <1>6, <1>8, <1>12

LEMMA HeapStart == MapInit => HeapInv
<1> SUFFICES ASSUME MapInit PROVE HeapInv
  OBVIOUS
<1>1. PICK F : F = [l \in Levels |-> <<>>]
  OBVIOUS
<1>2. PICK pg : pg = [n \in 1 .. NPages |-> (NPages - n) * PageSize]
  OBVIOUS
<1>3. PICK L : L = [b \in Bytes |-> -1]
  OBVIOUS
<1>4. heap = [freelist |-> F, pages |-> pg, level |-> L]
  BY <1>1, <1>2, <1>3 DEF MapInit, BuddyInit
<1>5. /\ heap.freelist = F /\ heap.pages = pg /\ heap.level = L
      /\ heap = [freelist |-> heap.freelist, pages |-> heap.pages, level |-> heap.level]
  BY <1>4
<1>6. \A l \in Levels : F[l] = <<>>
  BY <1>1
<1>7. ListsOK(F)
  <2>1. F \in [Levels -> Seq(Nat)]
    BY <1>1
  <2>2. Once(<<>>)
    BY DEF Once, IsInjective
  <2> QED BY <1>6, <2>1, <2>2, EmptySet, HeapSizes DEF ListsOK
<1>8. FreeIn(F) = {}
  BY <1>6, EmptySet DEF FreeIn
<1>9. Used(heap) = {} /\ Whole({}) = {}
  BY <1>3, <1>5, LevelFree DEF Used, Whole
<1>10. Holds(F, pg, Used(heap) \cup Whole({}))
  <2>1. pg \in Seq(Nat) /\ Once(pg) /\ Tiles({}, ToSet(pg))
    BY <1>2, PagesStart
  <2>2. Holds(F, pg, {})
    BY <1>7, <1>8, <2>1 DEF Holds
  <2>3. Used(heap) \cup Whole({}) = {}
    BY <1>9
  <2> QED BY <2>2, <2>3
<1>11. L \in [Bytes -> Levels \cup {-1}]
  BY <1>3
<1>12. HeapOK(heap, {})
  BY <1>5, <1>10, <1>11 DEF HeapOK
<1>13. look \in [Users -> LookRecords \cup {Nobody}] /\ \A u \in Users : look[u] = Nobody
  BY DEF MapInit, BuddyInit
<1>14. HeapIn(heap, look)
  BY <1>12, <1>13, HeapQuiet
<1>15. \A b \in Buckets : hashtable[b] = <<>>
  BY DEF MapInit
<1>16. ChainsOK
  <2>1. \A b \in Buckets : ChainOK(<<>>, b)
    BY DEF ChainOK
  <2> QED BY <1>15, <2>1 DEF ChainsOK, ChainsIn, MapInit
<1>17. MapEntries(hashtable) = {}
  BY <1>15, EmptySet DEF MapEntries
<1>18. Owned(heap, {}, {}, {})
  <2>1. \A a \in Bytes : NotInUse(heap, a)
    BY <1>3, <1>5 DEF NotInUse
  <2> QED BY <2>1 DEF Owned, AtsApart, AtsOf
<1>19. KeptIn(kept, {})
  BY DEF KeptIn, MapInit
<1> QED BY <1>14, <1>16, <1>17, <1>18, <1>19 DEF HeapInv, MapInit, BuddyInit

LEMMA HeapStep ==
    ASSUME ~Preemptible
    PROVE  HeapInv /\ [MapNext]_mapVars => HeapInv'
<1> SUFFICES ASSUME HeapInv, [MapNext]_mapVars PROVE HeapInv'
  OBVIOUS
<1>1. ASSUME NEW u \in Users, NEW size \in Sizes, Look(u, size),
             UNCHANGED <<hashtable, kept, leaked>>
      PROVE  HeapInv'
  <2>1. HeapIn(heap', look') /\ heap'.level = heap.level /\ objects' = objects
    BY <1>1, LookKeeps
  <2>2. PICK E : E = MapEntries(hashtable)
    OBVIOUS
  <2>3. PICK h2 : h2 = heap'
    OBVIOUS
  <2>4. Owned(heap, objects, E, leaked) /\ h2.level = heap.level
    BY <2>1, <2>2, <2>3 DEF HeapInv
  <2>5. Owned(h2, objects, E, leaked)
    BY <2>4, OwnedSame
  <2> QED BY <1>1, <2>1, <2>2, <2>3, <2>5 DEF HeapInv, ChainsOK
<1>2. ASSUME NEW u \in Users, Take(u), UNCHANGED <<hashtable, kept, leaked>>
      PROVE  HeapInv'
  <2>1. HeapIn(heap', look') /\ Owned(heap', objects', MapEntries(hashtable), leaked)
    BY <1>2, TakeKeeps
  <2> QED BY <1>2, <2>1 DEF HeapInv, ChainsOK
<1>3. ASSUME NEW u \in Users, NEW o \in objects, Delete(u, o),
             UNCHANGED <<hashtable, kept, leaked>>
      PROVE  HeapInv'
  <2>1. HeapIn(heap', look') /\ Owned(heap', objects', MapEntries(hashtable), leaked)
    BY <1>3, DeleteKeeps
  <2> QED BY <1>3, <2>1 DEF HeapInv, ChainsOK
<1>4. ASSUME NEW u \in Users, NEW k \in Keys, NEW v \in Vals, put(u, k, v) PROVE HeapInv'
  BY <1>4, PutKeeps
<1>5. ASSUME NEW u \in Users, NEW k \in Keys, poll(u, k) PROVE HeapInv'
  BY <1>5, PollKeeps
<1>6. ASSUME NEW u \in Users, NoRoom(u) PROVE HeapInv'
  BY <1>6 DEF NoRoom, HeapInv, ChainsOK
<1>7. CASE UNCHANGED mapVars
  BY <1>7 DEF mapVars, buddyVars, HeapInv, ChainsOK
<1> QED BY <1>1, <1>2, <1>3, <1>4, <1>5, <1>6, <1>7 DEF MapNext, BuddyNext

LEMMA InvBlocks ==
    ASSUME HeapInv
    PROVE  BlocksOwned
<1>1. HeapOK(heap, ComingPages)
  BY DEF HeapInv, HeapIn, ComingPages
<1>2. ObjectsFit
  <2> SUFFICES ASSUME NEW o \in objects
               PROVE  o.at \in InUse /\ o.size + HeaderSize <= Size(heap.level[o.at])
    BY DEF ObjectsFit
  <2>1. PICK E : E = MapEntries(hashtable)
    OBVIOUS
  <2>2. Owned(heap, objects, E, leaked)
    BY <2>1 DEF HeapInv
  <2>3. o.at \in AtsOf(objects)
    BY AtsIn
  <2>4. o.at \in Bytes /\ ~NotInUse(heap, o.at)
    BY <2>2, <2>3, OwnedTypes DEF Owned
  <2> QED BY <2>2, <2>4 DEF Owned, InUse, NotInUse
<1> QED BY <1>1, <1>2, OwnedBlocks

\* A set of records that are apart has as many addresses.
LEMMA AtsCount ==
    ASSUME NEW S, NEW T \in SUBSET Bytes, NEW f, f \in [S -> T],
           \A x, y \in S : f[x] = f[y] => x = y, \A t \in T : \E x \in S : f[x] = t
    PROVE  IsFiniteSet(S) /\ IsFiniteSet(T) /\ Cardinality(S) = Cardinality(T)
<1>1. PICK n \in Int : n = HeapTop - 1
  BY HeapSizes
<1>2. PICK z \in Int : z = 0
  OBVIOUS
<1>3. Bytes = z .. n
  BY <1>1, <1>2, HeapSizes
<1>4. IsFiniteSet(Bytes)
  BY <1>3, FS_Interval
<1>5. IsFiniteSet(T)
  BY <1>4, FS_Subset
<1>6. f \in Injection(S, T) /\ f \in Surjection(S, T)
  BY DEF Injection, Surjection, IsInjective
<1> QED BY <1>5, <1>6, FS_Injection

LEMMA InvMap ==
    ASSUME HeapInv
    PROVE  MapHolds
<1>1. PICK E : E = MapEntries(hashtable)
  OBVIOUS
<1>2. Owned(heap, objects, E, leaked) /\ KeptIn(kept, E) /\ ChainsOK /\ ChainsIn(hashtable)
  BY <1>1 DEF HeapInv, ChainsOK
<1>3. \A k \in Keys : get(k) = kept[k]
  BY <1>1, <1>2, GetIs DEF KeptIn
<1>4. PICK A : A = AtsOf(E)
  OBVIOUS
<1>5. PICK D : D = AtsOf(objects)
  OBVIOUS
<1>6. /\ A \in SUBSET Bytes /\ D \in SUBSET Bytes /\ leaked \in SUBSET Bytes
      /\ D \cap A = {} /\ D \cap leaked = {} /\ A \cap leaked = {}
  BY <1>2, <1>4, <1>5, OwnedTypes DEF Owned
<1>7. InUse = A \cup leaked \cup D
  <2>1. \A a \in Bytes : a \in InUse <=> a \in D \cup A \cup leaked
    BY <1>2, <1>4, <1>5 DEF Owned, InUse, NotInUse
  <2> QED BY <1>6, <2>1 DEF InUse
<1>8. PICK f : f = [x \in Nodes |-> hashtable[x[1]][x[2]].at]
  OBVIOUS
<1>9. /\ f \in [Nodes -> A] /\ \A x, y \in Nodes : f[x] = f[y] => x = y
      /\ \A t \in A : \E x \in Nodes : f[x] = t
  <2>1. \A x \in Nodes : f[x] = hashtable[x[1]][x[2]].at /\ hashtable[x[1]][x[2]] \in E
    BY <1>1, <1>2, <1>8, NodeEntry
  <2>2. \A x \in Nodes : f[x] \in A
    BY <1>4, <2>1 DEF AtsOf
  <2>3. \A x, y \in Nodes : f[x] = f[y] => x = y
    BY <1>2, <2>1, NodeEntry DEF Owned, AtsApart
  <2>4. ASSUME NEW t \in A PROVE \E x \in Nodes : f[x] = t
    <3>1. PICK r \in E : t = r.at
      BY <1>4 DEF AtsOf
    <3>2. PICK x \in Nodes : hashtable[x[1]][x[2]] = r
      BY <1>1, <1>2, NodeEntry
    <3> QED BY <2>1, <3>1, <3>2
  <2> QED BY <1>8, <2>2, <2>3, <2>4
<1>10. IsFiniteSet(Nodes) /\ IsFiniteSet(A) /\ Cardinality(Nodes) = Cardinality(A)
  BY <1>6, <1>9, AtsCount
<1>11. {hashtable[x[1]][x[2]].at : x \in Nodes} = A
  BY <1>8, <1>9
<1>12. ToSet(Visited) = Nodes
  BY <1>2, <1>10, VisitedNodes
<1>13. PICK g : g = [o \in objects |-> o.at]
  OBVIOUS
<1>14. /\ g \in [objects -> D] /\ \A x, y \in objects : g[x] = g[y] => x = y
       /\ \A t \in D : \E x \in objects : g[x] = t
  BY <1>2, <1>5, <1>13 DEF AtsOf, Owned, AtsApart
<1>15. IsFiniteSet(objects) /\ IsFiniteSet(D) /\ Cardinality(objects) = Cardinality(D)
  BY <1>6, <1>14, AtsCount
<1>16. IsFiniteSet(leaked)
  <2>1. PICK i : i = [a \in leaked |-> a]
    OBVIOUS
  <2>2. /\ i \in [leaked -> leaked] /\ \A x, y \in leaked : i[x] = i[y] => x = y
        /\ \A t \in leaked : \E x \in leaked : i[x] = t
    BY <2>1
  <2> QED BY <1>6, <2>2, AtsCount
<1>17. Cardinality(InUse) = Cardinality(A) + Cardinality(leaked) + Cardinality(D)
  <2>1. PICK B : B = A \cup leaked
    OBVIOUS
  <2>2. /\ IsFiniteSet(B) /\ Cardinality(B) = Cardinality(A) + Cardinality(leaked) - Cardinality(A \cap leaked)
    BY <1>10, <1>16, <2>1, FS_Union
  <2>3. B \cap D = {} /\ InUse = B \cup D
    BY <1>6, <1>7, <2>1
  <2>4. Cardinality(InUse) = Cardinality(B) + Cardinality(D) - Cardinality(B \cap D)
    BY <1>15, <2>2, <2>3, FS_Union
  <2>5. Cardinality({}) = 0
    BY FS_EmptySet
  <2>6. Cardinality(A) \in Nat /\ Cardinality(leaked) \in Nat /\ Cardinality(D) \in Nat
    BY <1>10, <1>15, <1>16, FS_CardinalityType
  <2>7. Cardinality(A \cap leaked) = 0 /\ Cardinality(B \cap D) = 0
    BY <1>6, <2>3, <2>5
  <2>8. PICK m \in Nat, k \in Nat, d \in Nat :
          m = Cardinality(A) /\ k = Cardinality(leaked) /\ d = Cardinality(D)
    BY <2>6
  <2>9. Cardinality(B) = m + k
    BY <2>2, <2>7, <2>8
  <2>10. Cardinality(InUse) = (m + k) + d
    BY <2>4, <2>7, <2>8, <2>9
  <2> QED BY <2>8, <2>10
<1>18. {o.at : o \in objects} = D
  BY <1>5 DEF AtsOf
<1> QED BY <1>3, <1>7, <1>10, <1>11, <1>12, <1>15, <1>17, <1>18 DEF MapHolds

(* While no task is preempted in alloc or free, every byte of the pages     *)
(* that the heap has taken belongs to one block, in use, in one free list   *)
(* or on its way to alloc; buddies are joined and every object fits.        *)
THEOREM HeapBlocksOwned ==
    ASSUME ~Preemptible
    PROVE  MapSpec => []BlocksOwned
<1>1. MapInit => HeapInv
  BY HeapStart
<1>2. HeapInv /\ [MapNext]_mapVars => HeapInv'
  BY HeapStep
<1>3. HeapInv => BlocksOwned
  BY InvBlocks
<1> QED BY <1>1, <1>2, <1>3, PTL DEF MapSpec

(* The map answers with what was put and not polled since, its iterator     *)
(* meets every node once, and nodes, leaked nodes and objects have the      *)
(* blocks in use to themselves.                                             *)
THEOREM MapAlwaysHolds ==
    ASSUME ~Preemptible
    PROVE  MapSpec => []MapHolds
<1>1. MapInit => HeapInv
  BY HeapStart
<1>2. HeapInv /\ [MapNext]_mapVars => HeapInv'
  BY HeapStep
<1>3. HeapInv => MapHolds
  BY InvMap
<1> QED BY <1>1, <1>2, <1>3, PTL DEF MapSpec
=============================================================================
