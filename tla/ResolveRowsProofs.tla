------------------------- MODULE ResolveRowsProofs -------------------------
(***************************************************************************)
(* For every page size, number of pages, selection size, hot tier and      *)
(* schedule of the KV service: the phased kernel returns what the oracle's *)
(* scalar walk returns, no valid token is dropped silently, and every row  *)
(* handed out holds the selected token at its current generation.          *)
(***************************************************************************)
EXTENDS ResolveRows, FiniteSetTheorems, WellFoundedInduction, TLAPS

-----------------------------------------------------------------------------
(* Arithmetic of rows *)

LEMMA DivMod ==
    ASSUME NEW a \in Int, NEW n \in Nat \ {0}
    PROVE  a \div n \in Int /\ a % n \in 0 .. n - 1 /\ a = ((a \div n) * n) + (a % n)
  OBVIOUS

LEMMA MulNat == ASSUME NEW a \in Nat, NEW n \in Nat PROVE a * n \in Nat
  OBVIOUS

LEMMA MulSucc ==
    ASSUME NEW a \in Int, NEW b \in Int, NEW n \in Nat, a < b
    PROVE  (a * n) + n <= b * n
  OBVIOUS

LEMMA RowSplit ==
    ASSUME NEW p \in Int, NEW n \in Nat \ {0}, NEW o \in 0 .. n - 1
    PROVE  ((p * n) + o) \div n = p /\ ((p * n) + o) % n = o /\ (p * n) + o \in Int
  OBVIOUS

LEMMA DivBound ==
    ASSUME NEW n \in Nat \ {0}, NEW m \in Nat, NEW a \in Int, 0 <= a, a < m * n
    PROVE  a \div n \in 0 .. m - 1
  OBVIOUS

LEMMA Sizes ==
    /\ PAGE \in Nat \ {0} /\ PAGES \in Nat /\ GpuPages \in Nat /\ HostPages \in Nat
    /\ PAGES * PAGE \in Nat /\ PAGE < PAGES * PAGE /\ PAGES <= HostPages
    /\ K \in Nat \ {0} /\ H \in Nat
    /\ Len(HotSlots) \in Nat /\ H <= Len(HotSlots) * PAGE
  BY ResolveAssumption, MulNat

\* A token of the table lies on one of its pages.
LEMMA TokenPage ==
    ASSUME NEW tok \in Int, 0 <= tok, tok < PAGES * PAGE
    PROVE  /\ PageOf(tok) \in Pages /\ tok % PAGE \in 0 .. PAGE - 1
           /\ tok = (PageOf(tok) * PAGE) + (tok % PAGE)
  BY Sizes, DivBound, DivMod DEF PageOf, Pages

\* A row of a page of the GPU cache.
LEMMA PageRow ==
    ASSUME NEW g \in 0 .. GpuPages - 1, NEW o \in 0 .. PAGE - 1
    PROVE  /\ (g * PAGE) + o \in GpuRows
           /\ ((g * PAGE) + o) \div PAGE = g /\ ((g * PAGE) + o) % PAGE = o
<1>1. g \in Nat /\ g \in Int /\ o \in Nat /\ o < PAGE /\ g < GpuPages
  BY Sizes
<1>2. g * PAGE \in Nat /\ GpuPages * PAGE \in Nat
  BY <1>1, Sizes, MulNat
<1>3. (g * PAGE) + PAGE <= GpuPages * PAGE
  BY <1>1, Sizes, MulSucc
<1>4. (g * PAGE) + o \in GpuRows
  <2> DEFINE a == g * PAGE
             b == GpuPages * PAGE
  <2> HIDE DEF a, b
  <2>1. a \in Nat /\ b \in Nat /\ a + PAGE <= b
    BY <1>2, <1>3 DEF a, b
  <2>2. a + o \in 0 .. b - 1
    BY <2>1, <1>1, Sizes
  <2> QED
    BY <2>2 DEF a, b, GpuRows
<1> QED
  BY <1>1, <1>4, Sizes, RowSplit

LEMMA ItemOf == ASSUME NEW S, NEW s \in Seq(S), NEW i \in 1 .. Len(s) PROVE s[i] \in S
  OBVIOUS

\* The GPU page and the row of a lane of the hot tier.
LEMMA LanePage ==
    ASSUME NEW h \in Lanes
    PROVE  /\ (h \div PAGE) + 1 \in 1 .. Len(HotSlots) /\ h % PAGE \in 0 .. PAGE - 1
           /\ h = ((h \div PAGE) * PAGE) + (h % PAGE)
           /\ HotPage(h) \in HotGpu /\ HotPage(h) \in 0 .. GpuPages - 1
<1>1. h \in Int /\ 0 <= h /\ h < Len(HotSlots) * PAGE
  <2>1. Len(HotSlots) * PAGE \in Nat
    BY Sizes, MulNat
  <2> QED
    BY Sizes, <2>1 DEF Lanes
<1>2. h \div PAGE \in 0 .. Len(HotSlots) - 1
  BY <1>1, Sizes, DivBound
<1>3. (h \div PAGE) + 1 \in 1 .. Len(HotSlots)
  BY <1>2, Sizes
<1>4. HotSlots \in Seq(0 .. GpuPages - 1)
  BY ResolveAssumption
<1>5. HotPage(h) \in 0 .. GpuPages - 1 /\ HotPage(h) \in Range(HotSlots)
  <2>1. DOMAIN HotSlots = 1 .. Len(HotSlots)
    BY <1>4
  <2>2. HotPage(h) = HotSlots[(h \div PAGE) + 1]
    BY DEF HotPage
  <2>3. HotPage(h) \in Range(HotSlots)
    BY <1>3, <2>1, <2>2 DEF Range
  <2>4. HotPage(h) \in 0 .. GpuPages - 1
    BY <1>3, <1>4, <2>2, ItemOf
  <2> QED
    BY <2>3, <2>4
<1> QED
  BY <1>1, <1>3, <1>5, Sizes, DivMod DEF HotGpu

LEMMA HotRowIs ==
    ASSUME NEW h \in Lanes
    PROVE  /\ HotRow(h) \in GpuRows /\ HotRow(h) \div PAGE = HotPage(h)
           /\ HotRow(h) \in Int /\ HotRow(h) # -1
<1>1. HotRow(h) \in GpuRows /\ HotRow(h) \div PAGE = HotPage(h)
  BY LanePage, PageRow DEF HotRow
<1>2. GpuPages * PAGE \in Nat
  BY Sizes, MulNat
<1> QED
  BY <1>1, <1>2 DEF GpuRows

\* Two lanes have two rows.
LEMMA HotRowsApart ==
    ASSUME NEW g \in Lanes, NEW h \in Lanes, HotRow(g) = HotRow(h)
    PROVE  g = h
<1>1. HotPage(g) = HotPage(h)
  BY HotRowIs
<1>2. g % PAGE = h % PAGE
  BY LanePage, PageRow DEF HotRow
<1>3. (g \div PAGE) + 1 = (h \div PAGE) + 1
  BY <1>1, LanePage, ResolveAssumption DEF HotPage
<1>4. g \div PAGE \in Int /\ h \div PAGE \in Int
  BY Sizes, DivMod DEF Lanes
<1>5. g \div PAGE = h \div PAGE
  BY <1>3, <1>4
<1> QED
  BY <1>2, <1>5, LanePage

-----------------------------------------------------------------------------
(* Lanes *)

\* A non-empty set of naturals has a least member.
LEMMA LeastNat ==
    ASSUME NEW S \in SUBSET Nat, S # {}
    PROVE  \E m \in S : \A n \in S : m <= n
<1> DEFINE R == OpToRel(<, Nat)
<1>1. IsWellFoundedOn(R, Nat)
  BY NatLessThanWellFounded, Zenon
<1>2. \A x, y \in Nat : <<x, y>> \in R <=> x < y
  BY DEF OpToRel
<1> HIDE DEF R
<1>3. PICK m \in S : \A n \in S : ~ (<<n, m>> \in R)
  BY <1>1, WFMin
<1>4. ASSUME NEW n \in S PROVE m <= n
  <2>1. m \in Nat /\ n \in Nat /\ ~ (n < m)
    BY <1>2, <1>3
  <2> QED
    BY <2>1
<1> QED
  BY <1>4

LEMMA LowestIs ==
    ASSUME NEW S \in SUBSET Lanes
    PROVE  IF S = {} THEN Lowest(S) = H ELSE Lowest(S) \in S /\ Lowest(S) < H
<1>1. S \in SUBSET Nat /\ \A h \in S : h < H
  BY Sizes DEF Lanes
<1>2. ASSUME S # {} PROVE Lowest(S) \in S
  <2>1. PICK m \in S : \A n \in S : m <= n
    BY <1>1, <1>2, LeastNat
  <2>2. Min(S) \in S
    BY <2>1 DEF Min
  <2> QED
    BY <1>2, <2>2 DEF Lowest
<1> QED
  BY <1>1, <1>2 DEF Lowest

\* The state of a walk.
WorkType ==
    [tags : [Lanes -> Int], tagGens : [Lanes -> Int], ages : [Lanes -> Nat], clock : Nat,
     prot : [Lanes -> BOOLEAN], out : [1 .. K -> Int], fills : [1 .. K -> Int \X Int],
     misses : Int, hits : Int, errors : Int]

\* The lanes that hold a token at its current generation.
Holds(w, h, tok) == w.tags[h] = tok /\ w.tagGens[h] = gens[PageOf(tok)]

LEMMA HitSlotIs ==
    ASSUME NEW w, NEW tok
    PROVE  \/ HitSlot(w, tok) = H /\ \A h \in Lanes : ~ Holds(w, h, tok)
           \/ /\ HitSlot(w, tok) \in Lanes /\ HitSlot(w, tok) < H
              /\ Holds(w, HitSlot(w, tok), tok)
<1> DEFINE S == {h \in Lanes : w.tags[h] = tok /\ w.tagGens[h] = gens[PageOf(tok)]}
<1>1. S \in SUBSET Lanes /\ HitSlot(w, tok) = Lowest(S)
  BY DEF HitSlot
<1>2. \A h \in Lanes : h \in S <=> Holds(w, h, tok)
  BY DEF Holds
<1> HIDE DEF S
<1>3. CASE S = {}
  BY <1>1, <1>2, <1>3, LowestIs
<1>4. CASE S # {}
  BY <1>1, <1>2, <1>4, LowestIs
<1> QED
  BY <1>3, <1>4

LEMMA VictimSlotIs ==
    ASSUME NEW w
    PROVE  \/ VictimSlot(w) = H
           \/ /\ VictimSlot(w) \in Lanes /\ VictimSlot(w) < H
              /\ ~ w.prot[VictimSlot(w)]
<1> DEFINE open == {h \in Lanes : ~ w.prot[h]}
           S == {h \in open : \A g \in open : w.ages[h] <= w.ages[g]}
<1>1. S \in SUBSET Lanes /\ VictimSlot(w) = Lowest(S)
  BY DEF VictimSlot
<1>2. \A h \in S : ~ w.prot[h]
  OBVIOUS
<1> HIDE DEF S, open
<1> QED
  BY <1>1, <1>2, LowestIs

\* A lane that is not protected leaves a victim.
LEMMA VictimExists ==
    ASSUME NEW w, w.ages \in [Lanes -> Nat], NEW a \in Lanes, ~ w.prot[a]
    PROVE  VictimSlot(w) \in Lanes
<1> DEFINE open == {h \in Lanes : ~ w.prot[h]}
           S == {h \in open : \A g \in open : w.ages[h] <= w.ages[g]}
           A == {w.ages[h] : h \in open}
<1>1. A \in SUBSET Nat /\ A # {}
  OBVIOUS
<1>2. PICK m \in A : \A n \in A : m <= n
  <2> HIDE DEF A
  <2> QED
    BY <1>1, LeastNat
<1>3. PICK h \in open : w.ages[h] = m
  OBVIOUS
<1>4. h \in S
  BY <1>2, <1>3
<1>5. S \in SUBSET Lanes /\ VictimSlot(w) = Lowest(S)
  BY DEF VictimSlot
<1> HIDE DEF S, open
<1> QED
  BY <1>4, <1>5, LowestIs

-----------------------------------------------------------------------------
(* The walks are what their equations say. *)

IsMissWalk(f, N, start, sel, work) ==
    f = [i \in 0 .. N |-> IF i = 0 THEN start
                          ELSE MissItem(f[i - 1], work[i], sel[work[i]])]

LEMMA MissWalkExists ==
    ASSUME NEW N \in Nat, NEW start, NEW sel, NEW work
    PROVE  \E f : IsMissWalk(f, N, start, sel, work)
<1> DEFINE Is(n, f) == f = [i \in 0 .. n |-> IF i = 0 THEN start
                                             ELSE MissItem(f[i - 1], work[i], sel[work[i]])]
           Bad == {n \in 0 .. N : ~ \E f : Is(n, f)}
<1> SUFFICES Bad = {}
  <2>1. N \in 0 .. N
    OBVIOUS
  <2> QED
    BY <2>1 DEF IsMissWalk
<1> SUFFICES ASSUME Bad # {} PROVE FALSE
  OBVIOUS
<1>1. Bad \in SUBSET Nat
  <2> HIDE DEF Is
  <2> QED OBVIOUS
<1>2. PICK n \in Bad : \A m \in Bad : n <= m
  <2> HIDE DEF Bad
  <2> QED BY <1>1, LeastNat
<1>3. n \in 0 .. N /\ n \in Nat /\ ~ \E f : Is(n, f)
  <2> HIDE DEF Is
  <2> QED OBVIOUS
<1>4. CASE n = 0
  <2> DEFINE g == [i \in 0 .. 0 |-> start]
  <2>1. Is(0, g)
    OBVIOUS
  <2> QED
    BY <1>3, <1>4, <2>1
<1>5. CASE n # 0
  <2>1. n - 1 \in 0 .. N /\ ~ (n <= n - 1)
    BY <1>3, <1>5
  <2>2. n - 1 \notin Bad
    BY <1>2, <2>1
  <2>3. PICK f : Is(n - 1, f)
    BY <2>1, <2>2
  <2> DEFINE g == [i \in 0 .. n |-> IF i = n THEN MissItem(f[n - 1], work[n], sel[work[n]]) ELSE f[i]]
  <2>4. ASSUME NEW i \in 0 .. n
        PROVE  g[i] = IF i = 0 THEN start ELSE MissItem(g[i - 1], work[i], sel[work[i]])
    <3>1. CASE i = n
      <4>1. n - 1 \in 0 .. n /\ n - 1 # n
        BY <1>3, <2>1
      <4>2. g[n - 1] = f[n - 1]
        BY <4>1
      <4>3. g[n] = MissItem(f[n - 1], work[n], sel[work[n]])
        BY <3>1
      <4> QED
        BY <1>5, <3>1, <4>2, <4>3
    <3>2. CASE i # n
      <4>1. i \in 0 .. n - 1 /\ i \in Nat
        BY <1>3, <3>2
      <4>2. i # 0 => i - 1 \in 0 .. n /\ i - 1 # n
        BY <1>3, <4>1
      <4>3. g[i] = f[i]
        BY <3>2
      <4>4. i # 0 => g[i - 1] = f[i - 1]
        BY <4>2
      <4>5. f[i] = IF i = 0 THEN start ELSE MissItem(f[i - 1], work[i], sel[work[i]])
        BY <2>3, <4>1
      <4> QED
        BY <4>3, <4>4, <4>5
    <3> QED
      BY <3>1, <3>2
  <2>5. g = [i \in 0 .. n |-> g[i]]
    OBVIOUS
  <2> HIDE DEF g
  <2>6. Is(n, g)
    BY <2>4, <2>5
  <2> QED
    BY <1>3, <2>6
<1> QED
  BY <1>4, <1>5

MissRun(f, start, sel) ==
    /\ f[0] = start
    /\ \A i \in 1 .. Cardinality(Misses(sel)) :
          f[i] = MissItem(f[i - 1], Worklist(sel)[i], sel[Worklist(sel)[i]])
    /\ MissWalk(start, sel) = f[Cardinality(Misses(sel))]

LEMMA MissWalkIs ==
    ASSUME NEW start, NEW sel, Cardinality(Misses(sel)) \in Nat
    PROVE  \E f : MissRun(f, start, sel)
<1> SUFFICES \E f : /\ f[0] = start
                    /\ \A i \in 1 .. Cardinality(Misses(sel)) :
                          f[i] = MissItem(f[i - 1], Worklist(sel)[i], sel[Worklist(sel)[i]])
                    /\ MissWalk(start, sel) = f[Cardinality(Misses(sel))]
  BY Zenon DEF MissRun
<1> DEFINE N == Cardinality(Misses(sel))
           work == Worklist(sel)
           Eq(f) == IsMissWalk(f, N, start, sel, work)
           g == CHOOSE f : Eq(f)
<1>1. MissWalk(start, sel) = g[N]
  BY Zenon DEF MissWalk, IsMissWalk
<1>6. N \in Nat
  OBVIOUS
<1> HIDE DEF N, work
<1>2. \E f : Eq(f)
  BY <1>6, MissWalkExists, Zenon
<1>3. Eq(g)
  <2> HIDE DEF Eq
  <2> QED
    BY <1>2
<1> HIDE DEF g
<1>4. g[0] = start
  BY <1>3 DEF N, IsMissWalk
<1>5. ASSUME NEW i \in 1 .. N PROVE g[i] = MissItem(g[i - 1], work[i], sel[work[i]])
  <2>1. i \in 0 .. N /\ i # 0
    BY DEF N
  <2> QED
    BY <1>3, <2>1 DEF IsMissWalk
<1> QED
  BY <1>1, <1>4, <1>5, Zenon DEF N, work

IsReferenceWalk(f, N, start, sel, allow) ==
    f = [i \in 0 .. N |-> IF i = 0 THEN start ELSE ReferenceItem(f[i - 1], i, sel[i], allow)]

LEMMA ReferenceWalkExists ==
    ASSUME NEW N \in Nat, NEW start, NEW sel, NEW allow
    PROVE  \E f : IsReferenceWalk(f, N, start, sel, allow)
<1> DEFINE Is(n, f) == f = [i \in 0 .. n |-> IF i = 0 THEN start
                                             ELSE ReferenceItem(f[i - 1], i, sel[i], allow)]
           Bad == {n \in 0 .. N : ~ \E f : Is(n, f)}
<1> SUFFICES Bad = {}
  <2>1. N \in 0 .. N
    OBVIOUS
  <2> QED
    BY <2>1 DEF IsReferenceWalk
<1> SUFFICES ASSUME Bad # {} PROVE FALSE
  OBVIOUS
<1>1. Bad \in SUBSET Nat
  <2> HIDE DEF Is
  <2> QED OBVIOUS
<1>2. PICK n \in Bad : \A m \in Bad : n <= m
  <2> HIDE DEF Bad
  <2> QED BY <1>1, LeastNat
<1>3. n \in 0 .. N /\ n \in Nat /\ ~ \E f : Is(n, f)
  <2> HIDE DEF Is
  <2> QED OBVIOUS
<1>4. CASE n = 0
  <2> DEFINE g == [i \in 0 .. 0 |-> start]
  <2>1. Is(0, g)
    OBVIOUS
  <2> QED
    BY <1>3, <1>4, <2>1
<1>5. CASE n # 0
  <2>1. n - 1 \in 0 .. N /\ ~ (n <= n - 1)
    BY <1>3, <1>5
  <2>2. n - 1 \notin Bad
    BY <1>2, <2>1
  <2>3. PICK f : Is(n - 1, f)
    BY <2>1, <2>2
  <2> DEFINE g == [i \in 0 .. n |-> IF i = n THEN ReferenceItem(f[n - 1], n, sel[n], allow) ELSE f[i]]
  <2>4. ASSUME NEW i \in 0 .. n
        PROVE  g[i] = IF i = 0 THEN start ELSE ReferenceItem(g[i - 1], i, sel[i], allow)
    <3>1. CASE i = n
      <4>1. n - 1 \in 0 .. n /\ n - 1 # n
        BY <1>3, <2>1
      <4>2. g[n - 1] = f[n - 1]
        BY <4>1
      <4>3. g[n] = ReferenceItem(f[n - 1], n, sel[n], allow)
        BY <3>1
      <4> QED
        BY <1>5, <3>1, <4>2, <4>3
    <3>2. CASE i # n
      <4>1. i \in 0 .. n - 1 /\ i \in Nat
        BY <1>3, <3>2
      <4>2. i # 0 => i - 1 \in 0 .. n /\ i - 1 # n
        BY <1>3, <4>1
      <4>3. g[i] = f[i]
        BY <3>2
      <4>4. i # 0 => g[i - 1] = f[i - 1]
        BY <4>2
      <4>5. f[i] = IF i = 0 THEN start ELSE ReferenceItem(f[i - 1], i, sel[i], allow)
        BY <2>3, <4>1
      <4> QED
        BY <4>3, <4>4, <4>5
    <3> QED
      BY <3>1, <3>2
  <2>5. g = [i \in 0 .. n |-> g[i]]
    OBVIOUS
  <2> HIDE DEF g
  <2>6. Is(n, g)
    BY <2>4, <2>5
  <2> QED
    BY <1>3, <2>6
<1> QED
  BY <1>4, <1>5

LEMMA ReferenceWalkIs ==
    ASSUME NEW start, NEW sel, NEW allow
    PROVE  \E f : IsReferenceWalk(f, K, start, sel, allow) /\ ReferenceWalk(start, sel, allow) = f[K]
<1> DEFINE Eq(f) == IsReferenceWalk(f, K, start, sel, allow)
           g == CHOOSE f : Eq(f)
<1>1. ReferenceWalk(start, sel, allow) = g[K]
  BY Zenon DEF ReferenceWalk, IsReferenceWalk
<1>2. \E f : Eq(f)
  BY Sizes, ReferenceWalkExists
<1>3. Eq(g)
  <2> HIDE DEF Eq
  <2> QED
    BY <1>2
<1> HIDE DEF g
<1> QED
  BY <1>1, <1>3, Zenon

LEMMA ReferenceWalkAt ==
    ASSUME NEW start, NEW sel, NEW allow, NEW f, IsReferenceWalk(f, K, start, sel, allow)
    PROVE  /\ f[0] = start
           /\ \A j \in 1 .. K : f[j] = ReferenceItem(f[j - 1], j, sel[j], allow)
<1>1. f[0] = start
  BY Sizes DEF IsReferenceWalk
<1>2. ASSUME NEW j \in 1 .. K PROVE f[j] = ReferenceItem(f[j - 1], j, sel[j], allow)
  <2>1. j \in 0 .. K /\ j # 0
    BY Sizes
  <2> QED
    BY <2>1 DEF IsReferenceWalk
<1> QED
  BY <1>1, <1>2

-----------------------------------------------------------------------------
(* The worklist lists the misses in selection order. *)

LEMMA Positions == IsFiniteSet(1 .. K)
<1>1. ASSUME NEW a \in Int, NEW b \in Int PROVE IsFiniteSet(a .. b)
  BY FS_Interval
<1>2. 1 \in Int /\ K \in Int
  BY Sizes
<1> QED
  BY <1>1, <1>2, Zenon

\* The number of positions of M up to j.
CountTo(M, j) == Cardinality({k \in M : k <= j})

LEMMA CountStep ==
    ASSUME NEW M, M \subseteq 1 .. K, NEW j \in 1 .. K
    PROVE  /\ CountTo(M, j) \in Nat /\ CountTo(M, j - 1) \in Nat
           /\ CountTo(M, j) = CountTo(M, j - 1) + (IF j \in M THEN 1 ELSE 0)
<1> DEFINE A == {k \in M : k <= j - 1}
           B == {k \in M : k <= j}
<1>1. IsFiniteSet(A) /\ IsFiniteSet(B)
  <2>1. A \subseteq 1 .. K /\ B \subseteq 1 .. K
    OBVIOUS
  <2> HIDE DEF A, B
  <2> QED
    BY <2>1, Positions, FS_Subset
<1>2. j \notin A
  BY Sizes
<1>3. B = IF j \in M THEN A \union {j} ELSE A
  <2>1. \A k \in M : k \in Int
    OBVIOUS
  <2>2. \A k \in M : k <= j <=> (k <= j - 1 \/ k = j)
    BY <2>1
  <2>3. \A k \in M : k \in B <=> (k \in A \/ k = j)
    BY <2>2
  <2>4. A \subseteq M /\ B \subseteq M
    OBVIOUS
  <2> HIDE DEF A, B
  <2> QED
    BY <2>3, <2>4
<1> HIDE DEF A, B
<1>4. Cardinality(A) \in Nat /\ Cardinality(B) \in Nat
  BY <1>1, FS_CardinalityType
<1>5. Cardinality(A \union {j}) = Cardinality(A) + 1
  BY <1>1, <1>2, FS_AddElement
<1>6. Cardinality(B) = Cardinality(A) + (IF j \in M THEN 1 ELSE 0)
  BY <1>3, <1>4, <1>5
<1> QED
  BY <1>4, <1>6 DEF A, B, CountTo

LEMMA CountEnds ==
    ASSUME NEW M, M \subseteq 1 .. K
    PROVE  /\ CountTo(M, 0) = 0 /\ CountTo(M, K) = Cardinality(M)
           /\ IsFiniteSet(M) /\ Cardinality(M) \in Nat
<1>1. {k \in M : k <= 0} = {} /\ {k \in M : k <= K} = M
  <2>1. \A k \in M : k \in 1 .. K
    OBVIOUS
  <2>2. \A k \in M : ~ (k <= 0) /\ k <= K
    BY <2>1, Sizes
  <2> QED
    BY <2>2
<1> QED
  BY <1>1, Positions, FS_Subset, FS_EmptySet, FS_CardinalityType DEF CountTo

LEMMA MissesIn == ASSUME NEW sel PROVE Misses(sel) \subseteq 1 .. K
  BY DEF Misses

LEMMA RankStep ==
    ASSUME NEW sel, NEW j \in 1 .. K
    PROVE  /\ Rank(sel, j) \in Nat /\ Rank(sel, j - 1) \in Nat
           /\ Rank(sel, j) = Rank(sel, j - 1) + (IF j \in Misses(sel) THEN 1 ELSE 0)
<1>1. \A i : Rank(sel, i) = CountTo(Misses(sel), i)
  BY DEF Rank, CountTo
<1> QED
  BY <1>1, MissesIn, CountStep

LEMMA RankEnds ==
    ASSUME NEW sel
    PROVE  /\ Rank(sel, 0) = 0 /\ Rank(sel, K) = Cardinality(Misses(sel))
           /\ IsFiniteSet(Misses(sel)) /\ Cardinality(Misses(sel)) \in Nat
<1>1. \A i : Rank(sel, i) = CountTo(Misses(sel), i)
  BY DEF Rank, CountTo
<1> QED
  BY <1>1, MissesIn, CountEnds

\* A later miss has a higher rank.
LEMMA RankApart ==
    ASSUME NEW sel, NEW i \in Misses(sel), NEW j \in Misses(sel), i < j
    PROVE  Rank(sel, i) < Rank(sel, j)
<1> DEFINE A == {k \in Misses(sel) : k <= i}
           B == {k \in Misses(sel) : k <= j - 1}
<1>1. i \in 1 .. K /\ j \in 1 .. K
  BY MissesIn
<1>2. IsFiniteSet(B) /\ A \subseteq B
  <2>1. B \subseteq 1 .. K /\ A \subseteq B
    BY <1>1, MissesIn, Sizes
  <2> HIDE DEF A, B
  <2> QED
    BY <2>1, Positions, FS_Subset
<1>3. Cardinality(A) <= Cardinality(B)
  <2> HIDE DEF A, B
  <2> QED
    BY <1>2, FS_Subset
<1>4. Rank(sel, i) <= Rank(sel, j - 1)
  BY <1>3 DEF Rank
<1>5. Rank(sel, j) = Rank(sel, j - 1) + 1 /\ Rank(sel, j - 1) \in Nat /\ Rank(sel, i) \in Nat
  BY <1>1, RankStep
<1> QED
  BY <1>4, <1>5

LEMMA WorklistAt ==
    ASSUME NEW sel, NEW j \in Misses(sel)
    PROVE  /\ Rank(sel, j) \in 1 .. Cardinality(Misses(sel))
           /\ Worklist(sel)[Rank(sel, j)] = j
<1>1. j \in 1 .. K
  BY MissesIn
<1>2. Rank(sel, j) \in Nat /\ Rank(sel, j - 1) \in Nat /\ Rank(sel, j) = Rank(sel, j - 1) + 1
  BY <1>1, RankStep
<1>3. Rank(sel, j) <= Cardinality(Misses(sel))
  <2> DEFINE A == {k \in Misses(sel) : k <= j}
  <2>1. A \subseteq Misses(sel)
    OBVIOUS
  <2> HIDE DEF A
  <2>2. Cardinality(A) <= Cardinality(Misses(sel))
    BY <2>1, RankEnds, FS_Subset
  <2> QED
    BY <2>2 DEF A, Rank
<1>4. Rank(sel, j) \in 1 .. Cardinality(Misses(sel))
  BY <1>2, <1>3, RankEnds
<1>5. \A k \in Misses(sel) : Rank(sel, k) = Rank(sel, j) => k = j
  <2> SUFFICES ASSUME NEW k \in Misses(sel), Rank(sel, k) = Rank(sel, j), k # j
               PROVE  FALSE
    OBVIOUS
  <2>1. k \in 1 .. K /\ (k < j \/ j < k)
    BY <1>1, MissesIn, Sizes
  <2>2. Rank(sel, k) < Rank(sel, j) \/ Rank(sel, j) < Rank(sel, k)
    BY <2>1, RankApart
  <2> QED
    BY <1>2, <2>2
<1>6. (CHOOSE k \in Misses(sel) : Rank(sel, k) = Rank(sel, j)) = j
  BY <1>5
<1> QED
  BY <1>4, <1>6 DEF Worklist

-----------------------------------------------------------------------------
(* One item of a walk *)

Slot(w, tok)   == IF HitSlot(w, tok) < H THEN HitSlot(w, tok) ELSE VictimSlot(w)
Ok(w, tok)     == Slot(w, tok) < H /\ Fenced(Slot(w, tok))
Evicts(w, tok) == Ok(w, tok) /\ HitSlot(w, tok) = H

\* What an item that is not resident does to everything but the output.
Stepped(w, v, tok) ==
    /\ v.tags = IF Evicts(w, tok) THEN [w.tags EXCEPT ![Slot(w, tok)] = tok] ELSE w.tags
    /\ v.tagGens = IF Evicts(w, tok) THEN [w.tagGens EXCEPT ![Slot(w, tok)] = gens[PageOf(tok)]]
                   ELSE w.tagGens
    /\ v.ages = IF Ok(w, tok) THEN [w.ages EXCEPT ![Slot(w, tok)] = w.clock] ELSE w.ages
    /\ v.clock = w.clock
    /\ v.prot = IF Ok(w, tok) THEN [w.prot EXCEPT ![Slot(w, tok)] = TRUE] ELSE w.prot
    /\ v.fills = IF Evicts(w, tok)
                 THEN [w.fills EXCEPT ![w.misses + 1] = <<HostRow(tok), HotRow(Slot(w, tok))>>]
                 ELSE w.fills
    /\ v.misses = IF Evicts(w, tok) THEN w.misses + 1 ELSE w.misses
    /\ v.hits = IF Ok(w, tok) /\ HitSlot(w, tok) < H THEN w.hits + 1 ELSE w.hits
    /\ v.errors = IF Slot(w, tok) < H /\ ~ Fenced(Slot(w, tok)) THEN w.errors + 1 ELSE w.errors

LEMMA SlotIs ==
    ASSUME NEW w, NEW tok
    PROVE  \/ Slot(w, tok) = H /\ ~ (Slot(w, tok) < H) /\ HitSlot(w, tok) = H
           \/ /\ Slot(w, tok) \in Lanes /\ Slot(w, tok) < H /\ Slot(w, tok) # H
              /\ \/ HitSlot(w, tok) < H /\ HitSlot(w, tok) # H /\ Holds(w, Slot(w, tok), tok)
                 \/ /\ HitSlot(w, tok) = H /\ ~ w.prot[Slot(w, tok)]
                    /\ \A h \in Lanes : ~ Holds(w, h, tok)
<1>1. H \in Nat /\ ~ (H < H)
  BY Sizes
<1>2. CASE HitSlot(w, tok) < H
  BY <1>1, <1>2, HitSlotIs DEF Slot
<1>3. CASE ~ (HitSlot(w, tok) < H)
  BY <1>1, <1>3, HitSlotIs, VictimSlotIs DEF Slot
<1> QED
  BY <1>2, <1>3

LEMMA MissItemIs ==
    ASSUME NEW w \in WorkType, NEW j \in 1 .. K, NEW tok
    PROVE  /\ Stepped(w, MissItem(w, j, tok), tok)
           /\ MissItem(w, j, tok).out
                 = [w.out EXCEPT ![j] = IF Ok(w, tok) THEN HotRow(Slot(w, tok)) ELSE -1]
<1> DEFINE ok == Slot(w, tok) < H /\ Fenced(Slot(w, tok))
           evict == ok /\ HitSlot(w, tok) = H
<1>1. MissItem(w, j, tok) =
      [w EXCEPT !.tags = IF evict THEN [@ EXCEPT ![Slot(w, tok)] = tok] ELSE @,
                !.tagGens = IF evict THEN [@ EXCEPT ![Slot(w, tok)] = gens[PageOf(tok)]] ELSE @,
                !.ages = IF ok THEN [@ EXCEPT ![Slot(w, tok)] = w.clock] ELSE @,
                !.prot = IF ok THEN [@ EXCEPT ![Slot(w, tok)] = TRUE] ELSE @,
                !.fills = IF evict THEN [@ EXCEPT ![w.misses + 1] = <<HostRow(tok), HotRow(Slot(w, tok))>>] ELSE @,
                !.misses = IF evict THEN @ + 1 ELSE @,
                !.hits = IF ok /\ HitSlot(w, tok) < H THEN @ + 1 ELSE @,
                !.errors = IF Slot(w, tok) < H /\ ~ ok THEN @ + 1 ELSE @,
                !.out[j] = IF ok THEN HotRow(Slot(w, tok)) ELSE -1]
  BY Zenon DEF MissItem, Slot
<1> QED
  BY <1>1 DEF WorkType, Stepped, Ok, Evicts

LEMMA ReferenceMiss ==
    ASSUME NEW w \in WorkType, NEW j \in 1 .. K, NEW tok, NEW allow, Valid(tok), ~ OnPage(tok)
    PROVE  /\ Stepped(w, ReferenceItem(w, j, tok, allow), tok)
           /\ ReferenceItem(w, j, tok, allow).out
                 = IF Ok(w, tok) THEN [w.out EXCEPT ![j] = HotRow(Slot(w, tok))] ELSE w.out
<1> DEFINE s == Slot(w, tok)
           found == HitSlot(w, tok)
           used == [w EXCEPT !.out[j] = HotRow(s), !.prot[s] = TRUE, !.ages[s] = w.clock]
           v == ReferenceItem(w, j, tok, allow)
<1>1. v = IF s = H THEN w
          ELSE IF ~ Fenced(s) THEN [w EXCEPT !.errors = @ + 1]
          ELSE IF found < H THEN [used EXCEPT !.hits = @ + 1]
          ELSE [used EXCEPT !.fills[w.misses + 1] = <<HostRow(tok), HotRow(s)>>,
                            !.misses = @ + 1,
                            !.tags[s] = tok, !.tagGens[s] = gens[PageOf(tok)]]
  BY Zenon DEF ReferenceItem, Slot, HitSlot, VictimSlot, ReferenceHit, ReferenceVictim
<1>2. \/ s = H /\ ~ (s < H)
      \/ s \in Lanes /\ s < H /\ s # H /\ ((found < H /\ found # H) \/ (found = H /\ ~ (found < H)))
  BY SlotIs, Sizes
<1> HIDE DEF s, found, v
<1>3. CASE s = H
  BY <1>1, <1>2, <1>3 DEF WorkType, Stepped, Ok, Evicts, s, found, v
<1>4. CASE s # H /\ ~ Fenced(s)
  BY <1>1, <1>2, <1>4 DEF WorkType, Stepped, Ok, Evicts, s, found, v
<1>5. CASE s # H /\ Fenced(s) /\ found < H
  <2>1. v = [used EXCEPT !.hits = @ + 1]
    BY <1>1, <1>5
  <2>2. used.hits = w.hits
    BY DEF WorkType
  <2> QED
    BY <2>1, <2>2, <1>2, <1>5 DEF WorkType, Stepped, Ok, Evicts, s, found, v
<1>6. CASE s # H /\ Fenced(s) /\ ~ (found < H)
  BY <1>1, <1>2, <1>6 DEF WorkType, Stepped, Ok, Evicts, s, found, v
<1> QED
  BY <1>3, <1>4, <1>5, <1>6

LEMMA ReferenceOther ==
    ASSUME NEW w \in WorkType, NEW j \in 1 .. K, NEW tok, NEW allow, ~ (Valid(tok) /\ ~ OnPage(tok))
    PROVE  LET v == ReferenceItem(w, j, tok, allow)
           IN  /\ v.tags = w.tags /\ v.tagGens = w.tagGens /\ v.ages = w.ages /\ v.clock = w.clock
               /\ v.prot = w.prot /\ v.fills = w.fills /\ v.misses = w.misses /\ v.hits = w.hits
               /\ v.out = IF OnPage(tok) THEN [w.out EXCEPT ![j] = ResidentRow(tok)] ELSE w.out
               /\ v.errors = IF ~ Valid(tok) /\ ~ Padding(tok, allow) THEN w.errors + 1 ELSE w.errors
<1>1. OnPage(tok) => Valid(tok)
  BY DEF OnPage
<1>2. CASE ~ Valid(tok) /\ Padding(tok, allow)
  BY <1>1, <1>2 DEF ReferenceItem
<1>3. CASE ~ Valid(tok) /\ ~ Padding(tok, allow)
  <2>1. ReferenceItem(w, j, tok, allow) = [w EXCEPT !.errors = @ + 1]
    BY <1>3 DEF ReferenceItem
  <2> QED
    BY <1>1, <1>3, <2>1 DEF WorkType
<1>4. CASE OnPage(tok)
  <2>1. ReferenceItem(w, j, tok, allow) = [w EXCEPT !.out[j] = ResidentRow(tok)]
    BY <1>1, <1>4 DEF ReferenceItem
  <2> QED
    BY <1>1, <1>4, <2>1 DEF WorkType
<1> QED
  BY <1>2, <1>3, <1>4

\* A valid token has a page, a generation, a host row and, if resident, a row.
TablesTyped ==
    /\ length \in 0 .. PAGES * PAGE
    /\ resident \in [Pages -> -1 .. GpuPages - 1]
    /\ backing \in [Pages -> 0 .. HostPages - 1]
    /\ gens \in [Pages -> Nat]

LEMMA ValidToken ==
    ASSUME TablesTyped, NEW tok \in Int, Valid(tok)
    PROVE  /\ PageOf(tok) \in Pages /\ gens[PageOf(tok)] \in Nat
           /\ tok % PAGE \in 0 .. PAGE - 1 /\ tok = (PageOf(tok) * PAGE) + (tok % PAGE)
           /\ tok >= 0 /\ HostRow(tok) \in Int /\ backing[PageOf(tok)] \in 0 .. HostPages - 1
           /\ HostRow(tok) \div PAGE = backing[PageOf(tok)] /\ HostRow(tok) % PAGE = tok % PAGE
<1>1. 0 <= tok /\ tok < PAGES * PAGE
  BY Sizes DEF Valid, TablesTyped
<1>2. /\ PageOf(tok) \in Pages /\ tok % PAGE \in 0 .. PAGE - 1
      /\ tok = (PageOf(tok) * PAGE) + (tok % PAGE)
  BY <1>1, TokenPage
<1>3. backing[PageOf(tok)] \in 0 .. HostPages - 1 /\ gens[PageOf(tok)] \in Nat
  BY <1>2 DEF TablesTyped
<1>4. backing[PageOf(tok)] \in Int
  BY <1>3, Sizes
<1> QED
  BY <1>1, <1>2, <1>3, <1>4, Sizes, RowSplit DEF HostRow

LEMMA ResidentToken ==
    ASSUME TablesTyped, NEW tok \in Int, OnPage(tok)
    PROVE  /\ resident[PageOf(tok)] \in 0 .. GpuPages - 1
           /\ ResidentRow(tok) \in GpuRows /\ ResidentRow(tok) \in Int /\ ResidentRow(tok) # -1
           /\ ResidentRow(tok) \div PAGE = resident[PageOf(tok)]
           /\ ResidentRow(tok) % PAGE = tok % PAGE
<1>1. Valid(tok) /\ resident[PageOf(tok)] # -1
  BY DEF OnPage, None
<1>2. PageOf(tok) \in Pages /\ tok % PAGE \in 0 .. PAGE - 1
  BY <1>1, ValidToken
<1>3. resident[PageOf(tok)] \in 0 .. GpuPages - 1
  BY <1>1, <1>2, Sizes DEF TablesTyped
<1>4. /\ ResidentRow(tok) \in GpuRows /\ ResidentRow(tok) \div PAGE = resident[PageOf(tok)]
      /\ ResidentRow(tok) % PAGE = tok % PAGE
  BY <1>2, <1>3, PageRow DEF ResidentRow
<1>5. GpuPages * PAGE \in Nat
  BY Sizes, MulNat
<1> QED
  BY <1>3, <1>4, <1>5 DEF GpuRows

\* The types of the fields that an item leaves.
LEMMA SteppedType ==
    ASSUME NEW w \in WorkType, NEW v, NEW tok \in Int, Stepped(w, v, tok),
           gens[PageOf(tok)] \in Int, HostRow(tok) \in Int
    PROVE  /\ v.tags \in [Lanes -> Int] /\ v.tagGens \in [Lanes -> Int]
           /\ v.ages \in [Lanes -> Nat] /\ v.clock \in Nat /\ v.prot \in [Lanes -> BOOLEAN]
           /\ v.fills \in [1 .. K -> Int \X Int] /\ v.misses \in Int /\ v.hits \in Int
           /\ v.errors \in Int
<1> DEFINE s == Slot(w, tok)
<1>1. s < H => s \in Lanes /\ HotRow(s) \in Int
  BY SlotIs, HotRowIs
<1>2. /\ w.tags \in [Lanes -> Int] /\ w.tagGens \in [Lanes -> Int]
      /\ w.ages \in [Lanes -> Nat] /\ w.clock \in Nat /\ w.prot \in [Lanes -> BOOLEAN]
      /\ w.fills \in [1 .. K -> Int \X Int] /\ w.misses \in Int /\ w.hits \in Int
      /\ w.errors \in Int
  BY DEF WorkType
<1> HIDE DEF s
<1>3. Ok(w, tok) => s < H
  BY DEF Ok, s
<1>4. Evicts(w, tok) => Ok(w, tok)
  BY DEF Evicts
<1>5. v.tags \in [Lanes -> Int]
  BY <1>1, <1>2, <1>3, <1>4 DEF Stepped, s
<1>6. v.tagGens \in [Lanes -> Int]
  BY <1>1, <1>2, <1>3, <1>4 DEF Stepped, s
<1>7. v.ages \in [Lanes -> Nat]
  BY <1>1, <1>2, <1>3, <1>4 DEF Stepped, s
<1>8. v.prot \in [Lanes -> BOOLEAN]
  BY <1>1, <1>2, <1>3, <1>4 DEF Stepped, s
<1>9. v.fills \in [1 .. K -> Int \X Int]
  <2> DEFINE p == <<HostRow(tok), HotRow(s)>>
             D == Int \X Int
  <2>1. Evicts(w, tok) => p \in D
    BY <1>1, <1>3, <1>4
  <2>2. v.fills = IF Evicts(w, tok) THEN [w.fills EXCEPT ![w.misses + 1] = p] ELSE w.fills
    BY DEF Stepped, s
  <2>3. w.fills \in [1 .. K -> D]
    BY <1>2
  <2> HIDE DEF p, D
  <2>4. v.fills \in [1 .. K -> D]
    BY <2>1, <2>2, <2>3
  <2> QED
    BY <2>4 DEF D
<1>10. v.clock \in Nat /\ v.misses \in Int /\ v.hits \in Int /\ v.errors \in Int
  BY <1>2 DEF Stepped
<1> QED
  BY <1>5, <1>6, <1>7, <1>8, <1>9, <1>10

LEMMA MissItemType ==
    ASSUME NEW w \in WorkType, NEW j \in 1 .. K, NEW tok \in Int,
           gens[PageOf(tok)] \in Int, HostRow(tok) \in Int
    PROVE  MissItem(w, j, tok) \in WorkType
<1> DEFINE v == MissItem(w, j, tok)
<1>1. Stepped(w, v, tok)
      /\ v.out = [w.out EXCEPT ![j] = IF Ok(w, tok) THEN HotRow(Slot(w, tok)) ELSE -1]
  BY MissItemIs
<1>2. v = [w EXCEPT !.tags = v.tags, !.tagGens = v.tagGens, !.ages = v.ages, !.prot = v.prot,
                    !.fills = v.fills, !.misses = v.misses, !.hits = v.hits,
                    !.errors = v.errors, !.out = v.out]
  BY DEF MissItem, WorkType
<1>3. v.out \in [1 .. K -> Int]
  <2>1. Ok(w, tok) => HotRow(Slot(w, tok)) \in Int
    BY SlotIs, HotRowIs DEF Ok
  <2>2. w.out \in [1 .. K -> Int]
    BY DEF WorkType
  <2> QED
    BY <1>1, <2>1, <2>2
<1> HIDE DEF v
<1>4. /\ v.tags \in [Lanes -> Int] /\ v.tagGens \in [Lanes -> Int]
      /\ v.ages \in [Lanes -> Nat] /\ v.clock \in Nat /\ v.prot \in [Lanes -> BOOLEAN]
      /\ v.fills \in [1 .. K -> Int \X Int] /\ v.misses \in Int /\ v.hits \in Int
      /\ v.errors \in Int
  BY <1>1, SteppedType
<1>5. v \in WorkType
  BY <1>2, <1>3, <1>4 DEF WorkType
<1> QED
  BY <1>5 DEF v

LEMMA ReferenceItemType ==
    ASSUME TablesTyped, NEW w \in WorkType, NEW j \in 1 .. K, NEW tok \in Int, NEW allow
    PROVE  ReferenceItem(w, j, tok, allow) \in WorkType
<1> DEFINE v == ReferenceItem(w, j, tok, allow)
<1>1. v = [w EXCEPT !.tags = v.tags, !.tagGens = v.tagGens, !.ages = v.ages, !.prot = v.prot,
                    !.fills = v.fills, !.misses = v.misses, !.hits = v.hits,
                    !.errors = v.errors, !.out = v.out]
  <2> DEFINE s == Slot(w, tok)
             found == HitSlot(w, tok)
             used == [w EXCEPT !.out[j] = HotRow(s), !.prot[s] = TRUE, !.ages[s] = w.clock]
  <2>1. \/ v = w
        \/ v = [w EXCEPT !.errors = @ + 1]
        \/ v = [w EXCEPT !.out[j] = ResidentRow(tok)]
        \/ v = [used EXCEPT !.hits = @ + 1]
        \/ v = [used EXCEPT !.fills[w.misses + 1] = <<HostRow(tok), HotRow(s)>>,
                            !.misses = @ + 1,
                            !.tags[s] = tok, !.tagGens[s] = gens[PageOf(tok)]]
    BY Zenon DEF ReferenceItem, Slot, HitSlot, VictimSlot, ReferenceHit, ReferenceVictim
  <2> HIDE DEF v, s
  <2>2. CASE v = w
    BY <2>2 DEF WorkType
  <2>3. CASE v = [w EXCEPT !.errors = @ + 1]
    BY <2>3 DEF WorkType
  <2>4. CASE v = [w EXCEPT !.out[j] = ResidentRow(tok)]
    BY <2>4 DEF WorkType
  <2>5. CASE v = [used EXCEPT !.hits = @ + 1]
    BY <2>5, ZenonT(60) DEF WorkType
  <2>6. CASE v = [used EXCEPT !.fills[w.misses + 1] = <<HostRow(tok), HotRow(s)>>,
                              !.misses = @ + 1,
                              !.tags[s] = tok, !.tagGens[s] = gens[PageOf(tok)]]
    <3> DEFINE p == <<HostRow(tok), HotRow(s)>>
               g == gens[PageOf(tok)]
               m == w.misses + 1
               a == HotRow(s)
               u == [w EXCEPT !.out[j] = a, !.prot[s] = TRUE, !.ages[s] = w.clock,
                              !.fills[m] = p, !.misses = m, !.tags[s] = tok, !.tagGens[s] = g]
    <3> HIDE DEF p, g, m, a
    <3>1. v = [[w EXCEPT !.out[j] = a, !.prot[s] = TRUE, !.ages[s] = w.clock]
                 EXCEPT !.fills[m] = p, !.misses = m, !.tags[s] = tok, !.tagGens[s] = g]
      BY <2>6 DEF p, g, m, a, WorkType
    <3>2. v = u
      BY <3>1
    <3> DEFINE wout == [w.out EXCEPT ![j] = a]
               wprot == [w.prot EXCEPT ![s] = TRUE]
               wages == [w.ages EXCEPT ![s] = w.clock]
               wfills == [w.fills EXCEPT ![m] = p]
               wtags == [w.tags EXCEPT ![s] = tok]
               wgens == [w.tagGens EXCEPT ![s] = g]
    <3>3. v = [w EXCEPT !.out = wout, !.prot = wprot, !.ages = wages,
                        !.fills = wfills, !.misses = m, !.tags = wtags, !.tagGens = wgens]
      BY <3>2 DEF WorkType
    <3> HIDE DEF wout, wprot, wages, wfills, wtags, wgens
    <3>4. /\ v.out = wout /\ v.prot = wprot /\ v.ages = wages /\ v.fills = wfills
          /\ v.misses = m /\ v.tags = wtags /\ v.tagGens = wgens
          /\ v.hits = w.hits /\ v.errors = w.errors
      BY <3>3 DEF WorkType
    <3> QED
      BY <3>3, <3>4, ZenonT(60) DEF WorkType
  <2> QED
    BY <2>1, <2>2, <2>3, <2>4, <2>5, <2>6
<1>2. /\ w.tags \in [Lanes -> Int] /\ w.tagGens \in [Lanes -> Int]
      /\ w.ages \in [Lanes -> Nat] /\ w.clock \in Nat /\ w.prot \in [Lanes -> BOOLEAN]
      /\ w.fills \in [1 .. K -> Int \X Int] /\ w.misses \in Int /\ w.hits \in Int
      /\ w.errors \in Int /\ w.out \in [1 .. K -> Int]
  BY DEF WorkType
<1>3. /\ v.tags \in [Lanes -> Int] /\ v.tagGens \in [Lanes -> Int]
      /\ v.ages \in [Lanes -> Nat] /\ v.clock \in Nat /\ v.prot \in [Lanes -> BOOLEAN]
      /\ v.fills \in [1 .. K -> Int \X Int] /\ v.misses \in Int /\ v.hits \in Int
      /\ v.errors \in Int /\ v.out \in [1 .. K -> Int]
  <2>1. CASE Valid(tok) /\ ~ OnPage(tok)
    <3>1. /\ Stepped(w, v, tok)
          /\ v.out = IF Ok(w, tok) THEN [w.out EXCEPT ![j] = HotRow(Slot(w, tok))] ELSE w.out
      BY <2>1, ReferenceMiss
    <3>2. gens[PageOf(tok)] \in Int /\ HostRow(tok) \in Int
      BY <2>1, ValidToken
    <3>3. Ok(w, tok) => HotRow(Slot(w, tok)) \in Int
      BY SlotIs, HotRowIs DEF Ok
    <3> HIDE DEF v
    <3>4. v.out \in [1 .. K -> Int]
      BY <1>2, <3>1, <3>3
    <3>5. /\ v.tags \in [Lanes -> Int] /\ v.tagGens \in [Lanes -> Int]
          /\ v.ages \in [Lanes -> Nat] /\ v.clock \in Nat /\ v.prot \in [Lanes -> BOOLEAN]
          /\ v.fills \in [1 .. K -> Int \X Int] /\ v.misses \in Int /\ v.hits \in Int
          /\ v.errors \in Int
      BY <3>1, <3>2, SteppedType
    <3> QED
      BY <3>4, <3>5
  <2>2. CASE ~ (Valid(tok) /\ ~ OnPage(tok))
    <3>1. /\ v.tags = w.tags /\ v.tagGens = w.tagGens /\ v.ages = w.ages /\ v.clock = w.clock
          /\ v.prot = w.prot /\ v.fills = w.fills /\ v.misses = w.misses /\ v.hits = w.hits
          /\ v.out = IF OnPage(tok) THEN [w.out EXCEPT ![j] = ResidentRow(tok)] ELSE w.out
          /\ v.errors = IF ~ Valid(tok) /\ ~ Padding(tok, allow) THEN w.errors + 1 ELSE w.errors
      BY <2>2, ReferenceOther
    <3>2. OnPage(tok) => ResidentRow(tok) \in Int
      BY ResidentToken
    <3> HIDE DEF v
    <3>3. v.out \in [1 .. K -> Int]
      BY <1>2, <3>1, <3>2
    <3> QED
      BY <1>2, <3>1, <3>3
  <2> QED
    BY <2>1, <2>2
<1> HIDE DEF v
<1>4. v \in WorkType
  BY <1>1, <1>3 DEF WorkType
<1> QED
  BY <1>4 DEF v

-----------------------------------------------------------------------------
(* The kernel's walk and the oracle's, side by side *)

HotType == [tags : [Lanes -> Int], tagGens : [Lanes -> Int], ages : [Lanes -> Nat], clock : Nat]
BufType == [bitmap : SUBSET Int, out : [1 .. K -> Int], fills : [1 .. K -> Int \X Int]]

\* The positions that are errors whatever the hot tier holds, and their number up to j.
Refused(sel, allow)       == {i \in 1 .. K : ~ Valid(sel[i]) /\ ~ Padding(sel[i], allow)}
RefusedTo(sel, allow, j)  == CountTo(Refused(sel, allow), j)

\* The two walks have done the same up to position j, except that the kernel has
\* answered the resident and masked positions behind it and counted their errors.
Sim(k, r, sel, allow, buf, j) ==
    /\ k \in WorkType /\ r \in WorkType
    /\ k.tags = r.tags /\ k.tagGens = r.tagGens /\ k.ages = r.ages /\ k.clock = r.clock
    /\ k.prot = r.prot /\ k.misses = r.misses /\ k.hits = r.hits
    /\ k.misses \in 0 .. j
    /\ \A i \in 1 .. K : i <= k.misses => k.fills[i] = r.fills[i]
    /\ \A i \in 1 .. K : ~ (i <= k.misses) => r.fills[i] = <<0, 0>>
    /\ \A i \in 1 .. K : i <= j => k.out[i] = r.out[i]
    /\ \A i \in 1 .. K : ~ (i <= j) => r.out[i] = -1
    /\ \A i \in 1 .. K : ~ (i <= j) /\ i \notin Misses(sel) => k.out[i] = Classified(sel, buf)[i]
    /\ k.errors + RefusedTo(sel, allow, j) = r.errors + RefusedTo(sel, allow, K)

LEMMA RefusedIn == ASSUME NEW sel, NEW allow PROVE Refused(sel, allow) \subseteq 1 .. K
  BY DEF Refused

LEMMA RefusedStep ==
    ASSUME NEW sel, NEW allow, NEW j \in 1 .. K
    PROVE  /\ RefusedTo(sel, allow, j) \in Nat /\ RefusedTo(sel, allow, j - 1) \in Nat
           /\ RefusedTo(sel, allow, j)
                 = RefusedTo(sel, allow, j - 1) + (IF j \in Refused(sel, allow) THEN 1 ELSE 0)
  BY RefusedIn, CountStep DEF RefusedTo

LEMMA RefusedEnds ==
    ASSUME NEW sel, NEW allow
    PROVE  /\ RefusedTo(sel, allow, 0) = 0
           /\ RefusedTo(sel, allow, K) = Cardinality(Refused(sel, allow))
           /\ Cardinality(Refused(sel, allow)) \in Nat
  BY RefusedIn, CountEnds DEF RefusedTo

\* A walk looks at the tags, the ages and the protection only.
LEMMA SameSlot ==
    ASSUME NEW k, NEW r, NEW tok, k.tags = r.tags, k.tagGens = r.tagGens, k.ages = r.ages,
           k.prot = r.prot
    PROVE  /\ Slot(k, tok) = Slot(r, tok) /\ HitSlot(k, tok) = HitSlot(r, tok)
           /\ Ok(k, tok) = Ok(r, tok) /\ Evicts(k, tok) = Evicts(r, tok)
<1>1. HitSlot(k, tok) = HitSlot(r, tok)
  BY DEF HitSlot
<1>2. VictimSlot(k) = VictimSlot(r)
  BY DEF VictimSlot
<1> QED
  BY <1>1, <1>2 DEF Slot, Ok, Evicts

LEMMA KernelStartIs ==
    ASSUME TablesTyped, NEW st \in HotType, NEW sel \in [1 .. K -> Int], NEW allow,
           NEW buf \in BufType
    PROVE  LET k == KernelStart(st, sel, allow, buf)
           IN  /\ k \in WorkType
               /\ k.tags = st.tags /\ k.tagGens = st.tagGens /\ k.ages = st.ages
               /\ k.clock = st.clock + 1 /\ k.prot = Protected(st, Bitmap(sel, buf))
               /\ k.out = Classified(sel, buf) /\ k.fills = buf.fills
               /\ k.misses = 0 /\ k.hits = 0 /\ k.errors = Cardinality(Refused(sel, allow))
<1> DEFINE k == KernelStart(st, sel, allow, buf)
           P == Protected(st, Bitmap(sel, buf))
           O == Classified(sel, buf)
           E == Cardinality(Refused(sel, allow))
<1>1. k = [tags |-> st.tags, tagGens |-> st.tagGens, ages |-> st.ages, clock |-> st.clock + 1,
           prot |-> P, out |-> O, fills |-> buf.fills, misses |-> 0, hits |-> 0, errors |-> E]
  <2>1. k = [Work(st, buf) EXCEPT !.prot = P, !.out = O, !.errors = E]
    BY Zenon DEF KernelStart, Refused
  <2> HIDE DEF P, O, E, k
  <2>2. k = [[tags |-> st.tags, tagGens |-> st.tagGens, ages |-> st.ages, clock |-> st.clock + 1,
              prot |-> [h \in Lanes |-> FALSE], out |-> buf.out, fills |-> buf.fills,
              misses |-> 0, hits |-> 0, errors |-> 0] EXCEPT !.prot = P, !.out = O, !.errors = E]
    BY <2>1 DEF Work
  <2> QED
    BY <2>2
<1>2. P \in [Lanes -> BOOLEAN]
  BY DEF Protected
<1>3. O \in [1 .. K -> Int]
  <2>1. \A j \in 1 .. K : OnPage(sel[j]) => ResidentRow(sel[j]) \in Int
    BY ResidentToken
  <2>2. buf.out \in [1 .. K -> Int]
    BY DEF BufType
  <2>3. ASSUME NEW j \in 1 .. K
        PROVE  (IF OnPage(sel[j]) THEN ResidentRow(sel[j])
                ELSE IF Valid(sel[j]) THEN buf.out[j] ELSE -1) \in Int
    <3>1. buf.out[j] \in Int
      BY <2>2
    <3>2. -1 \in Int
      OBVIOUS
    <3> QED
      BY <2>1, <3>1, <3>2, Zenon
  <2> QED
    BY <2>3 DEF Classified
<1>4. E \in Int
  BY RefusedEnds
<1>5. /\ st.tags \in [Lanes -> Int] /\ st.tagGens \in [Lanes -> Int] /\ st.ages \in [Lanes -> Nat]
      /\ st.clock + 1 \in Nat /\ buf.fills \in [1 .. K -> Int \X Int]
  BY DEF HotType, BufType
<1> HIDE DEF P, O, E, k
<1>6. k \in WorkType
  BY <1>1, <1>2, <1>3, <1>4, <1>5 DEF WorkType
<1> QED
  BY <1>1, <1>6 DEF k, P, O, E

LEMMA ReferenceStartIs ==
    ASSUME NEW st \in HotType, NEW sel \in [1 .. K -> Int], NEW buf
    PROVE  LET r == ReferenceStart(st, sel)
           IN  /\ r \in WorkType
               /\ r.tags = st.tags /\ r.tagGens = st.tagGens /\ r.ages = st.ages
               /\ r.clock = st.clock + 1 /\ r.prot = Protected(st, Bitmap(sel, buf))
               /\ r.out = [j \in 1 .. K |-> -1] /\ r.fills = [j \in 1 .. K |-> <<0, 0>>]
               /\ r.misses = 0 /\ r.hits = 0 /\ r.errors = 0
<1> DEFINE r == ReferenceStart(st, sel)
           P == Protected(st, Bitmap(sel, buf))
           Q == [h \in Lanes |-> /\ st.tags[h] >= 0 /\ gens[PageOf(st.tags[h])] = st.tagGens[h]
                                 /\ st.tags[h] \in {tok \in Range(sel) : Valid(tok)}]
           O == [j \in 1 .. K |-> -1]
           F == [j \in 1 .. K |-> <<0, 0>>]
<1>1. r = [tags |-> st.tags, tagGens |-> st.tagGens, ages |-> st.ages, clock |-> st.clock + 1,
           prot |-> Q, out |-> O, fills |-> F, misses |-> 0, hits |-> 0, errors |-> 0]
  <2> DEFINE blank == [out |-> O, fills |-> F]
  <2>1. r = [Work(st, blank) EXCEPT !.prot = Q]
    BY Zenon DEF ReferenceStart
  <2>2. blank.out = O /\ blank.fills = F
    OBVIOUS
  <2> HIDE DEF O, F, Q, r, blank
  <2>3. r = [[tags |-> st.tags, tagGens |-> st.tagGens, ages |-> st.ages, clock |-> st.clock + 1,
              prot |-> [h \in Lanes |-> FALSE], out |-> O, fills |-> F,
              misses |-> 0, hits |-> 0, errors |-> 0] EXCEPT !.prot = Q]
    BY <2>1, <2>2 DEF Work
  <2> QED
    BY <2>3
<1>2. P = Q
  BY DEF Protected, Bitmap
<1>3. Q \in [Lanes -> BOOLEAN]
  OBVIOUS
<1>4. O \in [1 .. K -> Int] /\ F \in [1 .. K -> Int \X Int]
  OBVIOUS
<1>5. /\ st.tags \in [Lanes -> Int] /\ st.tagGens \in [Lanes -> Int] /\ st.ages \in [Lanes -> Nat]
      /\ st.clock + 1 \in Nat
  BY DEF HotType
<1> HIDE DEF P, Q, O, F, r
<1>6. r \in WorkType
  BY <1>1, <1>3, <1>4, <1>5 DEF WorkType
<1> QED
  BY <1>1, <1>2, <1>6 DEF r, P, O, F

LEMMA SimStart ==
    ASSUME TablesTyped, NEW st \in HotType, NEW sel \in [1 .. K -> Int], NEW allow,
           NEW buf \in BufType
    PROVE  Sim(KernelStart(st, sel, allow, buf), ReferenceStart(st, sel), sel, allow, buf, 0)
<1> DEFINE k == KernelStart(st, sel, allow, buf)
           r == ReferenceStart(st, sel)
<1>1. /\ k \in WorkType
      /\ k.tags = st.tags /\ k.tagGens = st.tagGens /\ k.ages = st.ages
      /\ k.clock = st.clock + 1 /\ k.prot = Protected(st, Bitmap(sel, buf))
      /\ k.out = Classified(sel, buf) /\ k.fills = buf.fills
      /\ k.misses = 0 /\ k.hits = 0 /\ k.errors = Cardinality(Refused(sel, allow))
  BY KernelStartIs
<1>2. /\ r \in WorkType
      /\ r.tags = st.tags /\ r.tagGens = st.tagGens /\ r.ages = st.ages
      /\ r.clock = st.clock + 1 /\ r.prot = Protected(st, Bitmap(sel, buf))
      /\ r.out = [j \in 1 .. K |-> -1] /\ r.fills = [j \in 1 .. K |-> <<0, 0>>]
      /\ r.misses = 0 /\ r.hits = 0 /\ r.errors = 0
  BY ReferenceStartIs
<1>3. /\ RefusedTo(sel, allow, 0) = 0
      /\ RefusedTo(sel, allow, K) = Cardinality(Refused(sel, allow))
      /\ Cardinality(Refused(sel, allow)) \in Nat
  BY RefusedEnds
<1> HIDE DEF k, r
<1>4. k.errors + RefusedTo(sel, allow, 0) = r.errors + RefusedTo(sel, allow, K)
  BY <1>1, <1>2, <1>3
<1>5. /\ k.misses \in 0 .. 0
      /\ \A i \in 1 .. K : ~ (i <= 0)
  BY <1>1, Sizes
<1>6. \A i \in 1 .. K : r.fills[i] = <<0, 0>> /\ r.out[i] = -1
  BY <1>2
<1>7. Sim(k, r, sel, allow, buf, 0)
  BY <1>1, <1>2, <1>4, <1>5, <1>6 DEF Sim
<1> QED
  BY <1>7 DEF k, r

LEMMA SimMiss ==
    ASSUME TablesTyped, NEW sel \in [1 .. K -> Int], NEW allow, NEW buf, NEW j \in Misses(sel),
           NEW k, NEW r, Sim(k, r, sel, allow, buf, j - 1)
    PROVE  Sim(MissItem(k, j, sel[j]), ReferenceItem(r, j, sel[j], allow), sel, allow, buf, j)
<1> DEFINE tok == sel[j]
           u == MissItem(k, j, sel[j])
           v == ReferenceItem(r, j, sel[j], allow)
           s == Slot(k, tok)
<1>1. j \in 1 .. K /\ tok \in Int /\ Valid(tok) /\ ~ OnPage(tok) /\ j \notin Refused(sel, allow)
  BY DEF Misses, Refused
<1>2. k \in WorkType /\ r \in WorkType
  BY DEF Sim
<1>3. /\ Stepped(k, u, tok)
      /\ u.out = [k.out EXCEPT ![j] = IF Ok(k, tok) THEN HotRow(s) ELSE -1]
  BY <1>1, <1>2, MissItemIs
<1>4. /\ Stepped(r, v, tok)
      /\ v.out = IF Ok(r, tok) THEN [r.out EXCEPT ![j] = HotRow(Slot(r, tok))] ELSE r.out
  BY <1>1, <1>2, ReferenceMiss
<1>5. /\ Slot(r, tok) = s /\ HitSlot(r, tok) = HitSlot(k, tok)
      /\ Ok(r, tok) = Ok(k, tok) /\ Evicts(r, tok) = Evicts(k, tok)
  <2>1. k.tags = r.tags /\ k.tagGens = r.tagGens /\ k.ages = r.ages /\ k.prot = r.prot
    BY DEF Sim
  <2> QED
    BY <2>1, SameSlot
<1>6. u \in WorkType /\ v \in WorkType
  <2>1. gens[PageOf(tok)] \in Int /\ HostRow(tok) \in Int
    BY <1>1, ValidToken
  <2> QED
    BY <1>1, <1>2, <2>1, MissItemType, ReferenceItemType
<1>7. /\ k.tags = r.tags /\ k.tagGens = r.tagGens /\ k.ages = r.ages /\ k.clock = r.clock
      /\ k.prot = r.prot /\ k.misses = r.misses /\ k.hits = r.hits
      /\ k.misses \in 0 .. j - 1
      /\ \A i \in 1 .. K : i <= k.misses => k.fills[i] = r.fills[i]
      /\ \A i \in 1 .. K : ~ (i <= k.misses) => r.fills[i] = <<0, 0>>
      /\ \A i \in 1 .. K : i <= j - 1 => k.out[i] = r.out[i]
      /\ \A i \in 1 .. K : ~ (i <= j - 1) => r.out[i] = -1
      /\ \A i \in 1 .. K : ~ (i <= j - 1) /\ i \notin Misses(sel) => k.out[i] = Classified(sel, buf)[i]
      /\ k.errors + RefusedTo(sel, allow, j - 1) = r.errors + RefusedTo(sel, allow, K)
  BY DEF Sim
<1>8. /\ k.out \in [1 .. K -> Int] /\ r.out \in [1 .. K -> Int] /\ k.errors \in Int /\ r.errors \in Int
      /\ DOMAIN k.fills = 1 .. K /\ DOMAIN r.fills = 1 .. K
      /\ k.fills \in [1 .. K -> Int \X Int] /\ r.fills \in [1 .. K -> Int \X Int]
  BY <1>2 DEF WorkType
<1> HIDE DEF tok, u, v, s
<1>9. /\ u.tags = v.tags /\ u.tagGens = v.tagGens /\ u.ages = v.ages /\ u.clock = v.clock
      /\ u.prot = v.prot /\ u.misses = v.misses /\ u.hits = v.hits
  <2>1. u.tags = v.tags /\ u.tagGens = v.tagGens
    BY <1>3, <1>4, <1>5, <1>7 DEF Stepped, s
  <2>2. u.ages = v.ages /\ u.clock = v.clock
    BY <1>3, <1>4, <1>5, <1>7 DEF Stepped, s
  <2>3. u.prot = v.prot
    BY <1>3, <1>4, <1>5, <1>7 DEF Stepped, s
  <2>4. u.misses = v.misses /\ u.hits = v.hits
    BY <1>3, <1>4, <1>5, <1>7 DEF Stepped, s
  <2> QED
    BY <2>1, <2>2, <2>3, <2>4
<1>10. u.misses \in 0 .. j /\ k.misses + 1 \in 1 .. K
       /\ u.misses = IF Evicts(k, tok) THEN k.misses + 1 ELSE k.misses
  BY <1>1, <1>3, <1>7, Sizes DEF Stepped
<1>11. ASSUME NEW i \in 1 .. K
       PROVE  /\ i <= u.misses => u.fills[i] = v.fills[i]
              /\ ~ (i <= u.misses) => v.fills[i] = <<0, 0>>
  <2> DEFINE p == <<HostRow(tok), HotRow(s)>>
  <2>1. /\ u.fills = IF Evicts(k, tok) THEN [k.fills EXCEPT ![k.misses + 1] = p] ELSE k.fills
        /\ v.fills = IF Evicts(k, tok) THEN [r.fills EXCEPT ![k.misses + 1] = p] ELSE r.fills
    BY <1>3, <1>4, <1>5, <1>7 DEF Stepped, s
  <2> HIDE DEF p
  <2>2. CASE Evicts(k, tok)
    <3>1. i <= k.misses + 1 <=> (i <= k.misses \/ i = k.misses + 1)
      BY <1>7, <1>1
    <3>2. u.fills[i] = IF i = k.misses + 1 THEN p ELSE k.fills[i]
      BY <2>1, <2>2, <1>8
    <3>3. v.fills[i] = IF i = k.misses + 1 THEN p ELSE r.fills[i]
      BY <2>1, <2>2, <1>8
    <3> QED
      BY <2>2, <3>1, <3>2, <3>3, <1>7, <1>10
  <2>3. CASE ~ Evicts(k, tok)
    BY <2>1, <2>3, <1>7, <1>10
  <2> QED
    BY <2>2, <2>3
<1>12. ASSUME NEW i \in 1 .. K
       PROVE  /\ i <= j => u.out[i] = v.out[i]
              /\ ~ (i <= j) => v.out[i] = -1
              /\ ~ (i <= j) /\ i \notin Misses(sel) => u.out[i] = Classified(sel, buf)[i]
  <2>1. /\ (i <= j - 1 <=> (i <= j /\ i # j)) /\ (i = j => i <= j)
    BY <1>1
  <2>2. v.out = IF Ok(k, tok) THEN [r.out EXCEPT ![j] = HotRow(s)] ELSE r.out
    BY <1>4, <1>5
  <2>3. CASE i = j
    <3>1. r.out[j] = -1
      BY <1>1, <1>7, <2>1, <2>3
    <3> QED
      BY <1>1, <1>3, <1>8, <2>1, <2>2, <2>3, <3>1
  <2>4. CASE i # j
    <3>1. u.out[i] = k.out[i] /\ v.out[i] = r.out[i]
      BY <1>1, <1>3, <1>8, <2>2, <2>4
    <3> QED
      BY <1>7, <2>1, <2>4, <3>1
  <2> QED
    BY <2>3, <2>4
<1>13. u.errors + RefusedTo(sel, allow, j) = v.errors + RefusedTo(sel, allow, K)
  <2>1. RefusedTo(sel, allow, j) = RefusedTo(sel, allow, j - 1) /\ RefusedTo(sel, allow, j - 1) \in Nat
    BY <1>1, RefusedStep
  <2>2. /\ u.errors = IF s < H /\ ~ Fenced(s) THEN k.errors + 1 ELSE k.errors
        /\ v.errors = IF s < H /\ ~ Fenced(s) THEN r.errors + 1 ELSE r.errors
    BY <1>3, <1>4, <1>5 DEF Stepped, s
  <2>3. RefusedTo(sel, allow, K) \in Nat
    BY RefusedEnds
  <2>4. /\ k.errors + RefusedTo(sel, allow, j - 1) = r.errors + RefusedTo(sel, allow, K)
        /\ k.errors \in Int /\ r.errors \in Int
    BY <1>7, <1>8
  <2> QED
    BY <2>1, <2>2, <2>3, <2>4
<1>14. Sim(u, v, sel, allow, buf, j)
  BY <1>6, <1>9, <1>10, <1>11, <1>12, <1>13 DEF Sim
<1> QED
  BY <1>14 DEF u, v, tok

LEMMA SimOther ==
    ASSUME TablesTyped, NEW sel \in [1 .. K -> Int], NEW allow, NEW buf,
           NEW j \in 1 .. K, j \notin Misses(sel),
           NEW k, NEW r, Sim(k, r, sel, allow, buf, j - 1)
    PROVE  Sim(k, ReferenceItem(r, j, sel[j], allow), sel, allow, buf, j)
<1> DEFINE tok == sel[j]
           v == ReferenceItem(r, j, sel[j], allow)
<1>1. tok \in Int /\ ~ (Valid(tok) /\ ~ OnPage(tok))
      /\ (j \in Refused(sel, allow) <=> ~ Valid(tok) /\ ~ Padding(tok, allow))
  BY DEF Misses, Refused
<1>2. k \in WorkType /\ r \in WorkType
  BY DEF Sim
<1>3. /\ v.tags = r.tags /\ v.tagGens = r.tagGens /\ v.ages = r.ages /\ v.clock = r.clock
      /\ v.prot = r.prot /\ v.fills = r.fills /\ v.misses = r.misses /\ v.hits = r.hits
      /\ v.out = IF OnPage(tok) THEN [r.out EXCEPT ![j] = ResidentRow(tok)] ELSE r.out
      /\ v.errors = IF ~ Valid(tok) /\ ~ Padding(tok, allow) THEN r.errors + 1 ELSE r.errors
  BY <1>1, <1>2, ReferenceOther
<1>4. v \in WorkType
  BY <1>1, <1>2, ReferenceItemType
<1>5. /\ k.tags = r.tags /\ k.tagGens = r.tagGens /\ k.ages = r.ages /\ k.clock = r.clock
      /\ k.prot = r.prot /\ k.misses = r.misses /\ k.hits = r.hits
      /\ k.misses \in 0 .. j - 1
      /\ \A i \in 1 .. K : i <= k.misses => k.fills[i] = r.fills[i]
      /\ \A i \in 1 .. K : ~ (i <= k.misses) => r.fills[i] = <<0, 0>>
      /\ \A i \in 1 .. K : i <= j - 1 => k.out[i] = r.out[i]
      /\ \A i \in 1 .. K : ~ (i <= j - 1) => r.out[i] = -1
      /\ \A i \in 1 .. K : ~ (i <= j - 1) /\ i \notin Misses(sel) => k.out[i] = Classified(sel, buf)[i]
      /\ k.errors + RefusedTo(sel, allow, j - 1) = r.errors + RefusedTo(sel, allow, K)
  BY DEF Sim
<1>6. r.out \in [1 .. K -> Int] /\ k.errors \in Int /\ r.errors \in Int
  BY <1>2 DEF WorkType
<1>7. Classified(sel, buf)[j] = IF OnPage(tok) THEN ResidentRow(tok) ELSE -1
  <2>1. OnPage(tok) => Valid(tok)
    BY DEF OnPage
  <2> QED
    BY <1>1, <2>1 DEF Classified
<1> HIDE DEF tok, v
<1>8. k.misses \in 0 .. j
  BY <1>5
<1>9. ASSUME NEW i \in 1 .. K
      PROVE  /\ i <= j => k.out[i] = v.out[i]
             /\ ~ (i <= j) => v.out[i] = -1
             /\ ~ (i <= j) /\ i \notin Misses(sel) => k.out[i] = Classified(sel, buf)[i]
  <2>1. /\ (i <= j - 1 <=> (i <= j /\ i # j)) /\ (i = j => i <= j)
    OBVIOUS
  <2>2. CASE i = j
    <3>1. r.out[j] = -1 /\ k.out[j] = Classified(sel, buf)[j]
      BY <1>5, <2>1, <2>2
    <3> QED
      BY <1>3, <1>6, <1>7, <2>1, <2>2, <3>1
  <2>3. CASE i # j
    <3>1. v.out[i] = r.out[i]
      BY <1>3, <1>6, <2>3
    <3> QED
      BY <1>5, <2>1, <2>3, <3>1
  <2> QED
    BY <2>2, <2>3
<1>10. k.errors + RefusedTo(sel, allow, j) = v.errors + RefusedTo(sel, allow, K)
  <2>1. /\ RefusedTo(sel, allow, j - 1) \in Nat
        /\ RefusedTo(sel, allow, j)
              = RefusedTo(sel, allow, j - 1) + (IF j \in Refused(sel, allow) THEN 1 ELSE 0)
    BY RefusedStep
  <2>2. RefusedTo(sel, allow, K) \in Nat
    BY RefusedEnds
  <2>3. CASE j \in Refused(sel, allow)
    <3>1. v.errors = r.errors + 1
      BY <1>1, <1>3, <2>3
    <3>2. RefusedTo(sel, allow, j) = RefusedTo(sel, allow, j - 1) + 1
      BY <2>1, <2>3
    <3>3. k.errors + RefusedTo(sel, allow, j - 1) = r.errors + RefusedTo(sel, allow, K)
      BY <1>5
    <3>4. RefusedTo(sel, allow, j - 1) \in Nat /\ k.errors \in Int /\ r.errors \in Int
      BY <1>6, <2>1
    <3> DEFINE a == k.errors
               b == RefusedTo(sel, allow, j - 1)
               c == r.errors
               d == RefusedTo(sel, allow, K)
    <3>5. a \in Int /\ b \in Int /\ c \in Int /\ d \in Int /\ a + b = c + d
      <4>1. b \in Int /\ d \in Int
        BY <2>2, <3>4
      <4> QED
        BY <3>3, <3>4, <4>1, Zenon
    <3> HIDE DEF a, b, c, d
    <3>6. a + (b + 1) = (c + 1) + d
      BY <3>5
    <3> QED
      BY <3>1, <3>2, <3>6, Zenon DEF a, b, c, d
  <2>4. CASE j \notin Refused(sel, allow)
    <3>1. v.errors = r.errors
      BY <1>1, <1>3, <2>4
    <3> QED
      BY <1>5, <1>6, <2>1, <2>2, <2>4, <3>1
  <2> QED
    BY <2>3, <2>4
<1>11. Sim(k, v, sel, allow, buf, j)
  BY <1>2, <1>3, <1>4, <1>5, <1>8, <1>9, <1>10 DEF Sim
<1> QED
  BY <1>11 DEF v, tok

LEMMA SimWalk ==
    ASSUME TablesTyped, NEW sel \in [1 .. K -> Int], NEW allow, NEW buf, NEW kf, NEW rf,
           Sim(kf[0], rf[0], sel, allow, buf, 0),
           \A i \in 1 .. Cardinality(Misses(sel)) :
              kf[i] = MissItem(kf[i - 1], Worklist(sel)[i], sel[Worklist(sel)[i]]),
           \A j \in 1 .. K : rf[j] = ReferenceItem(rf[j - 1], j, sel[j], allow)
    PROVE  Sim(kf[Cardinality(Misses(sel))], rf[K], sel, allow, buf, K)
<1> DEFINE At(j) == Sim(kf[Rank(sel, j)], rf[j], sel, allow, buf, j)
           Bad == {j \in 0 .. K : ~ At(j)}
<1>1. At(0)
  BY RankEnds
<1>2. ASSUME NEW j \in 1 .. K, At(j - 1) PROVE At(j)
  <2>1. rf[j] = ReferenceItem(rf[j - 1], j, sel[j], allow)
    OBVIOUS
  <2>2. CASE j \in Misses(sel)
    <3>1. /\ Rank(sel, j) \in 1 .. Cardinality(Misses(sel)) /\ Worklist(sel)[Rank(sel, j)] = j
      BY <2>2, WorklistAt
    <3>2. Rank(sel, j) = Rank(sel, j - 1) + 1 /\ Rank(sel, j - 1) \in Nat
      BY <2>2, RankStep
    <3>3. Rank(sel, j) - 1 = Rank(sel, j - 1)
      BY <3>2
    <3>4. kf[Rank(sel, j)] = MissItem(kf[Rank(sel, j) - 1], Worklist(sel)[Rank(sel, j)],
                                      sel[Worklist(sel)[Rank(sel, j)]])
      BY <3>1
    <3>5. kf[Rank(sel, j)] = MissItem(kf[Rank(sel, j - 1)], j, sel[j])
      BY <3>1, <3>3, <3>4, Zenon
    <3> DEFINE a == kf[Rank(sel, j - 1)]
               b == rf[j - 1]
    <3>6. Sim(a, b, sel, allow, buf, j - 1)
      BY <1>2
    <3> HIDE DEF a, b
    <3>7. Sim(MissItem(a, j, sel[j]), ReferenceItem(b, j, sel[j], allow), sel, allow, buf, j)
      BY <2>2, <3>6, SimMiss
    <3> QED
      BY <2>1, <3>5, <3>7, Zenon DEF a, b
  <2>3. CASE j \notin Misses(sel)
    <3>1. Rank(sel, j) = Rank(sel, j - 1)
      BY <2>3, RankStep
    <3> QED
      BY <1>2, <2>1, <2>3, <3>1, SimOther
  <2> QED
    BY <2>2, <2>3
<1> HIDE DEF At
<1>3. Bad = {}
  <2> SUFFICES ASSUME Bad # {} PROVE FALSE
    OBVIOUS
  <2>1. Bad \in SUBSET Nat
    OBVIOUS
  <2>2. PICK n \in Bad : \A m \in Bad : n <= m
    <3> HIDE DEF Bad
    <3> QED BY <2>1, LeastNat
  <2>3. n \in 0 .. K /\ n # 0 /\ ~ At(n)
    BY <1>1
  <2>4. n \in 1 .. K /\ n - 1 \in 0 .. K /\ ~ (n <= n - 1)
    BY <2>3, Sizes
  <2>5. n - 1 \notin Bad
    BY <2>2, <2>4
  <2>6. At(n - 1)
    BY <2>4, <2>5
  <2> QED
    BY <1>2, <2>3, <2>4, <2>6
<1>4. At(K)
  <2>1. K \in 0 .. K
    BY Sizes
  <2> QED
    BY <1>3, <2>1
<1> QED
  BY <1>4, RankEnds DEF At

\* The kernel's phases return what the oracle's walk returns.
LEMMA KernelIsReference ==
    ASSUME TablesTyped, NEW st \in HotType, NEW sel \in [1 .. K -> Int], NEW allow,
           NEW buf \in BufType
    PROVE  Kernel(st, sel, allow, buf) = Reference(st, sel, allow)
<1> DEFINE ks == KernelStart(st, sel, allow, buf)
           rs == ReferenceStart(st, sel)
           N == Cardinality(Misses(sel))
<1>0. PICK kf : MissRun(kf, ks, sel)
  <2> HIDE DEF ks
  <2>1. Cardinality(Misses(sel)) \in Nat
    BY RankEnds
  <2> QED
    BY <2>1, MissWalkIs, Zenon
<1>1. /\ kf[0] = ks
      /\ \A i \in 1 .. N : kf[i] = MissItem(kf[i - 1], Worklist(sel)[i], sel[Worklist(sel)[i]])
      /\ MissWalk(ks, sel) = kf[N]
  BY <1>0, Zenon DEF MissRun
<1>14. PICK rf : IsReferenceWalk(rf, K, rs, sel, allow) /\ ReferenceWalk(rs, sel, allow) = rf[K]
  <2> HIDE DEF rs
  <2> QED
    BY ReferenceWalkIs
<1>2. /\ rf[0] = rs
      /\ \A j \in 1 .. K : rf[j] = ReferenceItem(rf[j - 1], j, sel[j], allow)
      /\ ReferenceWalk(rs, sel, allow) = rf[K]
  <2> HIDE DEF rs, ks, N
  <2>1. IsReferenceWalk(rf, K, rs, sel, allow) /\ ReferenceWalk(rs, sel, allow) = rf[K]
    BY <1>14
  <2>2. rf[0] = rs
    BY <2>1, ReferenceWalkAt
  <2>3. ASSUME NEW j \in 1 .. K PROVE rf[j] = ReferenceItem(rf[j - 1], j, sel[j], allow)
    <3>1. j \in 0 .. K /\ j # 0
      BY Sizes
    <3> QED
      BY <2>1, <3>1 DEF IsReferenceWalk
  <2> QED
    BY <2>1, <2>2, <2>3
<1>3. Sim(kf[0], rf[0], sel, allow, buf, 0)
  <2>1. kf[0] = ks /\ rf[0] = rs
    BY <1>1, <1>2
  <2> QED
    BY <2>1, SimStart
<1>4. Sim(kf[N], rf[K], sel, allow, buf, K)
  BY <1>1, <1>2, <1>3, SimWalk
<1> DEFINE k == MissWalk(ks, sel)
           r == ReferenceWalk(rs, sel, allow)
<1>5. Sim(k, r, sel, allow, buf, K)
  <2>1. k = kf[N] /\ r = rf[K]
    BY <1>1, <1>2
  <2> HIDE DEF k, r
  <2> QED
    BY <1>4, <2>1
<1>6. /\ Kernel(st, sel, allow, buf) = Result(Drain(k), Residents(sel))
      /\ Reference(st, sel, allow) = Result(r, Residents(sel))
  BY Zenon DEF Kernel, Reference
<1> HIDE DEF k, r, ks, rs, N
<1>7. /\ k \in WorkType /\ r \in WorkType
      /\ k.tags = r.tags /\ k.tagGens = r.tagGens /\ k.ages = r.ages /\ k.clock = r.clock
      /\ k.misses = r.misses /\ k.hits = r.hits
      /\ \A i \in 1 .. K : i <= k.misses => k.fills[i] = r.fills[i]
      /\ \A i \in 1 .. K : ~ (i <= k.misses) => r.fills[i] = <<0, 0>>
      /\ \A i \in 1 .. K : i <= K => k.out[i] = r.out[i]
      /\ k.errors + RefusedTo(sel, allow, K) = r.errors + RefusedTo(sel, allow, K)
  BY <1>5 DEF Sim
<1> DEFINE d == Drain(k)
<1>8. /\ d.tags = k.tags /\ d.tagGens = k.tagGens /\ d.ages = k.ages /\ d.clock = k.clock
      /\ d.misses = k.misses /\ d.hits = k.hits /\ d.out = k.out /\ d.errors = k.errors
      /\ d.fills = [j \in 1 .. K |-> IF j <= k.misses THEN k.fills[j] ELSE <<0, 0>>]
  BY <1>7 DEF Drain, WorkType
<1> HIDE DEF d
<1>9. d.fills = r.fills
  <2>1. r.fills = [j \in 1 .. K |-> r.fills[j]]
    BY <1>7 DEF WorkType
  <2>2. \A j \in 1 .. K : (IF j <= k.misses THEN k.fills[j] ELSE <<0, 0>>) = r.fills[j]
    BY <1>7
  <2> QED
    BY <1>8, <2>1, <2>2
<1>10. d.out = r.out
  <2>1. r.out \in [1 .. K -> Int] /\ k.out \in [1 .. K -> Int]
    BY <1>7 DEF WorkType
  <2>2. \A i \in 1 .. K : k.out[i] = r.out[i]
    BY <1>7, Sizes
  <2>3. k.out = [i \in 1 .. K |-> k.out[i]] /\ r.out = [i \in 1 .. K |-> r.out[i]]
    BY <2>1
  <2>4. k.out = r.out
    BY <2>2, <2>3
  <2> QED
    BY <1>8, <2>4
<1>11. d.errors = r.errors
  <2>1. k.errors \in Int /\ r.errors \in Int /\ RefusedTo(sel, allow, K) \in Nat
    BY <1>7, RefusedEnds DEF WorkType
  <2>2. k.errors + RefusedTo(sel, allow, K) = r.errors + RefusedTo(sel, allow, K)
    BY <1>7
  <2>3. k.errors = r.errors
    BY <2>1, <2>2
  <2> QED
    BY <1>8, <2>3
<1>12. /\ d.tags = r.tags /\ d.tagGens = r.tagGens /\ d.ages = r.ages /\ d.clock = r.clock
       /\ d.misses = r.misses /\ d.hits = r.hits
  BY <1>7, <1>8
<1>13. Result(d, Residents(sel)) = Result(r, Residents(sel))
  BY <1>9, <1>10, <1>11, <1>12, Zenon DEF Result
<1> QED
  BY <1>6, <1>13 DEF d

-----------------------------------------------------------------------------
(* The inductive invariant *)

Answers == {NoCall} \union [sel : [1 .. K -> Int], allow : BOOLEAN, out : [1 .. K -> Int], errors : Int]

\* Types of the tables, the cache, the hot tiers and the buffers.
TypeOK ==
    /\ TablesTyped
    /\ host \in [0 .. HostPages - 1 -> Int \X Int]
    /\ lost \subseteq HotGpu
    /\ kv \in [Layers -> [GpuRows -> (Layers \union {0}) \X Int \X Int]]
    /\ hot \in [Layers -> HotType]
    /\ scratch \in BufType
    /\ answer \in [Layers -> Answers]

\* A resident page has a GPU page of its own outside the hot tier, and its rows there.
ResidentInv ==
    /\ \A p \in Pages : resident[p] # None => resident[p] \notin HotGpu
    /\ \A p, q \in Pages : resident[p] # None /\ resident[p] = resident[q] => p = q
    /\ \A l \in Layers, p \in Pages : resident[p] # None =>
          \A o \in 0 .. PAGE - 1 :
             kv[l][(resident[p] * PAGE) + o] = <<l, (p * PAGE) + o, gens[p]>>

\* A page has a host page of its own, with its current content.
HostInv ==
    /\ \A p \in Pages : host[backing[p]] = <<p, gens[p]>>
    /\ \A p, q \in Pages : backing[p] = backing[q] => p = q

\* No two lanes have one token at one generation.
TagsApart(tags, tagGens) ==
    \A g, h \in Lanes : tags[g] >= 0 /\ tags[g] = tags[h] /\ tagGens[g] = tagGens[h] => g = h

\* A lane whose lease stands holds what its tags say, current or not.
HotInv ==
    \A l \in Layers :
        /\ TagsApart(hot[l].tags, hot[l].tagGens)
        /\ \A h \in Lanes : hot[l].tags[h] >= 0 /\ Fenced(h) =>
              kv[l][HotRow(h)] = <<l, hot[l].tags[h], hot[l].tagGens[h]>>

\* The rows of a hot page whose lease ended are another owner's.
LostInv == \A l \in Layers, r \in GpuRows : r \div PAGE \in lost => kv[l][r] = Foreign

\* What the tables, the cache and the hot tiers keep, whatever the calls are given.
CacheInv == TypeOK /\ ResidentInv /\ HostInv /\ HotInv /\ LostInv

-----------------------------------------------------------------------------
(* What the oracle's walk keeps *)

Chosen(sel) == {tok \in Range(sel) : Valid(tok)}

\* A protected lane holds a selected token at its current generation.
ProtInv(w, sel) ==
    \A h \in Lanes : w.prot[h] => /\ w.tags[h] \in Chosen(sel)
                                  /\ w.tagGens[h] = gens[PageOf(w.tags[h])]

\* A fill is for a protected lane whose lease stands, and a lane that has changed
\* has a fill.
FillInv(w, st) ==
    /\ \A i \in 1 .. K : i <= w.misses =>
          \E h \in Lanes : /\ w.prot[h] /\ Fenced(h)
                           /\ w.fills[i] = <<HostRow(w.tags[h]), HotRow(h)>>
    /\ \A h \in Lanes : \/ w.tags[h] = st.tags[h] /\ w.tagGens[h] = st.tagGens[h]
                        \/ \E i \in 1 .. K : i <= w.misses /\ w.fills[i][2] = HotRow(h)

\* An answer is a resident row, or the row of a lane that holds the token.
RowFor(w, tok, row) ==
    \/ OnPage(tok) /\ row = ResidentRow(tok)
    \/ \E h \in Lanes : w.prot[h] /\ Fenced(h) /\ row = HotRow(h) /\ w.tags[h] = tok

Masked(w, sel, allow) == {i \in 1 .. K : w.out[i] = -1 /\ ~ Padding(sel[i], allow)}

OutInv(w, sel, allow, j) ==
    /\ \A i \in 1 .. K : w.out[i] # -1 => i <= j /\ RowFor(w, sel[i], w.out[i])
    /\ Fits(sel) => w.errors = CountTo(Masked(w, sel, allow), j)

WalkInv(w, st, sel, allow, j) ==
    /\ w \in WorkType /\ w.misses \in 0 .. j
    /\ TagsApart(w.tags, w.tagGens) /\ ProtInv(w, sel) /\ FillInv(w, st)
    /\ OutInv(w, sel, allow, j)

\* A selection that fits leaves a victim for a selected token that no lane holds.
LEMMA LaneLeft ==
    ASSUME NEW w, w.tags \in [Lanes -> Int], NEW sel \in [1 .. K -> Int],
           TagsApart(w.tags, w.tagGens), ProtInv(w, sel),
           Fits(sel), NEW tok \in Chosen(sel), \A h \in Lanes : ~ Holds(w, h, tok)
    PROVE  \E h \in Lanes : ~ w.prot[h]
<1> SUFFICES ASSUME \A h \in Lanes : w.prot[h] PROVE FALSE
  OBVIOUS
<1> DEFINE T == Chosen(sel) \ {tok}
<1>1. \A h \in Lanes : w.tags[h] \in Chosen(sel) /\ w.tagGens[h] = gens[PageOf(w.tags[h])]
  BY DEF ProtInv
<1>2. \A h \in Lanes : w.tags[h] \in T
  BY <1>1 DEF Holds
<1>3. \A t \in Chosen(sel) : t >= 0
  BY DEF Chosen, Valid
<1>4. \A g, h \in Lanes : w.tags[g] = w.tags[h] => g = h
  <2> SUFFICES ASSUME NEW g \in Lanes, NEW h \in Lanes, w.tags[g] = w.tags[h] PROVE g = h
    OBVIOUS
  <2>1. w.tags[g] >= 0 /\ w.tagGens[g] = w.tagGens[h]
    BY <1>1, <1>3
  <2> QED
    BY <2>1 DEF TagsApart
<1>5. w.tags \in Injection(Lanes, T)
  <2>1. w.tags \in [Lanes -> T]
    BY <1>2
  <2> QED
    BY <1>4, <2>1 DEF Injection, IsInjective
<1>6. IsFiniteSet(Range(sel))
  <2>1. sel \in Surjection(1 .. K, Range(sel))
    BY DEF Surjection, Range
  <2> QED
    BY <2>1, Positions, FS_Surjection
<1>7. IsFiniteSet(Chosen(sel)) /\ Cardinality(Chosen(sel)) <= H
      /\ Cardinality(Chosen(sel)) \in Nat
  <2>1. Chosen(sel) \in SUBSET Range(sel)
    BY DEF Chosen
  <2> QED
    BY <1>6, <2>1, FS_Subset, FS_CardinalityType DEF Fits, Chosen
<1>8. IsFiniteSet(T) /\ Cardinality(T) = Cardinality(Chosen(sel)) - 1
  BY <1>7, FS_RemoveElement
<1> HIDE DEF T
<1>9. Cardinality(Lanes) <= Cardinality(T)
  BY <1>5, <1>8, FS_Injection
<1>10. Cardinality(Lanes) = H
  <2>1. ASSUME NEW a \in Int, NEW b \in Int PROVE Cardinality(a .. b) = IF a > b THEN 0 ELSE b - a + 1
    BY FS_Interval
  <2>2. 0 \in Int /\ H - 1 \in Int
    BY Sizes
  <2>3. Cardinality(Lanes) = IF 0 > H - 1 THEN 0 ELSE (H - 1) - 0 + 1
    BY <2>1, <2>2, Zenon DEF Lanes
  <2> QED
    BY <2>3, Sizes
<1> QED
  BY <1>7, <1>8, <1>9, <1>10, Sizes

LEMMA WalkStart ==
    ASSUME NEW st \in HotType, NEW sel \in [1 .. K -> Int], NEW allow,
           TagsApart(st.tags, st.tagGens)
    PROVE  WalkInv(ReferenceStart(st, sel), st, sel, allow, 0)
<1> DEFINE r == ReferenceStart(st, sel)
<1>1. /\ r \in WorkType
      /\ r.tags = st.tags /\ r.tagGens = st.tagGens /\ r.prot = Protected(st, Bitmap(sel, scratch))
      /\ r.out = [j \in 1 .. K |-> -1] /\ r.misses = 0 /\ r.errors = 0
  BY ReferenceStartIs
<1> HIDE DEF r
<1>2. \A h \in Lanes : r.prot[h] =>
         r.tags[h] \in Chosen(sel) /\ r.tagGens[h] = gens[PageOf(r.tags[h])]
  BY <1>1 DEF Protected, Bitmap, Chosen
<1>3. CountTo(Masked(r, sel, allow), 0) = 0
  <2>1. Masked(r, sel, allow) \subseteq 1 .. K
    BY DEF Masked
  <2> QED
    BY <2>1, CountEnds
<1>4. OutInv(r, sel, allow, 0)
  BY <1>1, <1>3 DEF OutInv
<1>5. FillInv(r, st)
  <2>1. \A i \in 1 .. K : ~ (i <= r.misses)
    BY <1>1, Sizes
  <2> QED
    BY <1>1, <2>1 DEF FillInv
<1>6. r.misses \in 0 .. 0
  BY <1>1
<1>7. WalkInv(r, st, sel, allow, 0)
  BY <1>1, <1>2, <1>4, <1>5, <1>6 DEF WalkInv, ProtInv
<1> QED
  BY <1>7 DEF r

\* A lane's answer stays its token's while its protection and its tags stay.
LEMMA RowKept ==
    ASSUME NEW w, NEW v, NEW tok, NEW row, RowFor(w, tok, row),
           \A h \in Lanes : w.prot[h] => v.prot[h] /\ v.tags[h] = w.tags[h]
    PROVE  RowFor(v, tok, row)
  BY DEF RowFor

\* The masked positions up to j when only position j may have been written.
LEMMA MaskedStep ==
    ASSUME NEW w, NEW v, NEW sel, NEW allow, NEW j \in 1 .. K,
           \A i \in 1 .. K : i # j => v.out[i] = w.out[i]
    PROVE  CountTo(Masked(v, sel, allow), j)
              = CountTo(Masked(w, sel, allow), j - 1)
                   + (IF j \in Masked(v, sel, allow) THEN 1 ELSE 0)
           /\ CountTo(Masked(w, sel, allow), j - 1) \in Nat
<1> DEFINE A == Masked(v, sel, allow)
           B == Masked(w, sel, allow)
<1>1. A \subseteq 1 .. K /\ B \subseteq 1 .. K
  BY DEF Masked
<1>2. \A i \in 1 .. K : i # j => (i \in A <=> i \in B)
  BY DEF Masked
<1> HIDE DEF A, B
<1>3. \A i \in 1 .. K : i <= j - 1 => i # j
  OBVIOUS
<1>4. {k \in A : k <= j - 1} = {k \in B : k <= j - 1}
  BY <1>1, <1>2, <1>3
<1>5. CountTo(A, j - 1) = CountTo(B, j - 1)
  BY <1>4, Zenon DEF CountTo
<1>6. /\ CountTo(A, j - 1) \in Nat
      /\ CountTo(A, j) = CountTo(A, j - 1) + (IF j \in A THEN 1 ELSE 0)
  BY <1>1, CountStep
<1> QED
  BY <1>5, <1>6 DEF A, B

LEMMA WalkMiss ==
    ASSUME TablesTyped, NEW st, NEW sel \in [1 .. K -> Int], NEW allow, NEW j \in Misses(sel),
           NEW w, WalkInv(w, st, sel, allow, j - 1)
    PROVE  WalkInv(ReferenceItem(w, j, sel[j], allow), st, sel, allow, j)
<1> DEFINE tok == sel[j]
           v == ReferenceItem(w, j, sel[j], allow)
           s == Slot(w, tok)
<1>1. /\ j \in 1 .. K /\ tok \in Int /\ Valid(tok) /\ ~ OnPage(tok) /\ tok \in Chosen(sel)
  <2>1. j \in 1 .. K /\ Valid(tok) /\ ~ OnPage(tok)
    BY DEF Misses
  <2>2. tok \in Range(sel)
    BY <2>1 DEF Range
  <2> QED
    BY <2>1, <2>2 DEF Chosen
<1>2. /\ w \in WorkType /\ w.misses \in 0 .. j - 1
      /\ TagsApart(w.tags, w.tagGens) /\ ProtInv(w, sel) /\ FillInv(w, st)
      /\ OutInv(w, sel, allow, j - 1)
  BY DEF WalkInv
<1>3. /\ Stepped(w, v, tok)
      /\ v.out = IF Ok(w, tok) THEN [w.out EXCEPT ![j] = HotRow(s)] ELSE w.out
  BY <1>1, <1>2, ReferenceMiss
<1>4. v \in WorkType
  BY <1>1, <1>2, ReferenceItemType
<1>5. /\ gens[PageOf(tok)] \in Int /\ tok >= 0
  BY <1>1, ValidToken
<1>6. /\ w.tags \in [Lanes -> Int] /\ w.tagGens \in [Lanes -> Int] /\ w.prot \in [Lanes -> BOOLEAN]
      /\ w.ages \in [Lanes -> Nat] /\ w.out \in [1 .. K -> Int] /\ w.errors \in Int
      /\ w.fills \in [1 .. K -> Int \X Int]
  BY <1>2 DEF WorkType
\* The walk finds a lane for every valid token of a selection that fits.
<1>7. Fits(sel) => s \in Lanes /\ s < H
  <2> SUFFICES ASSUME Fits(sel) PROVE s \in Lanes /\ s < H
    OBVIOUS
  <2>1. CASE \A h \in Lanes : ~ Holds(w, h, tok)
    <3>1. PICK h \in Lanes : ~ w.prot[h]
      BY <1>1, <1>2, <1>6, <2>1, LaneLeft
    <3>2. VictimSlot(w) \in Lanes
      BY <1>6, <3>1, VictimExists
    <3>3. VictimSlot(w) # H
      BY <3>2, Sizes DEF Lanes
    <3>4. HitSlot(w, tok) = H
      BY <2>1, HitSlotIs
    <3>5. s = VictimSlot(w)
      BY <3>4, Sizes DEF Slot
    <3> QED
      BY <3>2, <3>3, <3>5, SlotIs
  <2>2. CASE ~ \A h \in Lanes : ~ Holds(w, h, tok)
    <3>1. HitSlot(w, tok) \in Lanes /\ HitSlot(w, tok) < H
      BY <2>2, HitSlotIs
    <3> QED
      BY <3>1 DEF Slot
  <2> QED
    BY <2>1, <2>2
<1> SUFFICES WalkInv(v, st, sel, allow, j)
  OBVIOUS
<1>8. (s \in Lanes /\ s < H) \/ (s = H /\ ~ (s < H))
  BY SlotIs, Sizes
\* Without one the token is masked and nothing else changes.
<1>9. CASE s = H /\ ~ (s < H)
  <2> HIDE DEF tok, v, s
  <2>1. ~ Ok(w, tok) /\ ~ Evicts(w, tok) /\ ~ Fits(sel)
    BY <1>7, <1>9 DEF Ok, Evicts, s
  <2>2. /\ v.tags = w.tags /\ v.tagGens = w.tagGens /\ v.prot = w.prot /\ v.fills = w.fills
        /\ v.misses = w.misses /\ v.out = w.out
    BY <1>3, <1>9, <2>1 DEF Stepped, s
  <2>3. v.misses \in 0 .. j
    BY <1>1, <1>2, <2>2
  <2>4. TagsApart(v.tags, v.tagGens) /\ ProtInv(v, sel) /\ FillInv(v, st)
    BY <1>2, <2>2 DEF TagsApart, ProtInv, FillInv
  <2>5. \A i \in 1 .. K : v.out[i] # -1 => i <= j /\ RowFor(v, sel[i], v.out[i])
    <3> SUFFICES ASSUME NEW i \in 1 .. K, v.out[i] # -1
                 PROVE  i <= j /\ RowFor(v, sel[i], v.out[i])
      OBVIOUS
    <3>1. i <= j - 1 /\ RowFor(w, sel[i], w.out[i])
      BY <1>2, <2>2 DEF OutInv
    <3>2. RowFor(v, sel[i], v.out[i])
      BY <2>2, <3>1 DEF RowFor
    <3> QED
      BY <1>1, <3>1, <3>2
  <2> QED
    BY <1>4, <2>1, <2>3, <2>4, <2>5 DEF WalkInv, OutInv
<1> SUFFICES ASSUME s \in Lanes, s < H PROVE WalkInv(v, st, sel, allow, j)
  BY <1>8, <1>9
<1>10. s \in Lanes /\ s < H
  OBVIOUS
<1>11. /\ \/ HitSlot(w, tok) < H /\ HitSlot(w, tok) # H /\ Holds(w, s, tok)
         \/ /\ HitSlot(w, tok) = H /\ ~ w.prot[s]
            /\ \A h \in Lanes : ~ Holds(w, h, tok)
  BY <1>10, SlotIs, Sizes
<1> HIDE DEF tok, v, s
<1>12. CASE ~ Fenced(s)
  <2>1. ~ Ok(w, tok) /\ ~ Evicts(w, tok)
    BY <1>12 DEF Ok, Evicts, s
  <2>2. /\ v.tags = w.tags /\ v.tagGens = w.tagGens /\ v.prot = w.prot /\ v.fills = w.fills
        /\ v.misses = w.misses /\ v.out = w.out /\ v.errors = w.errors + 1
    BY <1>3, <1>10, <1>12, <2>1 DEF Stepped, s
  <2>3. v.misses \in 0 .. j
    BY <1>1, <1>2, <2>2
  <2>4. TagsApart(v.tags, v.tagGens) /\ ProtInv(v, sel) /\ FillInv(v, st)
    BY <1>2, <2>2 DEF TagsApart, ProtInv, FillInv
  <2>5. \A i \in 1 .. K : v.out[i] # -1 => i <= j /\ RowFor(v, sel[i], v.out[i])
    <3> SUFFICES ASSUME NEW i \in 1 .. K, v.out[i] # -1
                 PROVE  i <= j /\ RowFor(v, sel[i], v.out[i])
      OBVIOUS
    <3>1. i <= j - 1 /\ RowFor(w, sel[i], w.out[i])
      BY <1>2, <2>2 DEF OutInv
    <3>2. RowFor(v, sel[i], v.out[i])
      BY <2>2, <3>1 DEF RowFor
    <3> QED
      BY <1>1, <3>1, <3>2
  <2>6. Fits(sel) => v.errors = CountTo(Masked(v, sel, allow), j)
    <3> SUFFICES ASSUME Fits(sel) PROVE v.errors = CountTo(Masked(v, sel, allow), j)
      OBVIOUS
    <3>1. j \in Masked(v, sel, allow)
      <4>1. w.out[j] = -1
        BY <1>1, <1>2, Sizes DEF OutInv
      <4>2. ~ Padding(tok, allow)
        BY <1>5 DEF Padding
      <4> QED
        BY <1>1, <2>2, <4>1, <4>2 DEF Masked, tok
    <3>2. \A i \in 1 .. K : i # j => v.out[i] = w.out[i]
      BY <2>2
    <3>3. w.errors = CountTo(Masked(w, sel, allow), j - 1)
      BY <1>2 DEF OutInv
    <3> QED
      BY <1>1, <2>2, <3>1, <3>2, <3>3, MaskedStep
  <2> QED
    BY <1>4, <2>3, <2>4, <2>5, <2>6 DEF WalkInv, OutInv
<1>13. CASE Fenced(s)
  <2>1. Ok(w, tok) /\ (Evicts(w, tok) <=> HitSlot(w, tok) = H)
    BY <1>10, <1>13 DEF Ok, Evicts, s
  <2>2. /\ v.out = [w.out EXCEPT ![j] = HotRow(s)]
        /\ v.prot = [w.prot EXCEPT ![s] = TRUE] /\ v.errors = w.errors
    BY <1>3, <1>13, <2>1 DEF Stepped, s
  <2>3. \/ /\ Holds(w, s, tok) /\ v.tags = w.tags /\ v.tagGens = w.tagGens
           /\ v.fills = w.fills /\ v.misses = w.misses
        \/ /\ ~ w.prot[s] /\ \A h \in Lanes : ~ Holds(w, h, tok)
           /\ v.tags = [w.tags EXCEPT ![s] = tok]
           /\ v.tagGens = [w.tagGens EXCEPT ![s] = gens[PageOf(tok)]]
           /\ v.fills = [w.fills EXCEPT ![w.misses + 1] = <<HostRow(tok), HotRow(s)>>]
           /\ v.misses = w.misses + 1
    BY <1>3, <1>11, <2>1 DEF Stepped, s
  <2>4. /\ v.tags[s] = tok /\ v.tagGens[s] = gens[PageOf(tok)] /\ v.prot[s]
        /\ \A h \in Lanes : w.prot[h] => v.prot[h] /\ v.tags[h] = w.tags[h]
        /\ \A h \in Lanes : h # s => /\ v.prot[h] = w.prot[h] /\ v.tags[h] = w.tags[h]
                                     /\ v.tagGens[h] = w.tagGens[h]
    BY <1>6, <1>10, <2>2, <2>3 DEF Holds
  <2>5. v.misses \in 0 .. j
    BY <1>1, <1>2, <2>3
  <2>6. TagsApart(v.tags, v.tagGens)
    <3>1. CASE v.tags = w.tags /\ v.tagGens = w.tagGens
      BY <1>2, <3>1
    <3>2. CASE \A h \in Lanes : ~ Holds(w, h, tok)
      <4> SUFFICES ASSUME NEW g \in Lanes, NEW h \in Lanes, v.tags[g] >= 0,
                          v.tags[g] = v.tags[h], v.tagGens[g] = v.tagGens[h], g # h
                   PROVE  FALSE
        BY DEF TagsApart
      <4>1. CASE g = s
        BY <2>4, <3>2, <4>1 DEF Holds
      <4>2. CASE h = s
        BY <2>4, <3>2, <4>2 DEF Holds
      <4>3. CASE g # s /\ h # s
        BY <1>2, <2>4, <4>3 DEF TagsApart
      <4> QED
        BY <4>1, <4>2, <4>3
    <3> QED
      BY <2>3, <3>1, <3>2
  <2>7. ProtInv(v, sel)
    <3> SUFFICES ASSUME NEW h \in Lanes, v.prot[h]
                 PROVE  v.tags[h] \in Chosen(sel) /\ v.tagGens[h] = gens[PageOf(v.tags[h])]
      BY DEF ProtInv
    <3>1. CASE h = s
      BY <1>1, <2>4, <3>1
    <3>2. CASE h # s
      BY <1>2, <2>4, <3>2 DEF ProtInv
    <3> QED
      BY <3>1, <3>2
  <2>8. FillInv(v, st)
    <3>1. w.misses + 1 \in 1 .. K
      <4>1. w.misses \in 0 .. j - 1
        BY <1>2
      <4> QED
        BY <1>1, <4>1, Sizes
    <3>2. ASSUME NEW i \in 1 .. K, i <= v.misses
          PROVE  \E h \in Lanes : /\ v.prot[h] /\ Fenced(h)
                                  /\ v.fills[i] = <<HostRow(v.tags[h]), HotRow(h)>>
      <4>1. CASE i <= w.misses
        <5>1. PICK h \in Lanes : /\ w.prot[h] /\ Fenced(h)
                                 /\ w.fills[i] = <<HostRow(w.tags[h]), HotRow(h)>>
          BY <1>2, <4>1 DEF FillInv
        <5>2. i # w.misses + 1
          BY <1>2, <4>1
        <5>3. v.fills[i] = w.fills[i]
          BY <1>6, <2>3, <5>2
        <5>4. v.prot[h] /\ v.tags[h] = w.tags[h]
          BY <2>4, <5>1
        <5> QED
          BY <5>1, <5>3, <5>4
      <4>2. CASE ~ (i <= w.misses)
        <5>1. v.misses = w.misses + 1 /\ i = w.misses + 1
          BY <1>2, <2>3, <3>2, <4>2
        <5>2. v.fills = [w.fills EXCEPT ![w.misses + 1] = <<HostRow(tok), HotRow(s)>>]
          BY <1>2, <2>3, <5>1
        <5>3. v.fills[i] = <<HostRow(tok), HotRow(s)>>
          BY <1>6, <3>1, <5>1, <5>2
        <5> QED
          BY <1>10, <1>13, <2>4, <5>3
      <4> QED
        BY <4>1, <4>2
    <3>3. ASSUME NEW h \in Lanes
          PROVE  \/ v.tags[h] = st.tags[h] /\ v.tagGens[h] = st.tagGens[h]
                 \/ \E i \in 1 .. K : i <= v.misses /\ v.fills[i][2] = HotRow(h)
      <4>1. \/ w.tags[h] = st.tags[h] /\ w.tagGens[h] = st.tagGens[h]
            \/ \E i \in 1 .. K : i <= w.misses /\ w.fills[i][2] = HotRow(h)
        BY <1>2 DEF FillInv
      <4>2. CASE v.fills = w.fills /\ v.misses = w.misses /\ v.tags = w.tags /\ v.tagGens = w.tagGens
        BY <4>1, <4>2
      <4>3. CASE /\ v.fills = [w.fills EXCEPT ![w.misses + 1] = <<HostRow(tok), HotRow(s)>>]
                 /\ v.misses = w.misses + 1
        <5>1. CASE h = s
          <6>1. v.fills[w.misses + 1] = <<HostRow(tok), HotRow(s)>>
            BY <1>6, <3>1, <4>3
          <6>2. w.misses + 1 <= v.misses
            BY <1>2, <4>3
          <6> QED
            BY <3>1, <5>1, <6>1, <6>2
        <5>2. CASE h # s /\ w.tags[h] = st.tags[h] /\ w.tagGens[h] = st.tagGens[h]
          BY <2>4, <5>2
        <5>3. ASSUME NEW i \in 1 .. K, i <= w.misses, w.fills[i][2] = HotRow(h)
              PROVE  i <= v.misses /\ v.fills[i][2] = HotRow(h)
          <6>1. i # w.misses + 1 /\ i <= v.misses
            BY <1>2, <4>3, <5>3
          <6> QED
            BY <1>6, <4>3, <5>3, <6>1
        <5> QED
          BY <4>1, <5>1, <5>2, <5>3
      <4> QED
        BY <2>3, <4>2, <4>3
    <3> QED
      BY <3>2, <3>3 DEF FillInv
  <2>9. ASSUME NEW i \in 1 .. K, v.out[i] # -1
        PROVE  i <= j /\ RowFor(v, sel[i], v.out[i])
    <3>1. CASE i = j
      <4>1. v.out[i] = HotRow(s)
        BY <1>1, <1>6, <2>2, <3>1
      <4> QED
        BY <1>1, <1>10, <1>13, <2>4, <3>1, <4>1 DEF RowFor, tok
    <3>2. CASE i # j
      <4>1. v.out[i] = w.out[i]
        BY <1>6, <2>2, <3>2
      <4>2. i <= j - 1 /\ RowFor(w, sel[i], w.out[i])
        BY <1>2, <2>9, <4>1 DEF OutInv
      <4>3. RowFor(v, sel[i], w.out[i])
        BY <2>4, <4>2, RowKept
      <4> QED
        BY <1>1, <4>1, <4>2, <4>3
    <3> QED
      BY <3>1, <3>2
  <2>10. Fits(sel) => v.errors = CountTo(Masked(v, sel, allow), j)
    <3> SUFFICES ASSUME Fits(sel) PROVE v.errors = CountTo(Masked(v, sel, allow), j)
      OBVIOUS
    <3>1. j \notin Masked(v, sel, allow)
      BY <1>1, <1>6, <1>10, <2>2, HotRowIs DEF Masked
    <3>2. \A i \in 1 .. K : i # j => v.out[i] = w.out[i]
      BY <1>6, <2>2
    <3>3. w.errors = CountTo(Masked(w, sel, allow), j - 1)
      BY <1>2 DEF OutInv
    <3>4. /\ CountTo(Masked(v, sel, allow), j) = CountTo(Masked(w, sel, allow), j - 1) + 0
          /\ CountTo(Masked(w, sel, allow), j - 1) \in Nat
      BY <1>1, <3>1, <3>2, MaskedStep, ZenonT(60)
    <3>5. v.errors = w.errors
      BY <2>2
    <3> QED
      BY <3>3, <3>4, <3>5
  <2> QED
    BY <1>4, <2>5, <2>6, <2>7, <2>8, <2>9, <2>10 DEF WalkInv, OutInv
<1> QED
  BY <1>12, <1>13

LEMMA WalkOther ==
    ASSUME TablesTyped, NEW st, NEW sel \in [1 .. K -> Int], NEW allow,
           NEW j \in 1 .. K, j \notin Misses(sel), NEW w, WalkInv(w, st, sel, allow, j - 1)
    PROVE  WalkInv(ReferenceItem(w, j, sel[j], allow), st, sel, allow, j)
<1> DEFINE tok == sel[j]
           v == ReferenceItem(w, j, sel[j], allow)
<1>1. tok \in Int /\ ~ (Valid(tok) /\ ~ OnPage(tok)) /\ (OnPage(tok) => Valid(tok))
  BY DEF Misses, OnPage
<1>2. /\ w \in WorkType /\ w.misses \in 0 .. j - 1
      /\ TagsApart(w.tags, w.tagGens) /\ ProtInv(w, sel) /\ FillInv(w, st)
      /\ OutInv(w, sel, allow, j - 1)
  BY DEF WalkInv
<1>3. /\ v.tags = w.tags /\ v.tagGens = w.tagGens
      /\ v.prot = w.prot /\ v.fills = w.fills /\ v.misses = w.misses
      /\ v.out = IF OnPage(tok) THEN [w.out EXCEPT ![j] = ResidentRow(tok)] ELSE w.out
      /\ v.errors = IF ~ Valid(tok) /\ ~ Padding(tok, allow) THEN w.errors + 1 ELSE w.errors
  BY <1>1, <1>2, ReferenceOther
<1>4. v \in WorkType
  BY <1>1, <1>2, ReferenceItemType
<1>5. w.out \in [1 .. K -> Int]
  BY <1>2 DEF WorkType
<1> SUFFICES WalkInv(v, st, sel, allow, j)
  OBVIOUS
<1> HIDE DEF tok, v
<1>6. v.misses \in 0 .. j
  BY <1>2, <1>3
<1>7. TagsApart(v.tags, v.tagGens) /\ ProtInv(v, sel) /\ FillInv(v, st)
  BY <1>2, <1>3 DEF TagsApart, ProtInv, FillInv
<1>8. \A i \in 1 .. K : i # j => v.out[i] = w.out[i]
  BY <1>3, <1>5
<1>9. /\ w.out[j] = -1
      /\ v.out[j] = IF OnPage(tok) THEN ResidentRow(tok) ELSE -1
  <2>1. w.out[j] = -1
    BY <1>2, Sizes DEF OutInv
  <2> QED
    BY <1>3, <1>5, <2>1
<1>10. ASSUME NEW i \in 1 .. K, v.out[i] # -1
       PROVE  i <= j /\ RowFor(v, sel[i], v.out[i])
  <2>1. CASE i = j
    BY <1>9, <1>10, <2>1 DEF RowFor, tok
  <2>2. CASE i # j
    <3>1. v.out[i] = w.out[i]
      BY <1>8, <2>2
    <3>2. i <= j - 1 /\ RowFor(w, sel[i], w.out[i])
      BY <1>2, <1>10, <3>1 DEF OutInv
    <3>3. RowFor(v, sel[i], w.out[i])
      BY <1>3, <3>2 DEF RowFor
    <3> QED
      BY <3>1, <3>2, <3>3
  <2> QED
    BY <2>1, <2>2
<1>11. Fits(sel) => v.errors = CountTo(Masked(v, sel, allow), j)
  <2> SUFFICES ASSUME Fits(sel) PROVE v.errors = CountTo(Masked(v, sel, allow), j)
    OBVIOUS
  <2>1. w.errors = CountTo(Masked(w, sel, allow), j - 1)
    BY <1>2 DEF OutInv
  <2>2. /\ CountTo(Masked(v, sel, allow), j)
              = CountTo(Masked(w, sel, allow), j - 1) + (IF j \in Masked(v, sel, allow) THEN 1 ELSE 0)
        /\ CountTo(Masked(w, sel, allow), j - 1) \in Nat
    BY <1>8, MaskedStep
  <2>3. j \in Masked(v, sel, allow) <=> v.out[j] = -1 /\ ~ Padding(tok, allow)
    BY DEF Masked, tok
  <2>4. OnPage(tok) => ResidentRow(tok) # -1
    BY <1>1, ResidentToken
  <2>5. j \in Masked(v, sel, allow) <=> ~ Valid(tok) /\ ~ Padding(tok, allow)
    BY <1>1, <1>9, <2>3, <2>4
  <2>6. CASE j \in Masked(v, sel, allow)
    <3>1. v.errors = w.errors + 1
      BY <1>3, <2>5, <2>6
    <3> QED
      BY <2>1, <2>2, <2>6, <3>1
  <2>7. CASE j \notin Masked(v, sel, allow)
    <3>1. v.errors = w.errors
      BY <1>3, <2>5, <2>7
    <3> QED
      BY <2>1, <2>2, <2>7, <3>1
  <2> QED
    BY <2>6, <2>7
<1> QED
  BY <1>4, <1>6, <1>7, <1>10, <1>11 DEF WalkInv, OutInv

\* What a launch leaves, as the oracle's walk computes it.
LEMMA WalkEnds ==
    ASSUME TablesTyped, NEW st \in HotType, NEW sel \in [1 .. K -> Int], NEW allow,
           TagsApart(st.tags, st.tagGens)
    PROVE  WalkInv(ReferenceWalk(ReferenceStart(st, sel), sel, allow), st, sel, allow, K)
<1> DEFINE rs == ReferenceStart(st, sel)
<1>0. WalkInv(rs, st, sel, allow, 0)
  BY WalkStart
<1> HIDE DEF rs
<1>1. PICK rf : IsReferenceWalk(rf, K, rs, sel, allow) /\ ReferenceWalk(rs, sel, allow) = rf[K]
  BY ReferenceWalkIs
<1>2. rf[0] = rs
  BY <1>1, Sizes DEF IsReferenceWalk
<1>3. ASSUME NEW j \in 1 .. K PROVE rf[j] = ReferenceItem(rf[j - 1], j, sel[j], allow)
  <2>1. j \in 0 .. K /\ j # 0
    BY Sizes
  <2> QED
    BY <1>1, <2>1 DEF IsReferenceWalk
<1> DEFINE At(j) == WalkInv(rf[j], st, sel, allow, j)
           Bad == {j \in 0 .. K : ~ At(j)}
<1>4. At(0)
  BY <1>0, <1>2
<1>5. ASSUME NEW j \in 1 .. K, At(j - 1) PROVE At(j)
  <2> DEFINE b == rf[j - 1]
  <2>1. WalkInv(b, st, sel, allow, j - 1)
    BY <1>5
  <2> HIDE DEF b
  <2>2. WalkInv(ReferenceItem(b, j, sel[j], allow), st, sel, allow, j)
    <3>1. CASE j \in Misses(sel)
      BY <2>1, <3>1, WalkMiss
    <3>2. CASE j \notin Misses(sel)
      BY <2>1, <3>2, WalkOther
    <3> QED
      BY <3>1, <3>2
  <2> QED
    BY <1>3, <2>2, Zenon DEF b
<1> HIDE DEF At
<1>6. Bad = {}
  <2> SUFFICES ASSUME Bad # {} PROVE FALSE
    OBVIOUS
  <2>1. Bad \in SUBSET Nat
    OBVIOUS
  <2>2. PICK n \in Bad : \A m \in Bad : n <= m
    <3> HIDE DEF Bad
    <3> QED BY <2>1, LeastNat
  <2>3. n \in 0 .. K /\ n # 0 /\ ~ At(n)
    BY <1>4
  <2>4. n \in 1 .. K /\ n - 1 \in 0 .. K /\ ~ (n <= n - 1)
    BY <2>3, Sizes
  <2>5. n - 1 \notin Bad
    BY <2>2, <2>4
  <2>6. At(n - 1)
    BY <2>4, <2>5
  <2> QED
    BY <1>5, <2>3, <2>4, <2>6
<1>7. At(K)
  <2>1. K \in 0 .. K
    BY Sizes
  <2> QED
    BY <1>6, <2>1
<1>8. WalkInv(rf[K], st, sel, allow, K)
  BY <1>7 DEF At
<1>9. ReferenceWalk(rs, sel, allow) = rf[K]
  BY <1>1
<1> QED
  BY <1>8, <1>9, Zenon DEF rs

-----------------------------------------------------------------------------
(* A launch over one layer *)

LEMMA KernelEnds ==
    ASSUME TablesTyped, NEW st \in HotType, NEW sel \in [1 .. K -> Int], NEW allow,
           NEW buf \in BufType, TagsApart(st.tags, st.tagGens)
    PROVE  \E w : WalkInv(w, st, sel, allow, K)
                  /\ Kernel(st, sel, allow, buf) = Result(w, Residents(sel))
<1> DEFINE w == ReferenceWalk(ReferenceStart(st, sel), sel, allow)
<1>1. WalkInv(w, st, sel, allow, K)
  BY WalkEnds
<1>2. Kernel(st, sel, allow, buf) = Result(w, Residents(sel))
  BY KernelIsReference DEF Reference
<1> HIDE DEF w
<1> QED
  BY <1>1, <1>2

\* A row of a copied layer: as it was, or that of a protected lane with what its tags say.
RowCopied(l, w, new, r) ==
    \/ /\ \A i \in 1 .. K : i <= w.misses => w.fills[i][2] # r
       /\ new[r] = kv[l][r]
    \/ \E h \in Lanes : /\ w.prot[h] /\ Fenced(h) /\ r = HotRow(h)
                        /\ new[r] = <<l, w.tags[h], w.tagGens[h]>>

\* The copy pass writes the rows of protected lanes and no other.
LEMMA CopiedRow ==
    ASSUME TablesTyped, HostInv, NEW l, NEW st, NEW sel \in [1 .. K -> Int], NEW allow,
           NEW w, WalkInv(w, st, sel, allow, K), NEW n, NEW r \in GpuRows
    PROVE  RowCopied(l, w, Copied(l, Result(w, n)), r)
<1> SUFFICES \/ /\ \A i \in 1 .. K : i <= w.misses => w.fills[i][2] # r
                /\ Copied(l, Result(w, n))[r] = kv[l][r]
             \/ \E h \in Lanes : /\ w.prot[h] /\ Fenced(h) /\ r = HotRow(h)
                                 /\ Copied(l, Result(w, n))[r] = <<l, w.tags[h], w.tagGens[h]>>
  BY Zenon DEF RowCopied
<1> DEFINE m == w.misses
           F == w.fills
           P(i) == F[i][2] = r
           c == CHOOSE i \in 1 .. m : P(i)
           f == F[c][1]
<1>1. /\ w \in WorkType /\ w.misses \in 0 .. K /\ ProtInv(w, sel) /\ FillInv(w, st)
  BY DEF WalkInv
<1>2. Result(w, n).fills = F /\ Result(w, n).counters[3] = m
  BY DEF Result
<1>3. Copied(l, Result(w, n))[r] =
         IF \E i \in 1 .. m : P(i)
         THEN <<l, (host[f \div PAGE][1] * PAGE) + (f % PAGE), host[f \div PAGE][2]>>
         ELSE kv[l][r]
  BY <1>2 DEF Copied
<1>4. \A i \in 1 .. K : i <= w.misses <=> i \in 1 .. m
  BY <1>1
<1>5. CASE ~ \E i \in 1 .. m : P(i)
  <2>1. Copied(l, Result(w, n))[r] = kv[l][r]
    BY <1>3, <1>5
  <2>2. \A i \in 1 .. K : i <= w.misses => w.fills[i][2] # r
    BY <1>4, <1>5
  <2> QED
    BY <2>1, <2>2
<1>6. CASE \E i \in 1 .. m : P(i)
  <2>1. c \in 1 .. m /\ P(c)
    BY <1>6, Zenon
  <2>2. c \in 1 .. K /\ c <= w.misses
    <3> HIDE DEF c, P
    <3>1. c \in 1 .. w.misses
      BY <2>1
    <3>2. w.misses \in 0 .. K
      BY <1>1
    <3> QED
      BY <3>1, <3>2, Sizes
  <2>3. PICK h \in Lanes : w.prot[h] /\ Fenced(h) /\ w.fills[c] = <<HostRow(w.tags[h]), HotRow(h)>>
    <3> HIDE DEF c
    <3> QED
      BY <1>1, <2>2 DEF FillInv
  <2>4. f = HostRow(w.tags[h]) /\ r = HotRow(h)
    <3> HIDE DEF c
    <3> QED
      BY <2>1, <2>3
  <2> DEFINE tok == w.tags[h]
             p == PageOf(tok)
  <2>5. tok \in Int /\ Valid(tok) /\ w.tagGens[h] = gens[p]
    <3>1. tok \in Chosen(sel) /\ w.tagGens[h] = gens[p]
      BY <1>1, <2>3 DEF ProtInv
    <3>2. tok \in Int
      BY <1>1 DEF WorkType
    <3> QED
      BY <3>1, <3>2 DEF Chosen
  <2>6. /\ p \in Pages /\ tok = (p * PAGE) + (tok % PAGE)
        /\ HostRow(tok) \div PAGE = backing[p] /\ HostRow(tok) % PAGE = tok % PAGE
    BY <2>5, ValidToken
  <2>7. host[backing[p]] = <<p, gens[p]>>
    BY <2>6 DEF HostInv
  <2> HIDE DEF c, f, P
  <2>8. Copied(l, Result(w, n))[r]
           = <<l, (host[f \div PAGE][1] * PAGE) + (f % PAGE), host[f \div PAGE][2]>>
    BY <1>3, <1>6
  <2>9. f \div PAGE = backing[p] /\ f % PAGE = tok % PAGE
    BY <2>4, <2>6
  <2>10. Copied(l, Result(w, n))[r] = <<l, (p * PAGE) + (tok % PAGE), gens[p]>>
    BY <2>7, <2>8, <2>9
  <2>11. Copied(l, Result(w, n))[r] = <<l, tok, w.tagGens[h]>>
    BY <2>5, <2>6, <2>10
  <2> QED
    BY <2>3, <2>4, <2>11
<1> QED
  BY <1>5, <1>6

Rows == (Layers \union {0}) \X Int \X Int

\* What a launch over one layer returns and leaves in the layer's cache.
Launched(l, sel, allow, res, new) ==
    /\ res.hot \in HotType /\ res.out \in [1 .. K -> Int]
    /\ res.fills \in [1 .. K -> Int \X Int] /\ res.errors \in Int
    /\ TagsApart(res.hot.tags, res.hot.tagGens)
    /\ new \in [GpuRows -> Rows]
    /\ \A h \in Lanes : res.hot.tags[h] >= 0 /\ Fenced(h) =>
          new[HotRow(h)] = <<l, res.hot.tags[h], res.hot.tagGens[h]>>
    /\ \A r \in GpuRows : r \div PAGE \notin HotGpu \/ r \div PAGE \in lost =>
          new[r] = kv[l][r]
    /\ \A j \in 1 .. K : res.out[j] # -1 =>
          new[res.out[j]] = <<l, sel[j], gens[PageOf(sel[j])]>>
    /\ Fits(sel) =>
          res.errors = Cardinality({j \in 1 .. K : res.out[j] = -1 /\ ~ Padding(sel[j], allow)})

LEMMA Launch ==
    ASSUME CacheInv, NEW l \in Layers, NEW sel \in [1 .. K -> Int], NEW allow,
           NEW buf \in BufType
    PROVE  Launched(l, sel, allow, Kernel(hot[l], sel, allow, buf),
                    Copied(l, Kernel(hot[l], sel, allow, buf)))
<1> DEFINE res == Kernel(hot[l], sel, allow, buf)
           new == Copied(l, res)
           st == hot[l]
           n == Residents(sel)
<1>1. /\ TablesTyped /\ HostInv /\ ResidentInv /\ st \in HotType /\ TagsApart(st.tags, st.tagGens)
      /\ \A h \in Lanes : st.tags[h] >= 0 /\ Fenced(h) =>
            kv[l][HotRow(h)] = <<l, st.tags[h], st.tagGens[h]>>
      /\ kv[l] \in [GpuRows -> Rows]
  BY DEF CacheInv, TypeOK, HotInv, Rows
<1>2. PICK w : WalkInv(w, st, sel, allow, K) /\ Kernel(st, sel, allow, buf) = Result(w, n)
  <2> HIDE DEF st, n
  <2>1. \E w : WalkInv(w, st, sel, allow, K) /\ Kernel(st, sel, allow, buf) = Result(w, Residents(sel))
    BY <1>1, KernelEnds
  <2> QED
    BY <2>1 DEF n
<1>3. res = Result(w, n) /\ WalkInv(w, st, sel, allow, K)
  BY <1>2
<1>4. /\ w \in WorkType /\ w.misses \in 0 .. K /\ TagsApart(w.tags, w.tagGens)
      /\ ProtInv(w, sel) /\ FillInv(w, st) /\ OutInv(w, sel, allow, K)
  BY <1>3 DEF WalkInv
<1>5. /\ res.out = w.out /\ res.fills = w.fills /\ res.errors = w.errors
      /\ res.hot = [tags |-> w.tags, tagGens |-> w.tagGens, ages |-> w.ages, clock |-> w.clock]
  BY <1>3 DEF Result
<1>6. /\ w.tags \in [Lanes -> Int] /\ w.tagGens \in [Lanes -> Int] /\ w.ages \in [Lanes -> Nat]
      /\ w.clock \in Nat /\ w.out \in [1 .. K -> Int] /\ w.fills \in [1 .. K -> Int \X Int]
      /\ w.errors \in Int
  BY <1>4 DEF WorkType
<1> SUFFICES /\ res.hot \in HotType /\ res.out \in [1 .. K -> Int]
             /\ res.fills \in [1 .. K -> Int \X Int] /\ res.errors \in Int
             /\ TagsApart(res.hot.tags, res.hot.tagGens)
             /\ new \in [GpuRows -> Rows]
             /\ \A h \in Lanes : res.hot.tags[h] >= 0 /\ Fenced(h) =>
                   new[HotRow(h)] = <<l, res.hot.tags[h], res.hot.tagGens[h]>>
             /\ \A r \in GpuRows : r \div PAGE \notin HotGpu \/ r \div PAGE \in lost =>
                   new[r] = kv[l][r]
             /\ \A j \in 1 .. K : res.out[j] # -1 =>
                   new[res.out[j]] = <<l, sel[j], gens[PageOf(sel[j])]>>
             /\ Fits(sel) =>
                   res.errors = Cardinality({j \in 1 .. K : res.out[j] = -1 /\ ~ Padding(sel[j], allow)})
  BY Zenon DEF Launched
<1>7. /\ res.hot.tags = w.tags /\ res.hot.tagGens = w.tagGens /\ res.hot \in HotType
  BY <1>5, <1>6 DEF HotType
<1>8. ASSUME NEW r \in GpuRows
      PROVE  \/ /\ \A i \in 1 .. K : i <= w.misses => w.fills[i][2] # r
                /\ new[r] = kv[l][r]
             \/ \E h \in Lanes : /\ w.prot[h] /\ Fenced(h) /\ r = HotRow(h)
                                 /\ new[r] = <<l, w.tags[h], w.tagGens[h]>>
  <2>1. new = Copied(l, Result(w, n))
    BY <1>3
  <2> HIDE DEF new, n, st
  <2>2. TablesTyped /\ HostInv /\ WalkInv(w, st, sel, allow, K)
    BY <1>1, <1>3
  <2>3. RowCopied(l, w, Copied(l, Result(w, n)), r)
    BY <2>2, CopiedRow, Zenon
  <2> QED
    BY <2>1, <2>3, Zenon DEF RowCopied
<1>9. new = [r \in GpuRows |-> new[r]]
  BY DEF Copied
<1> HIDE DEF res, new, st, n
<1>10. ASSUME NEW h \in Lanes, w.tags[h] >= 0, Fenced(h)
       PROVE  new[HotRow(h)] = <<l, w.tags[h], w.tagGens[h]>>
  <2>1. HotRow(h) \in GpuRows
    BY HotRowIs
  <2>2. CASE /\ \A i \in 1 .. K : i <= w.misses => w.fills[i][2] # HotRow(h)
             /\ new[HotRow(h)] = kv[l][HotRow(h)]
    <3>1. w.tags[h] = st.tags[h] /\ w.tagGens[h] = st.tagGens[h]
      BY <1>4, <2>2 DEF FillInv
    <3> QED
      BY <1>1, <1>10, <2>2, <3>1
  <2>3. CASE \E g \in Lanes : HotRow(h) = HotRow(g) /\ new[HotRow(h)] = <<l, w.tags[g], w.tagGens[g]>>
    BY <2>3, HotRowsApart
  <2> QED
    BY <1>8, <2>1, <2>2, <2>3
<1>11. ASSUME NEW r \in GpuRows, r \div PAGE \notin HotGpu \/ r \div PAGE \in lost
       PROVE  new[r] = kv[l][r]
  <2>1. ASSUME NEW h \in Lanes, Fenced(h), r = HotRow(h) PROVE FALSE
    BY <1>11, <2>1, HotRowIs, LanePage DEF Fenced
  <2> QED
    BY <1>8, <2>1
<1>12. ASSUME NEW j \in 1 .. K, w.out[j] # -1
       PROVE  new[w.out[j]] = <<l, sel[j], gens[PageOf(sel[j])]>>
  <2>1. RowFor(w, sel[j], w.out[j])
    BY <1>4, <1>12 DEF OutInv
  <2>2. CASE OnPage(sel[j]) /\ w.out[j] = ResidentRow(sel[j])
    <3> DEFINE tok == sel[j]
               p == PageOf(tok)
    <3>1. tok \in Int /\ Valid(tok)
      BY <2>2 DEF OnPage
    <3>2. /\ resident[p] \in 0 .. GpuPages - 1 /\ ResidentRow(tok) \in GpuRows
          /\ ResidentRow(tok) \div PAGE = resident[p]
      BY <1>1, <2>2, <3>1, ResidentToken
    <3>3. p \in Pages /\ tok % PAGE \in 0 .. PAGE - 1 /\ tok = (p * PAGE) + (tok % PAGE)
      BY <1>1, <3>1, ValidToken
    <3>4. resident[p] # None
      BY <2>2 DEF OnPage
    <3>5. resident[p] \notin HotGpu
      BY <1>1, <3>3, <3>4 DEF ResidentInv
    <3>6. kv[l][(resident[p] * PAGE) + (tok % PAGE)] = <<l, (p * PAGE) + (tok % PAGE), gens[p]>>
      BY <1>1, <3>3, <3>4 DEF ResidentInv
    <3>7. kv[l][ResidentRow(tok)] = <<l, tok, gens[p]>>
      BY <3>3, <3>6 DEF ResidentRow
    <3>8. new[ResidentRow(tok)] = kv[l][ResidentRow(tok)]
      BY <1>11, <3>2, <3>5
    <3> QED
      BY <2>2, <3>7, <3>8
  <2>3. CASE \E h \in Lanes : w.prot[h] /\ Fenced(h) /\ w.out[j] = HotRow(h) /\ w.tags[h] = sel[j]
    <3>1. PICK h \in Lanes : w.prot[h] /\ Fenced(h) /\ w.out[j] = HotRow(h) /\ w.tags[h] = sel[j]
      BY <2>3
    <3>2. w.tags[h] \in Chosen(sel) /\ w.tagGens[h] = gens[PageOf(w.tags[h])]
      BY <1>4, <3>1 DEF ProtInv
    <3>3. w.tags[h] >= 0
      BY <3>2 DEF Chosen, Valid
    <3> QED
      BY <1>10, <3>1, <3>2, <3>3
  <2> QED
    BY <2>1, <2>2, <2>3 DEF RowFor
<1>13. ASSUME Fits(sel)
       PROVE  w.errors = Cardinality({j \in 1 .. K : w.out[j] = -1 /\ ~ Padding(sel[j], allow)})
  <2>1. Masked(w, sel, allow) \subseteq 1 .. K
    BY DEF Masked
  <2>2. w.errors = CountTo(Masked(w, sel, allow), K)
    BY <1>4, <1>13 DEF OutInv
  <2>3. w.errors = Cardinality(Masked(w, sel, allow))
    BY <2>1, <2>2, CountEnds
  <2> QED
    BY <2>3 DEF Masked
<1>14. new \in [GpuRows -> Rows]
  <2>1. ASSUME NEW r \in GpuRows PROVE new[r] \in Rows
    <3>1. kv[l][r] \in Rows
      BY <1>1
    <3>2. \A h \in Lanes : <<l, w.tags[h], w.tagGens[h]>> \in Rows
      BY <1>6 DEF Rows
    <3> QED
      BY <1>8, <3>1, <3>2
  <2> QED
    BY <1>9, <2>1
<1>15. \A h \in Lanes : res.hot.tags[h] >= 0 /\ Fenced(h) =>
          new[HotRow(h)] = <<l, res.hot.tags[h], res.hot.tagGens[h]>>
  BY <1>7, <1>10
<1>16. \A j \in 1 .. K : res.out[j] # -1 => new[res.out[j]] = <<l, sel[j], gens[PageOf(sel[j])]>>
  BY <1>5, <1>12
<1>17. Fits(sel) =>
       res.errors = Cardinality({j \in 1 .. K : res.out[j] = -1 /\ ~ Padding(sel[j], allow)})
  BY <1>5, <1>13, Zenon
<1> QED
  BY <1>4, <1>5, <1>6, <1>7, <1>11, <1>14, <1>15, <1>16, <1>17

-----------------------------------------------------------------------------
(* Steps that launch *)

LayerKept(l) == hot'[l] = hot[l] /\ kv'[l] = kv[l] /\ answer'[l] = answer[l]

LayerCalled(l, sel, asked, allow, res) ==
    /\ Launched(l, sel, allow, res, kv'[l])
    /\ hot'[l] = res.hot
    /\ answer'[l] = [sel |-> asked, allow |-> allow, out |-> res.out, errors |-> res.errors]

\* A step that launches over some of the layers, and leaves the others alone.
LaunchStep ==
    /\ UNCHANGED tables
    /\ hot' = [l \in Layers |-> hot'[l]] /\ kv' = [l \in Layers |-> kv'[l]]
    /\ answer' = [l \in Layers |-> answer'[l]]
    /\ scratch' \in BufType
    /\ \A l \in Layers :
          \/ LayerKept(l)
          \/ \E sel, asked \in [1 .. K -> Int], allow \in BOOLEAN : \E res :
                LayerCalled(l, sel, asked, allow, res)

LEMMA CacheLaunch == ASSUME CacheInv, LaunchStep PROVE CacheInv'
<1>1. /\ UNCHANGED tables /\ hot' = [l \in Layers |-> hot'[l]] /\ kv' = [l \in Layers |-> kv'[l]]
      /\ answer' = [l \in Layers |-> answer'[l]] /\ scratch' \in BufType
  BY DEF LaunchStep
<1>2. /\ length' = length /\ resident' = resident /\ backing' = backing /\ gens' = gens
      /\ host' = host /\ lost' = lost
  BY <1>1 DEF tables
<1>3. TypeOK /\ ResidentInv /\ HostInv /\ HotInv /\ LostInv
  BY DEF CacheInv
<1>4. \A h : Fenced(h)' <=> Fenced(h)
  BY <1>2 DEF Fenced, HotPage
<1>5. ASSUME NEW l \in Layers
      PROVE  /\ hot'[l] \in HotType /\ kv'[l] \in [GpuRows -> Rows] /\ answer'[l] \in Answers
             /\ TagsApart(hot'[l].tags, hot'[l].tagGens)
             /\ \A h \in Lanes : hot'[l].tags[h] >= 0 /\ Fenced(h) =>
                   kv'[l][HotRow(h)] = <<l, hot'[l].tags[h], hot'[l].tagGens[h]>>
             /\ \A r \in GpuRows : r \div PAGE \notin HotGpu \/ r \div PAGE \in lost =>
                   kv'[l][r] = kv[l][r]
  <2>1. CASE LayerKept(l)
    <3>1. /\ hot[l] \in HotType /\ kv[l] \in [GpuRows -> Rows] /\ answer[l] \in Answers
      BY <1>3 DEF TypeOK, Rows
    <3>2. /\ TagsApart(hot[l].tags, hot[l].tagGens)
          /\ \A h \in Lanes : hot[l].tags[h] >= 0 /\ Fenced(h) =>
                kv[l][HotRow(h)] = <<l, hot[l].tags[h], hot[l].tagGens[h]>>
      BY <1>3 DEF HotInv
    <3>3. hot'[l] = hot[l] /\ kv'[l] = kv[l] /\ answer'[l] = answer[l]
      BY <2>1 DEF LayerKept
    <3> QED
      BY <3>1, <3>2, <3>3
  <2>2. CASE \E sel, asked \in [1 .. K -> Int], allow \in BOOLEAN : \E res :
                LayerCalled(l, sel, asked, allow, res)
    <3>0. PICK sel \in [1 .. K -> Int], asked \in [1 .. K -> Int], allow \in BOOLEAN :
                \E res : LayerCalled(l, sel, asked, allow, res)
      BY <2>2
    <3>1. PICK res : LayerCalled(l, sel, asked, allow, res)
      BY <3>0
    <3>2. Launched(l, sel, allow, res, kv'[l]) /\ hot'[l] = res.hot
      BY <3>1 DEF LayerCalled
    <3>3. answer'[l] = [sel |-> asked, allow |-> allow, out |-> res.out, errors |-> res.errors]
      BY <3>1 DEF LayerCalled
    <3>4. res.out \in [1 .. K -> Int] /\ res.errors \in Int
      BY <3>2 DEF Launched
    <3>5. answer'[l] \in Answers
      BY <3>3, <3>4 DEF Answers
    <3> QED
      BY <3>2, <3>5 DEF Launched
  <2> QED
    BY <2>1, <2>2 DEF LaunchStep
<1>6. TypeOK'
  <2>1. TablesTyped'
    BY <1>2, <1>3 DEF TypeOK, TablesTyped
  <2>2. /\ host' \in [0 .. HostPages - 1 -> Int \X Int] /\ lost' \subseteq HotGpu
    BY <1>2, <1>3 DEF TypeOK
  <2>3. hot' \in [Layers -> HotType] /\ answer' \in [Layers -> Answers]
    BY <1>1, <1>5
  <2>4. kv' \in [Layers -> [GpuRows -> (Layers \union {0}) \X Int \X Int]]
    BY <1>1, <1>5 DEF Rows
  <2> QED
    BY <1>1, <2>1, <2>2, <2>3, <2>4 DEF TypeOK
<1>7. ResidentInv'
  <2>1. ASSUME NEW l \in Layers, NEW p \in Pages, resident[p] # None, NEW o \in 0 .. PAGE - 1
        PROVE  kv'[l][(resident[p] * PAGE) + o] = <<l, (p * PAGE) + o, gens[p]>>
    <3> DEFINE r == (resident[p] * PAGE) + o
    <3>1. resident[p] \in 0 .. GpuPages - 1
      BY <1>3, <2>1, Sizes DEF TypeOK, TablesTyped, None
    <3>2. r \in GpuRows /\ r \div PAGE = resident[p]
      BY <3>1, PageRow
    <3>3. resident[p] \notin HotGpu /\ kv[l][r] = <<l, (p * PAGE) + o, gens[p]>>
      BY <1>3, <2>1 DEF ResidentInv
    <3> HIDE DEF r
    <3>4. kv'[l][r] = kv[l][r]
      BY <1>5, <3>2, <3>3
    <3> QED
      BY <3>3, <3>4 DEF r
  <2> QED
    BY <1>2, <1>3, <2>1 DEF ResidentInv
<1>8. HostInv'
  BY <1>2, <1>3 DEF HostInv
<1>9. HotInv'
  BY <1>4, <1>5 DEF HotInv
<1>10. LostInv'
  BY <1>2, <1>3, <1>5 DEF LostInv
<1> QED
  BY <1>6, <1>7, <1>8, <1>9, <1>10 DEF CacheInv

LEMMA ResolveLaunches ==
    ASSUME CacheInv, NEW l \in Layers, NEW sel \in [1 .. K -> Int], NEW allow \in BOOLEAN,
           Resolve(l, sel, allow)
    PROVE  /\ UNCHANGED tables /\ scratch' \in BufType
           /\ hot' = [k \in Layers |-> hot'[k]] /\ kv' = [k \in Layers |-> kv'[k]]
           /\ answer' = [k \in Layers |-> answer'[k]]
           /\ LayerCalled(l, sel, sel, allow, Kernel(hot[l], sel, allow, scratch))
           /\ \A k \in Layers : k # l => LayerKept(k)
<1> DEFINE res == Kernel(hot[l], sel, allow, scratch)
           new == Copied(l, res)
           ans == [sel |-> sel, allow |-> allow, out |-> res.out, errors |-> res.errors]
           buf == [bitmap |-> Bitmap(sel, scratch), out |-> res.out, fills |-> res.fills]
<1>1. scratch \in BufType
  BY DEF CacheInv, TypeOK
<1>2. Launched(l, sel, allow, res, new)
  BY <1>1, Launch
<1>3. /\ hot \in [Layers -> HotType] /\ answer \in [Layers -> Answers]
      /\ kv \in [Layers -> [GpuRows -> Rows]]
  BY DEF CacheInv, TypeOK, Rows
<1>4. UNCHANGED tables /\ hot' = [hot EXCEPT ![l] = res.hot] /\ kv' = [kv EXCEPT ![l] = new]
      /\ scratch' = buf /\ answer' = [answer EXCEPT ![l] = ans]
  BY Zenon DEF Resolve
<1>5. Bitmap(sel, scratch) \in SUBSET Int
  BY DEF Bitmap, Range
<1> HIDE DEF res, new
<1>6. res.out \in [1 .. K -> Int] /\ res.fills \in [1 .. K -> Int \X Int]
  BY <1>2 DEF Launched
<1>7. scratch' \in BufType
  BY <1>4, <1>5, <1>6 DEF BufType
<1> HIDE DEF ans, buf
<1>8. hot'[l] = res.hot /\ kv'[l] = new /\ answer'[l] = ans
  BY <1>3, <1>4
<1>9. ASSUME NEW k \in Layers, k # l PROVE LayerKept(k)
  BY <1>3, <1>4, <1>9 DEF LayerKept
<1>10. hot' = [k \in Layers |-> hot'[k]] /\ kv' = [k \in Layers |-> kv'[k]]
       /\ answer' = [k \in Layers |-> answer'[k]]
  BY <1>3, <1>4
<1>11. LayerCalled(l, sel, sel, allow, res)
  BY <1>2, <1>8, Zenon DEF LayerCalled, ans
<1> QED
  BY <1>4, <1>7, <1>9, <1>10, <1>11 DEF res

LEMMA BatchedLaunches ==
    ASSUME CacheInv, NEW stack \in Stacks, NEW allow \in BOOLEAN, ResolveBatched(stack, allow)
    PROVE  /\ UNCHANGED tables /\ scratch' \in BufType
           /\ hot' = [l \in Layers |-> hot'[l]] /\ kv' = [l \in Layers |-> kv'[l]]
           /\ answer' = [l \in Layers |-> answer'[l]]
           /\ stack \in [Layers -> [1 .. K -> Int]] /\ stack[1] \in [1 .. K -> Int]
           /\ \A l \in Layers :
                 LayerCalled(l, stack[1], stack[l], allow, Kernel(hot[l], stack[1], allow, scratch))
<1> DEFINE res == [l \in Layers |-> Kernel(hot[l], SelectionOf(stack, l), allow, scratch)]
           ans(l) == [sel |-> stack[l], allow |-> allow, out |-> res[l].out, errors |-> res[l].errors]
<1>1. scratch \in BufType
  BY DEF CacheInv, TypeOK
<1>2. stack \in [Layers -> [1 .. K -> Int]] /\ stack[1] \in [1 .. K -> Int]
  BY ResolveAssumption
<1>3. UNCHANGED tables /\ scratch' = scratch /\ hot' = [l \in Layers |-> res[l].hot]
      /\ kv' = [l \in Layers |-> Copied(l, res[l])] /\ answer' = [l \in Layers |-> ans(l)]
  BY Zenon DEF ResolveBatched
<1>4. \A l \in Layers : res[l] = Kernel(hot[l], stack[1], allow, scratch)
  BY DEF SelectionOf
<1>5. ASSUME NEW l \in Layers
      PROVE  LayerCalled(l, stack[1], stack[l], allow, Kernel(hot[l], stack[1], allow, scratch))
  <2> DEFINE one == Kernel(hot[l], stack[1], allow, scratch)
  <2>1. Launched(l, stack[1], allow, one, Copied(l, one))
    BY <1>1, <1>2, Launch
  <2>2. res[l] = one
    BY <1>4
  <2> HIDE DEF one, res
  <2>3. hot'[l] = one.hot /\ kv'[l] = Copied(l, one)
    BY <1>3, <2>2
  <2>4. answer'[l] = [sel |-> stack[l], allow |-> allow, out |-> one.out, errors |-> one.errors]
    BY <1>3, <2>2
  <2>5. LayerCalled(l, stack[1], stack[l], allow, one)
    BY <2>1, <2>3, <2>4, Zenon DEF LayerCalled
  <2> QED
    BY <2>5 DEF one
<1> HIDE DEF res
<1> QED
  BY <1>1, <1>2, <1>3, <1>5

-----------------------------------------------------------------------------
(* The other steps *)

LEMMA CacheInit == ASSUME Init PROVE CacheInv
<1>1. /\ length = PAGE + 1 /\ resident = [p \in Pages |-> -1] /\ backing = [p \in Pages |-> p]
      /\ gens = [p \in Pages |-> 0] /\ host = [p \in 0 .. HostPages - 1 |-> <<p, 0>>] /\ lost = {}
      /\ kv = [l \in Layers |-> [r \in GpuRows |-> Foreign]] /\ hot = [l \in Layers |-> Cold]
      /\ scratch = Fresh /\ answer = [l \in Layers |-> NoCall]
  BY DEF Init, None
<1>2. \A p \in Pages : p \in Int /\ p \in 0 .. HostPages - 1
  BY Sizes DEF Pages
<1>3. TablesTyped
  <2>1. length \in 0 .. PAGES * PAGE
    <3> DEFINE all == PAGES * PAGE
    <3>1. PAGE \in Nat /\ all \in Nat /\ PAGE < all
      BY Sizes
    <3> HIDE DEF all
    <3>2. PAGE + 1 \in 0 .. all
      BY <3>1
    <3> QED
      BY <1>1, <3>2 DEF all
  <2>2. resident \in [Pages -> -1 .. GpuPages - 1]
    BY <1>1, Sizes
  <2> QED
    BY <1>1, <1>2, <2>1, <2>2 DEF TablesTyped
<1>4. Cold \in HotType /\ \A h \in Lanes : Cold.tags[h] = -1
  BY DEF Cold, HotType
<1>5. scratch \in BufType
  BY <1>1 DEF Fresh, BufType
<1>6. Foreign \in (Layers \union {0}) \X Int \X Int
  BY DEF Foreign
<1>7. TypeOK
  <2>1. host \in [0 .. HostPages - 1 -> Int \X Int]
    BY <1>1
  <2>2. kv \in [Layers -> [GpuRows -> (Layers \union {0}) \X Int \X Int]]
    BY <1>1, <1>6
  <2>3. hot \in [Layers -> HotType] /\ answer \in [Layers -> Answers]
    BY <1>1, <1>4 DEF Answers
  <2> QED
    BY <1>1, <1>3, <1>5, <2>1, <2>2, <2>3 DEF TypeOK
<1>8. ResidentInv
  BY <1>1 DEF ResidentInv, None
<1>9. HostInv
  BY <1>1, <1>2 DEF HostInv
<1>10. HotInv
  BY <1>1, <1>4 DEF HotInv, TagsApart
<1>11. LostInv
  BY <1>1 DEF LostInv
<1> QED
  BY <1>7, <1>8, <1>9, <1>10, <1>11 DEF CacheInv

LEMMA CacheParts ==
    ASSUME CacheInv
    PROVE  /\ TablesTyped /\ TypeOK /\ ResidentInv /\ HostInv /\ HotInv /\ LostInv
           /\ length \in 0 .. PAGES * PAGE /\ resident \in [Pages -> -1 .. GpuPages - 1]
           /\ backing \in [Pages -> 0 .. HostPages - 1] /\ gens \in [Pages -> Nat]
           /\ host \in [0 .. HostPages - 1 -> Int \X Int] /\ lost \subseteq HotGpu
           /\ kv \in [Layers -> [GpuRows -> (Layers \union {0}) \X Int \X Int]]
           /\ hot \in [Layers -> HotType] /\ scratch \in BufType /\ answer \in [Layers -> Answers]
  BY DEF CacheInv, TypeOK, TablesTyped

\* A step of the service that leaves the cache alone.
LEMMA CacheStands ==
    ASSUME CacheInv, Service, kv' = kv, lost' = lost, TablesTyped',
           host' \in [0 .. HostPages - 1 -> Int \X Int], ResidentInv', HostInv'
    PROVE  CacheInv'
<1>1. hot' = hot /\ scratch' = scratch /\ answer' = [l \in Layers |-> NoCall]
  BY DEF Service
<1>2. TypeOK'
  BY <1>1, CacheParts DEF TypeOK, Answers
<1>3. HotInv'
  BY <1>1, CacheParts DEF HotInv, Fenced
<1>4. LostInv'
  BY CacheParts DEF LostInv
<1> QED
  BY <1>2, <1>3, <1>4 DEF CacheInv

LEMMA CacheGrow == ASSUME CacheInv, Grow PROVE CacheInv'
<1>1. /\ Service /\ length < PAGES * PAGE /\ length' = length + 1
      /\ resident' = resident /\ backing' = backing /\ gens' = gens /\ host' = host
      /\ lost' = lost /\ kv' = kv
  BY DEF Grow
<1>2. TablesTyped'
  BY <1>1, CacheParts, Sizes DEF TablesTyped
<1>3. ResidentInv'
  BY <1>1, CacheParts DEF ResidentInv
<1>4. HostInv'
  BY <1>1, CacheParts DEF HostInv
<1> QED
  BY <1>1, <1>2, <1>3, <1>4, CacheStands, CacheParts

LEMMA CacheDemote == ASSUME CacheInv, NEW p \in Pages, Demote(p) PROVE CacheInv'
<1>1. /\ Service /\ resident' = [resident EXCEPT ![p] = -1] /\ length' = length
      /\ backing' = backing /\ gens' = gens /\ host' = host /\ lost' = lost /\ kv' = kv
  BY DEF Demote, None
<1>2. TablesTyped'
  <2>1. -1 \in -1 .. GpuPages - 1
    BY Sizes
  <2> QED
    BY <1>1, <2>1, CacheParts DEF TablesTyped
<1>3. \A q \in Pages : resident'[q] # None => resident'[q] = resident[q]
  BY <1>1, CacheParts DEF None
<1>4. ResidentInv'
  <2>1. \A q \in Pages : resident'[q] # None => resident'[q] \notin HotGpu
    BY <1>3, CacheParts DEF ResidentInv
  <2>2. ASSUME NEW q \in Pages, NEW s \in Pages, resident'[q] # None, resident'[q] = resident'[s]
        PROVE  q = s
    BY <1>3, <2>2, CacheParts DEF ResidentInv
  <2>3. ASSUME NEW l \in Layers, NEW q \in Pages, resident'[q] # None, NEW o \in 0 .. PAGE - 1
        PROVE  kv'[l][(resident'[q] * PAGE) + o] = <<l, (q * PAGE) + o, gens'[q]>>
    <3>1. resident'[q] = resident[q] /\ resident[q] # None
      BY <1>3, <2>3
    <3>2. kv[l][(resident[q] * PAGE) + o] = <<l, (q * PAGE) + o, gens[q]>>
      BY <3>1, CacheParts, Zenon DEF ResidentInv
    <3> QED
      BY <1>1, <3>1, <3>2, Zenon
  <2> QED
    BY <2>1, <2>2, <2>3, Zenon DEF ResidentInv
<1>5. HostInv'
  BY <1>1, CacheParts DEF HostInv
<1> QED
  BY <1>1, <1>2, <1>4, <1>5, CacheStands, CacheParts

LEMMA CacheRewrite ==
    ASSUME CacheInv, NEW p \in Pages, NEW b \in 0 .. HostPages - 1, Rewrite(p, b)
    PROVE  CacheInv'
<1>1. /\ Service /\ resident[p] = None /\ b \notin Range(backing)
      /\ gens' = [gens EXCEPT ![p] = gens[p] + 1] /\ backing' = [backing EXCEPT ![p] = b]
      /\ host' = [host EXCEPT ![b] = <<p, gens[p] + 1>>]
      /\ length' = length /\ resident' = resident /\ lost' = lost /\ kv' = kv
  BY DEF Rewrite
<1>2. p \in Int /\ gens[p] + 1 \in Nat
  <2>1. gens[p] \in Nat
    BY CacheParts
  <2> QED
    BY <2>1, Sizes DEF Pages
<1>3. TablesTyped'
  BY <1>1, <1>2, CacheParts DEF TablesTyped
<1>4. host' \in [0 .. HostPages - 1 -> Int \X Int]
  BY <1>1, <1>2, CacheParts
<1>5. \A q \in Pages : q # p => gens'[q] = gens[q] /\ backing'[q] = backing[q]
  BY <1>1, CacheParts
<1>6. gens'[p] = gens[p] + 1 /\ backing'[p] = b /\ host'[b] = <<p, gens[p] + 1>>
  BY <1>1, CacheParts
<1>7. ResidentInv'
  <2>1. \A q \in Pages : resident[q] # None => gens'[q] = gens[q]
    BY <1>1, <1>5
  <2> QED
    BY <1>1, <2>1, CacheParts DEF ResidentInv
<1>8. \A q \in Pages : backing[q] # b /\ backing[q] \in 0 .. HostPages - 1
  BY <1>1, CacheParts DEF Range
<1>9. HostInv'
  <2>1. ASSUME NEW q \in Pages PROVE host'[backing'[q]] = <<q, gens'[q]>>
    <3>1. CASE q = p
      BY <1>6, <3>1
    <3>2. CASE q # p
      <4>1. host[backing[q]] = <<q, gens[q]>>
        BY CacheParts DEF HostInv
      <4>2. host'[backing[q]] = host[backing[q]]
        BY <1>1, <1>8, CacheParts
      <4> QED
        BY <1>5, <3>2, <4>1, <4>2
    <3> QED
      BY <3>1, <3>2
  <2>2. ASSUME NEW q \in Pages, NEW s \in Pages, backing'[q] = backing'[s] PROVE q = s
    <3>1. backing[q] = backing[s] => q = s
      BY CacheParts DEF HostInv
    <3> QED
      BY <1>5, <1>6, <1>8, <2>2, <3>1
  <2> QED
    BY <2>1, <2>2 DEF HostInv
<1> QED
  BY <1>1, <1>3, <1>4, <1>7, <1>9, CacheStands

LEMMA CachePromote ==
    ASSUME CacheInv, NEW p \in Pages, NEW g \in 0 .. GpuPages - 1, Promote(p, g)
    PROVE  CacheInv'
<1> DEFINE row(l, r) == <<l, (p * PAGE) + (r % PAGE), gens[p]>>
<1>1. /\ Service /\ g \notin HotGpu /\ g \notin Range(resident)
      /\ resident' = [resident EXCEPT ![p] = g]
      /\ kv' = [l \in Layers |-> [r \in GpuRows |->
                   IF r \div PAGE = g THEN row(l, r) ELSE kv[l][r]]]
      /\ length' = length /\ backing' = backing /\ gens' = gens /\ host' = host /\ lost' = lost
  BY DEF Promote
<1>2. hot' = hot /\ scratch' = scratch /\ answer' = [l \in Layers |-> NoCall]
  BY <1>1 DEF Service
<1>3. TablesTyped'
  <2>1. g \in -1 .. GpuPages - 1
    BY Sizes
  <2> QED
    BY <1>1, <2>1, CacheParts DEF TablesTyped
<1>4. ASSUME NEW l \in Layers, NEW r \in GpuRows
      PROVE  /\ r \div PAGE = g => kv'[l][r] = row(l, r)
             /\ r \div PAGE # g => kv'[l][r] = kv[l][r]
             /\ kv'[l][r] \in (Layers \union {0}) \X Int \X Int
  <2>1. r \in Int
    BY DEF GpuRows
  <2>2. row(l, r) \in (Layers \union {0}) \X Int \X Int
    <3>1. p \in Int /\ gens[p] \in Int /\ r % PAGE \in Int
      BY <2>1, CacheParts, Sizes, DivMod DEF Pages
    <3>2. (p * PAGE) + (r % PAGE) \in Int
      BY <3>1, Sizes
    <3> QED
      BY <3>1, <3>2
  <2>3. kv[l][r] \in (Layers \union {0}) \X Int \X Int
    BY CacheParts
  <2> HIDE DEF row
  <2>4. kv'[l][r] = IF r \div PAGE = g THEN row(l, r) ELSE kv[l][r]
    BY <1>1
  <2> QED
    BY <2>2, <2>3, <2>4
<1>5. TypeOK'
  <2> HIDE DEF row
  <2>1. kv' = [l \in Layers |-> [r \in GpuRows |-> kv'[l][r]]]
    BY <1>1
  <2>2. kv' \in [Layers -> [GpuRows -> (Layers \union {0}) \X Int \X Int]]
    BY <1>4, <2>1
  <2> QED
    BY <1>1, <1>2, <1>3, <2>2, CacheParts DEF TypeOK, Answers
<1>6. resident'[p] = g /\ \A q \in Pages : q # p => resident'[q] = resident[q]
  BY <1>1, CacheParts
<1>7. \A q \in Pages : resident[q] # g
  BY <1>1, CacheParts DEF Range
<1>8. ResidentInv'
  <2>1. ASSUME NEW q \in Pages, resident'[q] # None PROVE resident'[q] \notin HotGpu
    BY <1>1, <1>6, <2>1, CacheParts DEF ResidentInv
  <2>2. ASSUME NEW q \in Pages, NEW s \in Pages, resident'[q] # None, resident'[q] = resident'[s]
        PROVE  q = s
    <3>1. resident[q] # None /\ resident[q] = resident[s] => q = s
      BY CacheParts DEF ResidentInv
    <3> QED
      BY <1>6, <1>7, <2>2, <3>1
  <2>3. ASSUME NEW l \in Layers, NEW q \in Pages, resident'[q] # None, NEW o \in 0 .. PAGE - 1
        PROVE  kv'[l][(resident'[q] * PAGE) + o] = <<l, (q * PAGE) + o, gens'[q]>>
    <3> DEFINE r == (resident'[q] * PAGE) + o
    <3>1. resident'[q] \in 0 .. GpuPages - 1
      BY <1>3, <2>3, Sizes DEF TablesTyped, None
    <3>2. r \in GpuRows /\ r \div PAGE = resident'[q] /\ r % PAGE = o
      BY <3>1, PageRow
    <3>3. CASE q = p
      <4> HIDE DEF r
      <4>1. kv'[l][r] = row(l, r)
        BY <1>4, <1>6, <3>2, <3>3
      <4> QED
        BY <1>1, <3>2, <3>3, <4>1 DEF r
    <3>4. CASE q # p
      <4>1. resident'[q] = resident[q] /\ resident[q] # g
        BY <1>6, <1>7, <3>4
      <4>2. kv[l][(resident[q] * PAGE) + o] = <<l, (q * PAGE) + o, gens[q]>>
        BY <2>3, <4>1, CacheParts DEF ResidentInv
      <4>3. kv[l][r] = <<l, (q * PAGE) + o, gens[q]>>
        BY <4>1, <4>2
      <4> HIDE DEF r, row
      <4>4. kv'[l][r] = kv[l][r]
        BY <1>4, <3>2, <4>1
      <4> QED
        BY <1>1, <4>3, <4>4 DEF r
    <3> QED
      BY <3>3, <3>4
  <2> QED
    BY <2>1, <2>2, <2>3, Zenon DEF ResidentInv
<1>9. HostInv'
  BY <1>1, CacheParts DEF HostInv
<1> HIDE DEF row
<1>10. HotInv'
  <2>1. ASSUME NEW l \in Layers, NEW h \in Lanes PROVE kv'[l][HotRow(h)] = kv[l][HotRow(h)]
    BY <1>1, <1>4, HotRowIs, LanePage
  <2> QED
    BY <1>1, <1>2, <2>1, CacheParts DEF HotInv, Fenced
<1>11. LostInv'
  <2>1. ASSUME NEW l \in Layers, NEW r \in GpuRows, r \div PAGE \in lost PROVE kv'[l][r] = Foreign
    <3>1. r \div PAGE # g /\ kv[l][r] = Foreign
      BY <1>1, <2>1, CacheParts DEF LostInv
    <3> QED
      BY <1>4, <3>1
  <2> QED
    BY <1>1, <2>1 DEF LostInv
<1> QED
  BY <1>5, <1>8, <1>9, <1>10, <1>11 DEF CacheInv

LEMMA CacheRevoke == ASSUME CacheInv, NEW g \in HotGpu, Revoke(g) PROVE CacheInv'
<1>1. /\ Service /\ lost' = lost \union {g}
      /\ kv' = [l \in Layers |-> [r \in GpuRows |->
                   IF r \div PAGE = g THEN Foreign ELSE kv[l][r]]]
      /\ length' = length /\ resident' = resident /\ backing' = backing /\ gens' = gens /\ host' = host
  BY DEF Revoke
<1>2. hot' = hot /\ scratch' = scratch /\ answer' = [l \in Layers |-> NoCall]
  BY <1>1 DEF Service
<1>3. Foreign \in (Layers \union {0}) \X Int \X Int
  BY DEF Foreign
<1>4. ASSUME NEW l \in Layers, NEW r \in GpuRows
      PROVE  /\ r \div PAGE = g => kv'[l][r] = Foreign
             /\ r \div PAGE # g => kv'[l][r] = kv[l][r]
             /\ kv'[l][r] \in (Layers \union {0}) \X Int \X Int
  <2>1. kv[l][r] \in (Layers \union {0}) \X Int \X Int
    BY CacheParts
  <2>2. kv'[l][r] = IF r \div PAGE = g THEN Foreign ELSE kv[l][r]
    BY <1>1
  <2> QED
    BY <1>3, <2>1, <2>2
<1>5. TypeOK'
  <2>1. kv' = [l \in Layers |-> [r \in GpuRows |-> kv'[l][r]]]
    BY <1>1
  <2>2. kv' \in [Layers -> [GpuRows -> (Layers \union {0}) \X Int \X Int]]
    BY <1>4, <2>1
  <2>3. TablesTyped'
    BY <1>1, CacheParts DEF TablesTyped
  <2> QED
    BY <1>1, <1>2, <2>2, <2>3, CacheParts DEF TypeOK, Answers
<1>6. ResidentInv'
  <2>1. ASSUME NEW l \in Layers, NEW q \in Pages, resident[q] # None, NEW o \in 0 .. PAGE - 1
        PROVE  kv'[l][(resident[q] * PAGE) + o] = <<l, (q * PAGE) + o, gens[q]>>
    <3> DEFINE r == (resident[q] * PAGE) + o
    <3>1. resident[q] \in 0 .. GpuPages - 1
      BY <2>1, CacheParts, Sizes DEF None
    <3>2. r \in GpuRows /\ r \div PAGE = resident[q]
      BY <3>1, PageRow
    <3>3. resident[q] # g /\ kv[l][r] = <<l, (q * PAGE) + o, gens[q]>>
      BY <2>1, CacheParts DEF ResidentInv
    <3> HIDE DEF r
    <3>4. kv'[l][r] = kv[l][r]
      BY <1>4, <3>2, <3>3
    <3> QED
      BY <3>3, <3>4 DEF r
  <2>2. /\ \A q \in Pages : resident'[q] # None => resident'[q] \notin HotGpu
        /\ \A q, s \in Pages : resident'[q] # None /\ resident'[q] = resident'[s] => q = s
    BY <1>1, CacheParts, Zenon DEF ResidentInv
  <2>3. ASSUME NEW l \in Layers, NEW q \in Pages, resident'[q] # None, NEW o \in 0 .. PAGE - 1
        PROVE  kv'[l][(resident'[q] * PAGE) + o] = <<l, (q * PAGE) + o, gens'[q]>>
    BY <1>1, <2>1, <2>3, Zenon
  <2> QED
    BY <2>2, <2>3, Zenon DEF ResidentInv
<1>7. HostInv'
  BY <1>1, CacheParts DEF HostInv
<1>8. HotInv'
  <2>1. ASSUME NEW l \in Layers, NEW h \in Lanes, Fenced(h)'
        PROVE  Fenced(h) /\ kv'[l][HotRow(h)] = kv[l][HotRow(h)]
    <3>1. HotPage(h) # g /\ Fenced(h)
      BY <1>1, <2>1 DEF Fenced, HotPage
    <3> QED
      BY <1>4, <3>1, HotRowIs
  <2> QED
    BY <1>2, <2>1, CacheParts DEF HotInv
<1>9. LostInv'
  BY <1>1, <1>4, CacheParts DEF LostInv
<1> QED
  BY <1>5, <1>6, <1>7, <1>8, <1>9 DEF CacheInv

-----------------------------------------------------------------------------
(* The theorems *)

LEMMA FlagsAre == ASSUME NEW sels, NEW allow \in Flags(sels) PROVE allow \in BOOLEAN
  BY Zenon DEF Flags

LEMMA CacheNext == ASSUME CacheInv, [Next]_vars PROVE CacheInv'
<1>1. ASSUME NEW l \in Layers, NEW sel \in Picks, NEW allow \in Flags({sel}), Resolve(l, sel, allow)
      PROVE  CacheInv'
  <2>1. sel \in [1 .. K -> Int] /\ allow \in BOOLEAN
    BY ResolveAssumption, FlagsAre
  <2> DEFINE res == Kernel(hot[l], sel, allow, scratch)
  <2>2. /\ UNCHANGED tables /\ scratch' \in BufType
        /\ hot' = [k \in Layers |-> hot'[k]] /\ kv' = [k \in Layers |-> kv'[k]]
        /\ answer' = [k \in Layers |-> answer'[k]]
        /\ LayerCalled(l, sel, sel, allow, res)
        /\ \A k \in Layers : k # l => LayerKept(k)
    BY <1>1, <2>1, ResolveLaunches, Zenon
  <2> HIDE DEF res
  <2>3. LaunchStep
    BY <2>1, <2>2, Zenon DEF LaunchStep
  <2> QED
    BY <2>3, CacheLaunch
<1>2. ASSUME NEW stack \in Stacks, NEW allow \in Flags(Range(stack)), ResolveBatched(stack, allow)
      PROVE  CacheInv'
  <2>1. allow \in BOOLEAN
    BY FlagsAre
  <2> DEFINE res(l) == Kernel(hot[l], stack[1], allow, scratch)
  <2>2. /\ UNCHANGED tables /\ scratch' \in BufType
        /\ hot' = [l \in Layers |-> hot'[l]] /\ kv' = [l \in Layers |-> kv'[l]]
        /\ answer' = [l \in Layers |-> answer'[l]]
        /\ stack \in [Layers -> [1 .. K -> Int]] /\ stack[1] \in [1 .. K -> Int]
        /\ \A l \in Layers : LayerCalled(l, stack[1], stack[l], allow, res(l))
    BY <1>2, <2>1, BatchedLaunches, Zenon
  <2>3. \A l \in Layers : stack[l] \in [1 .. K -> Int]
    BY <2>2
  <2> HIDE DEF res
  <2>4. LaunchStep
    BY <2>1, <2>2, <2>3, Zenon DEF LaunchStep
  <2> QED
    BY <2>4, CacheLaunch
<1>3. CASE UNCHANGED vars
  BY <1>3 DEF vars, tables, CacheInv, TypeOK, TablesTyped, ResidentInv, HostInv, HotInv, LostInv, Fenced
<1> QED
  BY <1>1, <1>2, <1>3, CacheGrow, CacheDemote, CachePromote, CacheRewrite, CacheRevoke DEF Next

\* The tables, the cache, the hot tiers and the buffers keep their types; a resident
\* page has its rows on a GPU page of its own outside the hot tier, a page has its
\* current content on a host page of its own, a lane whose lease stands holds what
\* its tags say and no other lane holds the same, and the rows of a lost page are
\* left alone: whatever Resolve and ResolveBatched are given.
THEOREM CacheKeeps == Spec => []CacheInv
<1>1. Init => CacheInv
  BY CacheInit
<1>2. CacheInv /\ [Next]_vars => CacheInv'
  BY CacheNext
<1> QED
  BY <1>1, <1>2, PTL DEF Spec

\* In every state, for every selection and every size of the hot tier, the kernel's phases
\* (bitmap, worklist compaction, walk, drain) give the answers, fills, counters and
\* hot state of the oracle's scalar walk, whatever the reused buffers held.
THEOREM KernelMatchesReference == Spec => []MatchesReference
<1>1. CacheInv => MatchesReference
  <2> SUFFICES ASSUME CacheInv, NEW l \in Layers, NEW sel \in Picks, NEW allow \in Flags({sel})
               PROVE  Kernel(hot[l], sel, allow, scratch) = Reference(hot[l], sel, allow)
    BY Zenon DEF MatchesReference
  <2>1. sel \in [1 .. K -> Int]
    BY ResolveAssumption
  <2>2. TablesTyped /\ hot[l] \in HotType /\ scratch \in BufType
    BY CacheParts
  <2> QED
    BY <2>1, <2>2, KernelIsReference
<1> QED
  BY <1>1, CacheKeeps, PTL

\* What an answer is right about.
AnswersInv == RowsHold /\ NothingDropped

\* Fits, for a request of n tokens.
FitsIn(sel, n) == Cardinality({tok \in Range(sel) : 0 <= tok /\ tok < n}) <= H

\* A layer's answer, with the cache, the generations and the length it is about.
AnswerRight(l, a, rows, g, n) ==
    a # NoCall =>
        /\ \A j \in 1 .. K : a.out[j] # -1 => rows[a.out[j]] = <<l, a.sel[j], g[PageOf(a.sel[j])]>>
        /\ FitsIn(a.sel, n) => a.errors = Cardinality({j \in 1 .. K : a.out[j] = -1 /\ ~ Padding(a.sel[j], a.allow)})

LEMMA AnswersAre ==
    CacheInv => (AnswersInv <=> \A l \in Layers : AnswerRight(l, answer[l], kv[l], gens, length))
<1>1. RowsHold <=> /\ \A l \in Layers : answer[l] # NoCall =>
                         \A j \in 1 .. K : answer[l].out[j] # -1 =>
                            kv[l][answer[l].out[j]] =
                               <<l, answer[l].sel[j], gens[PageOf(answer[l].sel[j])]>>
                   /\ LostInv
  BY Zenon DEF RowsHold, LostInv
<1> QED
  BY <1>1, Zenon DEF AnswersInv, AnswerRight, NothingDropped, CacheInv, Fits, FitsIn, Valid

LEMMA CalledRight ==
    ASSUME NEW l, NEW sel, NEW allow, NEW res, LayerCalled(l, sel, sel, allow, res)
    PROVE  AnswerRight(l, answer'[l], kv'[l], gens, length)
<1>1. /\ Launched(l, sel, allow, res, kv'[l])
      /\ answer'[l] = [sel |-> sel, allow |-> allow, out |-> res.out, errors |-> res.errors]
  BY DEF LayerCalled
<1> DEFINE a == answer'[l]
<1>2. a.sel = sel /\ a.allow = allow /\ a.out = res.out /\ a.errors = res.errors
  BY <1>1
<1>3. /\ \A j \in 1 .. K : res.out[j] # -1 => kv'[l][res.out[j]] = <<l, sel[j], gens[PageOf(sel[j])]>>
      /\ FitsIn(sel, length) =>
            res.errors = Cardinality({j \in 1 .. K : res.out[j] = -1 /\ ~ Padding(sel[j], allow)})
  BY <1>1, Zenon DEF Launched, Fits, FitsIn, Valid
<1> HIDE DEF a
<1>4. AnswerRight(l, a, kv'[l], gens, length)
  BY <1>2, <1>3, Zenon DEF AnswerRight
<1> QED
  BY <1>4 DEF a

LEMMA AnswersNext ==
    ASSUME SharedSelections, CacheInv, AnswersInv, [Next]_vars, CacheInv' PROVE AnswersInv'
<1>1. \A l \in Layers : AnswerRight(l, answer[l], kv[l], gens, length)
  BY AnswersAre
<1>2. (CacheInv => (AnswersInv <=> \A l \in Layers : AnswerRight(l, answer[l], kv[l], gens, length)))'
  BY AnswersAre, PTL
<1>3. AnswersInv' <=> \A l \in Layers : AnswerRight(l, answer'[l], kv'[l], gens', length')
  BY <1>2 DEF AnswerRight, Padding, FitsIn
<1>4. ASSUME NEW l \in Layers, NEW sel \in Picks, NEW allow \in Flags({sel}), Resolve(l, sel, allow)
      PROVE  AnswersInv'
  <2>1. sel \in [1 .. K -> Int] /\ allow \in BOOLEAN
    BY ResolveAssumption, FlagsAre
  <2> DEFINE res == Kernel(hot[l], sel, allow, scratch)
  <2>2. /\ UNCHANGED tables /\ LayerCalled(l, sel, sel, allow, res)
        /\ \A k \in Layers : k # l => LayerKept(k)
    BY <1>4, <2>1, ResolveLaunches, Zenon
  <2> HIDE DEF res
  <2>3. gens' = gens /\ length' = length
    BY <2>2 DEF tables
  <2>4. AnswerRight(l, answer'[l], kv'[l], gens, length)
    BY <2>2, CalledRight, Zenon
  <2>5. ASSUME NEW k \in Layers PROVE AnswerRight(k, answer'[k], kv'[k], gens, length)
    BY <1>1, <2>2, <2>4, Zenon DEF LayerKept
  <2> QED
    BY <1>3, <2>3, <2>5, Zenon
<1>5. ASSUME NEW stack \in Stacks, NEW allow \in Flags(Range(stack)), ResolveBatched(stack, allow)
      PROVE  AnswersInv'
  <2>1. allow \in BOOLEAN
    BY FlagsAre
  <2> DEFINE res(l) == Kernel(hot[l], stack[1], allow, scratch)
  <2>2. /\ UNCHANGED tables
        /\ \A l \in Layers : LayerCalled(l, stack[1], stack[l], allow, res(l))
    BY <1>5, <2>1, BatchedLaunches, Zenon
  <2>3. \A l \in Layers : stack[l] = stack[1]
    BY DEF SharedSelections
  <2> HIDE DEF res
  <2>4. gens' = gens /\ length' = length
    BY <2>2 DEF tables
  <2>5. ASSUME NEW l \in Layers PROVE AnswerRight(l, answer'[l], kv'[l], gens, length)
    <3>1. LayerCalled(l, stack[1], stack[1], allow, res(l))
      BY <2>2, <2>3, Zenon
    <3> QED
      BY <3>1, CalledRight, Zenon
  <2> QED
    BY <1>3, <2>4, <2>5, Zenon
<1>6. CASE Service
  <2>1. \A l \in Layers : answer'[l] = NoCall
    BY <1>6 DEF Service
  <2>2. \A l \in Layers : AnswerRight(l, answer'[l], kv'[l], gens', length')
    BY <2>1, Zenon DEF AnswerRight
  <2> QED
    BY <1>3, <2>2
<1>7. CASE UNCHANGED vars
  <2>1. gens' = gens /\ length' = length /\ kv' = kv /\ answer' = answer
    BY <1>7 DEF vars, tables
  <2> QED
    BY <1>1, <1>3, <2>1
<1> QED
  BY <1>4, <1>5, <1>6, <1>7 DEF Next, Grow, Demote, Promote, Rewrite, Revoke

LEMMA AnswersInit == ASSUME Init PROVE AnswersInv
<1>1. \A l \in Layers : answer[l] = NoCall
  BY DEF Init
<1>2. \A l \in Layers : AnswerRight(l, answer[l], kv[l], gens, length)
  BY <1>1, Zenon DEF AnswerRight
<1> QED
  BY <1>2, AnswersAre, CacheInit

\* When the layers of a batched call share a selection, every answer is right.
LEMMA AnswersKeep == ASSUME SharedSelections PROVE Spec => [](CacheInv /\ AnswersInv)
<1>1. Init => CacheInv /\ AnswersInv
  BY CacheInit, AnswersInit
<1>2. (CacheInv /\ AnswersInv) /\ [Next]_vars => (CacheInv /\ AnswersInv)'
  BY CacheNext, AnswersNext
<1> QED
  BY <1>1, <1>2, PTL DEF Spec

\* A row the attention is handed holds the selected token at its page's current
\* generation, and the copy pass never writes a hot page whose lease ended, however
\* the calls interleave with growth, promotion, demotion, rewriting and revocation.
\* The hypothesis is needed: a batched launch reads the first layer's selection only.
THEOREM RowsAlwaysHold == ASSUME SharedSelections PROVE Spec => []RowsHold
<1>1. CacheInv /\ AnswersInv => RowsHold
  BY DEF AnswersInv
<1> QED
  BY <1>1, AnswersKeep, PTL

\* Whatever the size of the hot tier, an unprotected lane is left for every miss of
\* a selection of no more distinct valid tokens than the tier has rows: none of them
\* is dropped without an error, even where stale lanes and lost leases crowd the tier.
THEOREM NothingIsDropped == ASSUME SharedSelections PROVE Spec => []NothingDropped
<1>1. CacheInv /\ AnswersInv => NothingDropped
  BY DEF AnswersInv
<1> QED
  BY <1>1, AnswersKeep, PTL
=============================================================================
