--------------------------- MODULE CompileProofs ---------------------------
(***************************************************************************)
(* The proofs over CompileSpec.                                            *)
(*                                                                         *)
(* Planner and executor, for every number of buffers, every size, lifetime *)
(* and alignment: the first-fit packing of plan_memory gives two buffers   *)
(* that are live in a common phase disjoint ranges, each at the lowest     *)
(* aligned offset that is free; and over that plan every phase of the      *)
(* executor finds the data of its live buffers, with no false alarm of the *)
(* canary.                                                                 *)
(*                                                                         *)
(* Tile schedules, for every finite set of tasks, every predecessor        *)
(* relation and every set of workers: Kahn's loop refuses exactly the      *)
(* circular graphs, the static worker order adds no cycle of its own, and  *)
(* both ways to run the tasks execute each of them after its predecessors, *)
(* the ready queue only once.                                              *)
(***************************************************************************)
EXTENDS Compile, FiniteSetTheorems, WellFoundedInduction, TLAPS

-----------------------------------------------------------------------------
(* Arithmetic *)

\* A non-empty set of naturals has a least member.
LEMMA LeastNat ==
    ASSUME NEW S \in SUBSET Nat, S # {}
    PROVE  \E m \in S : \A n \in S : m <= n
<1> DEFINE R == OpToRel(<, Nat)
<1>1. IsWellFoundedOn(R, Nat)
  BY NatLessThanWellFounded
<1>2. \A x, y \in Nat : <<x, y>> \in R <=> x < y
  BY DEF OpToRel
<1> HIDE DEF R
<1>3. PICK m \in S : \A n \in S : ~ (<<n, m>> \in R)
  BY <1>1, WFMin
<1>4. ASSUME NEW n \in S PROVE m <= n
  <2>1. m \in Nat /\ n \in Nat /\ ~ (n < m)
    BY <1>2, <1>3
  <2> QED
    BY <2>1
<1> QED
  BY <1>4

\* A bounded one has a greatest member, which is its Max.
LEMMA MaxNat ==
    ASSUME NEW S \in SUBSET Nat, S # {}, NEW b \in Nat, \A n \in S : n <= b
    PROVE  Max(S) \in S /\ \A n \in S : n <= Max(S)
<1> DEFINE D == {b - n : n \in S}
<1>1. D \in SUBSET Nat /\ D # {}
  <2>1. \A n \in S : b - n \in Nat
    OBVIOUS
  <2>2. PICK y \in S : TRUE
    OBVIOUS
  <2>3. D \subseteq Nat
    BY <2>1
  <2> QED
    BY <2>2, <2>3, Zenon
<1>2. PICK m \in D : \A d \in D : m <= d
  BY <1>1, LeastNat
<1>3. PICK x \in S : m = b - x
  BY <1>2
<1>4. ASSUME NEW n \in S PROVE n <= x
  <2>1. b - x <= b - n /\ x \in Nat /\ n \in Nat
    BY <1>2, <1>3
  <2> QED
    BY <2>1
<1> QED
  BY <1>3, <1>4 DEF Max

\* Multiples of the alignment.
LEMMA Multiple ==
    ASSUME NEW W \in Nat \ {0}, NEW q \in Int
    PROVE  (q * W) % W = 0
  OBVIOUS

LEMMA AlignedSum ==
    ASSUME NEW a \in Nat, NEW b \in Nat, a % ALIGN = 0, b % ALIGN = 0
    PROVE  (a + b) % ALIGN = 0
<1> DEFINE W == ALIGN
           p == a \div W
           q == b \div W
<1>1. W \in Nat \ {0}
  BY PlannerAssumption
<1> HIDE DEF W
<1>2. a = p * W /\ b = q * W /\ p \in Nat /\ q \in Nat
  <2>1. a % W = 0 /\ b % W = 0
    BY DEF W
  <2> QED
    BY <1>1, <2>1
<1> HIDE DEF p, q
<1> DEFINE r == p + q
<1>3. a + b = r * W /\ r \in Int
  BY <1>1, <1>2
<1> HIDE DEF r
<1>4. (r * W) % W = 0
  BY <1>1, <1>3, Multiple
<1>5. (a + b) % W = 0
  BY <1>3, <1>4
<1> QED
  BY <1>5 DEF W

\* Rounding up gives a natural number that is no smaller.
LEMMA AlignUpBounds ==
    ASSUME NEW x \in Nat
    PROVE  AlignUp(x) \in Nat /\ AlignUp(x) >= x
<1> DEFINE y == x + ALIGN - 1
           q == y \div ALIGN
<1>1. ALIGN \in Nat /\ ALIGN > 0 /\ y \in Nat
  BY PlannerAssumption
<1>2. q \in Nat /\ y % ALIGN \in 0 .. ALIGN - 1 /\ y = q * ALIGN + (y % ALIGN)
  <2> HIDE DEF y
  <2> QED BY <1>1
<1>3. q * ALIGN \in Nat
  <2> HIDE DEF q
  <2> QED BY <1>1, <1>2
<1> QED
  BY <1>1, <1>2, <1>3 DEF AlignUp

\* Rounding up gives a multiple of the alignment, and leaves one as it is.
LEMMA AlignUpAligned ==
    ASSUME NEW x \in Nat
    PROVE  AlignUp(x) % ALIGN = 0 /\ (x % ALIGN = 0 => AlignUp(x) = x)
<1> DEFINE W == ALIGN
           q == (x + W - 1) \div W
<1>1. W \in Nat \ {0}
  BY PlannerAssumption
<1> HIDE DEF W
<1>2. q \in Int
  BY <1>1
<1>3. (q * W) % W = 0
  <2> HIDE DEF q
  <2> QED BY <1>1, <1>2
<1>4. ASSUME x % W = 0 PROVE q * W = x
  <2> DEFINE p == x \div W
  <2>1. x = p * W /\ p \in Nat
    BY <1>1, <1>4
  <2> HIDE DEF p
  <2>2. x + W - 1 = p * W + (W - 1) /\ 0 <= W - 1 /\ W - 1 < W
    BY <1>1, <2>1
  <2>3. (p * W + (W - 1)) \div W = p
    BY <1>1, <2>1, <2>2
  <2> QED
    BY <2>1, <2>2, <2>3
<1> QED
  BY <1>3, <1>4 DEF AlignUp, W

-----------------------------------------------------------------------------
(* The packing *)

\* What the packing keeps: the types it works with, and disjointness of what
\* is already placed.
PackInv ==
    /\ numel \in [Bufs -> Sizes] /\ offset \in [Bufs -> Nat]
    /\ cur \in 1 .. N + 1 /\ candidate \in Nat
    /\ life \in [Bufs -> Lives]
    /\ NoLiveOverlap

\* Two lives with a phase in common pass the planner's overlap test.
LEMMA TogetherOverlap ==
    ASSUME life \in [Bufs -> Lives], NEW i \in Bufs, NEW j \in Bufs, LiveTogether(i, j)
    PROVE  OverlapsLifetime(i, j)
<1>1. life[i] \in Lives /\ life[j] \in Lives
  OBVIOUS
<1>2. /\ life[i][1] \in Nat /\ life[i][2] \in Nat
      /\ life[j][1] \in Nat /\ life[j][2] \in Nat
  BY <1>1, PlannerAssumption DEF Lives, Stages
<1>3. PICK k \in Stages : /\ life[i][1] <= k /\ k <= life[i][2]
                          /\ life[j][1] <= k /\ k <= life[j][2]
  BY DEF LiveTogether
<1>4. k \in Nat
  BY PlannerAssumption DEF Stages
<1> QED
  BY <1>2, <1>3, <1>4 DEF OverlapsLifetime

\* One search turn, a placement or the total preserves the packing invariant.
LEMMA PackStep ==
    ASSUME PackInv, [Next]_vars
    PROVE  PackInv'
<1>1. /\ \A i \in Bufs : numel[i] \in Nat /\ offset[i] \in Nat
      /\ cur \in Nat /\ N \in Nat
  <2>1. \A i \in Bufs : numel[i] \in Nat /\ offset[i] \in Nat
    BY PlannerAssumption DEF PackInv
  <2>2. cur \in Nat /\ N \in Nat
    BY PlannerAssumption DEF PackInv
  <2> QED
    BY <2>1, <2>2
<1>2. \A i \in Bufs : AlignUp(numel[i]) \in Nat /\ AlignUp(numel[i]) >= numel[i]
  BY <1>1, AlignUpBounds
<1>3. CASE Place
  <2> DEFINE c == AlignUp(candidate)
  <2>1. c \in Nat
    BY AlignUpBounds DEF PackInv
  <2>2. /\ cur \in Bufs /\ cur' = cur + 1 /\ candidate' = 0 /\ InTheWay(c) = {}
        /\ offset' = [offset EXCEPT ![cur] = c] /\ numel' = numel /\ life' = life
    BY <1>1, <1>3 DEF Place, PackInv, Bufs
  <2>3. /\ offset' \in [Bufs -> Nat] /\ offset'[cur] = c
        /\ \A i \in 1 .. cur - 1 : i \in Bufs /\ offset'[i] = offset[i]
    BY <1>1, <2>1, <2>2 DEF PackInv, Bufs
  <2>4. ASSUME NEW i \in 1 .. cur - 1, OverlapsLifetime(i, cur)
        PROVE  c >= offset[i] + AlignUp(numel[i]) \/ offset[i] >= c + AlignUp(numel[cur])
    <3>1. ~ Conflicts(i, c)
      BY <2>2 DEF InTheWay
    <3>2. offset[i] \in Nat /\ AlignUp(numel[i]) \in Nat /\ AlignUp(numel[cur]) \in Nat
      BY <1>1, <1>2, <2>2, <2>3
    <3> HIDE DEF c
    <3> QED
      BY <2>1, <2>4, <3>1, <3>2 DEF Conflicts
  <2>5. ASSUME NEW i \in 1 .. cur - 1, OverlapsLifetime(i, cur)
        PROVE  \/ offset[i] + numel[i] <= c
               \/ c + numel[cur] <= offset[i]
    <3>1. /\ offset[i] \in Nat /\ numel[i] \in Nat /\ numel[cur] \in Nat
          /\ AlignUp(numel[i]) \in Nat /\ AlignUp(numel[cur]) \in Nat
          /\ AlignUp(numel[i]) >= numel[i] /\ AlignUp(numel[cur]) >= numel[cur]
      BY <1>1, <1>2, <2>2, <2>3
    <3> HIDE DEF c
    <3> QED
      BY <2>1, <2>4, <2>5, <3>1
  <2>6. NoLiveOverlap'
    <3> SUFFICES ASSUME NEW i \in 1 .. cur, NEW j \in 1 .. cur, i # j, LiveTogether(i, j)
                 PROVE  \/ offset'[i] + numel[i] <= offset'[j]
                        \/ offset'[j] + numel[j] <= offset'[i]
      BY <1>1, <2>2 DEF NoLiveOverlap, LiveTogether
    <3>0. i \in Bufs /\ j \in Bufs /\ OverlapsLifetime(i, j)
      <4>1. i \in Bufs /\ j \in Bufs
        BY <1>1, <2>2 DEF Bufs
      <4> QED
        BY <4>1, TogetherOverlap DEF PackInv
    <3>1. CASE i # cur /\ j # cur
      <4>1. i \in 1 .. cur - 1 /\ j \in 1 .. cur - 1
        BY <1>1, <3>1
      <4> QED
        BY <2>3, <4>1 DEF PackInv, NoLiveOverlap
    <3>2. CASE j = cur
      <4>1. i \in 1 .. cur - 1
        BY <1>1, <3>2
      <4> QED
        BY <2>3, <2>5, <3>0, <3>2, <4>1
    <3>3. CASE i = cur
      <4>1. j \in 1 .. cur - 1
        BY <1>1, <3>3
      <4>2. OverlapsLifetime(j, cur)
        BY <3>0, <3>3 DEF OverlapsLifetime
      <4> QED
        BY <2>3, <2>5, <3>3, <4>1, <4>2
    <3> QED
      BY <3>1, <3>2, <3>3
  <2> QED
    BY <1>1, <2>2, <2>3, <2>6 DEF PackInv, Bufs
<1>4. CASE Skip
  <2>1. PICK b \in InTheWay(AlignUp(candidate)) : candidate' = Behind(b)
    BY <1>4 DEF Skip
  <2>2. b \in Bufs
    BY <1>1, <2>1 DEF InTheWay, PackInv, Bufs
  <2>3. candidate' \in Nat
    BY <1>1, <1>2, <2>1, <2>2 DEF Behind
  <2> QED
    BY <1>4, <2>3 DEF Skip, PackInv, NoLiveOverlap, LiveTogether
<1>5. CASE Total
  BY <1>5 DEF Total, PackInv, NoLiveOverlap, LiveTogether
<1>6. CASE UNCHANGED vars
  BY <1>6 DEF vars, PackInv, NoLiveOverlap, LiveTogether
<1> QED
  BY <1>3, <1>4, <1>5, <1>6 DEF Next

\* The empty packing satisfies the invariant.
LEMMA InitPack == Init => PackInv
<1> SUFFICES ASSUME Init PROVE PackInv
  OBVIOUS
<1>1. ASSUME NEW i \in Bufs PROVE life[i] \in Lives
  <2>1. PICK touched \in SUBSET Stages : Lifetime(life[i], touched)
    BY DEF Init
  <2>2. life[i] \in Stages \X Stages /\ life[i][1] <= life[i][2]
    BY <2>1 DEF Init, Lifetime
  <2> QED
    BY <2>2 DEF Lives
<1>2. life \in [Bufs -> Lives]
  BY <1>1 DEF Init
<1> QED
  BY <1>2, PlannerAssumption DEF Init, PackInv, NoLiveOverlap

-----------------------------------------------------------------------------
(* The search: nothing lower is free, and everything fits *)

Slot    == AlignUp(Max(Sizes))
Room(n) == n * Slot

\* The candidate and the offsets are aligned and within the room of the buffers
\* before; every aligned place below the candidate has been found taken.
SearchInv ==
    /\ candidate % ALIGN = 0 /\ candidate <= Room(cur - 1)
    /\ \A i \in 1 .. cur - 1 : offset[i] <= Room(i - 1)
    /\ cur <= N => \A c \in 0 .. candidate - 1 : c % ALIGN = 0 => InTheWay(c) # {}
    /\ LowestOffset

\* The phases that have run, and what they left: the data of a buffer that is
\* still in use is in its elements, and any other data is no longer there.
InUse(i) == life[i][1] < at /\ (at <= life[i][2] \/ life[i][2] = MaxPhase)

ExecInv ==
    /\ at \in 0 .. MaxPhase + 1 /\ (at > 0 => total # -1)
    /\ total # -1 => cur = N + 1
    /\ WorkspaceHolds
    /\ ws \in [Elements -> 0 .. N]
    /\ \A i \in Bufs : InUse(i) => \A e \in Region(i) : ws[e] = i
    /\ \A e \in Elements : ws[e] # NaN => InUse(ws[e]) /\ e \in Region(ws[e])
    /\ lost = {} /\ alarm = {}

LEMMA AlignUpMono ==
    ASSUME NEW x \in Nat, NEW y \in Nat, x <= y
    PROVE  AlignUp(x) <= AlignUp(y)
<1> DEFINE W == ALIGN
           p == (x + W - 1) \div W
           q == (y + W - 1) \div W
<1>1. W \in Nat \ {0}
  BY PlannerAssumption
<1> HIDE DEF W
<1>2. p \in Nat /\ q \in Nat /\ p <= q
  BY <1>1
<1> HIDE DEF p, q
<1>3. p * W <= q * W
  BY <1>1, <1>2
<1> QED
  BY <1>3 DEF AlignUp, p, q, W

LEMMA SlotFacts ==
    /\ Max(Sizes) \in Nat /\ Slot \in Nat
    /\ \A n \in Sizes : AlignUp(n) \in Nat /\ n <= AlignUp(n) /\ AlignUp(n) <= Slot
<1>1. PICK m \in Sizes : \A n \in Sizes : n <= m
  BY SizesAssumption
<1>2. Sizes \in SUBSET Nat /\ Sizes # {} /\ m \in Nat
  BY <1>1, PlannerAssumption
<1>3. Max(Sizes) \in Sizes /\ \A n \in Sizes : n <= Max(Sizes)
  BY <1>1, <1>2, MaxNat
<1> QED
  BY <1>2, <1>3, AlignUpBounds, AlignUpMono DEF Slot

LEMMA RoomFacts ==
    /\ Room(0) = 0
    /\ \A n \in Nat : Room(n) \in Nat /\ Room(n + 1) = Room(n) + Slot
    /\ \A m, n \in Nat : m <= n => Room(m) <= Room(n)
<1> DEFINE S == Slot
<1>1. S \in Nat
  BY SlotFacts
<1> HIDE DEF S
<1>2. 0 * S = 0 /\ \A n \in Nat : n * S \in Nat /\ (n + 1) * S = n * S + S
  BY <1>1
<1>3. \A m, n \in Nat : m <= n => m * S <= n * S
  BY <1>1
<1> QED
  BY <1>2, <1>3 DEF Room, S

\* One search turn, a placement or the total preserves what the search found.
LEMMA SearchStep ==
    ASSUME PackInv, SearchInv, [Next]_vars
    PROVE  SearchInv'
<1>1. cur \in Nat /\ cur >= 1 /\ cur <= N + 1 /\ N \in Nat /\ candidate \in Nat
  BY PlannerAssumption DEF PackInv
<1>2. \A i \in 1 .. cur - 1 :
        /\ i \in Bufs /\ i \in Nat /\ offset[i] \in Nat /\ numel[i] \in Sizes
        /\ AlignUp(numel[i]) \in Nat /\ AlignUp(numel[i]) <= Slot
        /\ AlignUp(numel[i]) % ALIGN = 0
  <2> TAKE i \in 1 .. cur - 1
  <2>1. i \in Bufs /\ i \in Nat
    BY <1>1 DEF Bufs
  <2>2. offset[i] \in Nat /\ numel[i] \in Sizes /\ numel[i] \in Nat
    BY <2>1, PlannerAssumption DEF PackInv
  <2> QED
    BY <2>1, <2>2, SlotFacts, AlignUpAligned
<1>3. AlignUp(candidate) = candidate
  BY <1>1, AlignUpAligned DEF SearchInv
<1>4. CASE Place
  <2>1. /\ cur \in Bufs /\ cur' = cur + 1 /\ candidate' = 0 /\ InTheWay(candidate) = {}
        /\ offset' = [offset EXCEPT ![cur] = candidate] /\ numel' = numel /\ life' = life
    BY <1>1, <1>3, <1>4 DEF Place, Bufs
  <2>2. /\ offset'[cur] = candidate
        /\ \A i \in 1 .. cur - 1 : offset'[i] = offset[i]
    BY <1>1, <1>2, <2>1 DEF PackInv
  <2>3. \A i \in 1 .. cur' - 1 : i = cur \/ i \in 1 .. cur - 1
    BY <1>1, <2>1
  <2>4. \A i \in 1 .. cur' - 1 : offset'[i] <= Room(i - 1)
    BY <2>2, <2>3 DEF SearchInv
  <2>5. candidate' % ALIGN = 0 /\ candidate' <= Room(cur' - 1)
    <3>1. cur' - 1 = cur /\ Room(cur) \in Nat
      BY <1>1, <2>1, RoomFacts
    <3>2. 0 % ALIGN = 0
      BY PlannerAssumption
    <3> QED
      BY <2>1, <3>1, <3>2
  <2>6. LowestOffset'
    <3> SUFFICES ASSUME NEW j \in 1 .. cur' - 1
                 PROVE  /\ offset'[j] % ALIGN = 0
                        /\ \A c \in {x \in 0 .. offset'[j] - 1 : x % ALIGN = 0} :
                              \E p \in 1 .. j - 1 :
                                  /\ OverlapsLifetime(p, j)
                                  /\ c < offset'[p] + AlignUp(numel[p])
                                  /\ offset'[p] < c + AlignUp(numel[j])
      BY <2>1 DEF LowestOffset, OverlapsLifetime, AlignUp
    <3>1. CASE j = cur
      <4>1. ASSUME NEW c \in 0 .. candidate - 1, c % ALIGN = 0
            PROVE  \E p \in 1 .. cur - 1 :
                      /\ OverlapsLifetime(p, cur)
                      /\ c < offset[p] + AlignUp(numel[p])
                      /\ offset[p] < c + AlignUp(numel[cur])
        <5>1. InTheWay(c) # {}
          BY <1>1, <2>1, <4>1 DEF SearchInv, Bufs
        <5> QED
          BY <5>1 DEF InTheWay, Conflicts
      <4> QED
        BY <2>2, <3>1, <4>1 DEF SearchInv
    <3>2. CASE j \in 1 .. cur - 1
      <4>1. \A p \in 1 .. j - 1 : offset'[p] = offset[p]
        BY <1>1, <2>2, <3>2
      <4> QED
        BY <2>2, <3>2, <4>1 DEF SearchInv, LowestOffset
    <3> QED
      BY <2>3, <3>1, <3>2
  <2>7. \A c \in 0 .. candidate' - 1 : FALSE
    BY <2>1
  <2> QED
    BY <2>4, <2>5, <2>6, <2>7 DEF SearchInv
<1>5. CASE Skip
  <2>1. PICK b \in InTheWay(candidate) : candidate' = Behind(b)
    BY <1>3, <1>5 DEF Skip
  <2>2. cur <= N /\ UNCHANGED <<numel, life, cur, offset>>
    BY <1>5 DEF Skip
  <2>3. /\ b \in 1 .. cur - 1 /\ OverlapsLifetime(b, cur)
        /\ candidate < offset[b] + AlignUp(numel[b])
        /\ offset[b] < candidate + AlignUp(numel[cur])
    BY <2>1 DEF InTheWay, Conflicts
  <2>4. candidate' = offset[b] + AlignUp(numel[b]) /\ offset[b] % ALIGN = 0
    BY <2>1, <2>3 DEF Behind, SearchInv, LowestOffset
  <2>5. candidate' % ALIGN = 0
    BY <1>2, <2>3, <2>4, AlignedSum
  <2>6. candidate' <= Room(cur' - 1)
    <3>1. offset[b] <= Room(b - 1) /\ b - 1 \in Nat /\ (b - 1) + 1 = b /\ b <= cur - 1 /\ b \in Nat
      BY <1>1, <2>3 DEF SearchInv
    <3>2. Room(b) = Room(b - 1) + Slot /\ Room(b) <= Room(cur - 1) /\ Room(b - 1) \in Nat
          /\ Room(cur - 1) \in Nat /\ Slot \in Nat
      <4>1. cur - 1 \in Nat
        BY <1>1
      <4> QED
        BY <3>1, <4>1, RoomFacts, SlotFacts
    <3> QED
      BY <1>2, <2>2, <2>3, <2>4, <3>1, <3>2
  <2>7. ASSUME NEW c \in 0 .. candidate' - 1, c % ALIGN = 0
        PROVE  InTheWay(c) # {}
    <3>1. CASE c < candidate
      BY <1>1, <2>2, <2>7, <3>1 DEF SearchInv
    <3>2. CASE candidate <= c
      <4>1. AlignUp(numel[cur]) \in Nat
        <5>1. cur \in Bufs
          BY <1>1, <2>2 DEF Bufs
        <5> QED
          BY <5>1, SlotFacts DEF PackInv
      <4>2. c < offset[b] + AlignUp(numel[b]) /\ offset[b] < c + AlignUp(numel[cur])
        BY <1>1, <1>2, <2>3, <2>4, <3>2, <4>1
      <4>3. Conflicts(b, c)
        BY <2>3, <4>2 DEF Conflicts
      <4> QED
        BY <2>3, <4>3 DEF InTheWay
    <3> QED
      BY <1>1, <1>2, <2>3, <2>4, <3>1, <3>2
  <2>8. \A c : InTheWay(c)' = InTheWay(c)
    BY <2>2 DEF InTheWay, Conflicts, OverlapsLifetime, AlignUp
  <2>9. LowestOffset'
    BY <2>2 DEF SearchInv, LowestOffset, OverlapsLifetime, AlignUp
  <2> QED
    BY <2>2, <2>5, <2>6, <2>7, <2>8, <2>9 DEF SearchInv, Room, Slot
<1>6. CASE Total \/ UNCHANGED vars
  <2>1. UNCHANGED <<numel, life, cur, offset, candidate>>
    BY <1>6 DEF Total, vars
  <2> QED
    BY <2>1 DEF SearchInv, LowestOffset, OverlapsLifetime, AlignUp, InTheWay, Conflicts, Room, Slot
<1> QED
  BY <1>4, <1>5, <1>6 DEF Next

\* Once everything is placed, every buffer lies inside the workspace, and two
\* buffers that are live in one phase lie apart.
LEMMA RegionInside ==
    ASSUME PackInv, SearchInv, cur = N + 1, NEW i \in Bufs
    PROVE  /\ offset[i] \in Nat /\ numel[i] \in Nat /\ offset[i] + numel[i] <= Room(N)
           /\ Region(i) \subseteq Elements
<1>1. N \in Nat /\ i \in Nat /\ i >= 1 /\ i <= N /\ i \in 1 .. cur - 1 /\ i - 1 \in Nat /\ (i - 1) + 1 = i
  BY PlannerAssumption DEF Bufs
<1>2. /\ offset[i] \in Nat /\ numel[i] \in Nat /\ offset[i] <= Room(i - 1)
      /\ numel[i] <= Slot /\ Slot \in Nat
  <2>1. numel[i] \in Sizes /\ numel[i] \in Nat /\ offset[i] \in Nat
    BY PlannerAssumption DEF PackInv
  <2>2. AlignUp(numel[i]) \in Nat /\ numel[i] <= AlignUp(numel[i]) /\ AlignUp(numel[i]) <= Slot
        /\ Slot \in Nat
    BY <2>1, SlotFacts
  <2> QED
    BY <1>1, <2>1, <2>2 DEF SearchInv
<1>3. Room(i) = Room(i - 1) + Slot /\ Room(i) <= Room(N) /\ Room(i - 1) \in Nat /\ Room(N) \in Nat
  BY <1>1, RoomFacts
<1>4. offset[i] + numel[i] <= Room(N)
  BY <1>2, <1>3
<1>5. Elements = 0 .. Room(N) - 1
  BY DEF Elements, Room, Slot
<1> QED
  BY <1>2, <1>3, <1>4, <1>5 DEF Region

LEMMA LiveApart ==
    ASSUME PackInv, cur = N + 1, NEW i \in Bufs, NEW j \in Bufs, i # j,
           NEW k \in Stages, LiveAt(i, k), LiveAt(j, k)
    PROVE  Region(i) \intersect Region(j) = {}
<1>1. i \in 1 .. cur - 1 /\ j \in 1 .. cur - 1 /\ LiveTogether(i, j)
  BY PlannerAssumption DEF Bufs, LiveAt, LiveTogether
<1>2. offset[i] + numel[i] <= offset[j] \/ offset[j] + numel[j] <= offset[i]
  BY <1>1 DEF PackInv, NoLiveOverlap
<1>3. offset[i] \in Nat /\ numel[i] \in Nat /\ offset[j] \in Nat /\ numel[j] \in Nat
  BY PlannerAssumption DEF PackInv
<1> QED
  BY <1>2, <1>3 DEF Region

LEMMA EndHolds ==
    ASSUME PackInv, SearchInv, cur = N + 1
    PROVE  EndOfPlan \in Nat /\ \A i \in Bufs : offset[i] + numel[i] <= EndOfPlan
<1> DEFINE S == {0} \union {offset[i] + numel[i] : i \in Bufs}
<1>1. \A i \in Bufs : offset[i] + numel[i] \in Nat /\ offset[i] + numel[i] <= Room(N)
  BY RegionInside
<1>2. Room(N) \in Nat
  BY RoomFacts, PlannerAssumption
<1>3. S \in SUBSET Nat /\ S # {} /\ \A n \in S : n <= Room(N)
  BY <1>1, <1>2
<1>4. Max(S) \in S /\ \A n \in S : n <= Max(S)
  BY <1>2, <1>3, MaxNat
<1>5. \A i \in Bufs : offset[i] + numel[i] \in S
  OBVIOUS
<1> QED
  BY <1>3, <1>4, <1>5 DEF EndOfPlan

\* The planner's own steps leave the executor alone.
LEMMA PlanExec ==
    ASSUME PackInv, SearchInv, ExecInv, Next, UNCHANGED execVars
    PROVE  ExecInv'
<1>1. UNCHANGED <<at, ws, alarm, lost, numel, life>>
  BY DEF execVars, Next, Place, Skip, Total
<1>2. Elements' = Elements
  BY DEF Elements, AlignUp
<1>3. N \in Nat /\ MaxPhase \in Nat /\ at \in Nat
  BY PlannerAssumption DEF ExecInv
<1>4. CASE Place \/ Skip
  <2>1. cur <= N /\ total' = total /\ total = -1 /\ at = 0
    BY <1>3, <1>4 DEF Place, Skip, ExecInv
  <2>2. \A i \in Bufs : ~ InUse(i) /\ ~ InUse(i)'
    <3>1. \A i \in Bufs : life[i][1] \in Nat
      BY PlannerAssumption DEF PackInv, Lives, Stages
    <3> QED
      BY <1>1, <2>1, <3>1 DEF InUse
  <2>3. \A e \in Elements : ws[e] = NaN
    <3>1. \A e \in Elements : ws[e] # NaN => ws[e] \in Bufs
      BY <1>3 DEF ExecInv, NaN, Bufs
    <3> QED
      BY <2>2, <3>1 DEF ExecInv
  <2> QED
    BY <1>1, <1>2, <2>1, <2>2, <2>3 DEF ExecInv, WorkspaceHolds
<1>5. CASE Total
  <2>1. total' = EndOfPlan /\ cur = N + 1 /\ cur' = cur /\ offset' = offset /\ total = -1 /\ at = 0
    BY <1>3, <1>5 DEF Total, ExecInv
  <2>2. EndOfPlan \in Nat /\ \A i \in Bufs : offset[i] + numel[i] <= EndOfPlan
    BY <2>1, EndHolds
  <2>3. WorkspaceHolds'
    BY <1>1, <2>1, <2>2 DEF WorkspaceHolds
  <2>4. \A i : InUse(i)' = InUse(i) /\ Region(i)' = Region(i)
    BY <1>1, <2>1 DEF InUse, Region
  <2> QED
    BY <1>1, <1>2, <1>3, <2>1, <2>3, <2>4 DEF ExecInv
<1> QED
  BY <1>4, <1>5 DEF Next

\* One phase over a legal plan.
LEMMA PhaseExec ==
    ASSUME PackInv, SearchInv, ExecInv, RunPhase
    PROVE  ExecInv'
<1> DEFINE F == Filled(at)
           born(e) == {i \in Bufs : life[i][1] = at /\ e \in Region(i)}
<1>1. /\ total # -1 /\ at <= MaxPhase /\ UNCHANGED <<numel, life, cur, candidate, offset, total>>
      /\ ws' = Poisoned(F, at) /\ at' = at + 1
      /\ lost' = {i \in Bufs : LiveAt(i, at) /\ \E e \in Region(i) : F[e] # i}
      /\ alarm' = Tripped(ws', at)
  BY DEF RunPhase, vars
<1>2. /\ N \in Nat /\ MaxPhase \in Nat /\ at \in Nat /\ at \in Stages /\ cur = N + 1
      /\ ws \in [Elements -> 0 .. N]
  BY <1>1, PlannerAssumption DEF ExecInv, Stages
<1>3. \A i \in Bufs : /\ Region(i) \subseteq Elements
                      /\ life[i][1] \in Nat /\ life[i][2] \in Nat
                      /\ life[i][1] <= life[i][2] /\ life[i][2] <= MaxPhase
                      /\ i \in Nat /\ i # NaN /\ i \in 0 .. N
  <2> TAKE i \in Bufs
  <2>1. Region(i) \subseteq Elements
    BY <1>2, RegionInside
  <2>2. life[i] \in Lives
    BY DEF PackInv
  <2>3. i \in Nat /\ i # NaN /\ i \in 0 .. N
    BY <1>2 DEF Bufs, NaN
  <2> QED
    BY <1>2, <2>1, <2>2, <2>3 DEF Lives, Stages
<1>4. \A i, j \in Bufs : i # j /\ LiveAt(i, at) /\ LiveAt(j, at) => Region(i) \intersect Region(j) = {}
  BY <1>2, LiveApart
\* What a phase finds in an element: one buffer that is born there, or what was
\* there before.
<1>5. ASSUME NEW e \in Elements, NEW i \in Bufs, i \in born(e) PROVE F[e] = i
  <2>1. \A j \in born(e) : LiveAt(j, at)
    BY <1>2, <1>3 DEF LiveAt
  <2>2. \A j \in born(e) : j = i
    BY <1>4, <1>5, <2>1
  <2>3. born(e) = {i}
    BY <1>5, <2>2
  <2>4. Max({i}) = i
    BY <1>3, MaxNat
  <2> HIDE DEF born
  <2>5. F[e] = IF born(e) = {} THEN ws[e] ELSE Max(born(e))
    BY DEF Filled, born
  <2> QED
    BY <2>3, <2>4, <2>5
<1>6. ASSUME NEW e \in Elements, born(e) = {} PROVE F[e] = ws[e]
  BY <1>6 DEF Filled
<1>7. ASSUME NEW i \in Bufs, LiveAt(i, at), NEW e \in Region(i) PROVE F[e] = i
  <2>1. e \in Elements
    BY <1>3
  <2>2. CASE life[i][1] = at
    BY <1>5, <2>1, <2>2
  <2>3. CASE life[i][1] # at
    <3>1. InUse(i)
      BY <1>2, <1>3, <1>7, <2>3 DEF InUse, LiveAt
    <3>2. \A j \in born(e) : FALSE
      <4> SUFFICES ASSUME NEW j \in born(e) PROVE FALSE
        OBVIOUS
      <4>1. j \in Bufs /\ LiveAt(j, at) /\ j # i /\ e \in Region(j)
        BY <1>2, <1>3, <2>3 DEF LiveAt
      <4> QED
        BY <1>4, <1>7, <4>1
    <3> QED
      BY <1>6, <2>1, <3>1, <3>2 DEF ExecInv
  <2> QED
    BY <2>2, <2>3
<1>8. lost' = {}
  BY <1>1, <1>7
<1> DEFINE dies(e) == \E j \in Bufs : Dying(j, at) /\ e \in Region(j)
<1>9. /\ ws' \in [Elements -> {NaN} \union {F[e] : e \in Elements}]
      /\ \A e \in Elements : ws'[e] = IF dies(e) THEN NaN ELSE F[e]
  BY <1>1 DEF Poisoned
\* Data that the canary leaves belongs to a buffer that is still in use.
<1>10. ASSUME NEW e \in Elements, ws'[e] # NaN
       PROVE  /\ ws'[e] \in Bufs /\ e \in Region(ws'[e]) /\ LiveAt(ws'[e], at)
              /\ ~ Dying(ws'[e], at) /\ ws'[e] = F[e]
  <2>1. ~ dies(e) /\ ws'[e] = F[e]
    BY <1>9, <1>10
  <2>2. CASE born(e) = {}
    <3>1. F[e] = ws[e] /\ ws[e] # NaN /\ ws[e] \in 0 .. N
      BY <1>2, <1>6, <1>10, <2>1, <2>2
    <3>2. ws[e] \in Bufs
      BY <1>2, <3>1 DEF Bufs, NaN
    <3>3. InUse(ws[e]) /\ e \in Region(ws[e])
      BY <3>1 DEF ExecInv
    <3>4. LiveAt(ws[e], at)
      BY <1>1, <1>2, <1>3, <3>2, <3>3 DEF InUse, LiveAt
    <3> QED
      BY <2>1, <3>1, <3>2, <3>3, <3>4
  <2>3. CASE born(e) # {}
    <3>1. PICK i \in Bufs : i \in born(e)
      BY <2>3
    <3>2. F[e] = i
      BY <1>5, <3>1
    <3>3. LiveAt(i, at)
      BY <1>2, <1>3, <3>1 DEF LiveAt
    <3> QED
      BY <2>1, <3>1, <3>2, <3>3
  <2> QED
    BY <2>2, <2>3
<1>11. ws' \in [Elements -> 0 .. N]
  <2>1. DOMAIN ws' = Elements /\ ws' = [e \in Elements |-> ws'[e]]
    BY <1>9
  <2>2. \A e \in Elements : ws'[e] \in 0 .. N
    BY <1>2, <1>3, <1>10 DEF NaN
  <2> QED
    BY <2>1, <2>2
<1>12. \A i : Region(i)' = Region(i)
  BY <1>1 DEF Region
<1>13. ASSUME NEW i \in Bufs, InUse(i)', NEW e \in Region(i) PROVE ws'[e] = i
  <2>1. LiveAt(i, at) /\ ~ Dying(i, at)
    BY <1>1, <1>2, <1>3, <1>13 DEF InUse, LiveAt, Dying
  <2>2. e \in Elements /\ F[e] = i
    BY <1>3, <1>7, <2>1
  <2>3. ~ dies(e)
    <3> SUFFICES ASSUME NEW j \in Bufs, Dying(j, at), e \in Region(j) PROVE FALSE
      OBVIOUS
    <3>1. LiveAt(j, at) /\ j # i
      BY <1>2, <1>3, <2>1 DEF Dying, LiveAt
    <3> QED
      BY <1>4, <1>13, <2>1, <3>1
  <2> QED
    BY <1>9, <2>2, <2>3
<1>14. ASSUME NEW e \in Elements, ws'[e] # NaN
       PROVE  InUse(ws[e])' /\ e \in Region(ws[e])'
  <2>1. /\ ws'[e] \in Bufs /\ e \in Region(ws'[e]) /\ LiveAt(ws'[e], at) /\ ~ Dying(ws'[e], at)
    BY <1>10, <1>14
  <2> DEFINE w == ws'[e]
  <2>2. w \in Bufs /\ LiveAt(w, at) /\ ~ Dying(w, at)
    BY <2>1
  <2> HIDE DEF w
  <2>3. life'[w][1] < at' /\ (at' <= life'[w][2] \/ life'[w][2] = MaxPhase)
    BY <1>1, <1>2, <1>3, <2>2 DEF LiveAt, Dying
  <2>4. e \in Region(ws[e])'
    BY <1>1, <2>1 DEF Region
  <2> QED
    BY <2>3, <2>4 DEF InUse, w
<1>15. alarm' = {}
  <2> SUFFICES ASSUME NEW i \in Bufs, life[i][1] > at, ~ HasLiveCooccupant(i, at),
                      NEW e \in Region(i), ws'[e] # NaN
               PROVE  FALSE
    BY <1>1 DEF Tripped
  <2>1. e \in Elements
    BY <1>3
  <2>2. ws'[e] \in Bufs /\ e \in Region(ws'[e]) /\ LiveAt(ws'[e], at)
    BY <1>10, <2>1
  <2>3. ws'[e] # i
    BY <1>2, <1>3, <2>2 DEF LiveAt
  <2> QED
    BY <2>2, <2>3 DEF HasLiveCooccupant
<1>16. at' \in 0 .. MaxPhase + 1 /\ WorkspaceHolds' /\ Elements' = Elements
  BY <1>1, <1>2 DEF ExecInv, WorkspaceHolds, Elements, AlignUp
<1> HIDE DEF F, born, dies
<1>17. \A i \in Bufs : InUse(i)' => \A e \in Region(i)' : ws'[e] = i
  BY <1>12, <1>13
<1>18. \A e \in Elements : ws'[e] # NaN => InUse(ws[e])' /\ e \in Region(ws[e])'
  BY <1>14
<1>19. (at' > 0 => total' # -1) /\ (total' # -1 => cur' = N + 1)
  BY <1>1, <1>2
<1> QED
  BY <1>8, <1>11, <1>15, <1>16, <1>17, <1>18, <1>19, Zenon DEF ExecInv

-----------------------------------------------------------------------------
(* Both ways to start *)

LEMMA FreshSearch ==
    ASSUME PackInv, cur = 1, candidate = 0
    PROVE  SearchInv
<1>1. Room(0) = 0 /\ 0 % ALIGN = 0
  BY RoomFacts, PlannerAssumption
<1> QED
  BY <1>1 DEF SearchInv, LowestOffset

LEMMA FreshExec ==
    ASSUME PackInv, total = -1, at = 0, ws = [e \in Elements |-> NaN], alarm = {}, lost = {}
    PROVE  ExecInv
<1>1. N \in Nat /\ MaxPhase \in Nat
  BY PlannerAssumption
<1>2. \A i \in Bufs : life[i][1] \in Nat
  BY PlannerAssumption DEF PackInv, Lives, Stages
<1>3. \A i \in Bufs : ~ InUse(i)
  BY <1>2 DEF InUse
<1>4. ws \in [Elements -> 0 .. N] /\ \A e \in Elements : ws[e] = NaN
  BY <1>1 DEF NaN
<1> QED
  BY <1>1, <1>3, <1>4 DEF ExecInv, WorkspaceHolds

LEMMA UnusedPack == NoWorkspace => PackInv
<1> SUFFICES ASSUME NoWorkspace PROVE PackInv
  OBVIOUS
<1>1. Sizes \in SUBSET Nat /\ Sizes # {}
  BY PlannerAssumption, SizesAssumption
<1>2. PICK m \in Sizes : \A n \in Sizes : m <= n
  BY <1>1, LeastNat
<1>3. Min(Sizes) \in Sizes
  BY <1>2 DEF Min
<1>4. <<0, 0>> \in Lives
  BY PlannerAssumption DEF Lives, Stages
<1> QED
  BY <1>3, <1>4, PlannerAssumption DEF NoWorkspace, PackInv, NoLiveOverlap

WorkspaceInv == PackInv /\ SearchInv /\ ExecInv

\* The packing, the search and the executor keep their invariants in every
\* compilation, for every set of buffers.
THEOREM WorkspaceInvariance == CompileSpec => []WorkspaceInv
<1>1. CompileInit => WorkspaceInv
  <2> SUFFICES ASSUME CompileInit PROVE WorkspaceInv
    OBVIOUS
  <2>1. PackInv
    BY InitPack, UnusedPack DEF CompileInit, WInit
  <2>2. /\ cur = 1 /\ candidate = 0 /\ total = -1
        /\ at = 0 /\ ws = [e \in Elements |-> NaN] /\ alarm = {} /\ lost = {}
    BY DEF CompileInit, WInit, Init, NoWorkspace
  <2> QED
    BY <2>1, <2>2, FreshSearch, FreshExec DEF WorkspaceInv
<1>2. WorkspaceInv /\ [CompileNext]_compileVars => WorkspaceInv'
  <2> SUFFICES ASSUME WorkspaceInv, [CompileNext]_compileVars PROVE WorkspaceInv'
    OBVIOUS
  <2>1. CASE Next /\ UNCHANGED execVars
    BY <2>1, PackStep, SearchStep, PlanExec DEF WorkspaceInv
  <2>2. CASE RunPhase
    <3>1. UNCHANGED vars
      BY <2>2 DEF RunPhase
    <3> QED
      BY <2>2, <3>1, PackStep, SearchStep, PhaseExec DEF WorkspaceInv
  <2>3. CASE UNCHANGED wsVars
    <3>1. UNCHANGED vars /\ UNCHANGED execVars
      BY <2>3 DEF wsVars
    <3>2. ExecInv'
      BY <3>1 DEF vars, execVars, WorkspaceInv, ExecInv, InUse, Region, WorkspaceHolds, Elements,
                  AlignUp
    <3> QED
      BY <3>1, <3>2, PackStep, SearchStep DEF WorkspaceInv
  <2> QED
    BY <2>1, <2>2, <2>3 DEF CompileNext, PhaseStep, TileStep, WNext, compileVars
<1> QED
  BY <1>1, <1>2, PTL DEF CompileSpec

\* Buffers whose lifetimes overlap never share an element of the workspace.
THEOREM PlanIsLegal == CompileSpec => []NoLiveOverlap
<1>1. WorkspaceInv => NoLiveOverlap
  BY DEF WorkspaceInv, PackInv
<1> QED
  BY <1>1, WorkspaceInvariance, PTL

\* plan_memory gives every buffer the lowest aligned offset at which it meets no
\* buffer placed before it.
THEOREM PlanIsTight == CompileSpec => []LowestOffset
<1>1. WorkspaceInv => LowestOffset
  BY DEF WorkspaceInv, SearchInv
<1> QED
  BY <1>1, WorkspaceInvariance, PTL

\* The workspace holds every buffer, every phase finds the data of its live
\* buffers however the memory is reused, the outputs survive the last phase and
\* the NaN canary never raises an alarm.
THEOREM ReuseIsSafe == CompileSpec => []ReuseSafe
<1>1. WorkspaceInv => ReuseSafe
  <2> SUFFICES ASSUME WorkspaceInv PROVE ReuseSafe
    OBVIOUS
  <2>1. MaxPhase \in Nat /\ at \in Nat
    BY PlannerAssumption DEF WorkspaceInv, ExecInv
  <2>2. ASSUME at > MaxPhase, NEW i \in Bufs, LiveAt(i, MaxPhase)
        PROVE  \A e \in Region(i) : ws[e] = i
    <3>1. life[i] \in Lives
      BY DEF WorkspaceInv, PackInv
    <3>2. InUse(i)
      BY <2>1, <2>2, <3>1 DEF InUse, LiveAt, Lives, Stages
    <3> QED
      BY <3>2 DEF WorkspaceInv, ExecInv
  <2> QED
    BY <2>2 DEF ReuseSafe, WorkspaceInv, ExecInv
<1> QED
  BY <1>1, WorkspaceInvariance, PTL

\* The search for an offset never tries the same place twice.
THEOREM SearchProgress == CompileSpec => SearchAdvances
<1>1. ASSUME PackInv, [CompileNext]_compileVars
      PROVE  [cur' = cur /\ cur <= N => candidate' > candidate]_vars
  <2> SUFFICES ASSUME Next, cur' = cur, cur <= N PROVE candidate' > candidate
    BY <1>1 DEF CompileNext, PhaseStep, TileStep, WNext, RunPhase, compileVars, wsVars
  <2> DEFINE c == AlignUp(candidate)
  <2>1. cur \in Nat /\ N \in Nat /\ c \in Nat /\ candidate \in Nat /\ c >= candidate
    BY PlannerAssumption, <1>1, AlignUpBounds DEF PackInv
  <2>2. Skip
    <3>1. ~ Place
      BY <2>1 DEF Place
    <3>2. ~ Total
      BY <2>1 DEF Total
    <3> QED
      BY <3>1, <3>2 DEF Next
  <2>3. PICK b \in InTheWay(c) : candidate' = Behind(b)
    BY <2>2 DEF Skip
  <2>4. b \in Bufs /\ c < Behind(b)
    BY <2>1, <2>3 DEF InTheWay, Conflicts, Behind, Bufs
  <2>5. Behind(b) \in Nat
    <3>1. numel[b] \in Nat /\ offset[b] \in Nat
      BY PlannerAssumption, <1>1, <2>4 DEF PackInv
    <3> QED
      BY <3>1, AlignUpBounds DEF Behind
  <2> HIDE DEF c
  <2> QED
    BY <2>1, <2>3, <2>4, <2>5
<1>2. WorkspaceInv => PackInv
  BY DEF WorkspaceInv
<1> QED
  BY <1>1, <1>2, WorkspaceInvariance, PTL DEF CompileSpec, SearchAdvances

-----------------------------------------------------------------------------
(* Sequences without repetition *)

Distinct(s) == \A m, n \in 1 .. Len(s) : m # n => s[m] # s[n]

LEMMA ToSetIs ==
    ASSUME NEW S, NEW s \in Seq(S)
    PROVE  ToSet(s) = {s[n] : n \in 1 .. Len(s)} /\ ToSet(s) \subseteq S
<1>1. DOMAIN s = 1 .. Len(s) /\ \A n \in 1 .. Len(s) : s[n] \in S
  OBVIOUS
<1> QED
  BY <1>1 DEF ToSet

LEMMA DistinctCount ==
    ASSUME NEW S, NEW s \in Seq(S), Distinct(s)
    PROVE  IsFiniteSet(ToSet(s)) /\ Cardinality(ToSet(s)) = Len(s)
<1> DEFINE T == ToSet(s)
<1>1. T = {s[n] : n \in 1 .. Len(s)} /\ Len(s) \in Nat
  BY ToSetIs
<1> HIDE DEF T
<1>2. s \in [1 .. Len(s) -> T]
  BY <1>1
<1>3. s \in Bijection(1 .. Len(s), T)
  BY <1>1, <1>2 DEF Distinct, Bijection, Injection, Surjection, IsInjective
<1>4. ExistsBijection(1 .. Len(s), T)
  BY <1>3 DEF ExistsBijection
<1>5. Cardinality(T) = Len(s)
  BY <1>1, <1>4, FS_CountingElements
<1>6. IsFiniteSet(T)
  BY <1>1, <1>4, FS_NatBijection
<1> QED
  BY <1>5, <1>6 DEF T

\* SetToSeqs(S) are the orders of S.
LEMMA SetToSeqsIs ==
    ASSUME NEW S, IsFiniteSet(S), NEW s \in SetToSeqs(S)
    PROVE  s \in Seq(S) /\ Distinct(s) /\ ToSet(s) = S
<1> DEFINE n == Cardinality(S)
<1>1. n \in Nat
  BY FS_CardinalityType
<1>2. s \in [1 .. n -> S] /\ \A i, j \in 1 .. n : i # j => s[i] # s[j]
  BY DEF SetToSeqs
<1> HIDE DEF n
<1>3. s \in Seq(S) /\ Len(s) = n
  BY <1>1, <1>2
<1>4. Distinct(s)
  BY <1>2, <1>3 DEF Distinct
<1>5. s \in Injection(1 .. n, S)
  BY <1>2 DEF Injection, IsInjective
<1>6. Cardinality(1 .. n) = n
  BY <1>1, FS_Interval
<1>7. s \in Surjection(1 .. n, S)
  <2>1. Cardinality(1 .. n) = Cardinality(S)
    BY <1>6 DEF n
  <2> QED
    BY <1>5, <2>1, FS_Injection
<1>8. ToSet(s) = S
  <2>1. ToSet(s) = {s[i] : i \in 1 .. n}
    BY <1>3, ToSetIs
  <2>2. \A x \in S : \E i \in 1 .. n : s[i] = x
    BY <1>7 DEF Surjection
  <2> QED
    BY <1>2, <2>1, <2>2
<1> QED
  BY <1>3, <1>4, <1>8

LEMMA ToSetEmpty == ToSet(<<>>) = {} /\ Distinct(<<>>)
  BY DEF ToSet, Distinct

LEMMA ToSetHead ==
    ASSUME NEW S, NEW s \in Seq(S), s # <<>>
    PROVE  /\ Head(s) \in S /\ Tail(s) \in Seq(S)
           /\ ToSet(s) = {Head(s)} \union ToSet(Tail(s))
           /\ Distinct(s) => Distinct(Tail(s)) /\ Head(s) \notin ToSet(Tail(s))
<1>1. /\ Len(s) \in Nat \ {0} /\ Head(s) = s[1] /\ Tail(s) \in Seq(S) /\ Len(Tail(s)) = Len(s) - 1
      /\ \A n \in 1 .. Len(s) - 1 : Tail(s)[n] = s[n + 1]
  OBVIOUS
<1>2. s[1] \in S
  BY <1>1
<1>3. ToSet(s) = {s[n] : n \in 1 .. Len(s)} /\ ToSet(Tail(s)) = {Tail(s)[n] : n \in 1 .. Len(s) - 1}
  BY <1>1, ToSetIs
<1>4. ASSUME NEW n \in 1 .. Len(s), n # 1 PROVE s[n] \in ToSet(Tail(s))
  <2>1. n - 1 \in 1 .. Len(s) - 1 /\ Tail(s)[n - 1] = s[n]
    BY <1>1, <1>4
  <2> QED
    BY <1>3, <2>1
<1>5. ASSUME NEW n \in 1 .. Len(s) - 1
      PROVE  n + 1 \in 1 .. Len(s) /\ n + 1 # 1 /\ Tail(s)[n] = s[n + 1]
  BY <1>1
<1>6. ToSet(s) = {Head(s)} \union ToSet(Tail(s))
  <2>1. 1 \in 1 .. Len(s)
    BY <1>1
  <2>2. ToSet(s) \subseteq {Head(s)} \union ToSet(Tail(s))
    BY <1>1, <1>3, <1>4
  <2>3. {Head(s)} \union ToSet(Tail(s)) \subseteq ToSet(s)
    BY <1>1, <1>3, <1>5, <2>1
  <2> QED
    BY <2>2, <2>3
<1>7. ASSUME Distinct(s) PROVE Distinct(Tail(s)) /\ Head(s) \notin ToSet(Tail(s))
  <2>1. 1 \in 1 .. Len(s)
    BY <1>1
  <2>2. \A n \in 1 .. Len(s) - 1 : Tail(s)[n] # s[1]
    BY <1>5, <1>7, <2>1 DEF Distinct
  <2>3. Head(s) \notin ToSet(Tail(s))
    BY <1>1, <1>3, <2>2
  <2>4. Distinct(Tail(s))
    <3> SUFFICES ASSUME NEW m \in 1 .. Len(s) - 1, NEW n \in 1 .. Len(s) - 1, m # n
                 PROVE  Tail(s)[m] # Tail(s)[n]
      BY <1>1 DEF Distinct
    <3>1. m + 1 # n + 1
      OBVIOUS
    <3> QED
      BY <1>5, <1>7, <3>1 DEF Distinct
  <2> QED
    BY <2>3, <2>4
<1> QED
  BY <1>1, <1>2, <1>6, <1>7

LEMMA ToSetConcat ==
    ASSUME NEW S, NEW s \in Seq(S), NEW u \in Seq(S)
    PROVE  /\ s \o u \in Seq(S)
           /\ ToSet(s \o u) = ToSet(s) \union ToSet(u)
           /\ Distinct(s) /\ Distinct(u) /\ ToSet(s) \intersect ToSet(u) = {} => Distinct(s \o u)
<1> DEFINE v == s \o u
<1>1. /\ v \in Seq(S) /\ Len(v) = Len(s) + Len(u) /\ Len(s) \in Nat /\ Len(u) \in Nat
      /\ \A n \in 1 .. Len(s) : v[n] = s[n]
      /\ \A n \in 1 .. Len(u) : v[n + Len(s)] = u[n]
  OBVIOUS
<1> HIDE DEF v
<1>2. /\ ToSet(s) = {s[n] : n \in 1 .. Len(s)} /\ ToSet(u) = {u[n] : n \in 1 .. Len(u)}
      /\ ToSet(v) = {v[n] : n \in 1 .. Len(v)}
  BY <1>1, ToSetIs
<1>3. \A n \in 1 .. Len(v) : \/ n \in 1 .. Len(s) /\ v[n] = s[n]
                             \/ n - Len(s) \in 1 .. Len(u) /\ v[n] = u[n - Len(s)]
  <2> TAKE n \in 1 .. Len(v)
  <2>1. CASE n <= Len(s)
    BY <1>1, <2>1
  <2>2. CASE n > Len(s)
    <3>1. n - Len(s) \in 1 .. Len(u) /\ (n - Len(s)) + Len(s) = n
      BY <1>1, <2>2
    <3> QED
      BY <1>1, <3>1
  <2> QED
    BY <1>1, <2>1, <2>2
<1>4. ToSet(v) = ToSet(s) \union ToSet(u)
  <2>1. ToSet(v) \subseteq ToSet(s) \union ToSet(u)
    BY <1>2, <1>3
  <2>2. \A n \in 1 .. Len(s) : n \in 1 .. Len(v)
    BY <1>1
  <2>3. \A n \in 1 .. Len(u) : n + Len(s) \in 1 .. Len(v)
    BY <1>1
  <2>4. ToSet(s) \subseteq ToSet(v)
    BY <1>1, <1>2, <2>2
  <2>5. ToSet(u) \subseteq ToSet(v)
    BY <1>1, <1>2, <2>3
  <2> QED
    BY <2>1, <2>4, <2>5
<1>5. ASSUME Distinct(s), Distinct(u), ToSet(s) \intersect ToSet(u) = {} PROVE Distinct(v)
  <2> SUFFICES ASSUME NEW m \in 1 .. Len(v), NEW n \in 1 .. Len(v), m # n PROVE v[m] # v[n]
    BY DEF Distinct
  <2>1. \A k \in 1 .. Len(s) : \A l \in 1 .. Len(u) : s[k] # u[l]
    BY <1>2, <1>5
  <2>2. m - Len(s) # n - Len(s)
    BY <1>1
  <2> QED
    BY <1>3, <1>5, <2>1, <2>2 DEF Distinct
<1> QED
  BY <1>1, <1>4, <1>5 DEF v

LEMMA ToSetAppend ==
    ASSUME NEW S, NEW s \in Seq(S), NEW x \in S
    PROVE  /\ Append(s, x) \in Seq(S) /\ Len(Append(s, x)) = Len(s) + 1
           /\ ToSet(Append(s, x)) = ToSet(s) \union {x}
           /\ \A n \in 1 .. Len(s) : Append(s, x)[n] = s[n]
           /\ Append(s, x)[Len(s) + 1] = x
           /\ Distinct(s) /\ x \notin ToSet(s) => Distinct(Append(s, x))
<1>1. /\ Append(s, x) \in Seq(S) /\ Len(Append(s, x)) = Len(s) + 1 /\ Len(s) \in Nat
      /\ \A n \in 1 .. Len(s) : Append(s, x)[n] = s[n]
      /\ Append(s, x)[Len(s) + 1] = x
  OBVIOUS
<1>2. ToSet(s) = {s[n] : n \in 1 .. Len(s)}
  BY ToSetIs
<1>3. ToSet(Append(s, x)) = {Append(s, x)[n] : n \in 1 .. Len(s) + 1}
  BY <1>1, ToSetIs
<1>4. \A n \in 1 .. Len(s) + 1 : n \in 1 .. Len(s) \/ n = Len(s) + 1
  BY <1>1
<1>5. \A n \in 1 .. Len(s) : n \in 1 .. Len(s) + 1
  BY <1>1
<1>6. Len(s) + 1 \in 1 .. Len(s) + 1
  BY <1>1
<1> DEFINE a == Append(s, x)
<1> HIDE DEF a
<1>7. ToSet(a) = ToSet(s) \union {x}
  BY <1>1, <1>2, <1>3, <1>4, <1>5, <1>6 DEF a
<1>8. ASSUME Distinct(s), x \notin ToSet(s) PROVE Distinct(a)
  BY <1>1, <1>2, <1>4, <1>8 DEF Distinct, a
<1> QED
  BY <1>1, <1>7, <1>8 DEF a

-----------------------------------------------------------------------------
(* Kahn's loop and the two runs *)

\* Every task stands in the order behind all its predecessors.
Topological ==
    \A n \in 1 .. Len(order) : \A k \in preds[order[n]] : \E m \in 1 .. n - 1 : order[m] = k

TileTypes ==
    /\ preds \in [Tasks -> SUBSET Tasks]
    /\ order \in Seq(Tasks) /\ ready \in Seq(Tasks)
    /\ held \in [Workers -> Tasks \union {None}]
    /\ complete \subseteq Tasks /\ enqueued \subseteq Tasks
    /\ plan \in {"dynamic", "static"}
    /\ mode \in {"check", "run", "finished", "error", "unused"}

\* Kahn's loop has taken, or has ready, the tasks without an open predecessor.
KahnInv ==
    /\ Distinct(order) /\ Distinct(ready) /\ ToSet(order) \intersect ToSet(ready) = {}
    /\ retired = Len(order)
    /\ remaining = [k \in Tasks |-> Cardinality(preds[k] \ ToSet(order))]
    /\ ToSet(order) \union ToSet(ready) = {k \in Tasks : preds[k] \subseteq ToSet(order)}

\* The dispatch loop: what was ever enqueued is waiting, in hand or complete.
RunInv ==
    /\ Distinct(ready)
    /\ \A v, w \in Workers : v # w /\ held[v] # None => held[v] # held[w]
    /\ ToSet(ready) \intersect (InHand \union complete) = {} /\ InHand \intersect complete = {}
    /\ enqueued = ToSet(ready) \union InHand \union complete
    /\ remaining = [k \in Tasks |-> Cardinality(preds[k] \ complete)]
    /\ \A k \in enqueued : preds[k] \subseteq complete

Running == mode \in {"run", "finished"}

TileInv ==
    /\ TileTypes /\ Topological /\ PredsFirst
    /\ mode = "check" => KahnInv
    /\ ~ Running => complete = {} /\ \A w \in Workers : held[w] = None
    /\ mode \in {"error", "unused"} => ready = <<>>
    /\ mode = "error" => \E S \in SUBSET Tasks : Circular(S)
    /\ Running => ToSet(order) = Tasks
    /\ Running /\ plan = "dynamic" => RunInv

\* Of any tasks, one is the first in the order.
LEMMA FirstOf ==
    ASSUME TileTypes, NEW S \in SUBSET ToSet(order), S # {}
    PROVE  \E n \in 1 .. Len(order) : order[n] \in S /\ \A m \in 1 .. n - 1 : order[m] \notin S
<1>1. ToSet(order) = {order[n] : n \in 1 .. Len(order)} /\ Len(order) \in Nat
  BY ToSetIs DEF TileTypes
<1> DEFINE I == {n \in 1 .. Len(order) : order[n] \in S}
<1>2. I \in SUBSET Nat /\ I # {}
  BY <1>1
<1>3. PICK n \in I : \A m \in I : n <= m
  BY <1>2, LeastNat
<1>4. ASSUME NEW m \in 1 .. n - 1 PROVE order[m] \notin S
  <2>1. n \in Nat /\ n <= Len(order) /\ m \in Nat /\ m < n /\ m \in 1 .. Len(order)
    BY <1>1, <1>2, <1>3
  <2>2. m \notin I
    BY <1>3, <2>1
  <2> QED
    BY <2>1, <2>2
<1> QED
  BY <1>3, <1>4

LEMMA NotCircular ==
    ASSUME TileTypes, Topological, ToSet(order) = Tasks
    PROVE  ~ \E S \in SUBSET Tasks : Circular(S)
<1> SUFFICES ASSUME NEW S \in SUBSET Tasks, Circular(S) PROVE FALSE
  OBVIOUS
<1>1. PICK n \in 1 .. Len(order) : order[n] \in S /\ \A m \in 1 .. n - 1 : order[m] \notin S
  BY FirstOf DEF Circular
<1>2. PICK k \in S : k \in preds[order[n]]
  BY <1>1 DEF Circular
<1> QED
  BY <1>1, <1>2 DEF Topological

\* The sequences of the static workers follow the order, so they close no cycle.
LEMMA WorkersAddNoCycle ==
    ASSUME TileTypes, Topological, Distinct(order), ToSet(order) = Tasks
    PROVE  AugmentedAcyclic
<1> SUFFICES ASSUME NEW S \in SUBSET Tasks, S # {},
                    \A k \in S : (preds[k] \union Earlier(k)) \intersect S # {}
             PROVE  FALSE
  BY DEF AugmentedAcyclic
<1>1. PICK n \in 1 .. Len(order) : order[n] \in S /\ \A m \in 1 .. n - 1 : order[m] \notin S
  BY FirstOf
<1> DEFINE k == order[n]
<1>2. DOMAIN order = 1 .. Len(order) /\ n \in Nat /\ Len(order) \in Nat
  BY DEF TileTypes
<1>3. Index(k) = n
  <2>1. \A i \in DOMAIN order : order[i] = k => i = n
    BY <1>2 DEF Distinct
  <2> QED
    BY <1>2, <2>1 DEF Index
<1>4. PICK x \in S : x \in preds[k] \/ x \in Earlier(k)
  BY <1>1
<1>5. \E m \in 1 .. n - 1 : order[m] = x
  <2>1. CASE x \in preds[k]
    BY <2>1 DEF Topological
  <2>2. CASE x \in Earlier(k)
    <3>1. PICK m \in DOMAIN order : m < n /\ x = order[m]
      BY <1>3, <2>2 DEF Earlier
    <3>2. m \in 1 .. n - 1
      BY <1>2, <3>1
    <3> QED
      BY <3>1, <3>2
  <2> QED
    BY <1>4, <2>1, <2>2
<1> QED
  BY <1>1, <1>4, <1>5

\* What completing one more task does to the counters.
LEMMA Counted ==
    ASSUME preds \in [Tasks -> SUBSET Tasks], NEW D \in SUBSET Tasks, NEW k \in Tasks, k \notin D,
           remaining = [s \in Tasks |-> Cardinality(preds[s] \ D)]
    PROVE  /\ Decremented(k) = [s \in Tasks |-> Cardinality(preds[s] \ (D \union {k}))]
           /\ \A s \in Tasks : Decremented(k)[s] = 0 <=> preds[s] \subseteq D \union {k}
<1>1. ASSUME NEW s \in Tasks
      PROVE  /\ Cardinality(preds[s] \ (D \union {k})) =
                   IF k \in preds[s] THEN Cardinality(preds[s] \ D) - 1 ELSE Cardinality(preds[s] \ D)
             /\ Cardinality(preds[s] \ (D \union {k})) = 0 <=> preds[s] \subseteq D \union {k}
  <2> DEFINE P == preds[s] \ D
             Q == preds[s] \ (D \union {k})
  <2>1. IsFiniteSet(P) /\ IsFiniteSet(Q) /\ Q = P \ {k} /\ (k \in P <=> k \in preds[s])
    <3>1. P \in SUBSET Tasks /\ Q \in SUBSET Tasks
      OBVIOUS
    <3>2. IsFiniteSet(P) /\ IsFiniteSet(Q)
      BY <3>1, FS_Subset, QueueAssumption
    <3>3. Q = P \ {k} /\ (k \in P <=> k \in preds[s])
      OBVIOUS
    <3> QED
      BY <3>2, <3>3
  <2> HIDE DEF P, Q
  <2>2. Cardinality(Q) = IF k \in P THEN Cardinality(P) - 1 ELSE Cardinality(P)
    BY <2>1, FS_RemoveElement
  <2>3. Cardinality(Q) = 0 <=> Q = {}
    BY <2>1, FS_EmptySet
  <2>4. Q = {} <=> preds[s] \subseteq D \union {k}
    BY DEF Q
  <2> QED
    BY <2>1, <2>2, <2>3, <2>4 DEF P, Q
<1>2. \A s \in Tasks : s \in Successors(k) <=> k \in preds[s]
  BY DEF Successors
<1>3. Decremented(k) = [s \in Tasks |-> Cardinality(preds[s] \ (D \union {k}))]
  BY <1>1, <1>2 DEF Decremented
<1> QED
  BY <1>1, <1>3

LEMMA FiniteParts ==
    ASSUME NEW S \in SUBSET Tasks
    PROVE  IsFiniteSet(S)
  BY FS_Subset, QueueAssumption

LEMMA KahnStepInv ==
    ASSUME TileInv, TKahnStep
    PROVE  TileInv'
<1> DEFINE k == Head(ready)
           D == ToSet(order)
           new == {s \in Successors(k) : Decremented(k)[s] = 0}
<1>1. /\ mode = "check" /\ ready # <<>> /\ remaining' = Decremented(k) /\ retired' = retired + 1
      /\ order' = Append(order, k) /\ UNCHANGED <<preds, mode, enqueued, held, complete, plan>>
  BY DEF TKahnStep, KahnStep
<1>2. PICK u \in SetToSeqs(new) : ready' = Tail(ready) \o u
  BY DEF TKahnStep, KahnStep
<1>3. TileTypes /\ KahnInv /\ ~ Running /\ Topological
  BY <1>1 DEF TileInv, Running
<1>4. /\ k \in Tasks /\ Tail(ready) \in Seq(Tasks) /\ ToSet(ready) = {k} \union ToSet(Tail(ready))
      /\ Distinct(Tail(ready)) /\ k \notin ToSet(Tail(ready)) /\ k \notin D /\ D \subseteq Tasks
      /\ D \intersect ToSet(Tail(ready)) = {}
  <2>1. /\ k \in Tasks /\ Tail(ready) \in Seq(Tasks) /\ ToSet(ready) = {k} \union ToSet(Tail(ready))
        /\ Distinct(Tail(ready)) /\ k \notin ToSet(Tail(ready))
    BY <1>1, <1>3, ToSetHead DEF TileTypes, KahnInv
  <2>2. D \subseteq Tasks
    BY <1>3, ToSetIs DEF TileTypes
  <2> QED
    BY <1>3, <2>1, <2>2 DEF KahnInv
<1> HIDE DEF k
<1>5. /\ Decremented(k) = [s \in Tasks |-> Cardinality(preds[s] \ (D \union {k}))]
      /\ \A s \in Tasks : Decremented(k)[s] = 0 <=> preds[s] \subseteq D \union {k}
  BY <1>3, <1>4, Counted DEF TileTypes, KahnInv
<1>6. new = {s \in Tasks : k \in preds[s] /\ preds[s] \subseteq D \union {k}}
  BY <1>5 DEF Successors
<1> HIDE DEF new, D
<1>7. u \in Seq(Tasks) /\ Distinct(u) /\ ToSet(u) = new
  <2>1. new \in SUBSET Tasks /\ IsFiniteSet(new)
    BY <1>6, FiniteParts
  <2>2. u \in Seq(new) /\ Distinct(u) /\ ToSet(u) = new
    BY <1>2, <2>1, SetToSeqsIs
  <2> QED
    BY <2>1, <2>2
<1>8. /\ order' \in Seq(Tasks) /\ ToSet(order') = D \union {k} /\ Distinct(order')
      /\ Len(order') = Len(order) + 1 /\ Len(order) \in Nat
      /\ \A n \in 1 .. Len(order) : order'[n] = order[n]
      /\ order'[Len(order) + 1] = k
  BY <1>1, <1>3, <1>4, ToSetAppend DEF TileTypes, KahnInv, D
<1>9. /\ D \union ToSet(ready) = {s \in Tasks : preds[s] \subseteq D} /\ retired = Len(order)
  BY <1>3 DEF KahnInv, D
<1>10. ToSet(Tail(ready)) \intersect new = {} /\ D \intersect new = {} /\ k \notin new
  BY <1>4, <1>6, <1>9
<1>11. ready' \in Seq(Tasks) /\ ToSet(ready') = ToSet(Tail(ready)) \union new /\ Distinct(ready')
  <2> DEFINE rest == Tail(ready)
  <2>1. rest \in Seq(Tasks) /\ Distinct(rest) /\ ToSet(rest) \intersect ToSet(u) = {}
    BY <1>4, <1>7, <1>10
  <2> HIDE DEF rest
  <2>2. /\ rest \o u \in Seq(Tasks) /\ Distinct(rest \o u)
        /\ ToSet(rest \o u) = ToSet(rest) \union ToSet(u)
    <3>1. u \in Seq(Tasks) /\ Distinct(u)
      BY <1>7
    <3>2. \A s, t \in Seq(Tasks) :
             /\ s \o t \in Seq(Tasks) /\ ToSet(s \o t) = ToSet(s) \union ToSet(t)
             /\ Distinct(s) /\ Distinct(t) /\ ToSet(s) \intersect ToSet(t) = {} => Distinct(s \o t)
      BY ToSetConcat, ZenonT(40)
    <3> QED
      BY <2>1, <3>1, <3>2, Zenon
  <2> QED
    BY <1>2, <1>7, <2>2 DEF rest
<1>12. TileTypes'
  BY <1>1, <1>3, <1>8, <1>11 DEF TileTypes
<1>13. Topological'
  <2> SUFFICES ASSUME NEW n \in 1 .. Len(order) + 1, NEW x \in preds[order'[n]]
               PROVE  \E m \in 1 .. n - 1 : order'[m] = x
    BY <1>1, <1>8 DEF Topological
  <2>1. CASE n \in 1 .. Len(order)
    <3>1. PICK m \in 1 .. n - 1 : order[m] = x
      BY <1>3, <1>8, <2>1 DEF Topological
    <3>2. m \in 1 .. Len(order)
      BY <1>8, <2>1
    <3> QED
      BY <1>8, <3>1, <3>2
  <2>2. CASE n = Len(order) + 1
    <3>1. x \in D
      BY <1>4, <1>8, <1>9, <2>2
    <3>2. PICK m \in 1 .. Len(order) : order[m] = x
      BY <1>3, <3>1, ToSetIs DEF D, TileTypes
    <3>3. m \in 1 .. n - 1
      BY <1>8, <2>2
    <3> QED
      BY <1>8, <3>2, <3>3
  <2> QED
    BY <1>8, <2>1, <2>2
<1>14. KahnInv'
  <2>1. ToSet(order') \intersect ToSet(ready') = {}
    BY <1>4, <1>8, <1>10, <1>11
  <2>2. ToSet(order') \union ToSet(ready') = {s \in Tasks : preds[s] \subseteq ToSet(order')}
    BY <1>4, <1>6, <1>8, <1>9, <1>11
  <2>3. remaining' = [s \in Tasks |-> Cardinality(preds[s] \ ToSet(order'))]
    BY <1>1, <1>5, <1>8
  <2> QED
    BY <1>1, <1>8, <1>9, <1>11, <2>1, <2>2, <2>3 DEF KahnInv
<1>15. PredsFirst' /\ complete' = {} /\ \A w \in Workers : held'[w] = None
  BY <1>1, <1>3 DEF TileInv, PredsFirst
<1> QED
  BY <1>1, <1>12, <1>13, <1>14, <1>15 DEF TileInv, Running

LEMMA KahnEndsInv ==
    ASSUME TileInv, TKahnEnds
    PROVE  TileInv'
<1>1. mode = "check" /\ ready = <<>> /\ UNCHANGED <<preds, held, complete, tasks, plan, order>>
  BY DEF TKahnEnds, KahnEnds
<1>2. TileTypes /\ KahnInv /\ ~ Running /\ Topological /\ complete = {} /\ \A w \in Workers : held[w] = None
  BY <1>1 DEF TileInv, Running
<1>3. /\ ToSet(order) = {s \in Tasks : preds[s] \subseteq ToSet(order)}
      /\ IsFiniteSet(ToSet(order)) /\ Cardinality(ToSet(order)) = Len(order)
      /\ ToSet(order) \subseteq Tasks /\ retired = Len(order)
  BY <1>1, <1>2, ToSetEmpty, DistinctCount, ToSetIs DEF KahnInv, TileTypes
<1>4. AllSeen => ToSet(order) = Tasks
  <2> SUFFICES ASSUME AllSeen PROVE ToSet(order) = Tasks
    OBVIOUS
  <2>1. Cardinality(ToSet(order)) = Cardinality(Tasks) /\ ToSet(order) \in SUBSET Tasks
    BY <1>3 DEF AllSeen
  <2> QED
    BY <2>1, FS_Subset, QueueAssumption
<1>5. ~ AllSeen => \E S \in SUBSET Tasks : Circular(S)
  <2> SUFFICES ASSUME ~ AllSeen PROVE \E S \in SUBSET Tasks : Circular(S)
    OBVIOUS
  <2> DEFINE S == Tasks \ ToSet(order)
  <2>1. S # {}
    <3> SUFFICES ASSUME S = {} PROVE FALSE
      OBVIOUS
    <3>1. ToSet(order) = Tasks
      BY <1>3
    <3>2. retired = Cardinality(ToSet(order))
      BY <1>3, Zenon
    <3> QED
      BY <3>1, <3>2, Zenon DEF AllSeen
  <2>2. ASSUME NEW k \in S PROVE preds[k] \intersect S # {}
    BY <1>2, <1>3 DEF TileTypes
  <2> QED
    BY <2>1, <2>2 DEF Circular
<1>6. AllSeen => AugmentedAcyclic
  BY <1>2, <1>4, WorkersAddNoCycle DEF KahnInv
<1>7. KahnEnds
  BY <1>6 DEF TKahnEnds
<1>8. Topological' /\ PredsFirst' /\ complete' = {} /\ \A w \in Workers : held'[w] = None
  BY <1>1, <1>2 DEF Topological, PredsFirst
<1>9. CASE ~ AllSeen
  <2>1. mode' = "error" /\ UNCHANGED <<remaining, ready, enqueued, retired>>
    BY <1>7, <1>9 DEF KahnEnds
  <2>2. \E S \in SUBSET Tasks : Circular(S)'
    BY <1>1, <1>5, <1>9 DEF Circular
  <2>3. TileTypes'
    BY <1>1, <1>2, <2>1 DEF TileTypes
  <2> QED
    BY <1>1, <1>8, <2>1, <2>2, <2>3 DEF TileInv, Running
<1>10. CASE AllSeen
  <2>1. mode' = "run" /\ Seed
    BY <1>7, <1>10 DEF KahnEnds
  <2>2. Roots \in SUBSET Tasks /\ IsFiniteSet(Roots)
    BY FiniteParts DEF Roots
  <2>3. ready' \in Seq(Tasks) /\ Distinct(ready') /\ ToSet(ready') = Roots
    <3>1. ready' \in Seq(Roots) /\ Distinct(ready') /\ ToSet(ready') = Roots
      BY <2>1, <2>2, SetToSeqsIs DEF Seed
    <3> QED
      BY <2>2, <3>1
  <2>4. TileTypes'
    BY <1>1, <1>2, <2>1, <2>2, <2>3 DEF TileTypes, Seed
  <2>5. InHand' = {}
    BY <1>8 DEF InHand
  <2>6. remaining' = [k \in Tasks |-> Cardinality(preds[k] \ complete')]
    <3>1. \A k \in Tasks : preds[k] \ {} = preds[k]
      OBVIOUS
    <3> QED
      BY <1>8, <2>1, <3>1 DEF Seed
  <2>7. RunInv'
    BY <1>1, <1>8, <2>1, <2>3, <2>5, <2>6 DEF RunInv, Seed, Roots
  <2> QED
    BY <1>1, <1>4, <1>8, <1>10, <2>1, <2>4, <2>7 DEF TileInv, Running
<1> QED
  BY <1>9, <1>10

\* Tasks in hand when a worker takes a task up or puts it down.
LEMMA Hands ==
    ASSUME NEW w \in Workers, NEW x \in Tasks \union {None},
           held \in [Workers -> Tasks \union {None}], held' = [held EXCEPT ![w] = x],
           \A v \in Workers : v # w /\ held[v] # None => held[v] # held[w]
    PROVE  /\ held' \in [Workers -> Tasks \union {None}]
           /\ held'[w] = x /\ \A v \in Workers : v # w => held'[v] = held[v]
           /\ held[w] = None /\ x # None => InHand' = InHand \union {x}
           /\ held[w] # None /\ x = None => InHand' = InHand \ {held[w]} /\ held[w] \in InHand
<1>1. /\ held' \in [Workers -> Tasks \union {None}]
      /\ held'[w] = x /\ \A v \in Workers : v # w => held'[v] = held[v]
  OBVIOUS
<1>2. \A y : y \in InHand <=> \E v \in Workers : held[v] # None /\ held[v] = y
  BY DEF InHand
<1>3. \A y : y \in InHand' <=> \E v \in Workers : held'[v] # None /\ held'[v] = y
  BY DEF InHand
<1>4. ASSUME held[w] = None, x # None PROVE InHand' = InHand \union {x}
  BY <1>1, <1>2, <1>3, <1>4
<1>5. ASSUME held[w] # None, x = None PROVE InHand' = InHand \ {held[w]} /\ held[w] \in InHand
  BY <1>1, <1>2, <1>3, <1>5
<1> QED
  BY <1>1, <1>4, <1>5

LEMMA ClaimInv ==
    ASSUME TileInv, NEW w \in Workers, TClaim(w)
    PROVE  TileInv'
<1> DEFINE k == Head(ready)
<1>1. /\ plan = "dynamic" /\ mode = "run" /\ held[w] = None /\ ready # <<>>
      /\ held' = [held EXCEPT ![w] = k] /\ ready' = Tail(ready)
      /\ UNCHANGED <<preds, mode, remaining, enqueued, retired, complete, plan, order>>
  BY DEF TClaim, Claim
<1>2. TileTypes /\ RunInv /\ PredsFirst /\ Running
  BY <1>1 DEF TileInv, Running
<1>3. /\ k \in Tasks /\ k # None /\ Tail(ready) \in Seq(Tasks)
      /\ ToSet(ready) = {k} \union ToSet(Tail(ready))
      /\ Distinct(Tail(ready)) /\ k \notin ToSet(Tail(ready))
  <2>1. /\ k \in Tasks /\ Tail(ready) \in Seq(Tasks)
        /\ ToSet(ready) = {k} \union ToSet(Tail(ready))
        /\ Distinct(Tail(ready)) /\ k \notin ToSet(Tail(ready))
    BY <1>1, <1>2, ToSetHead DEF TileTypes, RunInv
  <2> QED
    BY <2>1, QueueAssumption DEF None
<1> HIDE DEF k
<1>4. /\ held' \in [Workers -> Tasks \union {None}]
      /\ held'[w] = k /\ \A v \in Workers : v # w => held'[v] = held[v]
      /\ InHand' = InHand \union {k}
  BY <1>1, <1>2, <1>3, Hands DEF TileTypes, RunInv
<1>5. k \notin InHand /\ k \notin complete /\ preds[k] \subseteq complete
  BY <1>2, <1>3 DEF RunInv
<1>6. \A v \in Workers : held[v] # None => held[v] \in InHand
  BY DEF InHand
<1>7. TileTypes' /\ PredsFirst'
  BY <1>1, <1>2, <1>3, <1>4, <1>5 DEF TileTypes, PredsFirst
<1>8. RunInv'
  <2>1. \A u, v \in Workers : u # v /\ held'[u] # None => held'[u] # held'[v]
    BY <1>2, <1>3, <1>4, <1>5, <1>6 DEF RunInv
  <2>2. /\ ToSet(ready') \intersect (InHand' \union complete') = {}
        /\ InHand' \intersect complete' = {}
        /\ enqueued' = ToSet(ready') \union InHand' \union complete'
    BY <1>1, <1>2, <1>3, <1>4, <1>5 DEF RunInv
  <2> QED
    BY <1>1, <1>2, <1>3, <2>1, <2>2 DEF RunInv
<1> QED
  BY <1>1, <1>2, <1>7, <1>8 DEF TileInv, Topological, Running

LEMMA CompleteInv ==
    ASSUME TileInv, NEW w \in Workers, TComplete(w)
    PROVE  TileInv'
<1> DEFINE k == held[w]
           new == NewlyReady(k)
<1>1. /\ plan = "dynamic" /\ k # None /\ remaining' = Decremented(k)
      /\ enqueued' = enqueued \union new /\ complete' = complete \union {k}
      /\ held' = [held EXCEPT ![w] = None] /\ UNCHANGED <<preds, mode, plan, order>>
  BY DEF TComplete, Complete
<1>2. PICK u \in SetToSeqs(new) : ready' = ready \o u
  BY DEF TComplete, Complete
<1>3. TileTypes /\ RunInv /\ PredsFirst /\ Running
  BY <1>1 DEF TileInv
<1>4. /\ held' \in [Workers -> Tasks \union {None}] /\ k \in Tasks
      /\ held'[w] = None /\ \A v \in Workers : v # w => held'[v] = held[v]
      /\ InHand' = InHand \ {k} /\ k \in InHand
  <2>1. k \in Tasks
    BY <1>1, <1>3 DEF TileTypes
  <2> QED
    BY <1>1, <1>3, <2>1, Hands DEF TileTypes, RunInv
<1> HIDE DEF k
<1>5. k \notin complete /\ k \notin ToSet(ready) /\ complete \subseteq Tasks
  BY <1>3, <1>4 DEF RunInv, TileTypes
<1>6. /\ Decremented(k) = [s \in Tasks |-> Cardinality(preds[s] \ (complete \union {k}))]
      /\ \A s \in Tasks : Decremented(k)[s] = 0 <=> preds[s] \subseteq complete \union {k}
  BY <1>3, <1>4, <1>5, Counted DEF TileTypes, RunInv
<1>7. /\ new \in SUBSET Tasks /\ new \intersect enqueued = {}
      /\ \A s \in new : preds[s] \subseteq complete \union {k}
  BY <1>6 DEF NewlyReady, Successors
<1> HIDE DEF new
<1>8. u \in Seq(Tasks) /\ Distinct(u) /\ ToSet(u) = new
  <2>1. IsFiniteSet(new)
    BY <1>7, FiniteParts
  <2>2. u \in Seq(new) /\ Distinct(u) /\ ToSet(u) = new
    BY <1>2, <2>1, SetToSeqsIs
  <2> QED
    BY <1>7, <2>2
<1>9. ready' \in Seq(Tasks) /\ ToSet(ready') = ToSet(ready) \union new /\ Distinct(ready')
  <2>1. ready \in Seq(Tasks) /\ Distinct(ready) /\ ToSet(ready) \intersect ToSet(u) = {}
    BY <1>3, <1>7, <1>8 DEF TileTypes, RunInv
  <2>2. /\ ready \o u \in Seq(Tasks) /\ Distinct(ready \o u)
        /\ ToSet(ready \o u) = ToSet(ready) \union ToSet(u)
    <3>1. /\ ready \o u \in Seq(Tasks) /\ ToSet(ready \o u) = ToSet(ready) \union ToSet(u)
          /\ Distinct(ready) /\ Distinct(u) /\ ToSet(ready) \intersect ToSet(u) = {} => Distinct(ready \o u)
      BY <1>8, <2>1, ToSetConcat
    <3> QED
      BY <1>8, <2>1, <3>1
  <2> QED
    BY <1>2, <1>8, <2>2
<1>10. TileTypes' /\ PredsFirst'
  <2>1. TileTypes'
    BY <1>1, <1>3, <1>4, <1>7, <1>9 DEF TileTypes
  <2>2. PredsFirst'
    <3> SUFFICES ASSUME NEW v \in Workers, held'[v] # None PROVE preds'[held'[v]] \subseteq complete'
      BY DEF PredsFirst
    <3>1. v # w /\ held'[v] = held[v]
      BY <1>4
    <3>2. preds[held[v]] \subseteq complete
      BY <1>3, <3>1 DEF PredsFirst
    <3> QED
      BY <1>1, <3>1, <3>2
  <2> QED
    BY <2>1, <2>2
<1>11. RunInv'
  <2>1. \A a, b \in Workers : a # b /\ held'[a] # None => held'[a] # held'[b]
    BY <1>3, <1>4 DEF RunInv
  <2>2. /\ ToSet(ready') \intersect (InHand' \union complete') = {}
        /\ InHand' \intersect complete' = {}
        /\ enqueued' = ToSet(ready') \union InHand' \union complete'
    BY <1>1, <1>3, <1>4, <1>5, <1>7, <1>9 DEF RunInv
  <2>3. \A s \in enqueued' : preds'[s] \subseteq complete'
    BY <1>1, <1>3, <1>7 DEF RunInv
  <2>4. remaining' = [s \in Tasks |-> Cardinality(preds'[s] \ complete')]
    BY <1>1, <1>6
  <2> QED
    BY <1>9, <2>1, <2>2, <2>3, <2>4 DEF RunInv
<1> QED
  BY <1>1, <1>3, <1>10, <1>11 DEF TileInv, Topological, Running

LEMMA StartInv ==
    ASSUME TileInv, NEW w \in Workers, NEW k \in Tasks, Start(w, k)
    PROVE  TileInv'
<1>1. /\ plan = "static" /\ mode = "run" /\ preds[k] \subseteq complete
      /\ held' = [held EXCEPT ![w] = k]
      /\ UNCHANGED <<preds, mode, remaining, ready, enqueued, retired, complete, plan, order>>
  BY DEF Start
<1>2. TileTypes /\ Topological /\ PredsFirst /\ ToSet(order) = Tasks
  BY <1>1 DEF TileInv, Running
<1>3. TileTypes'
  BY <1>1, <1>2 DEF TileTypes
<1>4. PredsFirst'
  BY <1>1, <1>2 DEF PredsFirst, TileTypes
<1> QED
  BY <1>1, <1>2, <1>3, <1>4 DEF TileInv, Topological, Running

LEMMA PublishInv ==
    ASSUME TileInv, NEW w \in Workers, Publish(w)
    PROVE  TileInv'
<1>1. /\ plan = "static" /\ held[w] # None /\ complete' = complete \union {held[w]}
      /\ held' = [held EXCEPT ![w] = None]
      /\ UNCHANGED <<preds, mode, remaining, ready, enqueued, plan, order>>
  BY DEF Publish
<1>2. TileTypes /\ Topological /\ PredsFirst /\ Running /\ ToSet(order) = Tasks
  BY <1>1 DEF TileInv
<1>3. TileTypes'
  BY <1>1, <1>2 DEF TileTypes
<1>4. PredsFirst'
  <2> SUFFICES ASSUME NEW v \in Workers, held'[v] # None PROVE preds'[held'[v]] \subseteq complete'
    BY DEF PredsFirst
  <2>1. held'[v] = held[v]
    BY <1>1, <1>2 DEF TileTypes
  <2> QED
    BY <1>1, <1>2, <2>1 DEF PredsFirst
<1> QED
  BY <1>1, <1>2, <1>3, <1>4 DEF TileInv, Topological, Running

LEMMA LoopEndsInv ==
    ASSUME TileInv, TLoopEnds
    PROVE  TileInv'
<1>1. /\ mode = "run" /\ mode' = "finished"
      /\ UNCHANGED <<preds, remaining, ready, enqueued, retired, held, complete, plan, order>>
  BY DEF TLoopEnds, LoopEnds
<1>2. TileTypes /\ Topological /\ PredsFirst /\ ToSet(order) = Tasks /\ (plan = "dynamic" => RunInv)
  BY <1>1 DEF TileInv, Running
<1>3. TileTypes' /\ PredsFirst' /\ Topological'
  BY <1>1, <1>2 DEF TileTypes, PredsFirst, Topological
<1>4. plan' = "dynamic" => RunInv'
  BY <1>1, <1>2 DEF RunInv, InHand
<1> QED
  BY <1>1, <1>2, <1>3, <1>4 DEF TileInv, Running

LEMMA TileStutter ==
    ASSUME TileInv, UNCHANGED tileVars
    PROVE  TileInv'
<1>1. UNCHANGED <<preds, mode, remaining, ready, enqueued, retired, held, complete, plan, order>>
  BY DEF tileVars, queueVars
<1>2. (TileTypes => TileTypes') /\ (Topological => Topological') /\ (PredsFirst => PredsFirst')
  BY <1>1 DEF TileTypes, Topological, PredsFirst
<1>3. (KahnInv => KahnInv') /\ (RunInv => RunInv') /\ (Running' <=> Running)
  BY <1>1 DEF KahnInv, RunInv, Running, InHand
<1>4. \A S : Circular(S) => Circular(S)'
  BY <1>1 DEF Circular
<1> QED
  BY <1>1, <1>2, <1>3, <1>4 DEF TileInv

LEMMA TileInit ==
    CompileInit => TileInv
<1> SUFFICES ASSUME CompileInit PROVE TileInv
  OBVIOUS
<1>1. complete = {} /\ (\A w \in Workers : held[w] = None) /\ order = <<>> /\ enqueued \subseteq Tasks
  BY DEF CompileInit, NoTiles, TInit, QueueInit, Roots
<1>2. held \in [Workers -> Tasks \union {None}] /\ plan \in {"dynamic", "static"}
  BY DEF CompileInit, NoTiles, TInit, QueueInit
<1>3. preds \in [Tasks -> SUBSET Tasks]
  <2>1. \A p, t : Dependencies(p, t) \in [Tasks -> SUBSET Tasks]
    BY DEF Dependencies
  <2>2. [k \in Tasks |-> {}] \in [Tasks -> SUBSET Tasks]
    OBVIOUS
  <2>3. \/ preds = [k \in Tasks |-> {}] \/ preds \in Graphs \/ \E p, t : preds = Dependencies(p, t)
    BY DEF CompileInit, NoTiles, TInit, QueueInit
  <2> QED
    BY <2>1, <2>2, <2>3, QueueAssumption
<1>4. mode = "unused" \/ mode = "check"
  BY DEF CompileInit, NoTiles, TInit, QueueInit
<1>5. order \in Seq(Tasks) /\ Len(order) = 0 /\ ToSet(order) = {} /\ Distinct(order)
  BY <1>1, ToSetEmpty
<1>6. Topological /\ PredsFirst
  BY <1>1, <1>5 DEF Topological, PredsFirst
<1>7. CASE mode = "unused"
  <2>1. ready = <<>>
    BY <1>7 DEF CompileInit, NoTiles, TInit, QueueInit
  <2>2. TileTypes
    BY <1>1, <1>2, <1>3, <1>5, <1>7, <2>1 DEF TileTypes
  <2> QED
    BY <1>1, <1>6, <1>7, <2>1, <2>2 DEF TileInv, Running
<1>8. CASE mode = "check"
  <2>1. /\ remaining = [k \in Tasks |-> Cardinality(preds[k])]
        /\ ready \in SetToSeqs(Roots) /\ retired = 0
    BY <1>8 DEF CompileInit, NoTiles, TInit, QueueInit
  <2>2. Roots \in SUBSET Tasks /\ IsFiniteSet(Roots)
    BY FiniteParts DEF Roots
  <2>3. ready \in Seq(Tasks) /\ Distinct(ready) /\ ToSet(ready) = Roots
    <3>1. ready \in Seq(Roots) /\ Distinct(ready) /\ ToSet(ready) = Roots
      BY <2>1, <2>2, SetToSeqsIs
    <3> QED
      BY <2>2, <3>1
  <2>4. TileTypes
    BY <1>1, <1>2, <1>3, <1>5, <1>8, <2>3 DEF TileTypes
  <2>5. remaining = [k \in Tasks |-> Cardinality(preds[k] \ ToSet(order))]
    <3>1. \A k \in Tasks : preds[k] \ {} = preds[k]
      OBVIOUS
    <3> QED
      BY <1>5, <2>1, <3>1
  <2>6. KahnInv
    BY <1>5, <2>1, <2>3, <2>5 DEF KahnInv, Roots
  <2> QED
    BY <1>1, <1>6, <1>8, <2>4, <2>6 DEF TileInv, Running
<1> QED
  BY <1>4, <1>7, <1>8

\* Whatever the tasks, their predecessors and the workers: what the compiler's
\* tile schedules keep true while Kahn's loop checks a graph (check_acyclic) and
\* while the ready queue or the static workers run it.
THEOREM TileInvariance == CompileSpec => []TileInv
<1>1. CompileInit => TileInv
  BY TileInit
<1>2. TileInv /\ [CompileNext]_compileVars => TileInv'
  <2> SUFFICES ASSUME TileInv, [CompileNext]_compileVars PROVE TileInv'
    OBVIOUS
  <2>1. UNCHANGED tileVars \/ TNext
    BY DEF CompileNext, PhaseStep, TileStep, compileVars
  <2>2. CASE TNext
    BY <2>2, KahnStepInv, KahnEndsInv, ClaimInv, CompleteInv, StartInv, PublishInv, LoopEndsInv DEF TNext
  <2> QED
    BY <2>1, <2>2, TileStutter
<1> QED
  BY <1>1, <1>2, PTL DEF CompileSpec

\* check_acyclic refuses a graph if and only if some of its tasks wait for each
\* other, for every finite graph: no cycle reaches the dispatch loop, where it
\* would deadlock, and no acyclic graph is turned away, by Kahn's count or by the
\* second check of a static worker order.
THEOREM CyclesRefused == CompileSpec => []CycleVerdict
<1>1. TileInv => CycleVerdict
  BY NotCircular DEF TileInv, CycleVerdict, Running
<1> QED
  BY <1>1, TileInvariance, PTL

\* Whatever the order in which workers claim and complete: a task is in hand only
\* after all its predecessors have completed, and the ready queue hands out no
\* task twice.
THEOREM ClaimsAreSound == CompileSpec => []ClaimsSound
<1>1. TileInv => ClaimsSound
  <2> SUFFICES ASSUME TileInv PROVE ClaimsSound
    OBVIOUS
  <2>1. PredsFirst
    BY DEF TileInv
  <2>2. ASSUME plan = "dynamic", mode # "check" PROVE
        /\ Len(ready) = Cardinality(ToSet(ready))
        /\ \A v, w \in Workers : v # w /\ held[v] # None => held[v] # held[w]
        /\ ToSet(ready) \intersect (InHand \union complete) = {}
        /\ InHand \intersect complete = {}
    <3>1. CASE Running
      BY <2>2, <3>1, DistinctCount DEF TileInv, RunInv, TileTypes
    <3>2. CASE ~ Running
      <4>1. ready = <<>> /\ complete = {} /\ \A w \in Workers : held[w] = None
        BY <2>2, <3>2 DEF TileInv, TileTypes, Running
      <4>2. ToSet(ready) = {} /\ Len(ready) = 0 /\ InHand = {}
        BY <4>1, ToSetEmpty DEF InHand
      <4> QED
        BY <4>1, <4>2, FS_EmptySet
    <3> QED
      BY <3>1, <3>2
  <2> QED
    BY <2>1, <2>2 DEF ClaimsSound, AtMostOnce
<1> QED
  BY <1>1, TileInvariance, PTL

-----------------------------------------------------------------------------
(* What the tasks read and leave behind *)

\* Two tasks that touch one cell, one of them writing it, are ordered.
Serialised ==
    \A j, k \in Tasks : j # k =>
        \A c \in Sets(j) \intersect (Sets(k) \union tasks[k].uses) :
            \/ tasks[j].op < tasks[k].op /\ j < k /\ j \in preds[k]
            \/ tasks[k].op < tasks[j].op /\ k < j /\ k \in preds[j]

Began == complete \union InHand

\* Hands are apart, completed tasks are closed under predecessors and counted.
BegunInv ==
    /\ \A v, w \in Workers : v # w /\ held[v] # None => held[v] # held[w]
    /\ InHand \intersect complete = {}
    /\ plan = "static" => \A w \in Workers : held[w] # None => Nth(Index(held[w])) = w
    /\ \A k \in complete : preds[k] \subseteq complete
    /\ Running => retired = Cardinality(complete)
    /\ mode = "finished" => complete = Tasks

\* A cell holds its last writer so far, and a task has met the last before it.
CellsInv ==
    /\ \A c \in DOMAIN mem : mem[c] = LastOf(Began, c)
    /\ \A x \in seen : x[3] = LastOf({j \in Tasks : tasks[j].op < tasks[x[1]].op}, x[2])

SerialInv ==
    /\ \A k \in Tasks : tasks[k].op \in Nat
    /\ Serialised /\ BegunInv /\ CellsInv

LEMMA LastIs ==
    ASSUME NEW W \in SUBSET (Nat \ {0}), NEW k \in W, \A j \in W : j <= k
    PROVE  Max({0} \union W) = k
<1> DEFINE M == {0} \union W
<1>1. M \in SUBSET Nat /\ M # {} /\ \A n \in M : n <= k
  OBVIOUS
<1>2. k \in M /\ k \in Nat
  OBVIOUS
<1> HIDE DEF M
<1>3. Max(M) \in M /\ \A n \in M : n <= Max(M)
  BY <1>1, <1>2, MaxNat
<1>4. Max(M) \in Nat /\ Max(M) <= k /\ k <= Max(M)
  BY <1>1, <1>2, <1>3
<1>5. Max(M) = k
  BY <1>2, <1>4
<1> QED
  BY <1>5 DEF M

LEMMA LastNone == Max({0} \union {}) = 0
<1> DEFINE M == {0} \union {}
<1>1. M \in SUBSET Nat /\ M # {} /\ \A n \in M : n <= 0
  OBVIOUS
<1>2. \A n \in M : n = 0
  OBVIOUS
<1> HIDE DEF M
<1>3. Max(M) \in M
  BY <1>1, MaxNat
<1>4. Max(M) = 0
  BY <1>2, <1>3
<1> QED
  BY <1>4 DEF M

\* While a task is in hand, the writers of a cell it touches that have begun are
\* the earlier ones.
LEMMA Before ==
    ASSUME TileInv, SerialInv, NEW k \in Tasks, k \notin complete, preds[k] \subseteq complete, NEW c
    PROVE  /\ c \in Sets(k) => \A j \in Began : c \in Sets(j) => j <= k
           /\ c \in tasks[k].uses =>
                {j \in Began \ {k} : c \in Sets(j)} = {j \in Tasks : tasks[j].op < tasks[k].op /\ c \in Sets(j)}
<1>1. Began \subseteq Tasks /\ complete \subseteq Began
  BY DEF Began, InHand, TileInv, TileTypes
<1>2. ASSUME NEW j \in Began PROVE preds[j] \subseteq complete
  BY DEF Began, InHand, TileInv, PredsFirst, SerialInv, BegunInv
<1>3. \A j \in Tasks : tasks[j].op \in Nat /\ j \in Nat
  BY QueueAssumption DEF SerialInv
<1>4. ASSUME NEW j \in Tasks, j # k, c \in Sets(j), c \in Sets(k) \union tasks[k].uses
      PROVE  \/ tasks[j].op < tasks[k].op /\ j < k /\ j \in preds[k]
             \/ tasks[k].op < tasks[j].op /\ k < j /\ k \in preds[j]
  BY <1>4 DEF SerialInv, Serialised
<1>5. ASSUME NEW j \in Began, j # k, c \in Sets(j), c \in Sets(k) \union tasks[k].uses
      PROVE  tasks[j].op < tasks[k].op /\ j < k
  <2>1. k \notin preds[j]
    BY <1>2
  <2> QED
    BY <1>1, <1>4, <1>5, <2>1
<1>6. ASSUME NEW j \in Tasks, tasks[j].op < tasks[k].op, c \in Sets(j), c \in tasks[k].uses
      PROVE  j \in Began \ {k}
  <2>1. j # k
    BY <1>3, <1>6
  <2>2. ~ (tasks[k].op < tasks[j].op)
    BY <1>3, <1>6
  <2>3. j \in preds[k]
    BY <1>4, <1>6, <2>1, <2>2
  <2> QED
    BY <1>1, <2>1, <2>3
<1>7. ASSUME c \in Sets(k), NEW j \in Began, c \in Sets(j) PROVE j <= k
  <2>1. CASE j = k
    BY <1>3, <2>1
  <2>2. CASE j # k
    BY <1>1, <1>3, <1>5, <1>7, <2>2
  <2> QED
    BY <2>1, <2>2
<1>8. ASSUME c \in tasks[k].uses
      PROVE  {j \in Began \ {k} : c \in Sets(j)} = {j \in Tasks : tasks[j].op < tasks[k].op /\ c \in Sets(j)}
  BY <1>1, <1>5, <1>6, <1>8
<1> QED
  BY <1>7, <1>8

\* A task that begins, or ends, leaves its cells and what it met in order.
LEMMA TouchCells ==
    ASSUME TileInv, SerialInv, NEW k \in Tasks, k \notin complete, preds[k] \subseteq complete,
           NEW again \in BOOLEAN, Touch(k, again), ~ again => k \notin Began,
           Began' = Began \union {k}, tasks' = tasks
    PROVE  CellsInv'
<1>1. Began \subseteq Tasks /\ Tasks \subseteq Nat \ {0}
  BY QueueAssumption DEF Began, InHand, TileInv, TileTypes
<1>2. /\ mem' = [c \in DOMAIN mem |-> IF c \in Sets(k) THEN k ELSE mem[c]]
      /\ seen' = seen \union {<<k, c, mem[c]>> : c \in Uses(k) \ (IF again THEN Sets(k) ELSE {})}
  BY DEF Touch
<1>3. ASSUME NEW c \in DOMAIN mem PROVE mem[c] = Max({0} \union {j \in Began : c \in Sets(j)})
  BY DEF SerialInv, CellsInv, LastOf
<1>4. ASSUME NEW c \in DOMAIN mem
      PROVE  mem'[c] = Max({0} \union {j \in Began \union {k} : c \in Sets(j)})
  <2> DEFINE W == {j \in Began \union {k} : c \in Sets(j)}
  <2>1. CASE c \in Sets(k)
    <3>1. W \in SUBSET (Nat \ {0}) /\ k \in W
      BY <1>1, <2>1
    <3>2. \A j \in W : j <= k
      <4>1. \A j \in Began : c \in Sets(j) => j <= k
        BY <2>1, Before
      <4>2. k <= k
        BY <1>1
      <4> QED
        BY <4>1, <4>2
    <3> HIDE DEF W
    <3>3. Max({0} \union W) = k
      BY <3>1, <3>2, LastIs
    <3>4. mem'[c] = k
      BY <1>2, <2>1
    <3> QED
      BY <3>3, <3>4 DEF W
  <2>2. CASE c \notin Sets(k)
    <3>1. W = {j \in Began : c \in Sets(j)}
      BY <2>2
    <3>2. mem'[c] = mem[c]
      BY <1>2, <2>2
    <3> QED
      BY <1>3, <3>1, <3>2
  <2> QED
    BY <2>1, <2>2
<1>5. ASSUME NEW c \in Uses(k) \ (IF again THEN Sets(k) ELSE {})
      PROVE  mem[c] = Max({0} \union {j \in Tasks : tasks[j].op < tasks[k].op /\ c \in Sets(j)})
  <2>1. c \in tasks[k].uses /\ c \in DOMAIN mem
    BY DEF Uses
  <2>2. {j \in Began \ {k} : c \in Sets(j)} = {j \in Began : c \in Sets(j)}
    BY <1>5
  <2>3. {j \in Began \ {k} : c \in Sets(j)} = {j \in Tasks : tasks[j].op < tasks[k].op /\ c \in Sets(j)}
    BY <2>1, Before
  <2> QED
    BY <1>3, <2>1, <2>2, <2>3
<1>6. ASSUME NEW c \in DOMAIN mem' PROVE mem'[c] = LastOf(Began, c)'
  <2>1. c \in DOMAIN mem
    BY <1>2
  <2> QED
    BY <1>4, <2>1 DEF LastOf, Sets
<1>7. ASSUME NEW x \in seen'
      PROVE  x[3] = LastOf({j \in Tasks : tasks[j].op < tasks[x[1]].op}, x[2])'
  <2>1. CASE x \in seen
    BY <2>1 DEF SerialInv, CellsInv, LastOf, Sets
  <2>2. CASE x \notin seen
    <3>1. PICK c \in Uses(k) \ (IF again THEN Sets(k) ELSE {}) : x = <<k, c, mem[c]>>
      BY <1>2, <2>2
    <3>2. x[1] = k /\ x[2] = c /\ x[3] = mem[c]
      BY <3>1
    <3>3. {j \in {i \in Tasks : tasks[i].op < tasks[k].op} : c \in Sets(j)}
             = {j \in Tasks : tasks[j].op < tasks[k].op /\ c \in Sets(j)}
      OBVIOUS
    <3> QED
      BY <1>5, <3>2, <3>3 DEF LastOf, Sets
  <2> QED
    BY <2>1, <2>2
<1> QED
  BY <1>6, <1>7 DEF CellsInv

\* Tasks in hand, and begun, when a worker takes a task up or puts it down.
LEMMA TakeUp ==
    ASSUME TileInv, SerialInv, NEW w \in Workers, NEW k \in Tasks, held[w] = None,
           held' = [held EXCEPT ![w] = k], complete' = complete
    PROVE  InHand' = InHand \union {k} /\ Began' = Began \union {k}
<1>1. k # None
  BY QueueAssumption DEF None
<1>2. InHand' = InHand \union {k}
  BY <1>1, Hands DEF TileInv, TileTypes, SerialInv, BegunInv
<1> QED
  BY <1>2 DEF Began

LEMMA PutDown ==
    ASSUME TileInv, SerialInv, NEW w \in Workers, held[w] # None,
           held' = [held EXCEPT ![w] = None], complete' = complete \union {held[w]}
    PROVE  /\ held[w] \in Tasks /\ held[w] \in InHand /\ held[w] \notin complete
           /\ preds[held[w]] \subseteq complete
           /\ InHand' = InHand \ {held[w]} /\ Began' = Began \union {held[w]}
           /\ InHand' \intersect complete' = {}
           /\ \A u, v \in Workers : u # v /\ held'[u] # None => held'[u] # held'[v]
<1>1. held[w] \in Tasks /\ preds[held[w]] \subseteq complete
  BY DEF TileInv, TileTypes, PredsFirst
<1>2. /\ InHand' = InHand \ {held[w]} /\ held[w] \in InHand
      /\ held'[w] = None /\ \A v \in Workers : v # w => held'[v] = held[v]
  BY Hands DEF TileInv, TileTypes, SerialInv, BegunInv
<1>3. held[w] \notin complete /\ InHand' \intersect complete' = {}
  BY <1>2 DEF SerialInv, BegunInv
<1>4. Began' = Began \union {held[w]}
  BY <1>2 DEF Began
<1>5. \A u, v \in Workers : u # v /\ held'[u] # None => held'[u] # held'[v]
  BY <1>2 DEF SerialInv, BegunInv
<1> QED
  BY <1>1, <1>2, <1>3, <1>4, <1>5

\* Completing a task that no other worker holds keeps the count and the closure.
LEMMA Retire ==
    ASSUME TileInv, SerialInv, Running, NEW k \in Tasks, k \notin complete, preds[k] \subseteq complete,
           complete' = complete \union {k}, retired' = retired + 1, preds' = preds, mode' = mode
    PROVE  /\ retired' = Cardinality(complete')
           /\ \A j \in complete' : preds'[j] \subseteq complete'
           /\ mode' # "finished"
<1>1. complete \in SUBSET Tasks
  BY DEF TileInv, TileTypes
<1>2. IsFiniteSet(complete) /\ retired = Cardinality(complete)
  BY <1>1, FiniteParts DEF SerialInv, BegunInv
<1>3. Cardinality(complete \union {k}) = Cardinality(complete) + 1
  BY <1>2, FS_AddElement
<1>4. retired' = Cardinality(complete')
  BY <1>2, <1>3
<1>5. \A j \in complete' : preds'[j] \subseteq complete'
  BY DEF SerialInv, BegunInv
<1>6. mode' # "finished"
  BY DEF SerialInv, BegunInv
<1> QED
  BY <1>4, <1>5, <1>6

LEMMA SerialKeeps ==
    ASSUME SerialInv, tasks' = tasks, preds' = preds
    PROVE  (\A k \in Tasks : tasks'[k].op \in Nat) /\ Serialised'
BY DEF SerialInv, Serialised, Sets

LEMMA SerialClaim ==
    ASSUME TileInv, SerialInv, TileInv', NEW w \in Workers, TClaim(w)
    PROVE  SerialInv'
<1> DEFINE k == Head(ready)
<1>1. /\ plan = "dynamic" /\ mode = "run" /\ held[w] = None /\ ready # <<>>
      /\ held' = [held EXCEPT ![w] = k] /\ Touch(k, FALSE)
      /\ UNCHANGED <<preds, mode, retired, complete, plan, order, tasks>>
  BY DEF TClaim, Claim
<1>2. k \in Tasks /\ k \in ToSet(ready)
  BY <1>1, ToSetHead DEF TileInv, TileTypes
<1> HIDE DEF k
<1>3. RunInv /\ RunInv'
  BY <1>1 DEF TileInv, Running
<1>4. k \notin complete /\ k \notin InHand /\ preds[k] \subseteq complete
  BY <1>2, <1>3 DEF RunInv
<1>5. Began' = Began \union {k} /\ k \notin Began
  BY <1>1, <1>2, <1>4, TakeUp DEF Began
<1>6. CellsInv'
  BY <1>1, <1>2, <1>4, <1>5, TouchCells
<1>7. BegunInv'
  BY <1>1, <1>3 DEF BegunInv, RunInv, SerialInv, Running
<1> QED
  BY <1>1, <1>6, <1>7, SerialKeeps DEF SerialInv

LEMMA SerialStart ==
    ASSUME TileInv, SerialInv, NEW w \in Workers, NEW k \in Tasks, Start(w, k)
    PROVE  SerialInv'
<1>1. /\ plan = "static" /\ mode = "run" /\ held[w] = None /\ k \notin complete
      /\ Nth(Index(k)) = w /\ preds[k] \subseteq complete
      /\ held' = [held EXCEPT ![w] = k] /\ Touch(k, FALSE)
      /\ UNCHANGED <<preds, mode, retired, complete, plan, order, tasks>>
  BY DEF Start
<1>2. \A v \in Workers : held[v] # None => held[v] # k
  BY <1>1 DEF SerialInv, BegunInv
<1>3. k \notin Began /\ k # None
  BY <1>1, <1>2, QueueAssumption DEF Began, InHand, None
<1>4. InHand' = InHand \union {k} /\ Began' = Began \union {k}
  BY <1>1, TakeUp
<1>5. CellsInv'
  BY <1>1, <1>3, <1>4, TouchCells
<1>6. held'[w] = k /\ \A v \in Workers : v # w => held'[v] = held[v]
  BY <1>1 DEF TileInv, TileTypes
<1>7. BegunInv'
  <2>1. \A u, v \in Workers : u # v /\ held'[u] # None => held'[u] # held'[v]
    BY <1>2, <1>3, <1>6 DEF SerialInv, BegunInv
  <2>2. InHand' \intersect complete' = {}
    BY <1>1, <1>4 DEF SerialInv, BegunInv
  <2>3. \A v \in Workers : held'[v] # None => Nth(Index(held[v]))' = v
    <3> SUFFICES ASSUME NEW v \in Workers, held'[v] # None PROVE Nth(Index(held[v]))' = v
      OBVIOUS
    <3>1. Nth(Index(held'[v])) = v
      BY <1>1, <1>6 DEF SerialInv, BegunInv
    <3> QED
      BY <1>1, <3>1 DEF Index
  <2> QED
    BY <1>1, <2>1, <2>2, <2>3 DEF SerialInv, BegunInv, Running
<1> QED
  BY <1>1, <1>5, <1>7, SerialKeeps DEF SerialInv

LEMMA SerialEnds ==
    ASSUME TileInv, SerialInv, NEW w \in Workers, TComplete(w) \/ Publish(w)
    PROVE  SerialInv'
<1> DEFINE k == held[w]
<1>1. /\ k # None /\ complete' = complete \union {k} /\ retired' = retired + 1
      /\ held' = [held EXCEPT ![w] = None] /\ Touch(k, TRUE)
      /\ UNCHANGED <<preds, mode, plan, order, tasks>>
  BY DEF TComplete, Complete, Publish
<1>2. /\ k \in Tasks /\ k \in InHand /\ k \notin complete /\ preds[k] \subseteq complete
      /\ Began' = Began \union {k} /\ InHand' \intersect complete' = {}
      /\ \A u, v \in Workers : u # v /\ held'[u] # None => held'[u] # held'[v]
  BY <1>1, PutDown
<1>3. Running
  BY <1>1 DEF TileInv
<1>4. held'[w] = None /\ \A v \in Workers : v # w => held'[v] = held[v]
  BY <1>1 DEF TileInv, TileTypes
<1> HIDE DEF k
<1>5. CellsInv'
  BY <1>1, <1>2, TouchCells
<1>6. /\ retired' = Cardinality(complete') /\ mode' # "finished"
      /\ \A j \in complete' : preds'[j] \subseteq complete'
  BY <1>1, <1>2, <1>3, Retire
<1>7. plan' = "static" => \A v \in Workers : held'[v] # None => Nth(Index(held[v]))' = v
  <2> SUFFICES ASSUME plan = "static", NEW v \in Workers, held'[v] # None PROVE Nth(Index(held[v]))' = v
    BY <1>1
  <2>1. Nth(Index(held'[v])) = v
    BY <1>4 DEF SerialInv, BegunInv
  <2> QED
    BY <1>1, <2>1 DEF Index
<1>8. BegunInv'
  BY <1>2, <1>6, <1>7 DEF BegunInv
<1> QED
  BY <1>1, <1>5, <1>8, SerialKeeps DEF SerialInv

LEMMA SerialKahn ==
    ASSUME TileInv, SerialInv, TKahnStep \/ TKahnEnds
    PROVE  SerialInv'
<1>1. /\ mode = "check" /\ mode' # "finished" /\ (mode' = "run" => retired' = 0)
      /\ UNCHANGED <<preds, held, complete, tasks, plan, mem, seen>>
  BY DEF TKahnStep, TKahnEnds, KahnStep, KahnEnds, Seed
<1>2. complete = {} /\ \A w \in Workers : held[w] = None
  BY <1>1 DEF TileInv, Running
<1>3. InHand' = InHand /\ Began' = Began /\ InHand' = {}
  BY <1>1, <1>2 DEF Began, InHand
<1>4. Cardinality({}) = 0
  BY FS_EmptySet
<1>5. Running' => retired' = Cardinality(complete')
  BY <1>1, <1>2, <1>4 DEF Running
<1>6. BegunInv'
  BY <1>1, <1>2, <1>3, <1>5 DEF BegunInv
<1>7. CellsInv'
  BY <1>1, <1>3 DEF SerialInv, CellsInv, LastOf, Sets
<1> QED
  BY <1>1, <1>6, <1>7, SerialKeeps DEF SerialInv

LEMMA SerialLoopEnds ==
    ASSUME TileInv, SerialInv, TLoopEnds
    PROVE  SerialInv'
<1>1. /\ mode = "run" /\ mode' = "finished" /\ retired = Cardinality(Tasks)
      /\ UNCHANGED <<preds, retired, held, complete, tasks, plan, order, mem, seen>>
  BY DEF TLoopEnds, LoopEnds, Finished
<1>2. complete = Tasks
  <2>1. complete \in SUBSET Tasks /\ Cardinality(complete) = Cardinality(Tasks)
    BY <1>1 DEF TileInv, TileTypes, SerialInv, BegunInv, Running
  <2> QED
    BY <2>1, FS_Subset, QueueAssumption
<1>3. InHand' = InHand /\ Began' = Began
  BY <1>1 DEF Began, InHand
<1>4. BegunInv'
  BY <1>1, <1>2, <1>3 DEF SerialInv, BegunInv, Running, Index
<1>5. CellsInv'
  BY <1>1, <1>3 DEF SerialInv, CellsInv, LastOf, Sets
<1> QED
  BY <1>1, <1>4, <1>5, SerialKeeps DEF SerialInv

LEMMA SerialStutter ==
    ASSUME SerialInv, UNCHANGED tileVars
    PROVE  SerialInv'
<1>1. UNCHANGED <<preds, mode, retired, held, complete, tasks, plan, order, mem, seen>>
  BY DEF tileVars, queueVars
<1>2. InHand' = InHand /\ Began' = Began /\ (Running' <=> Running)
  BY <1>1 DEF Began, InHand, Running
<1>3. BegunInv'
  BY <1>1, <1>2 DEF SerialInv, BegunInv, Index
<1>4. CellsInv'
  BY <1>1, <1>2 DEF SerialInv, CellsInv, LastOf, Sets
<1> QED
  BY <1>1, <1>3, <1>4, SerialKeeps DEF SerialInv

\* build_tile_dependencies orders what conflicts.
LEMMA DependenciesSerialise ==
    ASSUME NEW p, NEW t, Declares(p, t), preds = Dependencies(p, t),
           \A k \in Tasks : tasks[k].op = t[k].op /\ tasks[k].sets = t[k].sets /\ tasks[k].uses = t[k].uses
    PROVE  Serialised
<1> DEFINE X == {<<"writes", "reads">>, <<"reads", "writes">>, <<"writes", "writes">>}
<1>1. \A k \in Tasks : t[k].op \in Nat /\ (t[k].op = 0 => t[k] = NoTask)
  BY DEF Declares
<1>2. \A k \in Tasks : t[k].op = 0 => t[k].sets = {} /\ t[k].uses = {}
  BY <1>1 DEF NoTask
<1>3. ASSUME NEW j \in Tasks, NEW k \in Tasks, j # k, NEW x \in X,
             t[j][Touches[x[1]]] \intersect t[k][Touches[x[2]]] # {}
      PROVE  /\ t[j].op # t[k].op
             /\ t[j].op # 0 /\ t[j].op < t[k].op => j < k /\ j \in preds[k]
  <2> DEFINE share(u, v) == \E g \in u[x[1]], h \in v[x[2]] : Overlaps(g, h)
  <2>1. MeetingDeclared(p, t, j, k, x)
    BY <1>3 DEF Declares
  <2>2. t[j].op # t[k].op /\ share(t[j], t[k])
    BY <1>3, <2>1 DEF MeetingDeclared
  <2>3. ASSUME t[j].op # 0, t[j].op < t[k].op PROVE j < k /\ j \in preds[k]
    <3>1. share(p[t[j].op], p[t[k].op])
      BY <2>1, <2>2, <2>3 DEF MeetingDeclared
    <3>2. x \in Hazards(p[t[j].op], p[t[k].op]) /\ TaskPairHazard(x, t[j], t[k])
      BY <2>2, <3>1 DEF Hazards, TaskPairHazard
    <3>3. j \in Dependencies(p, t)[k]
      BY <2>3, <3>2 DEF Dependencies
    <3>4. j < k
      BY <2>3 DEF Declares
    <3> QED
      BY <3>3, <3>4
  <2> QED
    BY <2>2, <2>3
<1>4. ASSUME NEW j \in Tasks, NEW k \in Tasks, j # k, NEW c,
             c \in t[j].sets, c \in t[k].sets \/ c \in t[k].uses
      PROVE  \/ t[j].op < t[k].op /\ j < k /\ j \in preds[k]
             \/ t[k].op < t[j].op /\ k < j /\ k \in preds[j]
  <2>1. t[j].op \in Nat /\ t[k].op \in Nat /\ t[j].op # 0 /\ t[k].op # 0
    BY <1>1, <1>2, <1>4
  <2>2. /\ Touches["reads"] = "uses" /\ Touches["writes"] = "sets"
        /\ <<"writes", "reads">> \in X /\ <<"reads", "writes">> \in X /\ <<"writes", "writes">> \in X
    BY DEF Touches
  <2> HIDE DEF X
  <2>3. CASE c \in t[k].sets
    <3> DEFINE x == <<"writes", "writes">>
    <3>1. Touches[x[1]] = "sets" /\ Touches[x[2]] = "sets" /\ x \in X
      BY <2>2
    <3> HIDE DEF x
    <3>2. /\ t[j][Touches[x[1]]] \intersect t[k][Touches[x[2]]] # {}
          /\ t[k][Touches[x[1]]] \intersect t[j][Touches[x[2]]] # {}
      BY <1>4, <2>3, <3>1
    <3>3. /\ t[j].op # t[k].op
          /\ t[j].op # 0 /\ t[j].op < t[k].op => j < k /\ j \in preds[k]
      BY <1>3, <1>4, <3>1, <3>2
    <3>4. t[k].op # 0 /\ t[k].op < t[j].op => k < j /\ k \in preds[j]
      BY <1>3, <1>4, <3>1, <3>2
    <3> QED
      BY <2>1, <3>3, <3>4
  <2>4. CASE c \in t[k].uses
    <3> DEFINE x == <<"writes", "reads">>
               y == <<"reads", "writes">>
    <3>1. /\ Touches[x[1]] = "sets" /\ Touches[x[2]] = "uses" /\ x \in X
          /\ Touches[y[1]] = "uses" /\ Touches[y[2]] = "sets" /\ y \in X
      BY <2>2
    <3> HIDE DEF x, y
    <3>2. /\ t[j][Touches[x[1]]] \intersect t[k][Touches[x[2]]] # {}
          /\ t[k][Touches[y[1]]] \intersect t[j][Touches[y[2]]] # {}
      BY <1>4, <2>4, <3>1
    <3>3. /\ t[j].op # t[k].op
          /\ t[j].op # 0 /\ t[j].op < t[k].op => j < k /\ j \in preds[k]
      BY <1>3, <1>4, <3>1, <3>2
    <3>4. t[k].op # 0 /\ t[k].op < t[j].op => k < j /\ k \in preds[j]
      BY <1>3, <1>4, <3>1, <3>2
    <3> QED
      BY <2>1, <3>3, <3>4
  <2> QED
    BY <1>4, <2>3, <2>4
<1> SUFFICES ASSUME NEW j \in Tasks, NEW k \in Tasks, j # k,
                    NEW c \in Sets(j) \intersect (Sets(k) \union tasks[k].uses)
             PROVE  \/ tasks[j].op < tasks[k].op /\ j < k /\ j \in preds[k]
                    \/ tasks[k].op < tasks[j].op /\ k < j /\ k \in preds[j]
  BY DEF Serialised
<1>5. c \in t[j].sets /\ (c \in t[k].sets \/ c \in t[k].uses)
  BY DEF Sets
<1> QED
  BY <1>4, <1>5

LEMMA LoweredTasks ==
    ASSUME NEW p, NEW k \in Tasks
    PROVE  LET t == Lowered(p)[k]
               u == [t EXCEPT !.reads = {}, !.writes = {}]
           IN  u.op = t.op /\ u.sets = t.sets /\ u.uses = t.uses
<1> DEFINE keys == UNION {{<<o, c[1], c[2]>> : c \in DOMAIN p[o].tasks} : o \in DOMAIN p}
           less(a, b) == \/ a[1] < b[1]
                         \/ a[1] = b[1] /\ (a[2] < b[2] \/ (a[2] = b[2] /\ a[3] < b[3]))
           of(key) == LET t == p[key[1]].tasks[<<key[2], key[3]>>]
                      IN  [op |-> key[1], reads |-> t.reads, writes |-> t.writes,
                           uses |-> t.uses, sets |-> t.sets]
           seq == SetToSortSeq(keys, less)
<1>1. \E o, a, b, u, s : Lowered(p)[k] = [op |-> o, reads |-> a, writes |-> b, uses |-> u, sets |-> s]
  <2>1. Lowered(p) = [j \in Tasks |-> IF j \in DOMAIN seq THEN of(seq[j]) ELSE NoTask]
    BY Zenon DEF Lowered
  <2> HIDE DEF seq
  <2>2. Lowered(p)[k] = IF k \in DOMAIN seq THEN of(seq[k]) ELSE NoTask
    BY <2>1
  <2> QED
    BY <2>2 DEF NoTask
<1>2. PICK o, a, b, u, s : Lowered(p)[k] = [op |-> o, reads |-> a, writes |-> b, uses |-> u, sets |-> s]
  BY <1>1
<1> HIDE DEF keys, less, of, seq
<1> DEFINE R == Lowered(p)[k]
<1>3. R = [op |-> o, reads |-> a, writes |-> b, uses |-> u, sets |-> s]
  BY <1>2
<1> HIDE DEF R
<1> DEFINE E == [R EXCEPT !.reads = {}, !.writes = {}]
<1>4. E.op = R.op /\ E.sets = R.sets /\ E.uses = R.uses
  <2> DEFINE Q == [R EXCEPT !.reads = {}]
  <2>1. Q = [op |-> o, reads |-> {}, writes |-> b, uses |-> u, sets |-> s]
    BY <1>3
  <2> HIDE DEF Q
  <2>2. [Q EXCEPT !.writes = {}] = [op |-> o, reads |-> {}, writes |-> {}, uses |-> u, sets |-> s]
    BY <2>1
  <2> QED
    BY <1>3, <2>2 DEF Q
<1> QED
  BY <1>4, Zenon DEF R

LEMMA SerialInit ==
    ProgramsDeclare => (CompileInit => SerialInv)
<1> SUFFICES ASSUME ProgramsDeclare, CompileInit PROVE SerialInv
  OBVIOUS
<1>1. complete = {} /\ (\A w \in Workers : held[w] = None) /\ seen = {} /\ mode \in {"unused", "check"}
  <2>1. complete = {} /\ (\A w \in Workers : held[w] = None)
    BY Zenon DEF CompileInit, NoTiles, TInit, QueueInit
  <2>2. mode = "unused" \/ mode = "check"
    BY Zenon DEF CompileInit, NoTiles, TInit, QueueInit
  <2>3. seen = {}
    BY Zenon DEF CompileInit, NoTiles, TInit
  <2> QED
    BY <2>1, <2>2, <2>3
<1>2. InHand = {} /\ Began = {}
  BY <1>1 DEF InHand, Began
<1>3. BegunInv
  BY <1>1, <1>2 DEF BegunInv, Running
<1>4. CellsInv
  <2>1. \A c \in DOMAIN mem : mem[c] = 0
    <3>1. \/ mem = <<>> \/ \E t : mem = [c \in Written(t) |-> 0]
      BY Zenon DEF CompileInit, NoTiles, TInit
    <3> QED
      BY <3>1
  <2>2. \A c : LastOf({}, c) = 0
    <3> SUFFICES ASSUME NEW c PROVE LastOf({}, c) = 0
      OBVIOUS
    <3>1. {j \in {} : c \in Sets(j)} = {}
      OBVIOUS
    <3> QED
      BY <3>1, LastNone DEF LastOf
  <2> QED
    BY <1>1, <1>2, <2>1, <2>2 DEF CellsInv
<1>5. (\A k \in Tasks : tasks[k].op \in Nat) /\ Serialised
  <2>1. CASE tasks = [k \in Tasks |-> NoTask]
    <3>1. \A k \in Tasks : tasks[k].op = 0 /\ tasks[k].sets = {}
      BY <2>1 DEF NoTask
    <3> QED
      BY <3>1 DEF Serialised, Sets
  <2>2. CASE tasks # [k \in Tasks |-> NoTask]
    <3>1. PICK i \in DOMAIN Programs :
             /\ tasks = [k \in Tasks |-> [Lowered(Programs[i])[k] EXCEPT !.reads = {}, !.writes = {}]]
             /\ preds = Dependencies(Programs[i], Lowered(Programs[i]))
      BY <2>2, Zenon DEF CompileInit, NoTiles, TInit
    <3> DEFINE p == Programs[i]
               t == Lowered(p)
    <3>2. Declares(p, t)
      BY DEF ProgramsDeclare
    <3>3. \A k \in Tasks : tasks[k].op = t[k].op /\ tasks[k].sets = t[k].sets /\ tasks[k].uses = t[k].uses
      <4> SUFFICES ASSUME NEW k \in Tasks
                   PROVE tasks[k].op = t[k].op /\ tasks[k].sets = t[k].sets /\ tasks[k].uses = t[k].uses
        OBVIOUS
      <4>1. tasks[k] = [t[k] EXCEPT !.reads = {}, !.writes = {}]
        BY <3>1, Zenon
      <4> DEFINE e == [t[k] EXCEPT !.reads = {}, !.writes = {}]
      <4>2. e.op = t[k].op /\ e.sets = t[k].sets /\ e.uses = t[k].uses
        BY LoweredTasks
      <4>3. tasks[k] = e
        BY <4>1
      <4> HIDE DEF e
      <4> QED
        BY <4>2, <4>3
    <3>4. preds = Dependencies(p, t)
      BY <3>1, Zenon
    <3> HIDE DEF p, t
    <3>5. Serialised
      BY <3>2, <3>3, <3>4, DependenciesSerialise
    <3>6. \A k \in Tasks : tasks[k].op \in Nat
      BY <3>2, <3>3 DEF Declares
    <3> QED
      BY <3>5, <3>6
  <2> QED
    BY <2>1, <2>2
<1> QED
  BY <1>3, <1>4, <1>5 DEF SerialInv

\* For every program whose tasks declare what they touch (ProgramsDeclare), every
\* number of workers and every interleaving of their claims: dependencies derived
\* from regions (build_tile_dependencies) make the barrier-free runs, dynamic and
\* static, read and leave what the operators in program order read and leave.
THEOREM ReadsAreSerial == ProgramsDeclare => (CompileSpec => []SerialReads)
<1> SUFFICES ASSUME ProgramsDeclare PROVE CompileSpec => []SerialReads
  OBVIOUS
<1>1. CompileInit => SerialInv
  BY SerialInit
<1>2. TileInv /\ TileInv' /\ SerialInv /\ [CompileNext]_compileVars => SerialInv'
  <2> SUFFICES ASSUME TileInv, TileInv', SerialInv, [CompileNext]_compileVars PROVE SerialInv'
    OBVIOUS
  <2>1. UNCHANGED tileVars \/ TNext
    BY DEF CompileNext, PhaseStep, TileStep, compileVars
  <2>2. CASE TNext
    BY <2>2, SerialKahn, SerialLoopEnds, SerialClaim, SerialEnds, SerialStart DEF TNext
  <2> QED
    BY <2>1, <2>2, SerialStutter
<1>3. TileInv /\ SerialInv => SerialReads
  <2> SUFFICES ASSUME TileInv, SerialInv PROVE SerialReads
    OBVIOUS
  <2>1. mode = "finished" => Began = Tasks
    BY DEF SerialInv, BegunInv, Began, InHand, TileInv, TileTypes
  <2>2. CellsInv
    BY DEF SerialInv
  <2> QED
    BY <2>1, <2>2 DEF CellsInv, SerialReads
<1> QED
  BY <1>1, <1>2, <1>3, TileInvariance, PTL DEF CompileSpec

-----------------------------------------------------------------------------
(* The plan of a megakernel *)

\* The phases of a megakernel, phase j writing the buffer slot[j]: sizes and offsets
\* as the plan has them.
PlanOf(reads, slot) ==
    INSTANCE PhasePlan WITH NB <- MaxPhase, Reads <- reads, WsTotal <- total,
                            TaskCount <- [k \in Stages |-> numel[slot[k]]],
                            Offset <- [k \in Stages |-> offset[slot[k]]]

\* The planner was given each buffer's life as the phases touch it.
LivesOf(reads, slot) ==
    \A j \in Stages :
        Lifetime(life[slot[j]], {k \in Stages : PlanOf(reads, slot)!Touches(k, j)})

\* A buffer that the megakernel still needs in a phase is live in it for the planner.
LEMMA NeededIsLive ==
    ASSUME PackInv, NEW reads, NEW slot \in [Stages -> Bufs], LivesOf(reads, slot),
           NEW j \in Stages, NEW k \in Stages, PlanOf(reads, slot)!LiveIn(j, k)
    PROVE  life[slot[j]][1] <= k /\ k <= life[slot[j]][2]
<1> DEFINE T == {n \in Stages : PlanOf(reads, slot)!Touches(n, j)}
           l == life[slot[j]]
<1>1. PICK n \in Stages : j <= k /\ k <= n /\ PlanOf(reads, slot)!Touches(n, j)
  BY DEF PlanOf!LiveIn, PlanOf!Phases, Stages
<1>2. j \in T /\ n \in T
  BY <1>1 DEF PlanOf!Touches
<1>3. Lifetime(l, T)
  BY DEF LivesOf
<1>4. l \in Lives
  BY DEF PackInv
<1> HIDE DEF T, l
<1>5. l[1] <= j /\ n <= l[2]
  BY <1>2, <1>3 DEF Lifetime
<1>6. l[1] \in Int /\ l[2] \in Int /\ j \in Int /\ k \in Int /\ n \in Int
  BY <1>4, PlannerAssumption DEF Lives, Stages
<1>7. l[1] <= k /\ k <= l[2]
  BY <1>1, <1>5, <1>6
<1> QED
  BY <1>7 DEF l

\* What plan_memory returns is what the megakernel assumes of its workspace
\* (PlanAssumption of PhaseMegakernel), for every program of phases and every
\* assignment of buffers to them: no two buffers that some phase still needs share
\* a cell, and all lie within the workspace.
THEOREM PlanServesMegakernel ==
    ASSUME NEW CONSTANT reads, NEW CONSTANT slot \in [Stages -> Bufs],
           \A i, j \in Stages : slot[i] = slot[j] => i = j
    PROVE  CompileSpec => [](total # -1 /\ LivesOf(reads, slot) =>
                                PlanOf(reads, slot)!PlanLegal /\ PlanOf(reads, slot)!PlanFits)
<1>1. ASSUME WorkspaceInv, total # -1, LivesOf(reads, slot) PROVE PlanOf(reads, slot)!PlanLegal
  <2>1. PackInv /\ cur = N + 1
    BY <1>1 DEF WorkspaceInv, ExecInv
  <2>2. ASSUME NEW i \in Stages, NEW j \in Stages, i # j,
               \E k \in Stages : PlanOf(reads, slot)!LiveIn(i, k) /\ PlanOf(reads, slot)!LiveIn(j, k)
        PROVE  \/ offset[slot[i]] + numel[slot[i]] <= offset[slot[j]]
               \/ offset[slot[j]] + numel[slot[j]] <= offset[slot[i]]
    <3> DEFINE a == slot[i]
               b == slot[j]
    <3>1. PICK k \in Stages : PlanOf(reads, slot)!LiveIn(i, k) /\ PlanOf(reads, slot)!LiveIn(j, k)
      BY <2>2
    <3>2. /\ life[a][1] <= k /\ k <= life[a][2]
          /\ life[b][1] <= k /\ k <= life[b][2]
      BY <1>1, <2>1, <3>1, NeededIsLive
    <3>3. a \in Bufs /\ b \in Bufs /\ a # b
      BY <2>2
    <3> HIDE DEF a, b
    <3>4. LiveTogether(a, b)
      BY <3>2 DEF LiveTogether
    <3>5. a \in 1 .. cur - 1 /\ b \in 1 .. cur - 1
      BY <2>1, <3>3, PlannerAssumption DEF Bufs
    <3>6. offset[a] + numel[a] <= offset[b] \/ offset[b] + numel[b] <= offset[a]
      BY <2>1, <3>3, <3>4, <3>5 DEF PackInv, NoLiveOverlap
    <3> QED
      BY <3>6 DEF a, b
  <2> QED
    BY <2>2 DEF PlanOf!PlanLegal, PlanOf!Phases, Stages
<1>2. ASSUME WorkspaceInv, total # -1 PROVE PlanOf(reads, slot)!PlanFits
  <2>1. \A i \in Bufs : offset[i] + numel[i] <= total
    BY <1>2 DEF WorkspaceInv, ExecInv, WorkspaceHolds
  <2> QED
    BY <2>1 DEF PlanOf!PlanFits, PlanOf!Phases, Stages
<1>3. WorkspaceInv => (total # -1 /\ LivesOf(reads, slot) =>
                          PlanOf(reads, slot)!PlanLegal /\ PlanOf(reads, slot)!PlanFits)
  BY <1>1, <1>2
<1> QED
  BY <1>3, WorkspaceInvariance, PTL
=============================================================================
