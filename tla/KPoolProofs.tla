---------------------------- MODULE KPoolProofs ----------------------------
(***************************************************************************)
(* For every pool and ring size, every number of requests and every bound: *)
(* pools are compressed from their own tokens, what the metadata counts as *)
(* visible is what the indexer hands out, and the page tables are current  *)
(* wherever a query may read them.                                         *)
(***************************************************************************)
EXTENDS KPool, FiniteSetTheorems, WellFoundedInduction, TLAPS

-----------------------------------------------------------------------------
(* Quotients and remainders *)

LEMMA DivMod ==
    ASSUME NEW a \in Nat, NEW b \in Nat \ {0}
    PROVE  a \div b \in Nat /\ a % b \in 0 .. b - 1 /\ a = (a \div b) * b + (a % b)
  OBVIOUS

LEMMA DivUnique ==
    ASSUME NEW q \in Nat, NEW b \in Nat \ {0}, NEW m \in 0 .. b - 1
    PROVE  (q * b + m) \div b = q /\ (q * b + m) % b = m
  OBVIOUS

LEMMA MulNat ==
    ASSUME NEW p \in Nat, NEW b \in Nat
    PROVE  p * b \in Nat
  OBVIOUS

LEMMA MulMono ==
    ASSUME NEW p \in Nat, NEW q \in Nat, NEW b \in Nat
    PROVE  (p <= q => p * b <= q * b) /\ (p < q => p * b + b <= q * b)
<1>1. ASSUME p <= q PROVE p * b <= q * b
  <2> DEFINE d == q - p
  <2>1. d \in Nat /\ q = p + d
    BY <1>1
  <2> HIDE DEF d
  <2>2. d * b \in Nat /\ p * b \in Nat
    BY <2>1, MulNat
  <2>3. q * b = p * b + d * b
    BY <2>1
  <2> QED
    BY <2>2, <2>3
<1>2. ASSUME p < q PROVE p * b + b <= q * b
  <2> DEFINE d == q - (p + 1)
  <2>1. d \in Nat /\ q = (p + 1) + d
    BY <1>2
  <2> HIDE DEF d
  <2>2. d * b \in Nat /\ p * b \in Nat
    BY <2>1, MulNat
  <2>3. q * b = (p * b + b) + d * b
    BY <2>1
  <2> QED
    BY <2>2, <2>3
<1> QED
  BY <1>1, <1>2

LEMMA DivMono ==
    ASSUME NEW a \in Nat, NEW c \in Nat, a <= c, NEW b \in Nat \ {0}
    PROVE  a \div b <= c \div b
<1> DEFINE p == a \div b
           q == c \div b
           m == a % b
           n == c % b
<1>1. p \in Nat /\ q \in Nat /\ m \in 0 .. b - 1 /\ n \in 0 .. b - 1
  BY DivMod
<1>2. a = p * b + m /\ c = q * b + n
  BY DivMod
<1> HIDE DEF p, q, m, n
<1>3. q < p => q * b + b <= p * b
  BY <1>1, MulMono
<1>4. p * b \in Nat /\ q * b \in Nat
  BY <1>1, MulNat
<1>5. p <= q
  BY <1>1, <1>2, <1>3, <1>4
<1> QED
  BY <1>5 DEF p, q

\* A number below n lies in one of the Cdiv(n, b) tiles of b.
LEMMA InTile ==
    ASSUME NEW a \in Nat, NEW n \in Nat, a < n, NEW b \in Nat \ {0}
    PROVE  a \div b < Cdiv(n, b)
<1> DEFINE p == a \div b
           m == a % b
           c == p + 1
           d == n + b - 1
<1>1. p \in Nat /\ m \in 0 .. b - 1 /\ a = p * b + m
  BY DivMod
<1> HIDE DEF p, m
<1>2. c \in Nat /\ c * b = p * b + b /\ p * b \in Nat
  BY <1>1, MulNat
<1> HIDE DEF c
<1>3. c * b + 0 <= d /\ d \in Nat
  BY <1>1, <1>2
<1>4. (c * b + 0) \div b = c
  BY <1>2, DivUnique
<1>5. c * b + 0 \in Nat
  BY <1>2, MulNat
<1> HIDE DEF d
<1> DEFINE e == c * b + 0
<1>6. e \in Nat /\ e <= d /\ e \div b = c
  BY <1>3, <1>4, <1>5
<1> HIDE DEF e
<1>7. c <= d \div b /\ d \div b \in Nat
  BY <1>3, <1>6, DivMono, DivMod
<1> QED
  BY <1>1, <1>7 DEF c, p, d, Cdiv

LEMMA CdivNat ==
    ASSUME NEW n \in Nat, NEW b \in Nat \ {0}
    PROVE  Cdiv(n, b) \in Nat
<1> DEFINE d == n + b - 1
<1>1. d \in Nat
  OBVIOUS
<1> HIDE DEF d
<1> QED
  BY <1>1, DivMod DEF d, Cdiv

\* The start of the block of b that a lies in.
LEMMA BlockStart ==
    ASSUME NEW a \in Nat, NEW b \in Nat \ {0}
    PROVE  LET s == (a \div b) * b
           IN  /\ s \in Nat /\ s <= a /\ a - s = a % b /\ a < s + b
               /\ s \div b = a \div b /\ s % b = 0
<1> DEFINE q == a \div b
           m == a % b
<1>1. q \in Nat /\ m \in 0 .. b - 1 /\ a = q * b + m
  BY DivMod
<1> HIDE DEF q, m
<1>2. q * b \in Nat
  BY <1>1, MulNat
<1>3. (q * b + 0) \div b = q /\ (q * b + 0) % b = 0 /\ q * b + 0 = q * b
  BY <1>1, <1>2, DivUnique
<1>4. (q * b) \div b = q /\ (q * b) % b = 0
  BY <1>3
<1> QED
  BY <1>1, <1>2, <1>4 DEF q, m

-----------------------------------------------------------------------------
(* The cache *)

Tokens == Int \X Int \X Int \X BOOLEAN
Steps  == [n : Nat, keep : Nat, pads : Nat, t : Nat]

KTypes ==
    /\ len \in [Requests -> 0 .. MaxLen] /\ epoch \in [Requests -> Nat] /\ step \in [Requests -> Steps]
    /\ tail \in [Requests -> [0 .. RING - 1 -> Tokens]]
    /\ pools \in [Requests -> [PoolIds -> Seq(Tokens)]]

\* A running step has tokens to decode, keeps some of them and fits the row.
StepInv ==
    \A r \in Requests : step[r] # Idle =>
        /\ step[r].n \in 1 .. NextN /\ step[r].keep \in 1 .. step[r].n
        /\ step[r].n + step[r].pads <= NextN /\ step[r].t <= step[r].n + step[r].pads
        /\ len[r] > 0 /\ len[r] + step[r].n <= MaxLen

\* Tokens of a request that have been decoded, those of the running step included.
Done(r) == len[r] + Larger(step[r].t - step[r].pads, 0)

\* The ring holds the tokens of the pool that accepted tokens left open, and of
\* all later ones, unless a whole ring has been written since.
RingHolds(r) ==
    \A p \in 0 .. MaxLen :
        (len[r] \div POOL) * POOL <= p /\ Done(r) - RING <= p /\ p < Done(r)
            => tail[r][p % RING] = Token(r, p)

RowsExact(r) == \A i \in PoolIds : i < Done(r) \div POOL => pools[r][i] = PoolOf(r, i)

KInv == KTypes /\ StepInv /\ \A r \in Requests : RingHolds(r) /\ RowsExact(r)

LEMMA Sizes ==
    /\ POOL \in Nat \ {0} /\ RING \in Nat \ {0} /\ POOL <= RING /\ NextN \in Nat \ {0}
    /\ NextN <= RING - POOL + 2 /\ MaxLen \in Nat /\ MaxPrompt \in 0 .. MaxLen
    /\ Requests \subseteq Nat
  BY KPoolAssumption

\* Positions less than a ring apart have slots of their own.
LEMMA RingApart ==
    ASSUME NEW p \in Nat, NEW q \in Nat, p < q, q - p < RING
    PROVE  p % RING # q % RING
<1> DEFINE a == p \div RING
           b == q \div RING
           m == p % RING
           n == q % RING
           R == RING
<1>1. R \in Nat \ {0}
  BY Sizes
<1>2. /\ a \in Nat /\ b \in Nat /\ m \in 0 .. R - 1 /\ n \in 0 .. R - 1
      /\ p = a * R + m /\ q = b * R + n /\ q - p < R
  BY <1>1, DivMod
<1> HIDE DEF a, b, m, n, R
<1>3. a * R \in Nat /\ b * R \in Nat
  BY <1>1, <1>2, MulNat
<1>4. (a < b => a * R + R <= b * R) /\ (b <= a => b * R <= a * R)
  BY <1>1, <1>2, MulMono
<1>5. m # n
  BY <1>1, <1>2, <1>3, <1>4
<1> QED
  BY <1>5 DEF m, n

LEMMA NextPool ==
    ASSUME NEW d \in Nat, NEW b \in Nat \ {0}
    PROVE  (d + 1) \div b = IF d % b = b - 1 THEN (d \div b) + 1 ELSE d \div b
<1> DEFINE q == d \div b
           m == d % b
           c == q + 1
           n == m + 1
<1>1. q \in Nat /\ m \in 0 .. b - 1 /\ d = q * b + m
  BY DivMod
<1> HIDE DEF q, m
<1>2. q * b \in Nat /\ c \in Nat /\ c * b = q * b + b
  BY <1>1, MulNat
<1>3. CASE m = b - 1
  <2>1. d + 1 = c * b + 0
    BY <1>1, <1>2, <1>3
  <2> HIDE DEF c
  <2>2. (c * b + 0) \div b = c
    BY <1>2, DivUnique
  <2> QED
    BY <1>3, <2>1, <2>2 DEF c, m, q
<1>4. CASE m # b - 1
  <2>1. n \in 0 .. b - 1 /\ d + 1 = q * b + n
    BY <1>1, <1>2, <1>4
  <2> HIDE DEF n
  <2>2. (q * b + n) \div b = q
    BY <1>1, <2>1, DivUnique
  <2> QED
    BY <1>4, <2>1, <2>2 DEF m, q
<1> QED
  BY <1>3, <1>4

LEMMA SlotBlock ==
    ASSUME NEW r \in Nat, NEW p \in Nat
    PROVE  /\ ((r * RING) + (p % RING)) \div RING = r /\ (r * RING) + (p % RING) \in Nat
           /\ p % RING \in 0 .. RING - 1
<1> DEFINE m == p % RING
<1>1. RING \in Nat \ {0} /\ m \in 0 .. RING - 1
  BY Sizes, DivMod
<1> HIDE DEF m
<1>2. r * RING \in Nat
  BY <1>1, MulNat
<1>3. (r * RING + m) \div RING = r
  BY <1>1, DivUnique
<1>4. r * RING + m \in Nat
  BY <1>1, <1>2
<1> QED
  BY <1>1, <1>3, <1>4, Zenon DEF m

\* A pool that ends below MaxLen has a row.
LEMMA PoolRow ==
    ASSUME NEW d \in Nat, d < MaxLen
    PROVE  /\ d \div POOL \in Nat
           /\ d % POOL = POOL - 1 => d \div POOL \in PoolIds
<1> DEFINE q == d \div POOL
           P == POOL
<1>1. P \in Nat \ {0} /\ MaxLen \in Nat
  BY Sizes
<1>2. q \in Nat /\ d % P \in 0 .. P - 1 /\ d = q * P + (d % P)
  BY <1>1, DivMod
<1>3. ASSUME d % P = P - 1 PROVE q \in PoolIds
  <2> DEFINE c == q + 1
             M == MaxLen \div P
  <2>1. c <= M /\ M \in Nat
    <3>1. d + 1 <= MaxLen /\ d + 1 \in Nat
      BY <1>1
    <3>2. (d + 1) \div P = c
      BY <1>1, <1>3, NextPool
    <3>3. (d + 1) \div P <= M /\ M \in Nat
      BY <1>1, <3>1, DivMono, DivMod
    <3> QED
      BY <3>2, <3>3
  <2>2. PoolIds = 0 .. M - 1
    BY DEF PoolIds
  <2> HIDE DEF M
  <2> QED
    BY <1>2, <2>1, <2>2
<1> QED
  BY <1>2, <1>3

\* Padding at the front of a row changes neither the cache nor the count.
LEMMA UpdatePadding ==
    ASSUME KInv, NEW r \in Requests, UpdateToken(r), step[r].t < step[r].pads
    PROVE  UNCHANGED <<tail, pools>> /\ step' = [step EXCEPT ![r].t = @ + 1]
<1>1. Entry(r) = [pos |-> -1, loc |-> -1, slot |-> -1]
  BY DEF Entry
<1>2. Entry(r).loc = -1 /\ Entry(r).pos = -1 /\ ~ Stashes(Entry(r))
  BY <1>1 DEF Stashes
<1> QED
  BY <1>2 DEF UpdateToken

\* A token of the row goes to its own slot of the request's ring, after the pool
\* it ends has been read from there.
LEMMA UpdateReal ==
    ASSUME KInv, NEW r \in Requests, UpdateToken(r), ~ (step[r].t < step[r].pads)
    PROVE  LET d == Done(r)
           IN  /\ d \in Nat /\ d < MaxLen /\ d = len[r] + (step[r].t - step[r].pads)
               /\ tail' = [tail EXCEPT ![r][d % RING] = Token(r, d)]
               /\ step' = [step EXCEPT ![r].t = @ + 1]
               /\ pools' = IF d % POOL = POOL - 1
                           THEN [pools EXCEPT ![r][d \div POOL] =
                                    [k \in 1 .. POOL |-> IF k - 1 = d % POOL THEN Token(r, d)
                                                         ELSE tail[r][(d - (d % POOL) + k - 1) % RING]]]
                           ELSE pools
<1> DEFINE d == Done(r)
           e == Entry(r)
<1>1. step[r] \in Steps /\ len[r] \in Nat /\ step[r] # Idle /\ step[r].t < step[r].n + step[r].pads
  BY DEF KInv, KTypes, UpdateToken
<1>2. d \in Nat /\ d < MaxLen /\ d = len[r] + (step[r].t - step[r].pads)
  BY <1>1, Sizes DEF KInv, StepInv, Steps, Done, Larger
<1>3. e.pos = d /\ e.loc = (IF d % POOL = POOL - 1 THEN d \div POOL ELSE -1)
      /\ e.slot = (r * RING) + (d % RING)
  <2>1. d = len[r] + step[r].t - step[r].pads
    BY <1>1, <1>2 DEF Steps
  <2> HIDE DEF d
  <2>2. e = [pos |-> d, loc |-> IF d % POOL = POOL - 1 THEN d \div POOL ELSE -1,
             slot |-> (r * RING) + (d % RING)]
    BY <2>1 DEF Entry
  <2> QED
    BY <2>2
<1> HIDE DEF d, e
<1>4. Larger(e.pos, 0) = d
  BY <1>2, <1>3 DEF Larger
<1>5. Larger(e.slot, 0) \div RING = r /\ e.slot >= 0
  <2>1. e.slot \in Nat /\ e.slot \div RING = r
    <3>1. r \in Nat /\ d \in Nat
      BY <1>2, Sizes
    <3>2. ((r * RING) + (d % RING)) \div RING = r /\ (r * RING) + (d % RING) \in Nat
      BY <3>1, SlotBlock
    <3> QED
      BY <1>3, <3>2, Zenon
  <2>2. Larger(e.slot, 0) = e.slot
    BY <2>1 DEF Larger
  <2> QED
    BY <2>1, <2>2
<1>6. Stashes(e)
  BY <1>2, <1>3, <1>5 DEF Stashes
<1>7. e.loc >= 0 /\ e.pos >= 0 <=> d % POOL = POOL - 1
  BY <1>2, <1>3, PoolRow
<1>8. /\ pools' = IF e.loc >= 0 /\ e.pos >= 0 /\ Larger(e.pos, 0) % POOL = POOL - 1
                  THEN [pools EXCEPT ![r][e.loc] =
                          [k \in 1 .. POOL |-> IF k - 1 = Larger(e.pos, 0) % POOL THEN Token(r, Larger(e.pos, 0))
                             ELSE tail[Larger(e.slot, 0) \div RING]
                                      [(Larger(e.pos, 0) - (Larger(e.pos, 0) % POOL) + k - 1) % RING]]]
                  ELSE pools
      /\ tail' = IF Stashes(e) THEN [tail EXCEPT ![Larger(e.slot, 0) \div RING][Larger(e.pos, 0) % RING] =
                                       Token(r, Larger(e.pos, 0))] ELSE tail
      /\ step' = [step EXCEPT ![r].t = @ + 1]
  BY Zenon DEF UpdateToken, e
<1>9. tail' = [tail EXCEPT ![r][d % RING] = Token(r, d)]
  BY <1>4, <1>5, <1>6, <1>8, Zenon
<1>10. pools' = IF d % POOL = POOL - 1
                THEN [pools EXCEPT ![r][d \div POOL] =
                         [k \in 1 .. POOL |-> IF k - 1 = d % POOL THEN Token(r, d)
                                              ELSE tail[r][(d - (d % POOL) + k - 1) % RING]]]
                ELSE pools
  <2>1. CASE d % POOL = POOL - 1
    <3>1. e.loc = d \div POOL /\ e.loc >= 0 /\ e.pos >= 0
      BY <1>3, <1>7, <2>1
    <3> QED
      BY <1>4, <1>5, <1>8, <2>1, <3>1, Zenon
  <2>2. CASE d % POOL # POOL - 1
    BY <1>7, <1>8, <2>2, Zenon
  <2> QED
    BY <2>1, <2>2, Zenon
<1> QED
  BY <1>2, <1>8, <1>9, <1>10, Zenon DEF d

\* What a token is depends on its request only.
LEMMA SameToken ==
    ASSUME NEW q, epoch'[q] = epoch[q], NEW p, len'[q] + step'[q].keep = len[q] + step[q].keep
    PROVE  Token(q, p)' = Token(q, p)
  BY DEF Token

LEMMA SamePool ==
    ASSUME NEW q, NEW i, \A p : Token(q, p)' = Token(q, p)
    PROVE  PoolOf(q, i)' = PoolOf(q, i)
  BY DEF PoolOf

LEMMA TokenType ==
    ASSUME KTypes, NEW r \in Requests, NEW p \in Nat
    PROVE  Token(r, p) \in Tokens
<1>1. r \in Int /\ epoch[r] \in Int /\ p \in Int /\ (p < len[r] + step[r].keep) \in BOOLEAN
  BY Sizes DEF KTypes
<1> QED
  BY <1>1 DEF Token, Tokens

\* A request whose own rows, ring and counters a step leaves alone.
LEMMA Apart ==
    ASSUME KInv, NEW q \in Requests, len'[q] = len[q], epoch'[q] = epoch[q], step'[q] = step[q],
           tail'[q] = tail[q], pools'[q] = pools[q]
    PROVE  RingHolds(q)' /\ RowsExact(q)'
<1>1. Done(q)' = Done(q)
  BY DEF Done
<1>2. \A p : Token(q, p)' = Token(q, p)
  BY DEF Token
<1>3. \A i : PoolOf(q, i)' = PoolOf(q, i)
  BY <1>2, SamePool
<1>4. RingHolds(q) /\ RowsExact(q)
  BY DEF KInv
<1> QED
  BY <1>1, <1>2, <1>3, <1>4 DEF RingHolds, RowsExact

\* The pool that position d ends, read from the ring.
LEMMA PoolRead ==
    ASSUME KInv, NEW r \in Requests, NEW d \in Nat, d = Done(r), d < MaxLen, d % POOL = POOL - 1, len[r] <= d
    PROVE  [k \in 1 .. POOL |-> IF k - 1 = d % POOL THEN Token(r, d)
                                ELSE tail[r][(d - (d % POOL) + k - 1) % RING]] = PoolOf(r, d \div POOL)
<1> DEFINE i == d \div POOL
           P == POOL
           base == (len[r] \div P) * P
<1>1. P \in Nat \ {0} /\ P <= RING /\ RING \in Nat /\ MaxLen \in Nat /\ len[r] \in Nat
  BY Sizes DEF KInv, KTypes
<1>2. i \in Nat /\ d = i * P + (P - 1)
  BY <1>1, DivMod
<1>3. base <= i * P /\ base \in Nat /\ i * P \in Nat
  <2> DEFINE j == len[r] \div P
  <2>1. j <= i /\ j \in Nat
    BY <1>1, DivMono, DivMod
  <2> HIDE DEF i, j
  <2> QED
    BY <1>1, <1>2, <2>1, MulMono, MulNat DEF j
<1> HIDE DEF i, P, base
<1>4. ASSUME NEW k \in 1 .. P
      PROVE  (IF k - 1 = P - 1 THEN Token(r, d) ELSE tail[r][(d - (P - 1) + k - 1) % RING])
                = Token(r, (i * P) + (k - 1))
  <2>1. CASE k - 1 = P - 1
    <3>1. d = (i * P) + (k - 1)
      BY <1>2, <2>1
    <3> QED
      BY <2>1, <3>1
  <2>2. CASE k - 1 # P - 1
    <3> DEFINE p == (i * P) + (k - 1)
    <3>1. d - (P - 1) + k - 1 = p
      BY <1>1, <1>2, <1>3
    <3>2. p \in 0 .. MaxLen /\ base <= p /\ d - RING <= p /\ p < d
      BY <1>1, <1>2, <1>3, <2>2
    <3> HIDE DEF p
    <3>3. tail[r][p % RING] = Token(r, p)
      BY <3>2 DEF KInv, RingHolds, base, P
    <3> QED
      BY <2>2, <3>1, <3>3 DEF p
  <2> QED
    BY <2>1, <2>2
<1>5. [k \in 1 .. P |-> IF k - 1 = P - 1 THEN Token(r, d) ELSE tail[r][(d - (P - 1) + k - 1) % RING]]
         = [k \in 1 .. P |-> Token(r, (i * P) + (k - 1))]
  BY <1>4, Zenon
<1>6. PoolOf(r, i) = [k \in 1 .. P |-> Token(r, (i * P) + (k - 1))]
  BY DEF PoolOf, P
<1> QED
  BY <1>5, <1>6, Zenon DEF i, P

LEMMA UpdateInv ==
    ASSUME KInv, NEW r \in Requests, UpdateToken(r)
    PROVE  KInv'
<1> DEFINE d == Done(r)
<1>1. /\ step[r] \in Steps /\ len[r] \in Nat /\ step[r] # Idle /\ step[r].t < step[r].n + step[r].pads
      /\ step' = [step EXCEPT ![r].t = @ + 1] /\ len' = len /\ epoch' = epoch
  BY DEF KInv, KTypes, UpdateToken
<1>2. /\ step' \in [Requests -> Steps] /\ step'[r].t = step[r].t + 1
      /\ step'[r].n = step[r].n /\ step'[r].keep = step[r].keep /\ step'[r].pads = step[r].pads
      /\ \A q \in Requests : q # r => step'[q] = step[q]
  <2>1. step \in [Requests -> Steps]
    BY DEF KInv, KTypes
  <2>2. step'[r] = [step[r] EXCEPT !.t = @ + 1] /\ \A q \in Requests : q # r => step'[q] = step[q]
    BY <1>1, <2>1
  <2>3. /\ step'[r] \in Steps /\ step'[r].t = step[r].t + 1
        /\ step'[r].n = step[r].n /\ step'[r].keep = step[r].keep /\ step'[r].pads = step[r].pads
    BY <1>1, <2>2 DEF Steps
  <2> QED
    BY <1>1, <2>1, <2>2, <2>3
<1>3. StepInv'
  <2>1. step[r].t \in Nat /\ step[r].n \in Nat /\ step[r].pads \in Nat
    BY <1>1 DEF Steps
  <2> QED
    BY <1>1, <1>2, <2>1 DEF KInv, StepInv
<1>4. \A q \in Requests : \A p : Token(q, p)' = Token(q, p)
  BY <1>1, <1>2 DEF Token
<1>5. \A q \in Requests : \A i : PoolOf(q, i)' = PoolOf(q, i)
  BY <1>4, SamePool
<1>6. KTypes /\ RingHolds(r) /\ RowsExact(r)
  BY DEF KInv
<1>7. CASE step[r].t < step[r].pads
  <2>1. UNCHANGED <<tail, pools>>
    BY <1>7, UpdatePadding
  <2>2. Done(r)' = Done(r)
    BY <1>1, <1>2, <1>7 DEF Done, Larger, Steps
  <2>3. RingHolds(r)' /\ RowsExact(r)'
    BY <1>1, <1>4, <1>5, <1>6, <2>1, <2>2 DEF RingHolds, RowsExact
  <2>4. KTypes'
    BY <1>1, <1>2, <1>6, <2>1 DEF KTypes
  <2>5. \A q \in Requests : q # r => RingHolds(q)' /\ RowsExact(q)'
    BY <1>1, <1>2, <2>1, Apart
  <2> QED
    BY <1>3, <2>3, <2>4, <2>5 DEF KInv
<1>8. CASE ~ (step[r].t < step[r].pads)
  <2> DEFINE i == d \div POOL
             row == [k \in 1 .. POOL |-> IF k - 1 = d % POOL THEN Token(r, d)
                                         ELSE tail[r][(d - (d % POOL) + k - 1) % RING]]
  <2>1. /\ d \in Nat /\ d < MaxLen /\ d = len[r] + (step[r].t - step[r].pads)
        /\ tail' = [tail EXCEPT ![r][d % RING] = Token(r, d)]
        /\ pools' = IF d % POOL = POOL - 1 THEN [pools EXCEPT ![r][i] = row] ELSE pools
    BY <1>8, UpdateReal, Zenon
  <2>2. Done(r)' = d + 1 /\ len[r] <= d
    <3>1. step[r].t \in Nat /\ step[r].pads \in Nat
      BY <1>1 DEF Steps
    <3>2. Done(r)' = len[r] + ((step[r].t + 1) - step[r].pads)
      BY <1>1, <1>2, <1>8, <3>1 DEF Done, Larger
    <3>3. d = len[r] + (step[r].t - step[r].pads)
      BY <2>1
    <3> HIDE DEF d
    <3> QED
      BY <1>1, <1>8, <3>1, <3>2, <3>3
  <2>3. d % POOL = POOL - 1 => row = PoolOf(r, i) /\ i \in PoolIds
    BY <2>1, <2>2, PoolRead, PoolRow
  <2>4. d % RING \in 0 .. RING - 1 /\ i \in Nat
    <3>1. RING \in Nat \ {0} /\ POOL \in Nat \ {0}
      BY Sizes
    <3> HIDE DEF d
    <3> QED
      BY <2>1, <3>1, DivMod
  <2>5. (d + 1) \div POOL = IF d % POOL = POOL - 1 THEN i + 1 ELSE i
    BY <2>1, NextPool, Sizes
  <2> HIDE DEF i, row
  <2>6. /\ tail' \in [Requests -> [0 .. RING - 1 -> Tokens]]
        /\ tail'[r][d % RING] = Token(r, d)
        /\ \A n \in 0 .. RING - 1 : n # d % RING => tail'[r][n] = tail[r][n]
        /\ \A q \in Requests : q # r => tail'[q] = tail[q]
    <3>1. Token(r, d) \in Tokens
      BY <1>6, <2>1, TokenType
    <3> QED
      BY <1>6, <2>1, <2>4, <3>1 DEF KTypes
  <2>7. /\ pools' \in [Requests -> [PoolIds -> Seq(Tokens)]]
        /\ d % POOL = POOL - 1 => pools'[r][i] = PoolOf(r, i)
        /\ \A j \in PoolIds : j # i => pools'[r][j] = pools[r][j]
        /\ \A q \in Requests : q # r => pools'[q] = pools[q]
    <3>1. CASE d % POOL = POOL - 1
      <4>1. row \in Seq(Tokens)
        <5>1. PoolOf(r, i) = [k \in 1 .. POOL |-> Token(r, (i * POOL) + (k - 1))]
          BY DEF PoolOf
        <5>2. \A k \in 1 .. POOL : (i * POOL) + (k - 1) \in Nat
          BY <2>4, Sizes, MulNat
        <5>3. \A k \in 1 .. POOL : Token(r, (i * POOL) + (k - 1)) \in Tokens
          BY <1>6, <5>2, TokenType
        <5>4. [k \in 1 .. POOL |-> Token(r, (i * POOL) + (k - 1))] \in [1 .. POOL -> Tokens]
          BY <5>3
        <5>5. POOL \in Nat
          BY Sizes
        <5> QED
          BY <2>3, <3>1, <5>1, <5>4, <5>5
      <4>2. i \in PoolIds /\ row = PoolOf(r, i) /\ pools' = [pools EXCEPT ![r][i] = row]
        BY <2>1, <2>3, <3>1
      <4> QED
        BY <1>6, <4>1, <4>2 DEF KTypes
    <3>2. CASE d % POOL # POOL - 1
      BY <1>6, <2>1, <3>2 DEF KTypes
    <3> QED
      BY <3>1, <3>2
  <2>8. RingHolds(r)'
    <3> SUFFICES ASSUME NEW p \in 0 .. MaxLen, (len[r] \div POOL) * POOL <= p, (d + 1) - RING <= p, p < d + 1
                 PROVE  tail'[r][p % RING] = Token(r, p)'
      BY <1>1, <2>2 DEF RingHolds
    <3>0. p \in Nat /\ RING \in Nat
      BY Sizes
    <3>1. CASE p = d
      BY <1>4, <2>6, <3>1
    <3>2. CASE p # d
      <4>1. p < d /\ d - p < RING /\ d - RING <= p
        BY <2>1, <3>0, <3>2
      <4>2. p % RING # d % RING /\ p % RING \in 0 .. RING - 1
        BY <2>1, <3>0, <4>1, RingApart, SlotBlock, Sizes
      <4>3. tail[r][p % RING] = Token(r, p)
        BY <1>6, <4>1 DEF RingHolds
      <4> QED
        BY <1>4, <2>6, <4>2, <4>3
    <3> QED
      BY <3>1, <3>2
  <2>9. RowsExact(r)'
    <3> SUFFICES ASSUME NEW j \in PoolIds, j < (d + 1) \div POOL PROVE pools'[r][j] = PoolOf(r, j)'
      BY <2>2 DEF RowsExact
    <3>1. CASE j = i
      BY <1>5, <2>4, <2>5, <2>7, <3>1
    <3>2. CASE j # i
      <4>1. j \in Int
        BY DEF PoolIds
      <4>2. j < i
        BY <2>4, <2>5, <3>2, <4>1
      <4>3. pools[r][j] = PoolOf(r, j)
        BY <1>6, <4>2 DEF RowsExact, i
      <4> QED
        BY <1>5, <2>7, <3>2, <4>3
    <3> QED
      BY <3>1, <3>2
  <2>10. KTypes'
    BY <1>1, <1>2, <1>6, <2>6, <2>7 DEF KTypes
  <2>11. \A q \in Requests : q # r => RingHolds(q)' /\ RowsExact(q)'
    BY <1>1, <1>2, <2>6, <2>7, Apart
  <2> QED
    BY <1>3, <2>8, <2>9, <2>10, <2>11 DEF KInv
<1> QED
  BY <1>7, <1>8

LEMMA AcceptInv ==
    ASSUME KInv, NEW r \in Requests, Accept(r)
    PROVE  KInv'
<1> DEFINE n == step[r].n
           keep == step[r].keep
           l == len[r]
           P == POOL
<1>1. /\ step[r] \in Steps /\ l \in Nat /\ step[r] # Idle /\ step[r].t = n + step[r].pads
      /\ len' = [len EXCEPT ![r] = l + keep] /\ step' = [step EXCEPT ![r] = Idle]
      /\ UNCHANGED <<epoch, tail, pools>>
  BY DEF KInv, KTypes, Accept
<1>2. n \in 1 .. NextN /\ keep \in 1 .. n /\ l + n <= MaxLen /\ n \in Nat /\ keep \in Nat
  BY <1>1 DEF KInv, StepInv, Steps
<1>3. Idle \in Steps /\ Idle.keep = 0 /\ Idle.t = 0 /\ Idle.pads = 0
  BY DEF Idle, Steps
<1>4. KTypes'
  <2>1. l + keep \in 0 .. MaxLen
    BY <1>1, <1>2, Sizes
  <2> QED
    BY <1>1, <1>3, <2>1 DEF KInv, KTypes
<1>5. /\ len'[r] = l + keep /\ step'[r] = Idle
      /\ \A q \in Requests : q # r => len'[q] = len[q] /\ step'[q] = step[q]
  BY <1>1 DEF KInv, KTypes
<1>6. StepInv'
  BY <1>5 DEF KInv, StepInv
<1>7. Done(r)' = l + keep /\ Done(r) = l + n
  BY <1>1, <1>2, <1>3, <1>5 DEF Done, Larger, Steps
<1>8. \A p : Token(r, p)' = Token(r, p)
  <2>1. len'[r] + step'[r].keep = len[r] + step[r].keep
    BY <1>1, <1>2, <1>3, <1>5
  <2> QED
    BY <1>1, <2>1 DEF Token
<1>9. RingHolds(r)'
  <2> SUFFICES ASSUME NEW p \in 0 .. MaxLen, ((l + keep) \div P) * P <= p, p < l + keep
               PROVE  tail[r][p % RING] = Token(r, p)
    BY <1>1, <1>5, <1>7, <1>8 DEF RingHolds
  <2> DEFINE s == ((l + keep) \div P) * P
             b == (l \div P) * P
  <2>1. P \in Nat \ {0} /\ RING \in Nat /\ MaxLen \in Nat /\ NextN \in Nat /\ NextN <= RING - P + 2 /\ P <= RING
    BY Sizes
  <2>2. s \in Nat /\ l + keep < s + P
    <3> DEFINE a == l + keep
    <3>1. a \in Nat
      BY <1>1, <1>2
    <3> HIDE DEF a
    <3> QED
      BY <2>1, <3>1, BlockStart DEF a
  <2>3. b <= s /\ b \in Nat
    <3> DEFINE i == l \div P
               j == (l + keep) \div P
    <3>1. i \in Nat /\ j \in Nat /\ i <= j
      <4>1. l + keep \in Nat /\ l <= l + keep
        BY <1>1, <1>2
      <4> QED
        BY <1>1, <2>1, <4>1, DivMod, DivMono
    <3> HIDE DEF i, j
    <3> QED
      BY <2>1, <3>1, MulMono, MulNat DEF i, j
  <2>4. s <= p
    OBVIOUS
  <2> HIDE DEF s, b
  <2>5. b <= p /\ (l + n) - RING <= p /\ p < l + n
    BY <1>1, <1>2, <2>1, <2>2, <2>3, <2>4
  <2>6. RingHolds(r)
    BY DEF KInv
  <2> QED
    BY <1>7, <2>5, <2>6 DEF RingHolds, b, P, l
<1>10. RowsExact(r)'
  <2> SUFFICES ASSUME NEW i \in PoolIds, i < (l + keep) \div P PROVE pools[r][i] = PoolOf(r, i)
    BY <1>1, <1>7, <1>8, SamePool DEF RowsExact
  <2>1. (l + keep) \div P <= (l + n) \div P /\ (l + keep) \div P \in Nat /\ (l + n) \div P \in Nat
    <3> DEFINE a == l + keep
               c == l + n
    <3>1. a \in Nat /\ c \in Nat /\ a <= c /\ P \in Nat \ {0}
      BY <1>1, <1>2, Sizes
    <3> HIDE DEF a, c, P
    <3>2. a \div P <= c \div P /\ a \div P \in Nat /\ c \div P \in Nat
      BY <3>1, DivMono, DivMod
    <3> QED
      BY <3>2 DEF a, c
  <2>2. i \in Int
    BY DEF PoolIds
  <2>3. i < (l + n) \div P
    BY <2>1, <2>2
  <2> QED
    BY <1>7, <2>3 DEF KInv, RowsExact
<1>11. \A q \in Requests : q # r => RingHolds(q)' /\ RowsExact(q)'
  BY <1>1, <1>5, Apart
<1> QED
  BY <1>4, <1>6, <1>9, <1>10, <1>11 DEF KInv

LEMMA LaunchInv ==
    ASSUME KInv, NEW r \in Requests, NEW n \in 1 .. NextN, NEW keep \in 1 .. NextN,
           NEW pads \in 0 .. NextN - 1, Launch(r, n, keep, pads)
    PROVE  KInv'
<1> DEFINE s == [n |-> n, keep |-> keep, pads |-> pads, t |-> 0]
<1>1. /\ step[r] = Idle /\ len[r] > 0 /\ len[r] + n <= MaxLen /\ keep \in 1 .. n /\ n + pads <= NextN
      /\ step' = [step EXCEPT ![r] = s] /\ UNCHANGED <<len, epoch, tail, pools>>
  BY DEF Launch
<1>2. s \in Steps /\ s.n = n /\ s.keep = keep /\ s.pads = pads /\ s.t = 0
  BY Sizes DEF Steps
<1> HIDE DEF s
<1>3. step' \in [Requests -> Steps] /\ step'[r] = s /\ \A q \in Requests : q # r => step'[q] = step[q]
  BY <1>1, <1>2 DEF KInv, KTypes
<1>4. KTypes'
  BY <1>1, <1>3 DEF KInv, KTypes
<1>5. StepInv'
  BY <1>1, <1>2, <1>3, Sizes DEF KInv, StepInv
<1>6. Idle.keep = 0 /\ Idle.t = 0 /\ Idle.pads = 0 /\ len[r] \in Nat /\ pads \in Nat /\ keep \in Nat
  BY DEF Idle, KInv, KTypes
<1>7. Done(r)' = len[r] /\ Done(r) = len[r]
  BY <1>1, <1>2, <1>3, <1>6 DEF Done, Larger
<1>8. ASSUME NEW p \in Nat, p < len[r] PROVE Token(r, p)' = Token(r, p)
  <2>1. (p < len'[r] + step'[r].keep) <=> TRUE
    BY <1>1, <1>2, <1>3, <1>6, <1>8
  <2>2. (p < len[r] + step[r].keep) <=> TRUE
    BY <1>1, <1>6, <1>8
  <2>3. (p < len'[r] + step'[r].keep) = (p < len[r] + step[r].keep)
    BY <2>1, <2>2
  <2> QED
    BY <1>1, <2>3, Zenon DEF Token
<1>9. RingHolds(r)'
  <2> SUFFICES ASSUME NEW p \in 0 .. MaxLen, (len[r] \div POOL) * POOL <= p, len[r] - RING <= p, p < len[r]
               PROVE  tail[r][p % RING] = Token(r, p)'
    BY <1>1, <1>7 DEF RingHolds
  <2> QED
    BY <1>7, <1>8 DEF KInv, RingHolds
<1>10. RowsExact(r)'
  <2> SUFFICES ASSUME NEW i \in PoolIds, i < len[r] \div POOL PROVE pools[r][i] = PoolOf(r, i)'
    BY <1>1, <1>7 DEF RowsExact
  <2>1. pools[r][i] = PoolOf(r, i)
    BY <1>7 DEF KInv, RowsExact
  <2>2. ASSUME NEW k \in 1 .. POOL PROVE Token(r, (i * POOL) + (k - 1))' = Token(r, (i * POOL) + (k - 1))
    <3> DEFINE q == len[r] \div POOL
               P == POOL
    <3>1. P \in Nat \ {0} /\ i \in Nat
      BY Sizes DEF PoolIds
    <3>2. q \in Nat /\ q * P <= len[r] /\ q * P \in Nat
      BY <1>6, <3>1, BlockStart, DivMod
    <3>3. i < q
      OBVIOUS
    <3> HIDE DEF q, P
    <3>4. i * P + P <= q * P /\ i * P \in Nat
      BY <3>1, <3>2, <3>3, MulMono, MulNat
    <3>5. k \in 1 .. P
      BY DEF P
    <3>6. (i * P) + (k - 1) \in Nat /\ (i * P) + (k - 1) < len[r]
      BY <1>6, <3>1, <3>2, <3>4, <3>5
    <3> QED
      BY <1>8, <3>6 DEF P
  <2>3. PoolOf(r, i)' = PoolOf(r, i)
    BY <2>2 DEF PoolOf
  <2> QED
    BY <2>1, <2>3
<1>11. \A q \in Requests : q # r => RingHolds(q)' /\ RowsExact(q)'
  BY <1>1, <1>3, Apart
<1> QED
  BY <1>4, <1>5, <1>9, <1>10, <1>11 DEF KInv

LEMMA NoPools == 0 \div POOL = 0
<1>1. (0 * POOL + 0) \div POOL = 0 /\ 0 * POOL + 0 = 0
  BY DivUnique, Sizes
<1> QED
  BY <1>1

LEMMA ReleaseInv ==
    ASSUME KInv, NEW r \in Requests, Release(r)
    PROVE  KInv'
<1>1. /\ step[r] = Idle /\ len' = [len EXCEPT ![r] = 0] /\ epoch' = [epoch EXCEPT ![r] = @ + 1]
      /\ UNCHANGED <<step, tail, pools>>
  BY DEF Release
<1>2. KTypes' /\ StepInv'
  BY <1>1, Sizes DEF KInv, KTypes, StepInv
<1>3. len'[r] = 0 /\ step'[r] = Idle /\ \A q \in Requests : q # r => len'[q] = len[q] /\ epoch'[q] = epoch[q]
  BY <1>1 DEF KInv, KTypes
<1>4. RingHolds(r)' /\ RowsExact(r)'
  <2>1. Done(r)' = 0
    BY <1>3 DEF Done, Idle, Larger
  <2> QED
    BY <2>1, NoPools, Sizes DEF RingHolds, RowsExact, PoolIds
<1>5. \A q \in Requests : q # r => RingHolds(q)' /\ RowsExact(q)'
  BY <1>1, <1>3, Apart
<1> QED
  BY <1>2, <1>4, <1>5 DEF KInv

-----------------------------------------------------------------------------
(* Sequences put one after another *)

\* Sets of numbers have least elements, which gives induction over explicit data.
LEMMA LeastNat ==
    ASSUME NEW S \in SUBSET Nat, S # {}
    PROVE  \E m \in S : \A n \in S : m <= n
<1> DEFINE R == OpToRel(<, Nat)
<1>1. IsWellFoundedOn(R, Nat)
  BY NatLessThanWellFounded, Zenon
<1>2. \A x, y \in Nat : <<x, y>> \in R <=> x < y
  BY DEF OpToRel
<1> HIDE DEF R
<1>3. PICK m \in S : \A n \in S : ~ (<<n, m>> \in R)
  BY <1>1, WFMin
<1>4. ASSUME NEW n \in S PROVE m <= n
  <2>1. m \in Nat /\ n \in Nat /\ ~ (n < m)
    BY <1>2, <1>3
  <2> QED
    BY <2>1
<1> QED
  BY <1>4

LEMMA FlattenExists ==
    ASSUME NEW N \in Nat \ {0}, NEW seqs
    PROVE  \E g : g = [i \in 1 .. N |-> IF i = 1 THEN seqs[i] ELSE g[i - 1] \o seqs[i]]
<1> DEFINE Is(n, g) == g = [i \in 1 .. n |-> IF i = 1 THEN seqs[i] ELSE g[i - 1] \o seqs[i]]
           Bad == {n \in 1 .. N : ~ \E g : Is(n, g)}
<1> SUFFICES Bad = {}
  <2>1. N \in 1 .. N
    OBVIOUS
  <2> QED
    BY <2>1
<1> SUFFICES ASSUME Bad # {} PROVE FALSE
  OBVIOUS
<1>1. Bad \in SUBSET Nat
  <2> HIDE DEF Is
  <2> QED OBVIOUS
<1>2. PICK n \in Bad : \A m \in Bad : n <= m
  <2> HIDE DEF Bad
  <2> QED BY <1>1, LeastNat
<1>3. n \in 1 .. N /\ n \in Nat
  <2> HIDE DEF Is
  <2> QED OBVIOUS
<1>4. CASE n = 1
  <2> DEFINE h == [i \in 1 .. 1 |-> seqs[i]]
  <2>1. Is(1, h)
    OBVIOUS
  <2> QED
    BY <1>4, <2>1
<1>5. CASE n # 1
  <2>1. n - 1 \in 1 .. N /\ ~ (n <= n - 1)
    BY <1>3, <1>5
  <2>2. n - 1 \notin Bad
    BY <1>2, <2>1
  <2>3. PICK g : Is(n - 1, g)
    BY <2>1, <2>2
  <2> DEFINE h == [i \in 1 .. n |-> IF i = n THEN g[n - 1] \o seqs[n] ELSE g[i]]
  <2>4. ASSUME NEW i \in 1 .. n
        PROVE  h[i] = IF i = 1 THEN seqs[i] ELSE h[i - 1] \o seqs[i]
    <3>1. CASE i = n
      <4>1. n - 1 \in 1 .. n /\ n - 1 # n
        BY <1>3, <2>1
      <4>2. h[n - 1] = g[n - 1]
        BY <4>1
      <4>3. h[n] = g[n - 1] \o seqs[n]
        BY <3>1
      <4> QED
        BY <1>5, <3>1, <4>2, <4>3
    <3>2. CASE i # n
      <4>1. i \in 1 .. n - 1 /\ i \in Nat
        BY <1>3, <3>2
      <4>2. i # 1 => i - 1 \in 1 .. n /\ i - 1 # n
        BY <1>3, <4>1
      <4>4. h[i] = g[i]
        BY <3>2
      <4>5. i # 1 => h[i - 1] = g[i - 1]
        BY <4>2
      <4>3. g[i] = IF i = 1 THEN seqs[i] ELSE g[i - 1] \o seqs[i]
        BY <2>3, <4>1
      <4> QED
        BY <4>3, <4>4, <4>5
    <3> QED
      BY <3>1, <3>2
  <2>5. h = [i \in 1 .. n |-> h[i]]
    OBVIOUS
  <2> HIDE DEF h
  <2>6. Is(n, h)
    BY <2>4, <2>5
  <2> QED
    BY <2>6
<1> QED
  BY <1>4, <1>5

LEMMA FlattenDef ==
    ASSUME NEW seqs, Len(seqs) \in Nat \ {0}
    PROVE  \E g : /\ g = [i \in 1 .. Len(seqs) |-> IF i = 1 THEN seqs[i] ELSE g[i - 1] \o seqs[i]]
                  /\ FlattenSeq(seqs) = g[Len(seqs)]
<1> DEFINE N == Len(seqs)
           flat == CHOOSE g : g = [i \in 1 .. N |-> IF i = 1 THEN seqs[i] ELSE g[i - 1] \o seqs[i]]
<1>1. FlattenSeq(seqs) = flat[N]
  BY DEF FlattenSeq
<1>2. \E g : g = [i \in 1 .. N |-> IF i = 1 THEN seqs[i] ELSE g[i - 1] \o seqs[i]]
  BY FlattenExists
<1>3. flat = [i \in 1 .. N |-> IF i = 1 THEN seqs[i] ELSE flat[i - 1] \o seqs[i]]
  BY <1>2, Zenon
<1> QED
  BY <1>1, <1>3, Zenon

\* Every element of the concatenation is an element of one of the sequences, which
\* begin where the ones before them end.
LEMMA FlattenAt ==
    ASSUME NEW S, NEW seqs \in Seq(Seq(S)), seqs # <<>>
    PROVE  LET N == Len(seqs)
               F == FlattenSeq(seqs)
           IN  /\ F \in Seq(S)
               /\ \E base \in [1 .. N -> Nat] :
                     /\ base[1] = 0 /\ \A i \in 1 .. N : i # 1 => base[i] = base[i - 1] + Len(seqs[i - 1])
                     /\ Len(F) = base[N] + Len(seqs[N])
                     /\ \A i \in 1 .. N : \A j \in 1 .. Len(seqs[i]) :
                           base[i] + j \in 1 .. Len(F) /\ F[base[i] + j] = seqs[i][j]
                     /\ \A m \in 1 .. Len(F) : \E i \in 1 .. N : \E j \in 1 .. Len(seqs[i]) : m = base[i] + j
<1> DEFINE N == Len(seqs)
           F == FlattenSeq(seqs)
<1>1. N \in Nat \ {0} /\ \A i \in 1 .. N : seqs[i] \in Seq(S) /\ Len(seqs[i]) \in Nat
  OBVIOUS
<1>2. PICK g : /\ g = [i \in 1 .. N |-> IF i = 1 THEN seqs[i] ELSE g[i - 1] \o seqs[i]]
               /\ F = g[N]
  BY <1>1, FlattenDef
<1> HIDE DEF N, F
<1>3. g[1] = seqs[1] /\ \A i \in 1 .. N : i # 1 => g[i] = g[i - 1] \o seqs[i]
  <2>1. 1 \in 1 .. N
    BY <1>1
  <2>2. ASSUME NEW i \in 1 .. N PROVE g[i] = IF i = 1 THEN seqs[i] ELSE g[i - 1] \o seqs[i]
    BY <1>2, Zenon
  <2> QED
    BY <2>1, <2>2
<1> DEFINE b(i) == Len(g[i]) - Len(seqs[i])
           Good(n) == /\ g[n] \in Seq(S) /\ b(n) \in Nat
                      /\ IF n = 1 THEN b(n) = 0 ELSE b(n) = b(n - 1) + Len(seqs[n - 1])
                      /\ \A i \in 1 .. n : \A j \in 1 .. Len(seqs[i]) :
                            b(i) + j \in 1 .. Len(g[n]) /\ g[n][b(i) + j] = seqs[i][j]
                      /\ \A m \in 1 .. Len(g[n]) : \E i \in 1 .. n : \E j \in 1 .. Len(seqs[i]) : m = b(i) + j
<1>4. Good(1)
  <2>1. g[1] = seqs[1] /\ seqs[1] \in Seq(S) /\ Len(seqs[1]) \in Nat
    BY <1>1, <1>3
  <2>2. b(1) = 0
    BY <2>1
  <2>3. \A i \in 1 .. 1 : i = 1
    OBVIOUS
  <2>4. \A i \in 1 .. 1 : \A j \in 1 .. Len(seqs[i]) : b(i) + j \in 1 .. Len(g[1]) /\ g[1][b(i) + j] = seqs[i][j]
    BY <2>1, <2>2, <2>3
  <2>5. \A m \in 1 .. Len(g[1]) : \E i \in 1 .. 1 : \E j \in 1 .. Len(seqs[i]) : m = b(i) + j
    <3> TAKE m \in 1 .. Len(g[1])
    <3>1. 1 \in 1 .. 1 /\ m \in 1 .. Len(seqs[1]) /\ m = b(1) + m
      BY <2>1, <2>2
    <3> QED
      BY <3>1
  <2> HIDE DEF b
  <2> QED
    BY <2>1, <2>2, <2>4, <2>5
<1>5. ASSUME NEW n \in 1 .. N, n # 1, Good(n - 1) PROVE Good(n)
  <2> DEFINE G == g[n - 1]
             s == seqs[n]
  <2>1. g[n] = G \o s
    BY <1>3, <1>5
  <2>2. s \in Seq(S) /\ Len(s) \in Nat /\ G \in Seq(S) /\ Len(G) \in Nat /\ n \in Nat /\ n - 1 \in 1 .. N
    BY <1>1, <1>5
  <2> HIDE DEF G, s
  <2>3. /\ g[n] \in Seq(S) /\ Len(g[n]) = Len(G) + Len(s)
        /\ \A m \in 1 .. Len(G) : g[n][m] = G[m]
        /\ \A j \in 1 .. Len(s) : g[n][Len(G) + j] = s[j]
    BY <2>1, <2>2
  <2>4. b(n) = Len(G) /\ b(n) = b(n - 1) + Len(seqs[n - 1])
    <3>1. Len(seqs[n - 1]) \in Nat
      BY <1>1, <2>2
    <3> QED
      BY <2>2, <2>3, <3>1 DEF G, s
  <2>5. /\ \A i \in 1 .. n - 1 : \A j \in 1 .. Len(seqs[i]) : b(i) + j \in 1 .. Len(G) /\ G[b(i) + j] = seqs[i][j]
        /\ \A m \in 1 .. Len(G) : \E i \in 1 .. n - 1 : \E j \in 1 .. Len(seqs[i]) : m = b(i) + j
    BY <1>5 DEF G
  <2> HIDE DEF b
  <2>6. ASSUME NEW i \in 1 .. n, NEW j \in 1 .. Len(seqs[i])
        PROVE  b(i) + j \in 1 .. Len(g[n]) /\ g[n][b(i) + j] = seqs[i][j]
    <3>1. CASE i = n
      <4>1. j \in 1 .. Len(s)
        BY <3>1 DEF s
      <4>2. Len(G) + j \in 1 .. Len(g[n])
        BY <2>2, <2>3, <4>1
      <4> QED
        BY <2>3, <2>4, <3>1, <4>1, <4>2 DEF s
    <3>2. CASE i # n
      <4>1. i \in 1 .. n - 1
        BY <2>2, <3>2
      <4>2. b(i) + j \in 1 .. Len(G) /\ G[b(i) + j] = seqs[i][j]
        BY <2>5, <4>1
      <4> DEFINE m == b(i) + j
      <4> HIDE DEF m
      <4>3. m \in 1 .. Len(g[n]) /\ g[n][m] = G[m]
        BY <2>2, <2>3, <4>2 DEF m
      <4> QED
        BY <4>2, <4>3 DEF m
    <3> QED
      BY <3>1, <3>2
  <2>7. ASSUME NEW m \in 1 .. Len(g[n]) PROVE \E i \in 1 .. n : \E j \in 1 .. Len(seqs[i]) : m = b(i) + j
    <3>1. CASE m <= Len(G)
      <4>1. m \in 1 .. Len(G)
        BY <2>2, <2>3, <3>1
      <4>2. PICK i \in 1 .. n - 1 : \E j \in 1 .. Len(seqs[i]) : m = b(i) + j
        BY <2>5, <4>1
      <4>3. i \in 1 .. n
        BY <2>2
      <4> QED
        BY <4>2, <4>3
    <3>2. CASE m > Len(G)
      <4> DEFINE j == m - Len(G)
      <4>1. j \in 1 .. Len(s) /\ m = Len(G) + j /\ n \in 1 .. n
        BY <2>2, <2>3, <3>2
      <4> HIDE DEF j
      <4>2. m = b(n) + j /\ j \in 1 .. Len(seqs[n])
        BY <2>4, <4>1 DEF s
      <4> QED
        BY <4>1, <4>2
    <3> QED
      BY <2>2, <2>3, <3>1, <3>2
  <2> QED
    BY <1>5, <2>2, <2>3, <2>4, <2>6, <2>7
<1> HIDE DEF Good, b
<1>6. \A n \in 1 .. N : Good(n)
  <2> DEFINE Bad == {n \in 1 .. N : ~ Good(n)}
  <2> SUFFICES ASSUME Bad # {} PROVE FALSE
    OBVIOUS
  <2>1. Bad \in SUBSET Nat
    OBVIOUS
  <2>2. PICK n \in Bad : \A m \in Bad : n <= m
    <3> HIDE DEF Bad
    <3> QED BY <2>1, LeastNat
  <2>3. n \in 1 .. N /\ ~ Good(n) /\ n # 1
    BY <1>4
  <2>4. n - 1 \in 1 .. N /\ ~ (n <= n - 1)
    BY <1>1, <2>3
  <2>5. Good(n - 1)
    BY <2>2, <2>4
  <2> QED
    BY <1>5, <2>3, <2>5
<1> DEFINE base == [i \in 1 .. N |-> b(i)]
<1>7. Good(N) /\ N \in 1 .. N
  BY <1>1, <1>6
<1>8. F = g[N]
  BY <1>2, Zenon
<1>9. base \in [1 .. N -> Nat] /\ \A i \in 1 .. N : base[i] = b(i)
  BY <1>6 DEF Good
<1> HIDE DEF base
<1>10. base[1] = 0 /\ \A i \in 1 .. N : i # 1 => base[i] = base[i - 1] + Len(seqs[i - 1])
  <2>1. base[1] = 0
    BY <1>1, <1>4, <1>9 DEF Good
  <2>2. ASSUME NEW i \in 1 .. N, i # 1 PROVE base[i] = base[i - 1] + Len(seqs[i - 1])
    <3>1. i - 1 \in 1 .. N
      BY <1>1, <2>2
    <3>2. b(i) = b(i - 1) + Len(seqs[i - 1])
      BY <1>6, <2>2 DEF Good
    <3> QED
      BY <1>9, <3>1, <3>2
  <2> QED
    BY <2>1, <2>2
<1>11. Len(F) = base[N] + Len(seqs[N]) /\ F \in Seq(S)
  <2>1. F \in Seq(S) /\ Len(F) \in Nat /\ Len(seqs[N]) \in Nat
    BY <1>1, <1>7, <1>8 DEF Good
  <2>2. base[N] = Len(F) - Len(seqs[N])
    BY <1>7, <1>9, <1>8 DEF b
  <2> QED
    BY <2>1, <2>2
<1>12. \A i \in 1 .. N : \A j \in 1 .. Len(seqs[i]) : base[i] + j \in 1 .. Len(F) /\ F[base[i] + j] = seqs[i][j]
  BY <1>7, <1>9, <1>8 DEF Good
<1>13. \A m \in 1 .. Len(F) : \E i \in 1 .. N : \E j \in 1 .. Len(seqs[i]) : m = base[i] + j
  BY <1>7, <1>9, <1>8 DEF Good
<1> QED
  BY <1>9, <1>10, <1>11, <1>12, <1>13 DEF N, F

LEMMA Orders ==
    ASSUME NEW S, IsFiniteSet(S), NEW s \in SetToSeqs(S)
    PROVE  /\ s \in Seq(S) /\ Len(s) = Cardinality(S) /\ Cardinality(S) \in Nat
           /\ \A i, j \in 1 .. Len(s) : i # j => s[i] # s[j]
           /\ \A x \in S : \E i \in 1 .. Len(s) : s[i] = x
<1> DEFINE n == Cardinality(S)
<1>1. n \in Nat
  BY FS_CardinalityType
<1>2. s \in [1 .. n -> S] /\ \A i, j \in 1 .. n : i # j => s[i] # s[j]
  BY DEF SetToSeqs
<1>3. Cardinality(1 .. n) = Cardinality(S)
  BY <1>1, FS_Interval DEF n
<1> HIDE DEF n
<1>4. s \in Seq(S) /\ Len(s) = n
  BY <1>1, <1>2
<1>5. s \in Injection(1 .. n, S)
  BY <1>2 DEF Injection, IsInjective
<1>6. s \in Surjection(1 .. n, S)
  BY <1>3, <1>5, FS_Injection
<1>7. \A x \in S : \E i \in 1 .. n : s[i] = x
  BY <1>6 DEF Surjection
<1> QED
  BY <1>1, <1>2, <1>4, <1>7 DEF n

-----------------------------------------------------------------------------
(* Prefill *)

\* In a batch the prompts lie one after another, each from its own place on.
LEMMA BatchIs ==
    ASSUME NEW S \in SUBSET Requests, S # {}, NEW rows \in SetToSeqs(S),
           NEW lens \in [S -> 1 .. MaxPrompt], NEW padding \in Nat
    PROVE  LET batch == Batch(rows, lens, padding)
           IN  /\ Len(batch) \in Nat
               /\ \E at \in [S -> Nat] :
                     /\ \A r \in S : \A p \in 0 .. lens[r] - 1 :
                           at[r] + p + 1 \in 1 .. Len(batch) /\ batch[at[r] + p + 1] = <<r, p>>
                     /\ \A m \in 1 .. Len(batch) : batch[m] # <<>> =>
                           \E r \in S : \E p \in 0 .. lens[r] - 1 : m = at[r] + p + 1
<1> DEFINE T == S \X Nat
           seqs == [i \in 1 .. Len(rows) |-> Prompt(rows[i], lens[rows[i]])]
           F == FlattenSeq(seqs)
           pad == [i \in 1 .. padding |-> <<>>]
           batch == Batch(rows, lens, padding)
           N == Len(rows)
<1>1. IsFiniteSet(S)
  BY KPoolAssumption, FS_Subset
<1>2. /\ rows \in Seq(S) /\ N \in Nat
      /\ \A i, j \in 1 .. N : i # j => rows[i] # rows[j]
      /\ \A x \in S : \E i \in 1 .. N : rows[i] = x
      /\ \A i \in 1 .. N : rows[i] \in S
  <2>1. /\ rows \in Seq(S) /\ N \in Nat
        /\ \A i, j \in 1 .. N : i # j => rows[i] # rows[j]
        /\ \A x \in S : \E i \in 1 .. N : rows[i] = x
    BY <1>1, Orders
  <2>2. \A i \in 1 .. N : rows[i] \in S
    BY <2>1
  <2> QED
    BY <2>1, <2>2
<1>3. \A r \in S : lens[r] \in Nat
  BY Sizes
<1>4. ASSUME NEW i \in 1 .. N
      PROVE  /\ seqs[i] \in Seq(T) /\ Len(seqs[i]) = lens[rows[i]] /\ rows[i] \in S
             /\ \A p \in 0 .. lens[rows[i]] - 1 : seqs[i][p + 1] = <<rows[i], p>>
  <2> DEFINE r == rows[i]
             n == lens[rows[i]]
             w == [p \in 1 .. n |-> <<r, p - 1>>]
  <2>1. r \in S /\ n \in Nat
    BY <1>2, <1>3
  <2>2. seqs[i] = w
    BY DEF Prompt
  <2> HIDE DEF r, n
  <2>3. w \in [1 .. n -> T]
    BY <2>1
  <2>4. w \in Seq(T) /\ Len(w) = n
    BY <2>1, <2>3
  <2>5. \A p \in 0 .. n - 1 : w[p + 1] = <<r, p>>
    <3> TAKE p \in 0 .. n - 1
    <3>1. p + 1 \in 1 .. n /\ (p + 1) - 1 = p
      BY <2>1
    <3> QED
      BY <3>1
  <2> HIDE DEF w
  <2> QED
    BY <2>1, <2>2, <2>4, <2>5 DEF n, r
<1>5. seqs \in Seq(Seq(T)) /\ Len(seqs) = N /\ seqs # <<>>
  <2>1. N # 0
    BY <1>2
  <2>2. seqs = [i \in 1 .. N |-> seqs[i]]
    OBVIOUS
  <2> HIDE DEF seqs
  <2>3. seqs \in [1 .. N -> Seq(T)]
    BY <1>4, <2>2
  <2>4. N \in Nat
    BY <1>2
  <2> HIDE DEF N
  <2>5. seqs \in Seq(Seq(T)) /\ Len(seqs) = N
    BY <2>3, <2>4
  <2> QED
    BY <2>1, <2>5
<1> HIDE DEF seqs, T
<1>6. /\ F \in Seq(T)
      /\ \E base \in [1 .. N -> Nat] :
            /\ \A i \in 1 .. N : \A j \in 1 .. Len(seqs[i]) : base[i] + j \in 1 .. Len(F) /\ F[base[i] + j] = seqs[i][j]
            /\ \A m \in 1 .. Len(F) : \E i \in 1 .. N : \E j \in 1 .. Len(seqs[i]) : m = base[i] + j
  <2> DEFINE L == Len(seqs)
  <2>1. /\ F \in Seq(T)
        /\ \E base \in [1 .. L -> Nat] :
              /\ base[1] = 0 /\ \A i \in 1 .. L : i # 1 => base[i] = base[i - 1] + Len(seqs[i - 1])
              /\ Len(F) = base[L] + Len(seqs[L])
              /\ \A i \in 1 .. L : \A j \in 1 .. Len(seqs[i]) : base[i] + j \in 1 .. Len(F) /\ F[base[i] + j] = seqs[i][j]
              /\ \A m \in 1 .. Len(F) : \E i \in 1 .. L : \E j \in 1 .. Len(seqs[i]) : m = base[i] + j
    BY <1>5, FlattenAt, Zenon
  <2>2. L = N
    BY <1>5
  <2> HIDE DEF F, L, N
  <2> QED
    BY <2>1, <2>2
<1>7. PICK base \in [1 .. N -> Nat] :
            /\ \A i \in 1 .. N : \A j \in 1 .. Len(seqs[i]) : base[i] + j \in 1 .. Len(F) /\ F[base[i] + j] = seqs[i][j]
            /\ \A m \in 1 .. Len(F) : \E i \in 1 .. N : \E j \in 1 .. Len(seqs[i]) : m = base[i] + j
  BY <1>6
<1>8. pad \in Seq({<<>>}) /\ Len(pad) = padding /\ \A i \in 1 .. padding : pad[i] = <<>>
  <2>1. pad \in [1 .. padding -> {<<>>}]
    OBVIOUS
  <2> QED
    BY <2>1
<1>9. batch = F \o pad
  BY DEF Batch, seqs
<1> HIDE DEF F, pad, batch, N
<1>10. /\ Len(batch) = Len(F) + padding /\ Len(F) \in Nat
       /\ \A m \in 1 .. Len(F) : batch[m] = F[m]
       /\ \A m \in 1 .. padding : batch[Len(F) + m] = <<>>
  <2>1. F \in Seq(T \union {<<>>}) /\ pad \in Seq(T \union {<<>>})
    BY <1>6, <1>8
  <2>2. /\ Len(batch) = Len(F) + Len(pad) /\ Len(F) \in Nat
        /\ \A m \in 1 .. Len(F) : batch[m] = F[m]
        /\ \A m \in 1 .. Len(pad) : batch[Len(F) + m] = pad[m]
    BY <1>9, <2>1
  <2> QED
    BY <1>8, <2>2
<1> DEFINE row(r) == CHOOSE i \in 1 .. N : rows[i] = r
           at == [r \in S |-> base[row(r)]]
<1>11. \A r \in S : row(r) \in 1 .. N /\ rows[row(r)] = r
  BY <1>2
<1>12. \A i \in 1 .. N : row(rows[i]) = i
  BY <1>2
<1> HIDE DEF row
<1>13. at \in [S -> Nat] /\ \A i \in 1 .. N : rows[i] \in S /\ at[rows[i]] = base[i]
  <2>1. \A r \in S : base[row(r)] \in Nat
    BY <1>7, <1>11
  <2>2. \A i \in 1 .. N : rows[i] \in S
    BY <1>2
  <2> QED
    BY <1>12, <2>1, <2>2
<1> HIDE DEF at
<1>14. ASSUME NEW r \in S, NEW p \in 0 .. lens[r] - 1
       PROVE  at[r] + p + 1 \in 1 .. Len(batch) /\ batch[at[r] + p + 1] = <<r, p>>
  <2> DEFINE i == row(r)
  <2>1. i \in 1 .. N /\ rows[i] = r /\ at[r] = base[i] /\ base[i] \in Nat /\ lens[r] \in Nat
    BY <1>3, <1>7, <1>11, <1>13
  <2> HIDE DEF i
  <2>2. p + 1 \in 1 .. Len(seqs[i]) /\ seqs[i][p + 1] = <<r, p>>
    BY <1>4, <2>1
  <2>3. base[i] + (p + 1) \in 1 .. Len(F) /\ F[base[i] + (p + 1)] = <<r, p>>
    BY <1>7, <2>1, <2>2
  <2>4. base[i] + (p + 1) = at[r] + p + 1
    BY <2>1
  <2> DEFINE m == at[r] + p + 1
  <2>5. m \in 1 .. Len(F) /\ F[m] = <<r, p>>
    BY <2>3, <2>4
  <2> HIDE DEF m
  <2>6. m \in 1 .. Len(batch) /\ batch[m] = <<r, p>>
    BY <1>10, <2>5
  <2> QED
    BY <2>6 DEF m
<1>15. ASSUME NEW m \in 1 .. Len(batch), batch[m] # <<>>
       PROVE  \E r \in S : \E p \in 0 .. lens[r] - 1 : m = at[r] + p + 1
  <2>1. m \in 1 .. Len(F)
    <3> SUFFICES ASSUME m > Len(F) PROVE FALSE
      BY <1>10
    <3> DEFINE k == m - Len(F)
    <3>1. k \in 1 .. padding /\ m = Len(F) + k
      BY <1>10
    <3> HIDE DEF k
    <3> QED
      BY <1>10, <1>15, <3>1
  <2>2. PICK i \in 1 .. N : \E j \in 1 .. Len(seqs[i]) : m = base[i] + j
    BY <1>7, <2>1
  <2>3. PICK j \in 1 .. Len(seqs[i]) : m = base[i] + j
    BY <2>2
  <2>4. rows[i] \in S /\ Len(seqs[i]) = lens[rows[i]] /\ lens[rows[i]] \in Nat /\ at[rows[i]] = base[i] /\ base[i] \in Nat
    BY <1>3, <1>4, <1>7, <1>13
  <2> DEFINE p == j - 1
  <2>5. p \in 0 .. lens[rows[i]] - 1 /\ m = at[rows[i]] + p + 1
    BY <2>3, <2>4
  <2> QED
    BY <2>4, <2>5
<1>16. Len(batch) \in Nat
  BY <1>10
<1> QED
  BY <1>13, <1>14, <1>15, <1>16 DEF batch

\* kpool_seed_tail_cache stashes the last POOL tokens of each prompt.
LEMMA SeedsIs ==
    ASSUME NEW S \in SUBSET Requests, S # {}, NEW rows \in SetToSeqs(S),
           NEW lens \in [S -> 1 .. MaxPrompt], NEW padding \in Nat, NEW r, NEW p \in Nat
    PROVE  LET batch == Batch(rows, lens, padding)
           IN  (\E j \in 1 .. Len(batch) : batch[j] = <<r, p>> /\ Seeds(batch, j))
                   <=> r \in S /\ p < lens[r] /\ lens[r] <= p + POOL
<1> DEFINE batch == Batch(rows, lens, padding)
<1>1. PICK at \in [S -> Nat] :
         /\ \A s \in S : \A q \in 0 .. lens[s] - 1 :
               at[s] + q + 1 \in 1 .. Len(batch) /\ batch[at[s] + q + 1] = <<s, q>>
         /\ \A m \in 1 .. Len(batch) : batch[m] # <<>> =>
               \E s \in S : \E q \in 0 .. lens[s] - 1 : m = at[s] + q + 1
  BY BatchIs
<1>2. Len(batch) \in Nat
  BY BatchIs
<1> HIDE DEF batch
<1>3. POOL \in Nat \ {0} /\ \A s \in S : lens[s] \in Nat /\ at[s] \in Nat
  BY <1>1, Sizes
<1>4. \A x, y : <<x, y>> # <<>>
  OBVIOUS
<1>5. ASSUME NEW m \in 1 .. Len(batch), NEW x, NEW y, batch[m] = <<x, y>>
      PROVE  x \in S /\ y \in 0 .. lens[x] - 1 /\ m = at[x] + y + 1
  <2>1. PICK s \in S : \E q \in 0 .. lens[s] - 1 : m = at[s] + q + 1
    BY <1>1, <1>4, <1>5
  <2>2. PICK q \in 0 .. lens[s] - 1 : m = at[s] + q + 1
    BY <2>1
  <2>3. batch[m] = <<s, q>>
    BY <1>1, <2>2
  <2>4. s = x /\ q = y
    BY <1>5, <2>3
  <2> QED
    BY <2>2, <2>4
<1>6. ASSUME NEW j \in 1 .. Len(batch), batch[j] = <<r, p>>, Seeds(batch, j)
      PROVE  r \in S /\ p < lens[r] /\ lens[r] <= p + POOL
  <2>1. r \in S /\ p \in 0 .. lens[r] - 1 /\ j = at[r] + p + 1
    BY <1>5, <1>6
  <2>2. ASSUME p + POOL < lens[r] PROVE FALSE
    <3> DEFINE q == p + POOL
               m == j + POOL
    <3>0. at[r] \in Nat /\ lens[r] \in Nat /\ POOL \in Nat
      BY <1>3, <2>1
    <3>1. q \in 0 .. lens[r] - 1 /\ m = at[r] + q + 1
      <4> DEFINE a == at[r]
                 l == lens[r]
                 P == POOL
      <4>1. a \in Nat /\ l \in Nat /\ P \in Nat /\ j = a + p + 1 /\ p + P < l
        BY <2>1, <2>2, <3>0
      <4> HIDE DEF a, l, P
      <4>2. p + P \in 0 .. l - 1 /\ j + P = a + (p + P) + 1
        BY <4>1
      <4> QED
        BY <4>2 DEF a, l, P
    <3>2. m \in 1 .. Len(batch) /\ batch[m] = <<r, q>>
      BY <1>1, <2>1, <3>1
    <3>3. batch[m] # <<>> /\ batch[m][1] = r /\ batch[j][1] = r /\ m <= Len(batch)
      BY <1>2, <1>4, <1>6, <3>2
    <3> QED
      BY <1>6, <3>3 DEF Seeds
  <2> QED
    BY <1>3, <2>1, <2>2
<1>7. ASSUME r \in S, p < lens[r], lens[r] <= p + POOL
      PROVE  \E j \in 1 .. Len(batch) : batch[j] = <<r, p>> /\ Seeds(batch, j)
  <2> DEFINE j == at[r] + p + 1
             m == j + POOL
  <2>1. p \in 0 .. lens[r] - 1
    BY <1>3, <1>7
  <2>2. j \in 1 .. Len(batch) /\ batch[j] = <<r, p>>
    BY <1>1, <1>7, <2>1
  <2>3. ASSUME m <= Len(batch), batch[m] # <<>>, batch[m][1] = batch[j][1] PROVE FALSE
    <3>0. at[r] \in Nat /\ lens[r] \in Nat /\ POOL \in Nat
      BY <1>3, <1>7
    <3>1. j \in Nat /\ m \in 1 .. Len(batch) /\ batch[j][1] = r
      <4>1. batch[j][1] = r
        BY <2>2
      <4>2. j \in Nat /\ m \in 1 .. Len(batch)
        <5> DEFINE a == at[r]
                   P == POOL
                   L == Len(batch)
        <5>1. a \in Nat /\ P \in Nat /\ L \in Nat /\ a + p + 1 + P <= L
          BY <1>2, <2>3, <3>0
        <5> HIDE DEF a, P, L
        <5>2. a + p + 1 \in Nat /\ a + p + 1 + P \in 1 .. L
          BY <5>1
        <5> QED
          BY <5>2 DEF a, P, L
      <4> QED
        BY <4>1, <4>2
    <3>2. PICK s \in S : \E q \in 0 .. lens[s] - 1 : m = at[s] + q + 1
      BY <1>1, <2>3, <3>1
    <3>3. PICK q \in 0 .. lens[s] - 1 : m = at[s] + q + 1
      BY <3>2
    <3>4. batch[m] = <<s, q>>
      BY <1>1, <3>3
    <3>5. s = r
      BY <2>3, <3>1, <3>4
    <3>6. at[r] + p + 1 + POOL = at[r] + q + 1
      BY <3>3, <3>5
    <3> QED
      BY <1>3, <1>7, <3>3, <3>5, <3>6
  <2>4. Seeds(batch, j)
    <3>1. batch[j] # <<>>
      BY <1>4, <2>2
    <3> QED
      BY <2>3, <3>1 DEF Seeds
  <2> QED
    BY <2>2, <2>4
<1> QED
  BY <1>6, <1>7 DEF batch

LEMMA MaxOne == ASSUME NEW p \in Nat PROVE Max({p}) = p
<1>1. p \in {p} /\ \A y \in {p} : p >= y
  OBVIOUS
<1> QED
  BY <1>1 DEF Max

\* The sources of a slot: one of the last POOL tokens of the prompt, or none.
LEMMA SourcesIs ==
    ASSUME NEW S \in SUBSET Requests, NEW lens \in [S -> 1 .. MaxPrompt], NEW r, NEW i
    PROVE  LET src == {p \in 0 .. MaxPrompt - 1 : p % RING = i /\
                           (r \in S /\ p < lens[r] /\ lens[r] <= p + POOL)}
           IN  /\ r \notin S => src = {}
               /\ src # {} => Max(src) \in Nat
               /\ r \in S => \A p \in Nat : p < lens[r] /\ lens[r] <= p + POOL /\ p % RING = i
                                => src # {} /\ Max(src) = p
<1> DEFINE src == {p \in 0 .. MaxPrompt - 1 : p % RING = i /\
                       (r \in S /\ p < lens[r] /\ lens[r] <= p + POOL)}
<1>1. MaxPrompt \in Nat /\ POOL \in Nat \ {0} /\ RING \in Nat /\ POOL <= RING
  BY Sizes
<1>2. ASSUME NEW p \in src PROVE src = {p} /\ p \in Nat
  <2>1. r \in S /\ lens[r] \in Nat
    BY <1>1
  <2>2. p \in Nat /\ p % RING = i /\ p < lens[r] /\ lens[r] <= p + POOL
    OBVIOUS
  <2>3. ASSUME NEW q \in src PROVE q = p
    <3>1. q \in Nat /\ q % RING = i /\ q < lens[r] /\ lens[r] <= q + POOL
      OBVIOUS
    <3>2. ~ (p < q)
      BY <1>1, <2>1, <2>2, <3>1, RingApart
    <3>3. ~ (q < p)
      BY <1>1, <2>1, <2>2, <3>1, RingApart
    <3> QED
      BY <2>2, <3>1, <3>2, <3>3
  <2> QED
    BY <2>2, <2>3
<1>3. r \notin S => src = {}
  OBVIOUS
<1>4. ASSUME NEW p \in src PROVE Max(src) = p /\ p \in Nat
  BY <1>2, MaxOne
<1>5. src # {} => Max(src) \in Nat
  BY <1>4
<1>6. ASSUME r \in S, NEW p \in Nat, p < lens[r], lens[r] <= p + POOL, p % RING = i PROVE p \in src
  <2>1. lens[r] \in 1 .. MaxPrompt
    BY <1>6
  <2>2. p \in 0 .. MaxPrompt - 1
    BY <1>1, <1>6, <2>1
  <2> QED
    BY <1>6, <2>2
<1> HIDE DEF src
<1>7. /\ r \notin S => src = {}
      /\ src # {} => Max(src) \in Nat
      /\ r \in S => \A p \in Nat : p < lens[r] /\ lens[r] <= p + POOL /\ p % RING = i
                        => src # {} /\ Max(src) = p
  BY <1>3, <1>4, <1>5, <1>6
<1> QED
  BY <1>7 DEF src

\* What a prefill leaves in the rings: the last POOL tokens of its prompts, and
\* what was there before.
LEMMA PrefillTail ==
    ASSUME KInv, NEW S \in SUBSET Requests, S # {}, NEW rows \in SetToSeqs(S),
           NEW lens \in [S -> 1 .. MaxPrompt], NEW padding \in 0 .. 1, Prefill(rows, lens, padding)
    PROVE  /\ tail' \in [Requests -> [0 .. RING - 1 -> Tokens]]
           /\ \A r \in Requests : r \notin S => tail'[r] = tail[r]
           /\ \A r \in S : \A p \in Nat : p < lens[r] /\ lens[r] <= p + POOL
                 => tail'[r][p % RING] = <<r, epoch[r], p, TRUE>>
<1> DEFINE batch == Batch(rows, lens, padding)
           src(r, i) == {p \in 0 .. MaxPrompt - 1 : p % RING = i /\
                            \E j \in 1 .. Len(batch) : batch[j] = <<r, p>> /\ Seeds(batch, j)}
           new(r, i) == IF src(r, i) # {} THEN <<r, epoch[r], Max(src(r, i)), TRUE>> ELSE tail[r][i]
<1>1. tail' = [r \in Requests |-> [i \in 0 .. RING - 1 |-> new(r, i)]]
  BY Zenon DEF Prefill
<1>2. ASSUME NEW r, NEW i
      PROVE  src(r, i) = {p \in 0 .. MaxPrompt - 1 : p % RING = i /\
                              (r \in S /\ p < lens[r] /\ lens[r] <= p + POOL)}
  <2>1. \A p \in 0 .. MaxPrompt - 1 :
           (\E j \in 1 .. Len(batch) : batch[j] = <<r, p>> /\ Seeds(batch, j))
                   <=> r \in S /\ p < lens[r] /\ lens[r] <= p + POOL
    <3>1. padding \in Nat /\ \A p \in 0 .. MaxPrompt - 1 : p \in Nat
      BY Sizes
    <3> QED
      BY <3>1, SeedsIs
  <2> QED
    BY <2>1, Zenon
<1> HIDE DEF src, batch
<1>3. ASSUME NEW r, NEW i
      PROVE  /\ r \notin S => src(r, i) = {}
             /\ src(r, i) # {} => Max(src(r, i)) \in Nat
             /\ r \in S => \A p \in Nat : p < lens[r] /\ lens[r] <= p + POOL /\ p % RING = i
                            => src(r, i) # {} /\ Max(src(r, i)) = p
  <2> DEFINE T == {p \in 0 .. MaxPrompt - 1 : p % RING = i /\
                       (r \in S /\ p < lens[r] /\ lens[r] <= p + POOL)}
  <2>1. src(r, i) = T
    BY <1>2
  <2>2. /\ r \notin S => T = {}
        /\ T # {} => Max(T) \in Nat
        /\ r \in S => \A p \in Nat : p < lens[r] /\ lens[r] <= p + POOL /\ p % RING = i
                            => T # {} /\ Max(T) = p
    BY SourcesIs
  <2> HIDE DEF T
  <2> QED
    BY <2>1, <2>2
<1>4. KTypes
  BY DEF KInv
<1>5. ASSUME NEW r \in Requests, NEW i \in 0 .. RING - 1 PROVE new(r, i) \in Tokens
  <2>1. r \in Int /\ epoch[r] \in Int /\ tail[r][i] \in Tokens
    BY <1>4, Sizes DEF KTypes
  <2>2. CASE src(r, i) # {}
    <3>1. Max(src(r, i)) \in Int
      BY <1>3, <2>2
    <3>2. <<r, epoch[r], Max(src(r, i)), TRUE>> \in Tokens
      BY <2>1, <3>1 DEF Tokens
    <3> QED
      BY <2>2, <3>2
  <2>3. CASE src(r, i) = {}
    BY <2>1, <2>3
  <2> QED
    BY <2>2, <2>3
<1>6. ASSUME NEW r \in Requests, r \notin S PROVE tail'[r] = tail[r]
  <2>1. \A i : new(r, i) = tail[r][i]
    BY <1>3, <1>6
  <2>2. tail[r] \in [0 .. RING - 1 -> Tokens]
    BY <1>4 DEF KTypes
  <2> HIDE DEF new
  <2> QED
    BY <1>1, <2>1, <2>2
<1>7. ASSUME NEW r \in S, NEW p \in Nat, p < lens[r], lens[r] <= p + POOL
      PROVE  tail'[r][p % RING] = <<r, epoch[r], p, TRUE>>
  <2>1. p % RING \in 0 .. RING - 1
    BY SlotBlock, Sizes
  <2>2. src(r, p % RING) # {} /\ Max(src(r, p % RING)) = p
    BY <1>3, <1>7, Zenon
  <2>3. new(r, p % RING) = <<r, epoch[r], p, TRUE>>
    BY <2>2, Zenon
  <2>4. r \in Requests
    OBVIOUS
  <2> HIDE DEF new
  <2> QED
    BY <1>1, <2>1, <2>3, <2>4, Zenon
<1> HIDE DEF new
<1> QED
  BY <1>1, <1>5, <1>6, <1>7

LEMMA PrefillInv ==
    ASSUME KInv, NEW S \in SUBSET Requests, S # {}, NEW rows \in SetToSeqs(S),
           NEW lens \in [S -> 1 .. MaxPrompt], NEW padding \in 0 .. 1, Prefill(rows, lens, padding)
    PROVE  KInv'
<1> DEFINE whole(r, i) == [k \in 1 .. POOL |-> <<r, epoch[r], (i * POOL) + (k - 1), TRUE>>]
<1>1. /\ \A r \in Requests : step[r] = Idle
      /\ pools' = [r \in Requests |-> [i \in PoolIds |->
                        IF r \in S /\ i < lens[r] \div POOL THEN whole(r, i) ELSE pools[r][i]]]
      /\ len' = [r \in Requests |-> IF r \in S THEN lens[r] ELSE len[r]]
      /\ UNCHANGED <<epoch, step>>
  <2>1. DOMAIN lens = S
    OBVIOUS
  <2> QED
    BY <2>1, Zenon DEF Prefill
<1>2. /\ tail' \in [Requests -> [0 .. RING - 1 -> Tokens]]
      /\ \A r \in Requests : r \notin S => tail'[r] = tail[r]
      /\ \A r \in S : \A p \in Nat : p < lens[r] /\ lens[r] <= p + POOL
                 => tail'[r][p % RING] = <<r, epoch[r], p, TRUE>>
  BY PrefillTail
<1>3. Idle \in Steps /\ Idle.keep = 0 /\ Idle.t = 0 /\ Idle.pads = 0
  BY DEF Idle, Steps
<1>4. KTypes
  BY DEF KInv
<1>5. \A r \in S : lens[r] \in 1 .. MaxLen /\ lens[r] \in Nat
  BY Sizes
<1>6. len' \in [Requests -> 0 .. MaxLen]
  <2>1. \A r \in Requests : (IF r \in S THEN lens[r] ELSE len[r]) \in 0 .. MaxLen
    BY <1>4, <1>5, Sizes DEF KTypes
  <2> QED
    BY <1>1, <2>1
<1>7. pools' \in [Requests -> [PoolIds -> Seq(Tokens)]]
  <2>1. ASSUME NEW r \in Requests, NEW i \in PoolIds PROVE whole(r, i) \in Seq(Tokens)
    <3>1. r \in Int /\ epoch[r] \in Int /\ i \in Int /\ POOL \in Nat
      BY <1>4, Sizes DEF KTypes, PoolIds
    <3>2. i * POOL \in Int
      BY <3>1
    <3> DEFINE x == i * POOL
    <3> HIDE DEF x
    <3>3. \A k \in 1 .. POOL : x + (k - 1) \in Int
      BY <3>1, <3>2 DEF x
    <3>4. \A k \in 1 .. POOL : <<r, epoch[r], x + (k - 1), TRUE>> \in Tokens
      BY <3>1, <3>3 DEF Tokens
    <3> DEFINE f == [k \in 1 .. POOL |-> <<r, epoch[r], x + (k - 1), TRUE>>]
    <3>5. f \in [1 .. POOL -> Tokens]
      BY <3>4
    <3> HIDE DEF f
    <3>6. f \in Seq(Tokens)
      BY <3>1, <3>5
    <3> QED
      BY <3>6 DEF f, x
  <2>2. \A r \in Requests : \A i \in PoolIds : pools[r][i] \in Seq(Tokens)
    BY <1>4 DEF KTypes
  <2> HIDE DEF whole
  <2> QED
    BY <1>1, <2>1, <2>2
<1>8. KTypes'
  BY <1>1, <1>2, <1>4, <1>6, <1>7 DEF KTypes
<1>9. StepInv'
  BY <1>1 DEF StepInv
<1>10. ASSUME NEW q \in Requests, q \notin S PROVE RingHolds(q)' /\ RowsExact(q)'
  <2>1. len'[q] = len[q] /\ epoch'[q] = epoch[q] /\ step'[q] = step[q] /\ tail'[q] = tail[q]
    BY <1>1, <1>2, <1>10
  <2>2. pools'[q] = [i \in PoolIds |-> pools[q][i]]
    BY <1>1, <1>10
  <2>3. pools[q] \in [PoolIds -> Seq(Tokens)]
    BY <1>4 DEF KTypes
  <2>4. pools'[q] = pools[q]
    BY <2>2, <2>3
  <2> QED
    BY <2>1, <2>4, Apart
<1>11. ASSUME NEW r \in S PROVE RingHolds(r)' /\ RowsExact(r)'
  <2> DEFINE l == lens[r]
  <2>1. r \in Requests /\ l \in Nat /\ len'[r] = l /\ step'[r] = Idle /\ epoch'[r] = epoch[r]
    BY <1>1, <1>5
  <2>2. Done(r)' = l
    BY <1>3, <2>1 DEF Done, Larger
  <2>3. ASSUME NEW p \in Nat, p < l PROVE Token(r, p)' = <<r, epoch[r], p, TRUE>>
    <3>1. (p < len'[r] + step'[r].keep) = TRUE
      BY <1>3, <2>1, <2>3
    <3> QED
      BY <2>1, <3>1, Zenon DEF Token
  <2>4. RingHolds(r)'
    <3> SUFFICES ASSUME NEW p \in 0 .. MaxLen, (l \div POOL) * POOL <= p, p < l
                 PROVE  tail'[r][p % RING] = Token(r, p)'
      BY <2>1, <2>2 DEF RingHolds
    <3> DEFINE s == (l \div POOL) * POOL
    <3>0. POOL \in Nat \ {0} /\ s <= p /\ p \in Nat
      BY Sizes
    <3> HIDE DEF l
    <3>1. s \in Nat /\ l < s + POOL
      BY <2>1, <3>0, BlockStart
    <3> HIDE DEF s
    <3>2. l <= p + POOL
      BY <2>1, <3>0, <3>1
    <3> QED
      BY <1>2, <2>3, <3>0, <3>2 DEF l
  <2>5. RowsExact(r)'
    <3> SUFFICES ASSUME NEW i \in PoolIds, i < l \div POOL PROVE pools'[r][i] = PoolOf(r, i)'
      BY <2>2 DEF RowsExact
    <3>1. pools'[r][i] = whole(r, i)
      BY <1>1, <2>1
    <3>2. ASSUME NEW k \in 1 .. POOL
          PROVE  Token(r, (i * POOL) + (k - 1))' = <<r, epoch[r], (i * POOL) + (k - 1), TRUE>>
      <4> DEFINE q == l \div POOL
                 P == POOL
      <4>1. P \in Nat \ {0} /\ i \in Nat
        BY Sizes DEF PoolIds
      <4>2. q \in Nat /\ q * P <= l /\ q * P \in Nat
        BY <2>1, <4>1, BlockStart, DivMod
      <4>3. i < q
        OBVIOUS
      <4> HIDE DEF q, P
      <4>4. i * P + P <= q * P /\ i * P \in Nat
        BY <4>1, <4>2, <4>3, MulMono, MulNat
      <4>5. k \in 1 .. P
        BY DEF P
      <4> HIDE DEF l
      <4>6. (i * P) + (k - 1) \in Nat /\ (i * P) + (k - 1) < l
        BY <2>1, <4>1, <4>2, <4>4, <4>5
      <4> QED
        BY <2>3, <4>6 DEF P
    <3>3. PoolOf(r, i)' = [k \in 1 .. POOL |-> Token(r, (i * POOL) + (k - 1))']
      BY DEF PoolOf
    <3> QED
      BY <3>1, <3>2, <3>3
  <2> QED
    BY <2>4, <2>5
<1> QED
  BY <1>8, <1>9, <1>10, <1>11 DEF KInv

LEMMA KInit == ASSUME Init PROVE KInv
<1>1. Idle \in Steps /\ Idle.keep = 0 /\ Idle.t = 0 /\ Idle.pads = 0
  BY DEF Idle, Steps
<1>2. Empty \in Tokens /\ Unwritten \in Seq(Tokens)
  <2>1. -1 \in Int /\ FALSE \in BOOLEAN
    OBVIOUS
  <2>2. Empty \in Tokens
    BY <2>1, Zenon DEF Empty, Tokens
  <2>3. Unwritten \in Seq(Tokens)
    BY DEF Unwritten
  <2> QED
    BY <2>2, <2>3
<1>3. KTypes
  BY <1>1, <1>2, Sizes DEF Init, KTypes
<1>4. StepInv
  BY DEF Init, StepInv
<1>5. \A r \in Requests : Done(r) = 0
  BY <1>1 DEF Init, Done, Larger
<1>6. \A r \in Requests : RingHolds(r) /\ RowsExact(r)
  BY <1>5, NoPools, Sizes DEF RingHolds, RowsExact, PoolIds
<1> QED
  BY <1>3, <1>4, <1>6 DEF KInv

\* The cache keeps its invariant: the ring of a request holds the tokens of the
\* pool that its accepted tokens left open, and every whole pool is compressed
\* from its own tokens, through prefill, decode, rejection and reuse of the block.
THEOREM KPoolInvariance == Spec => []KInv
<1>1. Init => KInv
  BY KInit
<1>2. KInv /\ [Next]_vars => KInv'
  <2> SUFFICES ASSUME KInv, [Next]_vars PROVE KInv'
    OBVIOUS
  <2>1. CASE UNCHANGED vars
    <3>1. KTypes' /\ StepInv'
      BY <2>1 DEF vars, KInv, KTypes, StepInv
    <3>2. \A r \in Requests : RingHolds(r)' /\ RowsExact(r)'
      BY <2>1, Apart DEF vars
    <3> QED
      BY <3>1, <3>2 DEF KInv
  <2>2. ASSUME NEW S \in SUBSET Requests, S # {}, NEW rows \in SetToSeqs(S),
               NEW lens \in [S -> 1 .. MaxPrompt], NEW padding \in 0 .. 1, Prefill(rows, lens, padding)
        PROVE  KInv'
    BY <2>2, PrefillInv
  <2>3. ASSUME NEW r \in Requests, UpdateToken(r) PROVE KInv'
    BY <2>3, UpdateInv
  <2>4. ASSUME NEW r \in Requests, Accept(r) PROVE KInv'
    BY <2>4, AcceptInv
  <2>5. ASSUME NEW r \in Requests, Release(r) PROVE KInv'
    BY <2>5, ReleaseInv
  <2>6. ASSUME NEW r \in Requests, NEW n \in 1 .. NextN, NEW keep \in 1 .. NextN,
               NEW pads \in 0 .. NextN - 1, Launch(r, n, keep, pads)
        PROVE  KInv'
    BY <2>6, LaunchInv
  <2> QED
    BY <2>1, <2>2, <2>3, <2>4, <2>5, <2>6, Zenon DEF Next
<1> QED
  BY <1>1, <1>2, PTL DEF Spec

\* The decode update and the prefill write never mix a rejected draft, a token of
\* another request or one that a released request left behind into a pool.
THEOREM PoolsAreExact == Spec => []PoolsExact
<1>1. KInv => PoolsExact
  BY DEF KInv, RowsExact, Done, PoolsExact
<1> QED
  BY <1>1, KPoolInvariance, PTL

-----------------------------------------------------------------------------
(* The page tables *)

\* A row of the metadata is about a live request; what its query sees lies within
\* what its tables cover.
LEMMA MetaRow ==
    ASSUME KInv, NEW x \in DecodeRows \union VerifyRows
    PROVE  /\ x[1] \in Requests /\ x[2] \in Nat /\ x[3] \in Nat /\ x[4] \in Nat \ {0}
           /\ x[2] <= MaxLen /\ x[2] <= x[3]
<1> DEFINE C == Cardinality(Live)
           N == NextN
           M == MaxLen
<1>1. IsFiniteSet(Live) /\ C \in Nat
  <2>1. Live \subseteq Requests
    BY DEF Live
  <2> QED
    BY <2>1, KPoolAssumption, FS_Subset, FS_CardinalityType
<1>2. ASSUME NEW r \in Live PROVE r \in Requests /\ len[r] \in Nat /\ len[r] <= M /\ C # 0
  <2>1. C # 0
    BY <1>1, FS_EmptySet
  <2>2. r \in Requests /\ len[r] \in 0 .. M
    BY DEF Live, KInv, KTypes
  <2> HIDE DEF C
  <2> QED
    BY <2>1, <2>2, Sizes
<1>3. N \in Nat \ {0} /\ M \in Nat
  BY Sizes
<1>4. CASE x \in DecodeRows
  <2>1. PICK r \in Live : x = <<r, len[r], len[r], C>>
    BY <1>4 DEF DecodeRows
  <2> HIDE DEF C, M
  <2>2. x[1] = r /\ x[2] = len[r] /\ x[3] = len[r] /\ x[4] = C
    BY <2>1
  <2> QED
    BY <1>1, <1>2, <2>2 DEF M
<1>5. CASE x \in VerifyRows
  <2>1. PICK y \in Live \X (0 .. N - 1) :
           len[y[1]] + y[2] < M /\ x = <<y[1], len[y[1]] + y[2] + 1, len[y[1]] + N, C * N>>
    BY <1>5 DEF VerifyRows
  <2> DEFINE r == y[1]
             j == y[2]
             l == len[r]
  <2>2. r \in Live /\ j \in 0 .. N - 1
    OBVIOUS
  <2>3. l \in Nat /\ r \in Requests /\ C # 0
    BY <1>2, <2>2
  <2>4. l + j < M /\ x = <<r, l + j + 1, l + N, C * N>>
    BY <2>1
  <2> HIDE DEF r, j, l, C, N, M
  <2>5. x[1] = r /\ x[2] = l + j + 1 /\ x[3] = l + N /\ x[4] = C * N
    BY <2>4
  <2>6. C * N \in Nat \ {0}
    <3>1. 1 <= C /\ C \in Nat
      BY <1>1, <2>3
    <3>2. 1 * N <= C * N /\ C * N \in Nat
      BY <1>3, <3>1, MulMono, MulNat
    <3> QED
      BY <1>3, <3>2
  <2>7. l + j + 1 \in Nat /\ l + j + 1 <= M /\ l + N \in Nat /\ l + j + 1 <= l + N
    BY <1>3, <2>2, <2>3, <2>4
  <2> QED
    BY <2>3, <2>5, <2>6, <2>7 DEF M
<1> QED
  BY <1>4, <1>5

\* However the tiles of a row are split, its programs write every column below kv.
LEMMA AllWritten ==
    ASSUME NEW kv \in Nat, NEW rows \in Nat \ {0}, NEW c \in Nat, c < kv, c < MaxLen
    PROVE  c \in Written(kv, rows)
<1> DEFINE tile == c \div BLOCK_N
           Z == Splits(rows)
           s == tile % Z
           full == Cdiv(MaxLen, BLOCK_N)
           mine == Cdiv(kv, BLOCK_N)
<1>1. BLOCK_N \in Nat \ {0} /\ MaxLen \in Nat /\ Programs \in Nat
  BY KPoolAssumption
<1>2. tile \in Nat /\ tile < full /\ tile < mine /\ full \in Nat /\ mine \in Nat
  BY <1>1, DivMod, InTile, CdivNat
<1>3. Z \in Nat \ {0}
  <2> DEFINE d == Programs \div rows
  <2>1. d \in Nat
    BY <1>1, DivMod
  <2> HIDE DEF d, full
  <2>2. Larger(1, Smaller(full, d)) \in Nat \ {0}
    BY <1>2, <2>1 DEF Larger, Smaller
  <2> QED
    BY <2>2 DEF Splits, full, d
<1>4. tile < Tiles(kv)
  <2> HIDE DEF tile, full, mine
  <2>1. tile < Smaller(mine, full)
    BY <1>2 DEF Smaller
  <2> QED
    BY <2>1 DEF Tiles, mine, full
<1> HIDE DEF tile, Z
<1>5. s \in 0 .. Z - 1
  BY <1>2, <1>3, DivMod
<1>6. tile >= s /\ (tile - s) % Z = 0
  <2> DEFINE b == (tile \div Z) * Z
  <2>1. b \in Nat /\ b <= tile /\ tile - b = s /\ b % Z = 0
    BY <1>2, <1>3, BlockStart
  <2> HIDE DEF b, s
  <2>2. s \in Nat
    BY <1>3, <1>5
  <2>3. tile - s = b /\ tile >= s
    BY <1>2, <2>1, <2>2
  <2> QED
    BY <2>1, <2>3
<1> HIDE DEF s
<1>7. c \in 0 .. MaxLen - 1
  BY <1>1
<1>8. \E z \in 0 .. Splits(rows) - 1 :
        (c \div BLOCK_N) < Tiles(kv) /\ (c \div BLOCK_N) >= z /\ ((c \div BLOCK_N) - z) % Splits(rows) = 0
  BY <1>4, <1>5, <1>6, Zenon DEF tile, Z
<1> QED
  BY <1>7, <1>8, Zenon DEF Written

\* The page of a token is the page of the first token of its page.
LEMMA SamePage ==
    ASSUME KTypes, NEW r \in Requests, NEW c \in Nat
    PROVE  ReqToToken(r, (c \div PageSize) * PageSize) \div PageSize = ReqToToken(r, c) \div PageSize
<1> DEFINE Z == PageSize
           d == c \div Z
           m == c % Z
           e == (r * (MaxEpoch + 1)) + epoch[r]
           w == Cdiv(MaxLen, Z)
           page == e * w + d
<1>1. Z \in Nat \ {0} /\ MaxLen \in Nat /\ MaxEpoch \in Nat /\ r \in Nat /\ epoch[r] \in Nat
  BY KPoolAssumption DEF KTypes
<1>2. d \in Nat /\ m \in 0 .. Z - 1 /\ w \in Nat
  BY <1>1, DivMod, CdivNat
<1>3. page \in Nat
  <2> DEFINE a == MaxEpoch + 1
             b == r * a
             f == epoch[r]
  <2>1. a \in Nat
    BY <1>1
  <2> HIDE DEF a
  <2>2. b \in Nat
    BY <1>1, <2>1, MulNat
  <2>3. f \in Nat /\ e = b + f
    BY <1>1 DEF a
  <2> HIDE DEF b, e, f
  <2>4. e \in Nat
    BY <2>2, <2>3
  <2> HIDE DEF w, d
  <2>5. e * w \in Nat
    BY <1>2, <2>4, MulNat
  <2> DEFINE g == e * w
  <2> HIDE DEF g
  <2>6. g + d \in Nat
    BY <1>2, <2>5 DEF g
  <2> QED
    BY <2>6 DEF g
<1>4. (d * Z) \div Z = d /\ (d * Z) % Z = 0
  BY <1>1, BlockStart
<1>5. ReqToToken(r, c) = page * Z + m
  BY Zenon DEF ReqToToken
<1>6. ReqToToken(r, d * Z) = page * Z + 0
  BY <1>4, Zenon DEF ReqToToken
<1> HIDE DEF page, m, d
<1>7. (page * Z + m) \div Z = page /\ (page * Z + 0) \div Z = page
  <2>1. 0 \in 0 .. Z - 1
    BY <1>1
  <2> QED
    BY <1>1, <1>2, <1>3, <2>1, DivUnique
<1> QED
  BY <1>5, <1>6, <1>7 DEF d

\* A consumer that bounds its reads by the tokens it sees never meets a column
\* that the metadata kernels left from an earlier replay.
THEOREM TablesAreFresh == Spec => []TablesFresh
<1>1. KInv => TablesFresh
  <2> SUFFICES ASSUME KInv, NEW x \in DecodeRows \union VerifyRows, NEW c \in 0 .. x[2] - 1
               PROVE  /\ PageTable(x[1], x[3], x[4])[c] = ReqToToken(x[1], c)
                      /\ RealTable(x[1], x[3], x[4])[c \div PageSize] = ReqToToken(x[1], c) \div PageSize
    BY DEF TablesFresh
  <2> DEFINE r == x[1]
             seq == x[2]
             kv == x[3]
             rows == x[4]
             Z == PageSize
             d == c \div Z
             b == d * Z
  <2>1. r \in Requests /\ seq \in Nat /\ kv \in Nat /\ rows \in Nat \ {0} /\ seq <= MaxLen /\ seq <= kv
    BY MetaRow
  <2>2. c \in 0 .. seq - 1
    OBVIOUS
  <2>3. Z \in Nat \ {0} /\ MaxLen \in Nat
    BY KPoolAssumption
  <2> HIDE DEF r, seq, kv, rows
  <2>4. c \in Nat /\ c < kv /\ c < MaxLen /\ c \in 0 .. MaxLen - 1
    BY <2>1, <2>2, <2>3
  <2>5. b \in Nat /\ b <= c
    BY <2>3, <2>4, BlockStart
  <2>6. d \in Nat /\ d < Cdiv(MaxLen, Z) /\ Cdiv(MaxLen, Z) \in Nat
    BY <2>3, <2>4, DivMod, InTile, CdivNat
  <2>7. ReqToToken(r, b) \div Z = ReqToToken(r, c) \div Z
    BY <2>1, <2>4, SamePage DEF KInv
  <2>8. c \in Written(kv, rows)
    BY <2>1, <2>4, AllWritten
  <2> HIDE DEF b
  <2>9. b \in Written(kv, rows)
    <3>1. b < kv /\ b < MaxLen
      BY <2>1, <2>3, <2>4, <2>5
    <3> QED
      BY <2>1, <2>5, <3>1, AllWritten
  <2>10. PageTable(r, kv, rows)[c] = ReqToToken(r, c)
    BY <2>4, <2>8, Zenon DEF PageTable
  <2> HIDE DEF d
  <2>11. d \in 0 .. Cdiv(MaxLen, PageSize) - 1
    BY <2>6 DEF Z
  <2>12. RealTable(r, kv, rows)[d] = ReqToToken(r, b) \div Z
    BY <2>9, <2>11, Zenon DEF RealTable, b, Z
  <2> QED
    BY <2>7, <2>10, <2>12 DEF d, r, kv, rows
<1> QED
  BY <1>1, KPoolInvariance, PTL

-----------------------------------------------------------------------------
(* What the indexer hands out *)

\* Sequences of one length, put one after another, begin at its multiples.
LEMMA FlattenEven ==
    ASSUME NEW S, NEW seqs \in Seq(Seq(S)), seqs # <<>>, NEW P \in Nat \ {0},
           \A i \in 1 .. Len(seqs) : Len(seqs[i]) = P
    PROVE  LET F == FlattenSeq(seqs)
           IN  /\ F \in Seq(S) /\ Len(F) = Len(seqs) * P
               /\ \A i \in 1 .. Len(seqs) : \A j \in 1 .. P : F[((i - 1) * P) + j] = seqs[i][j]
<1> DEFINE N == Len(seqs)
           F == FlattenSeq(seqs)
<1>1. /\ F \in Seq(S)
      /\ \E base \in [1 .. N -> Nat] :
            /\ base[1] = 0 /\ \A i \in 1 .. N : i # 1 => base[i] = base[i - 1] + Len(seqs[i - 1])
            /\ Len(F) = base[N] + Len(seqs[N])
            /\ \A i \in 1 .. N : \A j \in 1 .. Len(seqs[i]) :
                  base[i] + j \in 1 .. Len(F) /\ F[base[i] + j] = seqs[i][j]
  BY FlattenAt
<1>2. N \in Nat \ {0} /\ \A i \in 1 .. N : Len(seqs[i]) = P
  OBVIOUS
<1> HIDE DEF N, F
<1>3. PICK base \in [1 .. N -> Nat] :
            /\ base[1] = 0 /\ \A i \in 1 .. N : i # 1 => base[i] = base[i - 1] + P
            /\ Len(F) = base[N] + P
            /\ \A i \in 1 .. N : \A j \in 1 .. P : F[base[i] + j] = seqs[i][j]
  <2>1. PICK base \in [1 .. N -> Nat] :
            /\ base[1] = 0 /\ \A i \in 1 .. N : i # 1 => base[i] = base[i - 1] + Len(seqs[i - 1])
            /\ Len(F) = base[N] + Len(seqs[N])
            /\ \A i \in 1 .. N : \A j \in 1 .. Len(seqs[i]) :
                  base[i] + j \in 1 .. Len(F) /\ F[base[i] + j] = seqs[i][j]
    BY <1>1
  <2>2. \A i \in 1 .. N : i # 1 => base[i] = base[i - 1] + P
    <3> TAKE i \in 1 .. N
    <3> HAVE i # 1
    <3>1. i - 1 \in 1 .. N
      BY <1>2
    <3> QED
      BY <1>2, <2>1, <3>1
  <2>3. Len(seqs[N]) = P
    BY <1>2
  <2>4. \A i \in 1 .. N : \A j \in 1 .. P : F[base[i] + j] = seqs[i][j]
    BY <1>2, <2>1
  <2> QED
    BY <2>1, <2>2, <2>3, <2>4
<1>4. \A i \in 1 .. N : base[i] = (i - 1) * P
  <2> DEFINE Bad == {i \in 1 .. N : base[i] # (i - 1) * P}
  <2> SUFFICES ASSUME Bad # {} PROVE FALSE
    OBVIOUS
  <2>1. Bad \in SUBSET Nat
    BY <1>2
  <2>2. PICK m \in Bad : \A n \in Bad : m <= n
    BY <2>1, LeastNat
  <2>3. m \in 1 .. N /\ base[m] # (m - 1) * P
    OBVIOUS
  <2>4. CASE m = 1
    BY <1>3, <2>3, <2>4
  <2>5. CASE m # 1
    <3> DEFINE k == m - 1
               e == k - 1
    <3>1. k \in 1 .. N /\ k < m /\ e \in Nat /\ k = e + 1
      BY <1>2, <2>3, <2>5
    <3>2. k \notin Bad
      BY <2>2, <2>3, <3>1
    <3>3. base[k] = e * P
      BY <3>1, <3>2
    <3>4. base[m] = base[k] + P
      BY <1>3, <2>3, <2>5
    <3> HIDE DEF k, e, Bad
    <3>5. k * P = e * P + P
      BY <3>1
    <3> QED
      BY <2>3, <3>3, <3>4, <3>5 DEF k
  <2> QED
    BY <2>4, <2>5
<1>5. Len(F) = N * P
  <2> DEFINE e == N - 1
  <2>1. e \in Nat /\ N = e + 1 /\ base[N] = e * P
    BY <1>2, <1>4
  <2> HIDE DEF e
  <2>2. N * P = e * P + P
    BY <2>1
  <2> QED
    BY <1>3, <2>1, <2>2
<1>6. \A i \in 1 .. N : \A j \in 1 .. P : F[((i - 1) * P) + j] = seqs[i][j]
  BY <1>3, <1>4
<1> QED
  BY <1>1, <1>5, <1>6 DEF N, F

\* Column c of a row of N groups of P.
LEMMA ColumnOf ==
    ASSUME NEW N \in Nat, NEW P \in Nat \ {0}, NEW c \in 1 .. N * P
    PROVE  LET i == ((c - 1) \div P) + 1
               j == ((c - 1) % P) + 1
           IN  i \in 1 .. N /\ j \in 1 .. P /\ c = ((i - 1) * P) + j
<1> DEFINE a == c - 1
           q == a \div P
           m == a % P
<1>1. N * P \in Nat
  BY MulNat
<1> DEFINE X == N * P
<1> HIDE DEF X
<1>2. a \in Nat /\ a < X /\ c = a + 1
  BY <1>1 DEF X
<1> HIDE DEF a
<1>3. q \in Nat /\ m \in 0 .. P - 1 /\ a = q * P + m
  BY <1>2, DivMod
<1> HIDE DEF q, m
<1>4. N <= q => N * P <= q * P
  BY <1>3, MulMono
<1>5. q * P \in Nat
  BY <1>3, MulNat
<1>6. q < N
  BY <1>1, <1>2, <1>3, <1>4, <1>5 DEF X
<1>7. q + 1 \in 1 .. N /\ m + 1 \in 1 .. P /\ (q + 1) - 1 = q
  BY <1>3, <1>6
<1>8. c = (q * P) + (m + 1)
  BY <1>2, <1>3, <1>5
<1>9. c = (((q + 1) - 1) * P) + (m + 1)
  BY <1>7, <1>8
<1> QED
  BY <1>7, <1>9 DEF q, m, a

LEMMA GroupCount == Groups \in Nat /\ Groups * POOL = TopK /\ TopK \in Nat
<1>1. TopK \in Nat /\ TopK % POOL = 0 /\ POOL \in Nat \ {0}
  BY KPoolAssumption
<1>2. TopK \div POOL \in Nat /\ TopK = (TopK \div POOL) * POOL + (TopK % POOL)
  BY <1>1, DivMod
<1> DEFINE G == TopK \div POOL
           X == G * POOL
<1>3. X \in Nat /\ TopK = X + 0
  BY <1>1, <1>2, MulNat
<1> HIDE DEF X
<1>4. TopK = X
  BY <1>3
<1> QED
  BY <1>1, <1>2, <1>4 DEF X, Groups

\* expand_pools_to_tokens, column by column.
LEMMA ExpandIs ==
    ASSUME NEW ids \in [1 .. Groups -> Int]
    PROVE  /\ ExpandPools(ids) \in Seq(Int) /\ Len(ExpandPools(ids)) = TopK
           /\ \A c \in 1 .. TopK : ExpandPools(ids)[c] =
                 LET id == ids[((c - 1) \div POOL) + 1]
                 IN  IF id >= 0 THEN (id * POOL) + ((c - 1) % POOL) ELSE -1
<1> DEFINE G == Groups
           P == POOL
           part(g) == [o \in 1 .. POOL |-> IF ids[g] >= 0 THEN (ids[g] * POOL) + (o - 1) ELSE -1]
           seqs == [g \in 1 .. Groups |-> part(g)]
           F == ExpandPools(ids)
<1>1. G \in Nat /\ P \in Nat \ {0} /\ G * P = TopK /\ TopK \in Nat
  BY GroupCount, Sizes
<1>2. F = FlattenSeq(seqs)
  BY DEF ExpandPools
<1>3. ASSUME NEW g \in 1 .. G PROVE part(g) \in Seq(Int) /\ Len(part(g)) = P
  <2> DEFINE w == part(g)
             y == ids[g] * POOL
  <2>1. y \in Int
    BY <1>1
  <2> HIDE DEF y
  <2>2. \A o \in 1 .. POOL : (IF ids[g] >= 0 THEN y + (o - 1) ELSE -1) \in Int
    BY <1>1, <2>1
  <2>3. w \in [1 .. POOL -> Int]
    BY <2>2 DEF y
  <2> HIDE DEF w
  <2>4. w \in Seq(Int) /\ Len(w) = P
    BY <1>1, <2>3
  <2> QED
    BY <2>4 DEF w
<1>4. CASE G = 0
  <2>1. seqs = <<>> /\ Len(seqs) = 0
    BY <1>4
  <2>2. F = <<>>
    BY <1>2, <2>1 DEF FlattenSeq
  <2>3. TopK = 0
    BY <1>1, <1>4
  <2> QED
    BY <2>2, <2>3
<1>5. CASE G # 0
  <2>1. seqs \in [1 .. G -> Seq(Int)] /\ \A g \in 1 .. G : seqs[g] = part(g)
    BY <1>3
  <2> HIDE DEF seqs
  <2>2. seqs \in Seq(Seq(Int)) /\ Len(seqs) = G /\ seqs # <<>>
    <3> HIDE DEF G
    <3>1. seqs \in Seq(Seq(Int)) /\ Len(seqs) = G
      BY <1>1, <2>1
    <3> QED
      BY <1>5, <3>1
  <2>3. \A g \in 1 .. Len(seqs) : Len(seqs[g]) = P
    BY <1>3, <2>1, <2>2
  <2> HIDE DEF part, G, P
  <2>4. /\ FlattenSeq(seqs) \in Seq(Int) /\ Len(FlattenSeq(seqs)) = Len(seqs) * P
        /\ \A i \in 1 .. Len(seqs) : \A j \in 1 .. P : FlattenSeq(seqs)[((i - 1) * P) + j] = seqs[i][j]
    BY <1>1, <2>2, <2>3, FlattenEven
  <2> HIDE DEF F
  <2>5. /\ F \in Seq(Int) /\ Len(F) = TopK
        /\ \A i \in 1 .. G : \A j \in 1 .. P : F[((i - 1) * P) + j] = part(i)[j]
    BY <1>1, <1>2, <2>1, <2>2, <2>4
  <2>6. ASSUME NEW c \in 1 .. TopK
        PROVE  F[c] = IF ids[((c - 1) \div P) + 1] >= 0
                      THEN (ids[((c - 1) \div P) + 1] * P) + ((c - 1) % P) ELSE -1
    <3> DEFINE i == ((c - 1) \div P) + 1
               j == ((c - 1) % P) + 1
    <3>1. i \in 1 .. G /\ j \in 1 .. P /\ c = ((i - 1) * P) + j
      <4>1. c \in 1 .. G * P
        BY <1>1
      <4> QED
        BY <1>1, <4>1, ColumnOf
    <3>2. (c - 1) % P = j - 1
      <4>1. c - 1 \in Nat
        BY <1>1
      <4>2. (c - 1) % P \in Int
        BY <1>1, <4>1, DivMod
      <4> DEFINE m == (c - 1) % P
      <4> HIDE DEF m
      <4>3. m = (m + 1) - 1
        BY <4>2 DEF m
      <4> QED
        BY <4>3 DEF m
    <3> HIDE DEF i, j
    <3>3. F[c] = part(i)[j]
      BY <2>5, <3>1
    <3>4. part(i)[j] = IF ids[i] >= 0 THEN (ids[i] * P) + (j - 1) ELSE -1
      BY <3>1 DEF part, P
    <3>5. F[c] = IF ids[i] >= 0 THEN (ids[i] * P) + ((c - 1) % P) ELSE -1
      BY <3>2, <3>3, <3>4
    <3> QED
      BY <3>5 DEF i
  <2> QED
    BY <2>5, <2>6 DEF F, P
<1> QED
  BY <1>4, <1>5

LEMMA Wider == ASSUME NEW S, NEW T, S \subseteq T, NEW s \in Seq(S) PROVE s \in Seq(T)
  OBVIOUS

LEMMA ItemOf == ASSUME NEW S, NEW s \in Seq(S), NEW i \in 1 .. Len(s) PROVE s[i] \in S
  OBVIOUS

LEMMA CatAt ==
    ASSUME NEW S, NEW s \in Seq(S), NEW t \in Seq(S)
    PROVE  /\ s \o t \in Seq(S) /\ Len(s \o t) = Len(s) + Len(t)
           /\ \A c \in 1 .. Len(s) + Len(t) : (s \o t)[c] = IF c <= Len(s) THEN s[c] ELSE t[c - Len(s)]
  OBVIOUS

\* The fused kernel and its torch twins give the same row.
LEMMA Twins ==
    ASSUME NEW ids \in [1 .. Groups -> Int], NEW seq \in Nat
    PROVE  ExpandFused(ids, seq) = AppendTail(ExpandPools(ids), seq)
<1> DEFINE F == ExpandPools(ids)
           start == (seq \div POOL) * POOL
           w == [o \in 1 .. POOL - 1 |-> IF o - 1 < seq - start THEN start + (o - 1) ELSE -1]
           row == ExpandFused(ids, seq)
           K == TopK
           n == POOL - 1
<1>1. K \in Nat /\ n \in Nat /\ K + n = TopK + POOL - 1 /\ start \in Nat
  BY Sizes, GroupCount, BlockStart
<1>2. F \in Seq(Int) /\ Len(F) = K
  BY ExpandIs
<1>3. w \in Seq(Int) /\ Len(w) = n
  <2> HIDE DEF start
  <2>1. w \in [1 .. n -> Int]
    BY <1>1
  <2> HIDE DEF w, n
  <2> QED
    BY <1>1, <2>1
<1>4. AppendTail(F, seq) = F \o w
  BY Zenon DEF AppendTail
<1>5. row = [c \in 1 .. K + n |-> row[c]]
  BY <1>1 DEF ExpandFused
<1>6. ASSUME NEW c \in 1 .. K PROVE row[c] = F[c]
  <2> DEFINE id == ids[((c - 1) \div POOL) + 1]
  <2>0. c \in 1 .. TopK + POOL - 1 /\ c <= TopK
    BY <1>1
  <2>1. row[c] = IF id >= 0 THEN (id * POOL) + ((c - 1) % POOL) ELSE -1
    BY <2>0, Zenon DEF ExpandFused
  <2>2. F[c] = IF id >= 0 THEN (id * POOL) + ((c - 1) % POOL) ELSE -1
    BY ExpandIs
  <2> HIDE DEF row, F, id
  <2> QED
    BY <2>1, <2>2
<1>7. ASSUME NEW c \in K + 1 .. K + n PROVE row[c] = w[c - K]
  <2>1. c \in 1 .. TopK + POOL - 1 /\ ~ (c <= TopK) /\ c - K \in 1 .. POOL - 1
    BY <1>1
  <2>2. row[c] = IF c - 1 - TopK < seq - start THEN start + (c - 1 - TopK) ELSE -1
    BY <2>1, Zenon DEF ExpandFused
  <2>3. w[c - K] = IF (c - K) - 1 < seq - start THEN start + ((c - K) - 1) ELSE -1
    BY <2>1
  <2>4. (c - K) - 1 = c - 1 - TopK
    BY <1>1
  <2> HIDE DEF start, w, row
  <2> QED
    BY <2>2, <2>3, <2>4
<1> HIDE DEF F, w, row, K, n
<1> DEFINE cat == F \o w
<1>8. /\ cat \in Seq(Int) /\ Len(cat) = K + n
      /\ \A c \in 1 .. K + n : cat[c] = IF c <= K THEN F[c] ELSE w[c - K]
  <2>1. cat \in Seq(Int) /\ Len(cat) = Len(F) + Len(w)
    BY <1>2, <1>3, CatAt
  <2>2. \A c \in 1 .. Len(F) + Len(w) : cat[c] = IF c <= Len(F) THEN F[c] ELSE w[c - Len(F)]
    BY <1>2, <1>3, CatAt
  <2> HIDE DEF cat
  <2> QED
    BY <1>2, <1>3, <2>1, <2>2
<1> HIDE DEF cat
<1>9. \A c \in 1 .. K + n : row[c] = IF c <= K THEN F[c] ELSE w[c - K]
  <2> TAKE c \in 1 .. K + n
  <2>1. CASE c <= K
    BY <1>1, <1>6, <2>1
  <2>2. CASE ~ (c <= K)
    <3>1. c \in K + 1 .. K + n
      BY <1>1, <2>2
    <3> QED
      BY <1>7, <2>2, <3>1
  <2> QED
    BY <2>1, <2>2
<1>10. cat = [c \in 1 .. K + n |-> cat[c]]
  BY <1>8
<1>11. row = cat
  BY <1>5, <1>8, <1>9, <1>10
<1> QED
  BY <1>4, <1>11 DEF F, row, cat

\* What the top-k hands over: pools of the sequence, each at most once, then -1.
LEMMA ChoiceIs ==
    ASSUME NEW seq \in Nat, NEW ids \in TopKChoices(seq)
    PROVE  LET full == seq \div POOL
               most == Smaller(full, Groups)
           IN  /\ full \in Nat /\ most \in Nat /\ most <= Groups /\ most <= full
               /\ ids \in [1 .. Groups -> Int]
               /\ \A i \in 1 .. most : ids[i] \in 0 .. full - 1
               /\ \A i \in 1 .. Groups : i > most => ids[i] = -1
               /\ \A i, j \in 1 .. most : i # j => ids[i] # ids[j]
<1> DEFINE full == seq \div POOL
           G == Groups
           most == Smaller(full, G)
           pad == [i \in 1 .. G - most |-> -1]
<1>1. full \in Nat /\ G \in Nat
  BY Sizes, GroupCount, DivMod
<1>2. most = IF full < Groups THEN full ELSE Groups
  BY DEF Smaller
<1>3. \E S \in kSubset(most, 0 .. full - 1) : \E s \in SetToSeqs(S) : ids = s \o pad
  BY <1>2, Zenon DEF TopKChoices
<1> HIDE DEF full, G
<1>4. most \in Nat /\ most <= G /\ most <= full /\ G - most \in Nat
  BY <1>1 DEF Smaller
<1> HIDE DEF most
<1>5. PICK S \in kSubset(most, 0 .. full - 1) : \E s \in SetToSeqs(S) : ids = s \o pad
  BY <1>3
<1>6. PICK s \in SetToSeqs(S) : ids = s \o pad
  BY <1>5
<1>7. S \subseteq 0 .. full - 1 /\ Cardinality(S) = most /\ IsFiniteSet(S)
  <2>1. S \subseteq 0 .. full - 1 /\ Cardinality(S) = most
    BY DEF kSubset
  <2>2. IsFiniteSet(0 .. full - 1)
    BY <1>1, FS_Interval
  <2> QED
    BY <2>1, <2>2, FS_Subset
<1>8. /\ s \in Seq(S) /\ Len(s) = most
      /\ \A i, j \in 1 .. most : i # j => s[i] # s[j]
  BY <1>7, Orders
<1>9. \A i \in 1 .. most : s[i] \in 0 .. full - 1
  BY <1>7, <1>8, ItemOf
<1> DEFINE n == G - most
<1>10. pad \in [1 .. n -> Int] /\ \A i \in 1 .. n : pad[i] = -1
  OBVIOUS
<1> HIDE DEF pad
<1>11. pad \in Seq(Int) /\ Len(pad) = n
  <2>1. n \in Nat
    BY <1>4
  <2> HIDE DEF n
  <2> QED
    BY <1>10, <2>1
<1>12. s \in Seq(Int)
  <2>1. S \subseteq Int
    BY <1>7
  <2> QED
    BY <1>8, <2>1, Wider
<1>13. /\ ids \in Seq(Int) /\ Len(ids) = most + n
       /\ \A c \in 1 .. most + n : ids[c] = IF c <= most THEN s[c] ELSE pad[c - most]
  <2>1. /\ ids \in Seq(Int) /\ Len(ids) = Len(s) + Len(pad)
        /\ \A c \in 1 .. Len(s) + Len(pad) : ids[c] = IF c <= Len(s) THEN s[c] ELSE pad[c - Len(s)]
    BY <1>6, <1>11, <1>12, CatAt
  <2> HIDE DEF n
  <2> QED
    BY <1>8, <1>11, <2>1
<1>14. most + n = G
  BY <1>1, <1>4
<1>15. ids \in [1 .. G -> Int]
  BY <1>13, <1>14
<1>16. \A i \in 1 .. most : ids[i] = s[i]
  BY <1>1, <1>4, <1>13, <1>14
<1>17. ASSUME NEW i \in 1 .. G, i > most PROVE ids[i] = -1
  <2>1. i - most \in 1 .. n /\ i \in 1 .. most + n /\ ~ (i <= most)
    BY <1>1, <1>4, <1>17
  <2>2. ids[i] = pad[i - most]
    BY <1>13, <2>1
  <2> QED
    BY <1>10, <2>1, <2>2
<1>18. /\ \A i \in 1 .. most : ids[i] \in 0 .. full - 1
       /\ \A i, j \in 1 .. most : i # j => ids[i] # ids[j]
  BY <1>8, <1>9, <1>16
<1> QED
  BY <1>1, <1>4, <1>15, <1>17, <1>18 DEF full, G, most

\* The columns of a row: the tokens of the pools that the top-k handed over, then
\* those of the trailing partial pool.
LEMMA RowIs ==
    ASSUME NEW seq \in Nat, NEW ids \in TopKChoices(seq)
    PROVE  LET full == seq \div POOL
               most == Smaller(full, Groups)
               start == full * POOL
               row == ExpandFused(ids, seq)
           IN  /\ DOMAIN row = 1 .. TopK + POOL - 1
               /\ \A i \in 1 .. most : \A j \in 1 .. POOL :
                     row[((i - 1) * POOL) + j] = (ids[i] * POOL) + (j - 1)
               /\ \A c \in 1 .. TopK : c > most * POOL => row[c] = -1
               /\ \A c \in TopK + 1 .. TopK + POOL - 1 :
                     row[c] = IF c - 1 - TopK < seq - start THEN start + (c - 1 - TopK) ELSE -1
<1> DEFINE full == seq \div POOL
           P == POOL
           G == Groups
           most == Smaller(full, G)
           start == full * P
           row == ExpandFused(ids, seq)
           K == TopK
<1>1. G \in Nat /\ P \in Nat \ {0} /\ G * P = K /\ K \in Nat
  BY GroupCount, Sizes
<1>2. /\ full \in Nat /\ most \in Nat /\ most <= G /\ most <= full
      /\ ids \in [1 .. G -> Int]
      /\ \A i \in 1 .. most : ids[i] \in 0 .. full - 1
      /\ \A i \in 1 .. G : i > most => ids[i] = -1
  BY ChoiceIs
<1>3. DOMAIN row = 1 .. K + P - 1
  BY DEF ExpandFused
<1>4. ASSUME NEW c \in 1 .. K
      PROVE  LET id == ids[((c - 1) \div P) + 1]
             IN  row[c] = IF id >= 0 THEN (id * P) + ((c - 1) % P) ELSE -1
  <2>1. c \in 1 .. TopK + POOL - 1 /\ c <= TopK
    BY <1>1
  <2> QED
    BY <2>1, Zenon DEF ExpandFused
<1>5. ASSUME NEW c \in K + 1 .. K + P - 1
      PROVE  row[c] = IF c - 1 - TopK < seq - start THEN start + (c - 1 - TopK) ELSE -1
  <2>1. c \in 1 .. TopK + POOL - 1 /\ ~ (c <= TopK)
    BY <1>1
  <2> QED
    BY <2>1, Zenon DEF ExpandFused
<1> HIDE DEF row, full, most, G, P, K
<1>6. ASSUME NEW i \in 1 .. most, NEW j \in 1 .. P
      PROVE  row[((i - 1) * P) + j] = (ids[i] * P) + (j - 1)
  <2> DEFINE e == i - 1
             m == j - 1
             c == (e * P) + j
  <2>1. e \in Nat /\ m \in 0 .. P - 1 /\ e < G /\ i = e + 1 /\ j = m + 1 /\ i \in 1 .. G
    BY <1>1, <1>2
  <2> HIDE DEF e, m
  <2>2. e * P \in Nat /\ e * P + P <= G * P
    BY <1>1, <2>1, MulNat, MulMono
  <2>3. c \in 1 .. K /\ c - 1 = (e * P) + m
    BY <1>1, <2>1, <2>2
  <2>4. (c - 1) \div P = e /\ (c - 1) % P = m
    BY <1>1, <2>1, <2>3, DivUnique
  <2> HIDE DEF c
  <2>5. row[c] = IF ids[i] >= 0 THEN (ids[i] * P) + m ELSE -1
    <3>1. ((c - 1) \div P) + 1 = i
      BY <2>1, <2>4
    <3> QED
      BY <1>4, <2>3, <2>4, <3>1
  <2>6. ids[i] >= 0
    BY <1>2
  <2> QED
    BY <2>5, <2>6 DEF c, e, m
<1>7. ASSUME NEW c \in 1 .. K, c > most * P PROVE row[c] = -1
  <2> DEFINE i == ((c - 1) \div P) + 1
             j == ((c - 1) % P) + 1
             e == i - 1
  <2>1. i \in 1 .. G /\ j \in 1 .. P /\ c = (e * P) + j
    <3>1. c \in 1 .. G * P
      BY <1>1
    <3> QED
      BY <1>1, <3>1, ColumnOf
  <2>2. row[c] = IF ids[i] >= 0 THEN (ids[i] * P) + ((c - 1) % P) ELSE -1
    BY <1>4
  <2> HIDE DEF i, j
  <2>3. e \in Nat /\ i = e + 1
    BY <1>1, <2>1
  <2> HIDE DEF e
  <2>4. i > most
    <3>1. e < most => (e * P) + P <= most * P
      BY <1>1, <1>2, <2>3, MulMono
    <3>2. e * P \in Nat /\ most * P \in Nat
      BY <1>1, <1>2, <2>3, MulNat
    <3> DEFINE X == e * P
               Y == most * P
    <3>3. X \in Nat /\ Y \in Nat /\ c = X + j /\ c > Y /\ (e < most => X + P <= Y)
      BY <1>7, <2>1, <3>1, <3>2
    <3> HIDE DEF X, Y
    <3> QED
      BY <1>1, <1>2, <2>1, <2>3, <3>3
  <2>5. ids[i] = -1
    BY <1>2, <2>1, <2>4
  <2> QED
    BY <2>2, <2>5
<1> QED
  BY <1>3, <1>5, <1>6, <1>7 DEF row, full, most, G, P, K

\* A row names tokens of the sequence only, each once, all of the partial pool
\* among them, and as many as the metadata counts.
LEMMA RowNames ==
    ASSUME NEW seq \in Nat, NEW ids \in TopKChoices(seq)
    PROVE  LET row == ExpandFused(ids, seq)
               named == {c \in DOMAIN row : row[c] # -1}
               tokens == {row[c] : c \in named}
           IN  /\ Cardinality(named) = Visible(seq) /\ Cardinality(tokens) = Visible(seq)
               /\ (seq \div POOL) * POOL .. seq - 1 \subseteq tokens
               /\ tokens \subseteq 0 .. seq - 1
<1> DEFINE full == seq \div POOL
           P == POOL
           G == Groups
           most == Smaller(full, G)
           start == full * P
           row == ExpandFused(ids, seq)
           K == TopK
           H == most * P
           rest == seq - start
           named == {c \in DOMAIN row : row[c] # -1}
           tokens == {row[c] : c \in named}
<1>1. G \in Nat /\ P \in Nat \ {0} /\ G * P = K /\ K \in Nat
  BY GroupCount, Sizes
<1>2. /\ full \in Nat /\ most \in Nat /\ most <= G /\ most <= full
      /\ \A i \in 1 .. most : ids[i] \in 0 .. full - 1
      /\ \A i, j \in 1 .. most : i # j => ids[i] # ids[j]
  BY ChoiceIs
<1>3. start \in Nat /\ start <= seq /\ seq < start + P
  BY <1>1, BlockStart
<1>4. /\ DOMAIN row = 1 .. K + P - 1
      /\ \A i \in 1 .. most : \A j \in 1 .. P : row[((i - 1) * P) + j] = (ids[i] * P) + (j - 1)
      /\ \A c \in 1 .. K : c > most * P => row[c] = -1
      /\ \A c \in K + 1 .. K + P - 1 :
            row[c] = IF c - 1 - TopK < seq - start THEN start + (c - 1 - TopK) ELSE -1
  BY RowIs
<1>5. Visible(seq) = Smaller(start, K) + rest
  BY DEF Visible
<1> HIDE DEF row, full, G, P, K, most
<1>6. H \in Nat /\ H <= K /\ H <= start /\ H = Smaller(start, K)
  <2>1. H \in Nat /\ H <= K /\ H <= start
    BY <1>1, <1>2, MulNat, MulMono
  <2>2. most = full \/ most = G
    BY DEF most, Smaller
  <2>3. H = start \/ H = K
    BY <1>1, <2>2
  <2> HIDE DEF H, start
  <2> QED
    BY <1>1, <1>3, <2>1, <2>3 DEF Smaller
<1>7. rest \in 0 .. P - 1
  <2> HIDE DEF start
  <2> QED
    BY <1>1, <1>3
<1>8. ASSUME NEW c \in K + 1 .. K + P - 1
      PROVE  row[c] = IF c <= K + rest THEN start + (c - 1 - K) ELSE -1
  <2>1. row[c] = IF c - 1 - K < rest THEN start + (c - 1 - K) ELSE -1
    BY <1>4 DEF K
  <2> HIDE DEF rest, start
  <2>2. c - 1 - K < rest <=> c <= K + rest
    BY <1>1, <1>7
  <2> QED
    BY <2>1, <2>2
<1>9. ASSUME NEW c \in 1 .. H
      PROVE  \E i \in 1 .. most : \E j \in 1 .. P :
                c = ((i - 1) * P) + j /\ row[c] = (ids[i] * P) + (j - 1)
  <2> DEFINE i == ((c - 1) \div P) + 1
             j == ((c - 1) % P) + 1
  <2>1. i \in 1 .. most /\ j \in 1 .. P /\ c = ((i - 1) * P) + j
    BY <1>1, <1>2, ColumnOf
  <2> HIDE DEF i, j
  <2> QED
    BY <1>4, <2>1
<1>10. ASSUME NEW c \in 1 .. H PROVE row[c] \in 0 .. start - 1
  <2>1. PICK i \in 1 .. most : \E j \in 1 .. P : row[c] = (ids[i] * P) + (j - 1)
    BY <1>9
  <2>2. PICK j \in 1 .. P : row[c] = (ids[i] * P) + (j - 1)
    BY <2>1
  <2> DEFINE d == ids[i]
             X == d * P
  <2>3. d \in Nat /\ d < full
    BY <1>2
  <2> HIDE DEF d
  <2>4. X \in Nat /\ X + P <= start
    BY <1>1, <1>2, <2>3, MulNat, MulMono
  <2>5. row[c] = X + (j - 1)
    BY <2>2 DEF d
  <2> HIDE DEF X, start
  <2> QED
    BY <1>1, <1>3, <2>4, <2>5
<1> DEFINE A == 1 .. H
           B == K + 1 .. K + rest
<1>11. named = A \union B
  <2> HIDE DEF H, rest, start
  <2>1. ASSUME NEW c \in A PROVE c \in named
    <3>1. c \in DOMAIN row
      BY <1>1, <1>4, <1>6
    <3>2. row[c] # -1
      BY <1>3, <1>10
    <3> QED
      BY <3>1, <3>2
  <2>2. ASSUME NEW c \in B PROVE c \in named
    <3>1. c \in K + 1 .. K + P - 1 /\ c <= K + rest /\ c \in 1 .. K + P - 1
      BY <1>1, <1>7
    <3>2. row[c] = start + (c - 1 - K)
      BY <1>8, <3>1
    <3>3. start + (c - 1 - K) # -1
      BY <1>1, <1>3, <3>1
    <3> QED
      BY <1>4, <3>1, <3>2, <3>3
  <2>3. ASSUME NEW c \in named PROVE c \in A \union B
    <3>1. c \in 1 .. K + P - 1 /\ row[c] # -1
      BY <1>4
    <3>2. CASE c \in 1 .. K
      <4>1. ~ (c > H)
        BY <1>4, <3>1, <3>2 DEF H
      <4> QED
        BY <1>1, <1>6, <3>2, <4>1
    <3>3. CASE ~ (c \in 1 .. K)
      <4>1. c \in K + 1 .. K + P - 1
        BY <1>1, <3>1, <3>3
      <4>2. c <= K + rest
        BY <1>8, <3>1, <4>1
      <4> QED
        BY <1>1, <1>7, <4>1, <4>2
    <3> QED
      BY <3>2, <3>3
  <2> HIDE DEF named, A, B
  <2> QED
    BY <2>1, <2>2, <2>3
<1>12. IsFiniteSet(named) /\ Cardinality(named) = Visible(seq)
  <2> HIDE DEF H, rest, start
  <2>1. /\ IsFiniteSet(A) /\ Cardinality(A) = H /\ IsFiniteSet(B) /\ Cardinality(B) = rest
    <3>1. IsFiniteSet(A) /\ Cardinality(A) = IF 1 > H THEN 0 ELSE H - 1 + 1
      <4>1. 1 \in Int /\ H \in Int
        BY <1>6
      <4>2. ASSUME NEW a \in Int, NEW b \in Int
            PROVE  IsFiniteSet(a .. b) /\ Cardinality(a .. b) = IF a > b THEN 0 ELSE b - a + 1
        BY FS_Interval
      <4> QED
        BY <4>1, <4>2, Zenon
    <3>2. K + 1 \in Int /\ K + rest \in Int /\ rest \in Nat
      BY <1>1, <1>7
    <3>3. IsFiniteSet(B) /\ Cardinality(B) = IF K + 1 > K + rest THEN 0 ELSE (K + rest) - (K + 1) + 1
      BY <3>2, FS_Interval
    <3> HIDE DEF A, B
    <3>4. Cardinality(A) = H
      BY <1>6, <3>1
    <3>5. Cardinality(B) = rest
      <4> DEFINE z == Cardinality(B)
      <4>1. z = IF K + 1 > K + rest THEN 0 ELSE (K + rest) - (K + 1) + 1
        BY <3>3
      <4> HIDE DEF z
      <4>2. rest \in Nat /\ K \in Nat
        BY <1>1, <3>2
      <4>3. z = rest
        BY <4>1, <4>2
      <4> QED
        BY <4>3 DEF z
    <3> QED
      BY <3>1, <3>3, <3>4, <3>5
  <2>2. A \cap B = {}
    BY <1>1, <1>6, <1>7
  <2> HIDE DEF A, B, named
  <2>3. /\ IsFiniteSet(A \union B)
        /\ Cardinality(A \union B) = Cardinality(A) + Cardinality(B) - Cardinality(A \cap B)
    BY <2>1, FS_Union
  <2>4. Cardinality(A \cap B) = 0
    BY <2>2, FS_EmptySet
  <2>5. Cardinality(named) = H + rest - 0
    BY <1>11, <2>1, <2>3, <2>4
  <2>6. H + rest - 0 = H + rest
    BY <1>6, <1>7
  <2> QED
    BY <1>5, <1>6, <1>11, <2>3, <2>5, <2>6
<1>13. ASSUME NEW c \in A, NEW d \in A, row[c] = row[d] PROVE c = d
  <2>1. PICK i \in 1 .. most : \E j \in 1 .. P :
           c = ((i - 1) * P) + j /\ row[c] = (ids[i] * P) + (j - 1)
    BY <1>9
  <2>2. PICK j \in 1 .. P : c = ((i - 1) * P) + j /\ row[c] = (ids[i] * P) + (j - 1)
    BY <2>1
  <2>3. PICK k \in 1 .. most : \E l \in 1 .. P :
           d = ((k - 1) * P) + l /\ row[d] = (ids[k] * P) + (l - 1)
    BY <1>9
  <2>4. PICK l \in 1 .. P : d = ((k - 1) * P) + l /\ row[d] = (ids[k] * P) + (l - 1)
    BY <2>3
  <2> DEFINE x == ids[i]
             y == ids[k]
             m == j - 1
             n == l - 1
  <2>5. x \in Nat /\ y \in Nat /\ m \in 0 .. P - 1 /\ n \in 0 .. P - 1 /\ j = m + 1 /\ l = n + 1
    BY <1>1, <1>2
  <2>6. (x * P) + m = (y * P) + n
    BY <1>13, <2>2, <2>4
  <2> HIDE DEF x, y, m, n
  <2>7. ((x * P) + m) \div P = x /\ ((x * P) + m) % P = m /\ ((y * P) + n) \div P = y /\ ((y * P) + n) % P = n
    BY <1>1, <2>5, DivUnique
  <2>8. x = y /\ m = n
    BY <2>6, <2>7
  <2>9. i = k
    BY <1>2, <2>8 DEF x, y
  <2>10. j = l
    BY <2>5, <2>8
  <2> QED
    BY <2>2, <2>4, <2>9, <2>10
<1>14. ASSUME NEW c \in B PROVE row[c] = start + (c - 1 - K) /\ row[c] \in start .. seq - 1
  <2>1. row[c] = start + (c - 1 - K)
    <3> HIDE DEF rest, start
    <3>1. c \in K + 1 .. K + P - 1 /\ c <= K + rest
      BY <1>1, <1>7
    <3> QED
      BY <1>8, <3>1
  <2>2. c \in K + 1 .. K + (seq - start)
    OBVIOUS
  <2> HIDE DEF start
  <2>3. start + (c - 1 - K) \in start .. seq - 1
    BY <1>1, <1>3, <2>2
  <2> QED
    BY <2>1, <2>3
<1>15. \A c, d \in named : row[c] = row[d] => c = d
  <2> SUFFICES ASSUME NEW c \in A \union B, NEW d \in A \union B, row[c] = row[d] PROVE c = d
    BY <1>11
  <2> HIDE DEF A, B, H, rest, start
  <2>1. CASE c \in A /\ d \in A
    BY <1>13, <2>1
  <2>2. CASE c \in B /\ d \in B
    <3>1. c \in Int /\ d \in Int
      BY <2>2 DEF B
    <3>2. start + (c - 1 - K) = start + (d - 1 - K)
      BY <1>14, <2>2
    <3> QED
      BY <1>1, <1>3, <3>1, <3>2
  <2>3. CASE (c \in A /\ d \in B) \/ (c \in B /\ d \in A)
    <3>1. \A x \in A : row[x] \in 0 .. start - 1
      BY <1>10 DEF A
    <3>2. \A x \in B : row[x] \in start .. seq - 1
      BY <1>14
    <3> QED
      BY <1>3, <2>3, <3>1, <3>2
  <2> QED
    BY <2>1, <2>2, <2>3
<1>16. Cardinality(tokens) = Visible(seq)
  <2> DEFINE f == [c \in named |-> row[c]]
  <2>1. f \in [named -> tokens] /\ \A c \in named : f[c] = row[c]
    OBVIOUS
  <2>2. \A t \in tokens : \E c \in named : f[c] = t
    OBVIOUS
  <2> HIDE DEF f, named, tokens
  <2>3. f \in Injection(named, tokens)
    BY <1>15, <2>1 DEF Injection, IsInjective
  <2>4. f \in Surjection(named, tokens)
    BY <2>1, <2>2 DEF Surjection
  <2>5. Cardinality(tokens) = Cardinality(named)
    BY <1>12, <2>3, <2>4, FS_Surjection
  <2> QED
    BY <1>12, <2>5
<1>17. start .. seq - 1 \subseteq tokens
  <2> SUFFICES ASSUME NEW t \in start .. seq - 1 PROVE t \in tokens
    OBVIOUS
  <2> DEFINE c == K + 1 + (t - start)
  <2>1. c \in B
    <3>1. seq - start = rest
      OBVIOUS
    <3> HIDE DEF start, rest
    <3> QED
      BY <1>1, <1>3, <1>7, <3>1
  <2>2. start + (c - 1 - K) = t
    <3> HIDE DEF start
    <3> QED
      BY <1>1, <1>3
  <2> HIDE DEF c
  <2>3. row[c] = t
    BY <1>14, <2>1, <2>2
  <2> HIDE DEF A, B, start
  <2>4. c \in named
    BY <1>11, <2>1
  <2> HIDE DEF named
  <2> QED
    BY <2>3, <2>4
<1>18. tokens \subseteq 0 .. seq - 1
  <2> HIDE DEF start
  <2>1. ASSUME NEW c \in A PROVE row[c] \in 0 .. seq - 1
    <3>1. row[c] \in 0 .. start - 1
      BY <1>10
    <3> QED
      BY <1>3, <3>1
  <2>2. ASSUME NEW c \in B PROVE row[c] \in 0 .. seq - 1
    <3>1. row[c] \in start .. seq - 1
      BY <1>14
    <3> QED
      BY <1>3, <3>1
  <2> HIDE DEF A, B, named
  <2> QED
    BY <1>11, <2>1, <2>2
<1> QED
  BY <1>12, <1>16, <1>17, <1>18 DEF row, P, full

\* Decode and verify: the fused expansion and its torch twins agree, and what they
\* name is what dsa_cache_seqlens counts, for every choice of the top-k.
THEOREM VisibleIsHandedOut == Spec => []VisibleAgrees
<1>1. KInv => VisibleAgrees
  <2> SUFFICES ASSUME KInv, NEW x \in DecodeRows \union VerifyRows, NEW ids \in TopKChoices(x[2])
               PROVE  LET row == ExpandFused(ids, x[2])
                          named == {c \in DOMAIN row : row[c] # -1}
                          tokens == {row[c] : c \in named}
                      IN  /\ row = AppendTail(ExpandPools(ids), x[2])
                          /\ Cardinality(named) = Visible(x[2]) /\ Cardinality(tokens) = Visible(x[2])
                          /\ (x[2] \div POOL) * POOL .. x[2] - 1 \subseteq tokens
                          /\ tokens \subseteq 0 .. x[2] - 1
    BY Zenon DEF VisibleAgrees
  <2>1. x[2] \in Nat
    BY MetaRow
  <2>2. ids \in [1 .. Groups -> Int]
    BY <2>1, ChoiceIs
  <2>3. ExpandFused(ids, x[2]) = AppendTail(ExpandPools(ids), x[2])
    BY <2>1, <2>2, Twins
  <2>4. LET row == ExpandFused(ids, x[2])
            named == {c \in DOMAIN row : row[c] # -1}
            tokens == {row[c] : c \in named}
        IN  /\ Cardinality(named) = Visible(x[2]) /\ Cardinality(tokens) = Visible(x[2])
            /\ (x[2] \div POOL) * POOL .. x[2] - 1 \subseteq tokens
            /\ tokens \subseteq 0 .. x[2] - 1
    BY <2>1, RowNames, Zenon
  <2> QED
    BY <2>3, <2>4, Zenon
<1> QED
  BY <1>1, KPoolInvariance, PTL
=============================================================================
