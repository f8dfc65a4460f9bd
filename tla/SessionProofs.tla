--------------------------- MODULE SessionProofs ---------------------------
(***************************************************************************)
(* For any number of blocks, rounds and invocations a read of the          *)
(* Milestone-0 microprogram returns its own or the next round's value; for *)
(* any batch, capacity and leased tables a decode step reads neither       *)
(* padding nor another row's slot.                                         *)
(***************************************************************************)
EXTENDS Session, FiniteSetTheorems, TLAPS

-----------------------------------------------------------------------------
(* Milestone 0: the counting barrier and the tags behind it *)

\* Rounds whose barrier block w has arrived at, and has passed.
Arrived(w) == IF pc[w] \in {"spin", "read"} THEN r[w] + 1 ELSE r[w]
Passed(w)  == IF pc[w] = "read" THEN r[w] + 1 ELSE r[w]

\* The round block w has last written in this invocation, -1 for none.
LastRound(w) == IF pc[w] = "write" THEN r[w] - 1 ELSE r[w]

Tags == Int \X Int

M0Types ==
    /\ idle \in BOOLEAN
    /\ verdict \in {"running", "verified", "failed"}
    /\ inv \in 0 .. Invocations
    /\ counter \in Nat /\ base \in Nat
    /\ pc \in [Blocks -> {"write", "arrive", "spin", "read"}]
    /\ r \in [Blocks -> 0 .. ROUNDS]
    /\ out \in [Blocks -> Tags] /\ saw \in [Blocks -> Tags]
    /\ \A w \in Blocks : r[w] = ROUNDS => pc[w] = "write"

\* Nobody passes a barrier that somebody has not arrived at.
InStep == \A v, w \in Blocks : Passed(w) <= Arrived(v)

\* The counter is the base and the arrivals of this invocation: all blocks are
\* at m, some of them one ahead.
Counted ==
    \E m \in 0 .. ROUNDS :
        /\ \A w \in Blocks : Arrived(w) \in {m, m + 1}
        /\ counter = base + m * P + Cardinality({w \in Blocks : Arrived(w) = m + 1})

\* The slot of a block that writes holds the round it wrote last.
Tagged == \A w \in Blocks : Writes(w) /\ LastRound(w) >= 0 => out[w] = <<inv, LastRound(w)>>

M0Inv == M0Types /\ ReadWindow /\ (inv < Invocations => InStep /\ Counted /\ Tagged)

LEMMA BlocksFinite == IsFiniteSet(Blocks) /\ Cardinality(Blocks) = P
  BY M0Assumption, FS_Interval DEF Blocks

LEMMA BlockFacts ==
    /\ P \in Nat /\ ROUNDS \in Nat /\ Invocations \in Nat /\ P > 0 /\ ROUNDS > 0
    /\ Invocations > 0 /\ 0 \in Blocks
    /\ \A w \in Blocks : Nb(w) \in Blocks
  BY M0Assumption DEF Blocks, Nb

LEMMA ArrivedNat ==
    ASSUME M0Types, NEW w \in Blocks
    PROVE  /\ r[w] \in Nat /\ r[w] <= ROUNDS /\ Arrived(w) \in Nat /\ Passed(w) \in Nat
           /\ r[w] <= Passed(w) /\ Passed(w) <= Arrived(w) /\ Arrived(w) <= ROUNDS
  BY BlockFacts DEF M0Types, Arrived, Passed

\* The count depends on the counter, the base and the arrivals only.
LEMMA CountedFrame ==
    ASSUME Counted, counter' = counter, base' = base,
           \A w \in Blocks : Arrived(w)' = Arrived(w)
    PROVE  Counted'
<1>1. PICK m \in 0 .. ROUNDS :
        /\ \A w \in Blocks : Arrived(w) \in {m, m + 1}
        /\ counter = base + m * P + Cardinality({w \in Blocks : Arrived(w) = m + 1})
  BY DEF Counted
<1>2. {w \in Blocks : Arrived(w)' = m + 1} = {w \in Blocks : Arrived(w) = m + 1}
  OBVIOUS
<1>3. \A w \in Blocks : Arrived(w)' \in {m, m + 1}
  BY <1>1
<1>4. counter' = base' + m * P + Cardinality({w \in Blocks : Arrived(w)' = m + 1})
  BY <1>1, <1>2
<1> QED
  BY <1>3, <1>4 DEF Counted

\* All blocks are at zero and none is ahead.
LEMMA CountedZero ==
    ASSUME base \in Nat, counter = base, \A w \in Blocks : Arrived(w) = 0
    PROVE  Counted
<1>1. {w \in Blocks : Arrived(w) = 0 + 1} = {}
  OBVIOUS
<1>2. Cardinality({w \in Blocks : Arrived(w) = 0 + 1}) = 0
  BY <1>1, FS_EmptySet, Zenon
<1>3. counter = base + 0 * P + Cardinality({w \in Blocks : Arrived(w) = 0 + 1})
  BY <1>2, BlockFacts
<1>4. 0 \in 0 .. ROUNDS /\ \A w \in Blocks : Arrived(w) \in {0, 0 + 1}
  BY BlockFacts
<1> QED
  BY <1>3, <1>4 DEF Counted

LEMMA M0InitInv == M0Init => M0Inv
<1> SUFFICES ASSUME M0Init PROVE M0Inv
  OBVIOUS
<1>1. M0Types
  BY BlockFacts DEF M0Init, M0Types, Tags, None
<1>2. \A w \in Blocks : Arrived(w) = 0 /\ Passed(w) = 0 /\ LastRound(w) = -1
  BY DEF M0Init, Arrived, Passed, LastRound
<1>3. InStep /\ Tagged
  BY <1>2 DEF InStep, Tagged
<1>4. Counted
  BY <1>1, <1>2, CountedZero DEF M0Init, M0Types
<1>5. ReadWindow
  BY DEF M0Init, ReadWindow
<1> QED
  BY <1>1, <1>3, <1>4, <1>5 DEF M0Inv

\* A block writes its slot.
LEMMA WriteInv ==
    ASSUME M0Inv, inv < Invocations, NEW w \in Blocks, Write(w)
    PROVE  M0Inv'
<1>1. /\ UNCHANGED <<idle, verdict, inv, counter, base, r, saw>>
      /\ pc[w] = "write" /\ r[w] < ROUNDS /\ pc' = [pc EXCEPT ![w] = "arrive"]
      /\ out' = IF Writes(w) THEN [out EXCEPT ![w] = <<inv, r[w]>>] ELSE out
  BY DEF Write
<1>2. M0Types /\ InStep /\ Counted /\ Tagged /\ ReadWindow
  BY DEF M0Inv
<1>3. /\ pc'[w] = "arrive" /\ \A v \in Blocks : v # w => pc'[v] = pc[v]
      /\ \A v \in Blocks : r[v] \in Nat
      /\ \A v \in Blocks : v # w => out'[v] = out[v]
      /\ Writes(w) => out'[w] = <<inv, r[w]>>
  BY <1>1, <1>2, BlockFacts DEF M0Types
<1>4. M0Types'
  <2>1. r[w] \in Int /\ inv \in Int /\ <<inv, r[w]>> \in Tags
    BY <1>2, BlockFacts DEF M0Types, Tags
  <2>2. out' \in [Blocks -> Tags]
    BY <1>1, <1>2, <2>1 DEF M0Types
  <2> QED
    BY <1>1, <1>2, <1>3, <2>2, BlockFacts DEF M0Types
<1>5. \A v \in Blocks : Arrived(v)' = Arrived(v) /\ Passed(v)' = Passed(v)
  BY <1>1, <1>3 DEF Arrived, Passed
<1>6. InStep' /\ Counted'
  BY <1>1, <1>2, <1>5, CountedFrame DEF InStep
<1>7. Tagged'
  BY <1>1, <1>2, <1>3 DEF Tagged, Writes, LastRound
<1>8. ReadWindow'
  BY <1>1, <1>2 DEF ReadWindow, Writes
<1> QED
  BY <1>4, <1>6, <1>7, <1>8 DEF M0Inv

\* A block arrives at the barrier of its round.
LEMMA ArriveInv ==
    ASSUME M0Inv, inv < Invocations, NEW w \in Blocks, Arrive(w)
    PROVE  M0Inv'
<1>1. /\ UNCHANGED <<idle, verdict, inv, base, r, out, saw>>
      /\ pc[w] = "arrive" /\ pc' = [pc EXCEPT ![w] = "spin"] /\ counter' = counter + 1
  BY DEF Arrive
<1>2. M0Types /\ InStep /\ Counted /\ Tagged /\ ReadWindow
  BY DEF M0Inv
<1>3. /\ pc'[w] = "spin" /\ \A v \in Blocks : v # w => pc'[v] = pc[v]
      /\ counter \in Nat /\ base \in Nat /\ r[w] # ROUNDS
  BY <1>1, <1>2 DEF M0Types
<1>4. M0Types'
  BY <1>1, <1>2, <1>3 DEF M0Types
<1>5. /\ \A v \in Blocks : v # w => Arrived(v)' = Arrived(v)
      /\ Arrived(w) = r[w] /\ Arrived(w)' = r[w] + 1
      /\ \A v \in Blocks : Passed(v)' = Passed(v) /\ LastRound(v)' = LastRound(v)
      /\ \A v \in Blocks : Arrived(v) \in Nat /\ Passed(v) \in Nat /\ r[v] \in Nat
      /\ Passed(w) = r[w]
  BY <1>1, <1>2, <1>3, ArrivedNat DEF Arrived, Passed, LastRound
<1>6. InStep'
  BY <1>2, <1>5 DEF InStep
<1>7. Tagged' /\ ReadWindow'
  BY <1>1, <1>2, <1>5 DEF Tagged, ReadWindow, Writes
<1>8. Counted'
  <2>1. PICK m \in 0 .. ROUNDS :
          /\ \A v \in Blocks : Arrived(v) \in {m, m + 1}
          /\ counter = base + m * P + Cardinality({v \in Blocks : Arrived(v) = m + 1})
    BY <1>2 DEF Counted
  <2> DEFINE A == {v \in Blocks : Arrived(v) = m + 1}
             B2(n) == {v \in Blocks : Arrived(v)' = n + 1}
  <2>2. m \in Nat /\ m * P \in Nat /\ P \in Nat /\ ROUNDS \in Nat
    BY BlockFacts
  <2>3. IsFiniteSet(A) /\ Cardinality(A) \in Nat
    BY BlocksFinite, FS_Subset, FS_CardinalityType
  <2>4. CASE r[w] = m
    <3>1. B2(m) = A \union {w} /\ w \notin A
      BY <1>5, <2>2, <2>4
    <3>2. Cardinality(B2(m)) = Cardinality(A) + 1
      BY <2>3, <3>1, FS_AddElement
    <3>3. \A v \in Blocks : Arrived(v)' \in {m, m + 1}
      BY <1>5, <2>1, <2>4
    <3>4. counter' = base' + m * P + Cardinality(B2(m))
      BY <1>1, <1>3, <2>1, <2>2, <2>3, <3>2
    <3> QED
      BY <3>3, <3>4 DEF Counted
  <2>5. CASE r[w] = m + 1
    <3>1. \A v \in Blocks : Arrived(v) = m + 1
      BY <1>2, <1>5, <2>1, <2>2, <2>5 DEF InStep
    <3>2. A = Blocks
      BY <3>1
    <3>3. Cardinality(A) = P
      BY <3>2, BlocksFinite
    <3>4. B2(m + 1) = {w}
      BY <1>5, <2>2, <2>5, <3>1
    <3>5. Cardinality(B2(m + 1)) = 1
      BY <3>4, FS_Singleton
    <3>6. m + 1 \in 0 .. ROUNDS
      BY <1>2, <2>2, <2>5, ArrivedNat
    <3>7. \A v \in Blocks : Arrived(v)' \in {m + 1, (m + 1) + 1}
      BY <1>5, <2>5, <3>1
    <3>8. (m + 1) * P = m * P + P
      BY <2>2
    <3>9. counter' = base' + (m + 1) * P + Cardinality(B2(m + 1))
      BY <1>1, <1>3, <2>1, <2>2, <3>3, <3>5, <3>8
    <3> QED
      BY <3>6, <3>7, <3>9 DEF Counted
  <2>6. r[w] \in {m, m + 1}
    BY <1>5, <2>1
  <2> QED
    BY <2>4, <2>5, <2>6
<1> QED
  BY <1>4, <1>6, <1>7, <1>8 DEF M0Inv

\* A block is released: the counter has reached its target only if every block
\* has arrived at the barrier.
LEMMA ReleaseInv ==
    ASSUME M0Inv, inv < Invocations, NEW w \in Blocks, Release(w)
    PROVE  M0Inv'
<1>1. /\ UNCHANGED <<idle, verdict, inv, counter, base, r, out, saw>>
      /\ pc[w] = "spin" /\ pc' = [pc EXCEPT ![w] = "read"]
      /\ counter >= base + (r[w] + 1) * P
  BY DEF Release, RoundTarget
<1>2. M0Types /\ InStep /\ Counted /\ Tagged /\ ReadWindow
  BY DEF M0Inv
<1>3. /\ pc'[w] = "read" /\ \A v \in Blocks : v # w => pc'[v] = pc[v]
      /\ counter \in Nat /\ base \in Nat /\ r[w] # ROUNDS
  BY <1>1, <1>2 DEF M0Types
<1>4. M0Types'
  BY <1>1, <1>2, <1>3 DEF M0Types
<1>5. /\ \A v \in Blocks : Arrived(v)' = Arrived(v) /\ LastRound(v)' = LastRound(v)
      /\ \A v \in Blocks : v # w => Passed(v)' = Passed(v)
      /\ Passed(w)' = r[w] + 1 /\ Arrived(w) = r[w] + 1
      /\ \A v \in Blocks : Arrived(v) \in Nat /\ Passed(v) \in Nat /\ r[v] \in Nat
  BY <1>1, <1>2, <1>3, ArrivedNat DEF Arrived, Passed, LastRound
<1>6. \A v \in Blocks : Arrived(v) >= r[w] + 1
  <2>1. PICK m \in 0 .. ROUNDS :
          /\ \A v \in Blocks : Arrived(v) \in {m, m + 1}
          /\ counter = base + m * P + Cardinality({v \in Blocks : Arrived(v) = m + 1})
    BY <1>2 DEF Counted
  <2> DEFINE A == {v \in Blocks : Arrived(v) = m + 1}
  <2>2. m \in Nat /\ m * P \in Nat /\ P \in Nat
    BY BlockFacts
  <2>3. IsFiniteSet(A) /\ Cardinality(A) \in Nat /\ A \subseteq Blocks
    BY BlocksFinite, FS_Subset, FS_CardinalityType
  <2>4. CASE r[w] + 1 = m
    BY <1>5, <2>1, <2>2, <2>4
  <2>5. CASE r[w] + 1 = m + 1
    <3>1. (m + 1) * P = m * P + P
      BY <2>2
    <3>2. Cardinality(A) >= P
      BY <1>1, <1>3, <2>1, <2>2, <2>3, <2>5, <3>1
    <3>3. A = Blocks
      BY <2>2, <2>3, <3>2, BlocksFinite, FS_Subset
    <3> QED
      BY <1>5, <2>2, <2>5, <3>3
  <2> QED
    BY <1>5, <2>1, <2>4, <2>5
<1>7. InStep'
  BY <1>2, <1>5, <1>6 DEF InStep
<1>8. Tagged' /\ ReadWindow'
  BY <1>1, <1>2, <1>5 DEF Tagged, ReadWindow, Writes
<1>9. Counted'
  BY <1>1, <1>2, <1>5, CountedFrame
<1> QED
  BY <1>4, <1>7, <1>8, <1>9 DEF M0Inv

\* A block behind the barrier reads its neighbour, which has written this round
\* and may have written the next.
LEMMA ReadInv ==
    ASSUME M0Inv, inv < Invocations, NEW w \in Blocks, Read(w)
    PROVE  M0Inv'
<1>1. /\ UNCHANGED <<idle, verdict, inv, counter, base, out>>
      /\ pc[w] = "read" /\ pc' = [pc EXCEPT ![w] = "write"]
      /\ r' = [r EXCEPT ![w] = r[w] + 1] /\ saw' = [saw EXCEPT ![w] = out[Nb(w)]]
  BY DEF Read
<1>2. M0Types /\ InStep /\ Counted /\ Tagged /\ ReadWindow
  BY DEF M0Inv
<1>3. /\ pc'[w] = "write" /\ r'[w] = r[w] + 1 /\ saw'[w] = out[Nb(w)]
      /\ \A v \in Blocks : v # w => pc'[v] = pc[v] /\ r'[v] = r[v] /\ saw'[v] = saw[v]
      /\ r[w] # ROUNDS /\ Nb(w) \in Blocks
      /\ \A v \in Blocks : r[v] \in Nat /\ Passed(v) \in Nat /\ Arrived(v) \in Nat
  BY <1>1, <1>2, BlockFacts, ArrivedNat DEF M0Types
<1>4. M0Types'
  <2>1. r[w] + 1 \in 0 .. ROUNDS /\ out[Nb(w)] \in Tags
    BY <1>2, <1>3, BlockFacts DEF M0Types
  <2> QED
    BY <1>1, <1>2, <1>3, <2>1 DEF M0Types
<1>5. \A v \in Blocks : /\ Arrived(v)' = Arrived(v) /\ Passed(v)' = Passed(v)
                        /\ LastRound(v)' = LastRound(v)
  BY <1>1, <1>3 DEF Arrived, Passed, LastRound
<1>6. InStep' /\ Tagged' /\ Counted'
  BY <1>1, <1>2, <1>5, CountedFrame DEF InStep, Tagged, Writes
<1>7. ReadWindow'
  <2> SUFFICES ASSUME NEW v \in Blocks, saw'[v] # None, Writes(Nb(v))
               PROVE  saw'[v][1] = inv /\ saw'[v][2] \in r'[v] - 1 .. r'[v]
    BY <1>1 DEF ReadWindow, Writes
  <2>1. CASE v # w
    BY <1>2, <1>3, <2>1 DEF ReadWindow
  <2>2. CASE v = w
    <3>1. r[w] + 1 <= Arrived(Nb(w)) /\ Passed(Nb(w)) <= r[w] + 1
      BY <1>1, <1>2, <1>3 DEF InStep, Passed, Arrived
    <3>2. LastRound(Nb(w)) \in r[w] .. r[w] + 1
      BY <1>3, <3>1 DEF Passed, Arrived, LastRound
    <3>3. out[Nb(w)] = <<inv, LastRound(Nb(w))>>
      BY <1>2, <1>3, <2>2, <3>2 DEF Tagged
    <3> QED
      BY <1>3, <2>2, <3>2, <3>3
  <2> QED
    BY <2>1, <2>2
<1> QED
  BY <1>4, <1>6, <1>7 DEF M0Inv

\* The end of an invocation: the counter is exactly the next base.
LEMMA SynchronizeInv ==
    ASSUME M0Inv, Synchronize
    PROVE  M0Inv'
<1>1. M0Types
  BY DEF M0Inv
<1>2. /\ inv < Invocations /\ inv' = inv + 1 /\ base' = base + ROUNDS * P
      /\ Finished /\ saw' = [w \in Blocks |-> None]
      /\ r' = IF inv + 1 < Invocations THEN [w \in Blocks |-> 0] ELSE r
      /\ UNCHANGED <<idle, verdict, counter, pc, out>>
  BY DEF Synchronize, NextBase
<1>3. M0Types'
  <2>1. inv' \in 0 .. Invocations /\ base' \in Nat
    BY <1>1, <1>2, BlockFacts DEF M0Types
  <2>2. saw' \in [Blocks -> Tags]
    BY <1>2 DEF None, Tags
  <2>3. r' \in [Blocks -> 0 .. ROUNDS] /\ \A w \in Blocks : pc'[w] = "write"
    BY <1>1, <1>2, BlockFacts DEF M0Types, Finished
  <2> QED
    BY <1>1, <1>2, <2>1, <2>2, <2>3 DEF M0Types
<1>4. ReadWindow'
  BY <1>2 DEF ReadWindow
<1>5. counter = base'
  <2>1. PICK m \in 0 .. ROUNDS :
          /\ \A v \in Blocks : Arrived(v) \in {m, m + 1}
          /\ counter = base + m * P + Cardinality({v \in Blocks : Arrived(v) = m + 1})
    BY <1>2 DEF M0Inv, Counted
  <2> DEFINE A == {v \in Blocks : Arrived(v) = m + 1}
  <2>2. m \in Nat /\ m * P \in Nat /\ P \in Nat /\ ROUNDS \in Nat /\ base \in Nat
    BY <1>1, BlockFacts DEF M0Types
  <2>3. \A v \in Blocks : Arrived(v) = ROUNDS
    BY <1>2 DEF Finished, Arrived
  <2>4. ROUNDS \in {m, m + 1}
    BY <2>1, <2>3, BlockFacts
  <2>5. CASE ROUNDS = m
    <3>1. A = {}
      BY <2>2, <2>3, <2>5
    <3>2. Cardinality(A) = 0
      BY <3>1, FS_EmptySet
    <3> QED
      BY <1>2, <2>1, <2>2, <2>5, <3>2
  <2>6. CASE ROUNDS = m + 1
    <3>1. A = Blocks
      BY <2>3, <2>6
    <3>2. Cardinality(A) = P
      BY <3>1, BlocksFinite
    <3>3. ROUNDS * P = m * P + P
      BY <2>2, <2>6
    <3> QED
      BY <1>2, <2>1, <2>2, <3>2, <3>3
  <2> QED
    BY <2>4, <2>5, <2>6
<1>6. ASSUME inv' < Invocations PROVE InStep' /\ Counted' /\ Tagged'
  <2>1. \A w \in Blocks : r'[w] = 0 /\ pc'[w] = "write"
    BY <1>2, <1>6 DEF Finished
  <2>2. \A w \in Blocks : Arrived(w)' = 0 /\ Passed(w)' = 0 /\ LastRound(w)' = -1
    BY <2>1 DEF Arrived, Passed, LastRound
  <2>3. InStep' /\ Tagged'
    BY <2>2 DEF InStep, Tagged
  <2>4. counter' = base' /\ base' \in Nat
    BY <1>2, <1>3, <1>5 DEF M0Types
  <2> DEFINE ahead == Cardinality({w \in Blocks : Arrived(w)' = 0 + 1})
  <2>5. {w \in Blocks : Arrived(w)' = 0 + 1} = {}
    BY <2>2
  <2>6. ahead = 0
    BY <2>5, FS_EmptySet, Zenon
  <2>7. counter' = base' + 0 * P + ahead
    <3>1. 0 * P = 0
      BY BlockFacts
    <3> HIDE DEF ahead
    <3> QED
      BY <2>4, <2>6, <3>1
  <2>8. 0 \in 0 .. ROUNDS /\ \A w \in Blocks : Arrived(w)' \in {0, 0 + 1}
    BY <2>2, BlockFacts
  <2> QED
    BY <2>3, <2>7, <2>8 DEF Counted
<1> QED
  BY <1>3, <1>4, <1>6 DEF M0Inv

LEMMA JudgeInv ==
    ASSUME M0Inv, Judge
    PROVE  M0Inv'
<1>1. /\ inv = Invocations /\ verdict' \in {"failed", "verified"}
      /\ out' = [w \in Blocks |-> None] /\ saw' = [w \in Blocks |-> None]
      /\ UNCHANGED <<idle, inv, counter, base, pc, r>>
  BY DEF Judge
<1>2. M0Types'
  BY <1>1 DEF M0Inv, M0Types, None, Tags
<1>3. ReadWindow'
  BY <1>1 DEF ReadWindow
<1>4. ~ (inv' < Invocations)
  BY <1>1, BlockFacts
<1> QED
  BY <1>2, <1>3, <1>4 DEF M0Inv

LEMMA M0Stutter == M0Inv /\ UNCHANGED m0Vars => M0Inv'
<1> SUFFICES ASSUME M0Inv, UNCHANGED m0Vars PROVE M0Inv'
  OBVIOUS
<1>1. UNCHANGED <<idle, verdict, inv, counter, base, pc, r, out, saw>>
  BY DEF m0Vars
<1>2. M0Types' /\ ReadWindow'
  BY <1>1 DEF M0Inv, M0Types, ReadWindow, Writes
<1>3. /\ \A w \in Blocks : /\ Arrived(w)' = Arrived(w) /\ Passed(w)' = Passed(w)
                           /\ LastRound(w)' = LastRound(w)
  BY <1>1 DEF Arrived, Passed, LastRound
<1>4. ASSUME inv < Invocations PROVE InStep' /\ Counted' /\ Tagged'
  BY <1>1, <1>3, <1>4, CountedFrame DEF M0Inv, InStep, Tagged, Writes
<1> QED
  BY <1>1, <1>2, <1>4 DEF M0Inv

LEMMA M0StepInv == M0Inv /\ [SessionNext]_sessionVars => M0Inv'
<1> SUFFICES ASSUME M0Inv, [SessionNext]_sessionVars PROVE M0Inv'
  OBVIOUS
<1>1. CASE UNCHANGED sessionVars \/ Serve
  BY <1>1, M0Stutter DEF sessionVars, Serve
<1>2. CASE Verify
  <2>1. CASE HostStep
    BY <2>1, SynchronizeInv, JudgeInv DEF HostStep
  <2>2. ASSUME NEW w \in Blocks, BlockStep(w) PROVE M0Inv'
    BY <2>2, WriteInv, ArriveInv, ReleaseInv, ReadInv DEF BlockStep
  <2> QED
    BY <1>2, <2>1, <2>2 DEF Verify
<1> QED
  BY <1>1, <1>2 DEF SessionNext

\* A read of the microprogram returns the neighbour's value of the round the
\* reader is in or of the next one, never one of an earlier round or of an
\* earlier invocation, for every number of blocks, rounds and invocations.
THEOREM ReadsInWindow == SessionSpec => []ReadWindow
<1>1. SessionInit => M0Inv
  BY M0InitInv DEF SessionInit
<1>2. M0Inv => ReadWindow
  BY DEF M0Inv
<1> QED
  BY <1>1, <1>2, M0StepInv, PTL DEF SessionSpec

-----------------------------------------------------------------------------
(* Slot tables: padding *)

\* The lengths that run checks positions against are those of the table.
PadInv ==
    /\ width \in Nat
    /\ \A b \in Rows : rowLens[b] = width
    /\ phase = "append" => \A b \in Rows : pos[b] \in Nat /\ pos[b] < width
    /\ PaddingUnread

\* A table that passes the checks has B rows and a first row of some length.
LEMMA TableShape ==
    ASSUME NEW t \in Offered, Wellformed(t)
    PROVE  /\ \A b \in Rows : t[b] \in Seq(Int)
           /\ \A b \in Rows : Len(t[b]) \in Nat
           /\ 1 \in Rows
<1>1. t \in Seq(Seq(Int)) /\ B \in Nat \ {0}
  BY SlotAssumption
<1>2. \A b \in Rows : t[b] \in Seq(Int)
  BY <1>1 DEF Wellformed, Rows
<1> QED
  BY <1>1, <1>2 DEF Rows

LEMMA PadInit == Init => PadInv
  BY SlotAssumption DEF Init, PadInv, PaddingUnread

LEMMA PadStep ==
    ASSUME Narrow, PadInv, [Next]_vars
    PROVE  PadInv'
<1>1. CASE UNCHANGED vars
  BY <1>1 DEF vars, step, PadInv, PaddingUnread
<1>2. ASSUME NEW t \in Offered, Install(t) PROVE PadInv'
  <2>1. Wellformed(t) /\ Len(t[1]) \in Nat /\ Len(t[1]) <= SCAP
    BY <1>2, TableShape DEF Install, Narrow
  <2>2. /\ phase = "host" /\ phase' = phase /\ width' = Len(t[1]) /\ seen' = {}
        /\ rowLens' = [b \in Rows |-> Len(t[1])]
    BY <1>2, <2>1 DEF Install, step
  <2> QED
    BY <2>1, <2>2 DEF PadInv, PaddingUnread
<1>3. ASSUME NEW t \in Offered, Reject(t) PROVE PadInv'
  BY <1>1, <1>3 DEF Reject
<1>4. ASSUME NEW p \in [Rows -> 0 .. SCAP], Run(p) PROVE PadInv'
  <2>1. \A b \in Rows : p[b] \in Nat /\ p[b] < width
    BY <1>4, SlotAssumption DEF Run, PositionOK, PadInv, Positions
  <2> QED
    BY <1>4, <2>1 DEF Run, PadInv, PaddingUnread
<1>5. ASSUME NEW p \in [Rows -> 0 .. SCAP], RunRejected(p) PROVE PadInv'
  BY <1>1, <1>5 DEF RunRejected
<1>6. CASE Attend
  <2>1. ASSUME NEW x \in seen' PROVE x[2] < width
    <3>1. PICK y \in Rows \X Positions : y[2] <= pos[y[1]] /\ x[2] = y[2]
      BY <1>6, <2>1 DEF Attend
    <3>2. y[1] \in Rows /\ y[2] \in Nat
      BY <3>1, SlotAssumption DEF Positions
    <3> QED
      BY <1>6, <3>1, <3>2 DEF Attend, PadInv
  <2> QED
    BY <1>6, <2>1 DEF Attend, PadInv, PaddingUnread
<1>7. ASSUME NEW b \in Rows, AppendRow(b) PROVE PadInv'
  BY <1>7 DEF AppendRow, PadInv, PaddingUnread
<1> QED
  BY <1>1, <1>2, <1>3, <1>4, <1>5, <1>6, <1>7 DEF Next

\* A step of the session is a step of the slot tables or leaves them alone.
LEMMA SlotSteps == [SessionNext]_sessionVars => [Next]_vars
  BY DEF SessionNext, sessionVars, Verify, Serve

\* As long as no offered table is wider than the capacity, a decode step reads
\* no padding entry, for every batch, capacity and sequence of tables and steps.
THEOREM PaddingNeverRead == Narrow => (SessionSpec => []PaddingUnread)
<1> SUFFICES ASSUME Narrow PROVE SessionSpec => []PaddingUnread
  OBVIOUS
<1>1. SessionInit => PadInv
  BY PadInit DEF SessionInit
<1>2. PadInv /\ [SessionNext]_sessionVars => PadInv'
  BY PadStep, SlotSteps
<1>3. PadInv => PaddingUnread
  BY DEF PadInv
<1> QED
  BY <1>1, <1>2, <1>3, PTL DEF SessionSpec

-----------------------------------------------------------------------------
(* Slot tables: aliasing *)

\* The installed table leases distinct slots.
Leased ==
    \A b \in Rows, p \in 0 .. width - 1 :
        /\ Slot(b, p) \in Slots
        /\ \A c \in Rows, q \in 0 .. width - 1 : Slot(b, p) = Slot(c, q) => b = c /\ p = q

\* A leased slot holds its own row's and position's data or what the caller
\* committed.
OwnCache == \A b \in Rows, p \in 0 .. width - 1 : cache[Slot(b, p)] \in {Free, <<b, p>>}

LeaseInv ==
    /\ PadInv /\ width <= SCAP /\ cache \in [Slots -> Nat \X Int]
    /\ Leased /\ OwnCache /\ NoAlias

\* The rows of the default table are a capacity apart.
LEMMA DefaultLeases ==
    ASSUME table = DefaultTable, width = SCAP
    PROVE  Leased
<1>1. B \in Nat /\ SCAP \in Nat /\ SCAP > 0 /\ PoolSlots \in Nat /\ B * SCAP <= PoolSlots
  BY SlotAssumption
<1>2. \A b \in Rows, p \in 0 .. SCAP - 1 : Slot(b, p) = (b - 1) * SCAP + p
  <2> SUFFICES ASSUME NEW b \in Rows, NEW p \in 0 .. SCAP - 1
               PROVE  Slot(b, p) = (b - 1) * SCAP + p
    OBVIOUS
  <2>1. p + 1 \in 1 .. SCAP /\ (p + 1) - 1 = p
    BY <1>1
  <2> QED
    BY <2>1 DEF DefaultTable, Slot
<1>3. ASSUME NEW b \in Nat, NEW c \in Nat, b < c
      PROVE  b * SCAP \in Nat /\ c * SCAP \in Nat /\ b * SCAP + SCAP <= c * SCAP
  <2>1. (c - (b + 1)) \in Nat /\ (c - (b + 1)) * SCAP \in Nat
    BY <1>1, <1>3
  <2>2. c * SCAP = (c - (b + 1)) * SCAP + b * SCAP + SCAP
    BY <1>1
  <2>3. b * SCAP \in Nat /\ c * SCAP \in Nat
    BY <1>1
  <2> QED
    BY <1>1, <2>1, <2>2, <2>3
<1>4. ASSUME NEW b \in Rows, NEW p \in 0 .. SCAP - 1 PROVE Slot(b, p) \in Slots
  <2>1. b - 1 \in Nat /\ b - 1 < B /\ p \in Nat /\ p < SCAP
    BY <1>1 DEF Rows
  <2>2. (b - 1) * SCAP \in Nat /\ (b - 1) * SCAP + SCAP <= B * SCAP /\ B * SCAP \in Nat
    BY <1>1, <1>3, <2>1
  <2>3. (b - 1) * SCAP + p \in 0 .. PoolSlots - 1
    BY <1>1, <2>1, <2>2
  <2> QED
    BY <1>2, <2>3 DEF Slots
<1>5. ASSUME NEW b \in Rows, NEW p \in 0 .. SCAP - 1, NEW c \in Rows, NEW q \in 0 .. SCAP - 1,
             b < c
      PROVE  Slot(b, p) # Slot(c, q)
  <2>1. b - 1 \in Nat /\ c - 1 \in Nat /\ b - 1 < c - 1 /\ p \in Nat /\ q \in Nat /\ p < SCAP
    BY <1>1, <1>5 DEF Rows
  <2>2. /\ (b - 1) * SCAP \in Nat /\ (c - 1) * SCAP \in Nat
        /\ (b - 1) * SCAP + SCAP <= (c - 1) * SCAP
    BY <1>3, <2>1
  <2>3. (b - 1) * SCAP + p # (c - 1) * SCAP + q
    BY <1>1, <2>1, <2>2
  <2> QED
    BY <1>2, <2>3
<1>6. ASSUME NEW b \in Rows, NEW p \in 0 .. SCAP - 1, NEW q \in 0 .. SCAP - 1,
             Slot(b, p) = Slot(b, q)
      PROVE  p = q
  <2>1. (b - 1) * SCAP \in Nat /\ p \in Nat /\ q \in Nat
    BY <1>1 DEF Rows
  <2> QED
    BY <1>2, <1>6, <2>1
<1>7. ASSUME NEW b \in Rows, NEW p \in 0 .. SCAP - 1, NEW c \in Rows, NEW q \in 0 .. SCAP - 1,
             Slot(b, p) = Slot(c, q)
      PROVE  b = c /\ p = q
  <2>1. b \in Nat /\ c \in Nat
    BY <1>1 DEF Rows
  <2>2. b = c
    BY <1>5, <1>7, <2>1
  <2> QED
    BY <1>6, <1>7, <2>2
<1> QED
  BY <1>4, <1>7 DEF Leased

LEMMA LeaseInit == Init => LeaseInv
<1> SUFFICES ASSUME Init PROVE LeaseInv
  OBVIOUS
<1>1. Leased
  BY DefaultLeases DEF Init
<1>2. width = SCAP /\ SCAP \in Nat /\ seen = {} /\ cache = [s \in Slots |-> Free]
  BY SlotAssumption DEF Init
<1>3. OwnCache
  BY <1>1, <1>2 DEF OwnCache, Leased
<1> QED
  BY <1>1, <1>2, <1>3, PadInit DEF LeaseInv, NoAlias, Free

LEMMA LeaseStep ==
    ASSUME Narrow, Leases, LeaseInv, [Next]_vars
    PROVE  LeaseInv'
<1>1. PadInv'
  BY PadStep DEF LeaseInv
<1>2. CASE UNCHANGED vars
  BY <1>1, <1>2 DEF vars, step, LeaseInv, Leased, OwnCache, NoAlias, Slot
<1>3. ASSUME NEW t \in Offered, Install(t) PROVE LeaseInv'
  <2>1. Wellformed(t) /\ Len(t[1]) \in Nat /\ Len(t[1]) <= SCAP
    BY <1>3, TableShape DEF Install, Narrow
  <2>2. /\ width' = Len(t[1]) /\ seen' = {} /\ table' = Pad(t)
        /\ cache' = [s \in Slots |-> Free]
    BY <1>3, <2>1 DEF Install
  <2>3. ASSUME NEW b \in Rows, NEW p \in 0 .. width' - 1
        PROVE  /\ Slot(b, p)' = t[b][p + 1] /\ p + 1 \in 1 .. Len(t[1])
               /\ t[b][p + 1] \in Slots
    <3>1. p + 1 \in 1 .. Len(t[1]) /\ p + 1 \in 1 .. SCAP
      BY <2>1, <2>2, SlotAssumption
    <3>2. Len(t[b]) = Len(t[1]) /\ t[b][p + 1] >= 0
      BY <2>1, <3>1 DEF Leases
    <3>3. t[b][p + 1] \in Int /\ t[b][p + 1] < PoolSlots
      <4>1. t[b] \in Seq(Int) /\ p + 1 \in 1 .. Len(t[b])
        BY <2>1, <3>1, <3>2, TableShape
      <4>2. t[b][p + 1] \in Int
        BY <4>1
      <4> QED
        BY <2>1, <4>1, <4>2 DEF Wellformed
    <3>4. t[b][p + 1] \in Slots
      BY <3>2, <3>3, SlotAssumption DEF Slots
    <3> QED
      BY <2>1, <2>2, <3>1, <3>2, <3>4 DEF Slot, Pad
  <2>4. ASSUME NEW b \in Rows, NEW p \in 0 .. width' - 1, NEW c \in Rows, NEW q \in 0 .. width' - 1,
               Slot(b, p)' = Slot(c, q)'
        PROVE  b = c /\ p = q
    <3>1. b = c /\ p + 1 = q + 1
      BY <2>1, <2>3, <2>4 DEF Leases
    <3>2. p \in Int /\ q \in Int
      BY <2>1, <2>2
    <3> QED
      BY <3>1, <3>2
  <2>5. Leased'
    BY <2>3, <2>4 DEF Leased
  <2>6. OwnCache'
    BY <2>2, <2>3 DEF OwnCache
  <2> QED
    BY <1>1, <2>1, <2>2, <2>5, <2>6 DEF LeaseInv, NoAlias, Free
<1>4. ASSUME NEW t \in Offered, Reject(t) PROVE LeaseInv'
  BY <1>2, <1>4 DEF Reject
<1>5. ASSUME NEW p \in [Rows -> 0 .. SCAP], Run(p) PROVE LeaseInv'
  BY <1>1, <1>5 DEF Run, LeaseInv, Leased, OwnCache, NoAlias, Slot
<1>6. ASSUME NEW p \in [Rows -> 0 .. SCAP], RunRejected(p) PROVE LeaseInv'
  BY <1>2, <1>6 DEF RunRejected
<1>7. CASE Attend
  <2>1. ASSUME NEW x \in seen' PROVE x[3] \in {Free, <<x[1], x[2]>>}
    <3>1. PICK y \in Rows \X Positions :
            /\ y[2] <= pos[y[1]] /\ x = <<y[1], y[2], cache[Slot(y[1], y[2])]>>
      BY <1>7, <2>1 DEF Attend
    <3>2. y[1] \in Rows /\ y[2] \in 0 .. width - 1
      BY <1>7, <3>1, SlotAssumption DEF Positions, Attend, LeaseInv, PadInv
    <3>3. cache[Slot(y[1], y[2])] \in {Free, <<y[1], y[2]>>}
      BY <3>2 DEF LeaseInv, OwnCache
    <3> QED
      BY <3>1, <3>3
  <2> QED
    BY <1>1, <1>7, <2>1 DEF Attend, LeaseInv, Leased, OwnCache, NoAlias, Slot
<1>8. ASSUME NEW b \in Rows, AppendRow(b) PROVE LeaseInv'
  <2>1. /\ pos[b] \in 0 .. width - 1 /\ UNCHANGED <<table, width, seen>>
        /\ cache' = [cache EXCEPT ![Slot(b, pos[b])] = <<b, pos[b]>>]
    BY <1>8 DEF AppendRow, LeaseInv, PadInv
  <2>2. Slot(b, pos[b]) \in Slots /\ <<b, pos[b]>> \in Nat \X Int
    BY <2>1, SlotAssumption DEF LeaseInv, Leased, Rows, PadInv
  <2>3. ASSUME NEW c \in Rows, NEW q \in 0 .. width - 1
        PROVE  cache'[Slot(c, q)] \in {Free, <<c, q>>}
    <3>1. Slot(c, q) \in Slots /\ (Slot(c, q) = Slot(b, pos[b]) => b = c /\ pos[b] = q)
      BY <2>1 DEF LeaseInv, Leased
    <3>2. cache[Slot(c, q)] \in {Free, <<c, q>>}
      BY DEF LeaseInv, OwnCache
    <3> QED
      BY <2>1, <2>2, <3>1, <3>2 DEF LeaseInv
  <2>4. Leased' /\ OwnCache'
    BY <2>1, <2>3 DEF LeaseInv, Leased, OwnCache, Slot
  <2> QED
    BY <1>1, <2>1, <2>2, <2>4 DEF LeaseInv, NoAlias
<1> QED
  BY <1>2, <1>3, <1>4, <1>5, <1>6, <1>7, <1>8 DEF Next

\* Under tables that lease each slot once, no row ever reads what another row
\* or position wrote, however the rows of a step interleave.
THEOREM RowsNeverAlias == Narrow /\ Leases => (SessionSpec => []NoAlias)
<1> SUFFICES ASSUME Narrow, Leases PROVE SessionSpec => []NoAlias
  OBVIOUS
<1>1. SessionInit => LeaseInv
  BY LeaseInit DEF SessionInit
<1>2. LeaseInv /\ [SessionNext]_sessionVars => LeaseInv'
  BY LeaseStep, SlotSteps
<1>3. LeaseInv => NoAlias
  BY DEF LeaseInv
<1> QED
  BY <1>1, <1>2, <1>3, PTL DEF SessionSpec
=============================================================================
