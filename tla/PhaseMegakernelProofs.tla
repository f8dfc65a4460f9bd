----------------------- MODULE PhaseMegakernelProofs -----------------------
(***************************************************************************)
(* Proofs, for every number of blocks, phases, tasks and launches, and for *)
(* every legal workspace plan, that the megakernel keeps its phases in     *)
(* order and reads only fresh tiles, and that its counting barrier         *)
(* implements the abstract grid barrier.                                   *)
(***************************************************************************)
EXTENDS PhaseMegakernel, FiniteSetTheorems, TLAPS

\* The 32-bit spin guard of the CDNA barrier never sees a target of 2^31.
NoWrap == Vendor # "cdna" \/ BaseOf(MaxLaunches) < Half

-----------------------------------------------------------------------------
(* Arithmetic *)

\* Every task id belongs to some block and some turn of that block.
LEMMA TaskOwner ==
    \A t \in Nat : \E o \in Workers : \E q \in 0 .. t : t = o + q * P
<1> TAKE t \in Nat
<1>1. P \in Nat /\ P > 0
  BY ConstAssumption
<1>2. t % P \in 0 .. P - 1 /\ t \div P \in Nat /\ t = (t % P) + (t \div P) * P
  BY <1>1
<1>3. t \div P <= t
  BY <1>1, <1>2
<1> QED
  BY <1>2, <1>3 DEF Workers

\* Multiplication is monotonic.
LEMMA MulMono ==
    ASSUME NEW a \in Nat, NEW b \in Nat, NEW c \in Nat, a <= b
    PROVE  a * c \in Nat /\ b * c \in Nat /\ a * c <= b * c
<1>1. (b - a) \in Nat /\ (b - a) * c \in Nat /\ b * c = a * c + (b - a) * c
  OBVIOUS
<1> QED
  BY <1>1

\* The base of a launch is a natural number, and a launch adds NB * P.
LEMMA BaseFacts ==
    /\ \A s \in Nat : BaseOf(s) \in Nat
    /\ \A s \in Nat : BaseOf(s + 1) = BaseOf(s) + NB * P
    /\ BaseOf(0) = 0
<1>1. P \in Nat /\ NB \in Nat
  BY ConstAssumption
<1>2. \A s \in Nat : s * NB \in Nat
  BY <1>1
<1>3. \A s \in Nat : BaseOf(s) \in Nat
  BY <1>1, <1>2 DEF BaseOf
<1>4. \A s \in Nat : (s + 1) * NB * P = s * NB * P + NB * P
  BY <1>1
<1> QED
  BY <1>1, <1>3, <1>4 DEF BaseOf

\* There are P blocks.
LEMMA WorkersFinite ==
    IsFiniteSet(Workers) /\ Cardinality(Workers) = P
BY ConstAssumption, FS_Interval DEF Workers

\* Below 2^31 the narrowed spin target is the target itself, for every barrier
\* of every launch.
LEMMA SpinTargetExact ==
    ASSUME NoWrap, NEW s \in 0 .. MaxLaunches - 1, NEW k \in 0 .. NB - 1
    PROVE  SpinTarget(BaseOf(s) + (k + 1) * P) = BaseOf(s) + (k + 1) * P
<1> DEFINE t == BaseOf(s) + (k + 1) * P
<1>1. P \in Nat /\ NB \in Nat /\ MaxLaunches \in Nat /\ Half \in Nat /\ Half > 0
  BY ConstAssumption
<1>2. (k + 1) * P \in Nat /\ (k + 1) * P <= NB * P
  <2>1. k + 1 \in Nat /\ k + 1 <= NB
    BY <1>1
  <2> QED
    BY <1>1, <2>1, MulMono
<1>3. t \in Nat /\ t <= BaseOf(s + 1)
  <2>1. s \in Nat /\ BaseOf(s) \in Nat /\ BaseOf(s + 1) = BaseOf(s) + NB * P
    BY <1>1, BaseFacts
  <2> QED
    BY <1>1, <1>2, <2>1
<1>4. BaseOf(s + 1) <= BaseOf(MaxLaunches)
  <2>1. (s + 1) * NB \in Nat /\ MaxLaunches * NB \in Nat /\ (s + 1) * NB <= MaxLaunches * NB
    BY <1>1
  <2>2. ((s + 1) * NB) * P <= (MaxLaunches * NB) * P
    BY <1>1, <2>1
  <2> QED
    BY <2>2 DEF BaseOf
<1>5. CASE Vendor # "cdna"
  BY <1>5 DEF SpinTarget
<1>6. CASE Vendor = "cdna"
  <2>1. t < Half
    BY <1>1, <1>3, <1>4, <1>6, BaseFacts DEF NoWrap
  <2>2. (t + Half) % (2 * Half) = t + Half
    <3> HIDE DEF t
    <3> QED BY <1>1, <1>3, <2>1
  <2> QED
    BY <1>1, <1>3, <1>6, <2>2 DEF SpinTarget, Narrow
<1> QED
  BY <1>5, <1>6

-----------------------------------------------------------------------------
(* The inductive invariant *)

\* The initial state satisfies the invariant.
LEMMA InitInv == Init => IndInv
<1> SUFFICES ASSUME Init PROVE IndInv
  OBVIOUS
<1> USE ConstAssumption
<1>1. TypeOK
  BY DEF Init, TypeOK, Workers, Phases
<1>2. PcInv
  BY DEF Init, PcInv
<1>3. BaseInv /\ BaseAgreed
  BY BaseFacts DEF Init, BaseInv, BaseAgreed, Workers
<1>4. PhaseOrder
  BY DEF Init, PhaseOrder, Arrivals
<1>5. CountInv
  <2>1. {w \in Workers : Arrivals(w) = 0 + 1} = {}
    BY DEF Init, Arrivals
  <2>2. \A w \in Workers : Arrivals(w) \in {0, 0 + 1}
    BY DEF Init, Arrivals
  <2>3. Cardinality({w \in Workers : Arrivals(w) = 0 + 1}) = 0
    BY <2>1, FS_EmptySet, Zenon
  <2>4. counter = BaseOf(step) + 0 * P + Cardinality({w \in Workers : Arrivals(w) = 0 + 1})
    BY <2>3, BaseFacts DEF Init
  <2>5. 0 \in Phases
    BY DEF Phases
  <2> QED
    BY <2>2, <2>4, <2>5 DEF CountInv
<1>6. TileInv
  BY DEF Init, TileInv, TileDone, Arrivals, Phases
<1>7. NoProtocolFailure /\ LogitsComplete
  BY DEF Init, NoProtocolFailure, LogitsComplete
<1> QED
  BY <1>1, <1>2, <1>3, <1>4, <1>5, <1>6, <1>7 DEF IndInv

\* Bounds of the index sets.
LEMMA PhasesNat == Phases \subseteq Nat /\ NB \in Phases /\ 0 \in Workers /\ 0 \in Phases
BY ConstAssumption DEF Phases, Workers

\* Arrivals are natural numbers; no block has passed more barriers than it has
\* arrived at.
LEMMA ArrivalsNat ==
    ASSUME TypeOK
    PROVE  \A w \in Workers : Arrivals(w) \in Nat /\ phase[w] \in Nat /\ phase[w] <= Arrivals(w)
BY ConstAssumption DEF TypeOK, Arrivals, Phases

\* CountInv depends on the counter, the launch and the arrivals only.
LEMMA CountFrame ==
    ASSUME CountInv, counter' = counter, step' = step,
           \A w \in Workers : Arrivals(w)' = Arrivals(w)
    PROVE  CountInv'
<1>1. PICK m \in Phases :
        /\ \A w \in Workers : Arrivals(w) \in {m, m + 1}
        /\ counter = BaseOf(step) + m * P + Cardinality({w \in Workers : Arrivals(w) = m + 1})
  BY DEF CountInv
<1>2. {w \in Workers : Arrivals(w)' = m + 1} = {w \in Workers : Arrivals(w) = m + 1}
  OBVIOUS
<1>3. \A w \in Workers : Arrivals(w)' \in {m, m + 1}
  BY <1>1
<1>4. counter' = BaseOf(step') + m * P + Cardinality({w \in Workers : Arrivals(w)' = m + 1})
  BY <1>1, <1>2
<1> QED
  BY <1>3, <1>4 DEF CountInv, BaseOf

\* TileInv is preserved when no cell changes and no tile becomes done.
LEMMA TileFrame ==
    ASSUME TileInv, TypeOK, ws' = ws, step' = step,
           \A w \in Workers : phase[w]' \in Nat /\ phase[w] <= phase[w]',
           \A j \in Phases : \A o \in Workers : \A q \in 0 .. TaskCount[j] :
               o + q * P < TaskCount[j] /\ TileDone(j, o, q)' => TileDone(j, o, q)
    PROVE  TileInv'
<1> SUFFICES ASSUME NEW j \in Phases, NEW o \in Workers, NEW q \in 0 .. TaskCount[j],
                    o + q * P < TaskCount[j], TileDone(j, o, q)', StillLive(j)'
             PROVE  ws'[Offset[j] + o + q * P] = <<step', j>>
  BY DEF TileInv
<1>1. StillLive(j)
  <2>1. PICK n \in Phases : Touches(n, j) /\ \A w \in Workers : phase[w]' <= n
    BY DEF StillLive, Touches
  <2>2. \A w \in Workers : phase[w] <= n
    <3> TAKE w \in Workers
    <3>1. n \in Nat /\ phase[w] \in Nat /\ phase[w]' \in Nat
      BY <2>1, PhasesNat, ArrivalsNat
    <3> QED
      BY <2>1, <3>1
  <2> QED
    BY <2>1, <2>2 DEF StillLive
<1>2. TileDone(j, o, q)
  OBVIOUS
<1> QED
  BY <1>1, <1>2 DEF TileInv

\* A block with no task left in its phase has stored all its tiles of it.
LEMMA AllStored ==
    ASSUME TypeOK, NEW w \in Workers, ~ HasTask(w), NEW q \in Nat,
           w + q * P < TaskCount[phase[w]]
    PROVE  iter[w] > q
<1>1. iter[w] \in Nat /\ P \in Nat /\ w \in Nat /\ TaskCount[phase[w]] \in Nat
  BY ConstAssumption DEF TypeOK, Workers
<1>2. w + iter[w] * P >= TaskCount[phase[w]]
  <2>1. iter[w] * P \in Nat
    BY <1>1
  <2> QED
    BY <1>1, <2>1 DEF HasTask, TaskId
<1>3. ASSUME iter[w] <= q PROVE FALSE
  <2>1. iter[w] * P <= q * P /\ iter[w] * P \in Nat /\ q * P \in Nat
    BY <1>1, <1>3, MulMono
  <2> QED
    BY <1>1, <1>2, <2>1
<1> QED
  BY <1>1, <1>3

\* The host's steps preserve the invariant: the counter check finds the counter
\* equal to the base because no block is running.
LEMMA HostInv ==
    ASSUME IndInv, Prepare \/ Launch \/ CheckCounter
    PROVE  IndInv'
<1> USE DEF IndInv
<1>1. /\ UNCHANGED <<resident, step, counter, barBase, pc, base, phase, iter, ws>>
      /\ launched' \in 0 .. MaxLaunches /\ launched <= launched'
      /\ host' \in {"new", "ready", "refused", "failed"}
  BY ConstAssumption DEF Prepare, Launch, CheckCounter, TypeOK
<1>2. TypeOK'
  BY <1>1, ConstAssumption DEF TypeOK
<1>3. PcInv'
  BY <1>1, ConstAssumption DEF PcInv, TypeOK, HasTask, TaskId
<1>4. BaseInv' /\ BaseAgreed'
  BY <1>1 DEF BaseInv, BaseAgreed, BaseOf
<1>5. \A w \in Workers : Arrivals(w)' = Arrivals(w)
  BY <1>1 DEF Arrivals
<1>6. PhaseOrder'
  BY <1>1, <1>5 DEF PhaseOrder
<1>7. CountInv'
  BY <1>1, <1>5, CountFrame
<1>8. TileInv'
  <2>1. \A j \in Phases : \A o \in Workers : \A q \in 0 .. TaskCount[j] :
            TileDone(j, o, q)' => TileDone(j, o, q)
    BY <1>1, <1>5 DEF TileDone
  <2>2. \A w \in Workers : phase[w]' \in Nat /\ phase[w] <= phase[w]'
    BY <1>1 DEF TypeOK, Phases
  <2> QED
    BY <1>1, <2>1, <2>2, TileFrame
<1>9. LogitsComplete'
  BY <1>1 DEF LogitsComplete
<1>10. NoProtocolFailure'
  <2>1. CASE Prepare \/ Launch
    BY <2>1 DEF Prepare, Launch, NoProtocolFailure
  <2>2. CASE CheckCounter
    <3>1. \A w \in Workers : pc[w] = "idle" /\ Arrivals(w) = 0
      <4>1. ~ (step < launched)
        BY <2>2, ConstAssumption DEF CheckCounter, TypeOK
      <4>2. \A w \in Workers : pc[w] = "idle"
        BY <4>1 DEF PcInv
      <4> QED
        BY <4>2 DEF PcInv, Arrivals
    <3>2. 0 \in Workers
      BY ConstAssumption DEF Workers
    <3>3. PICK m \in Phases :
            /\ \A w \in Workers : Arrivals(w) \in {m, m + 1}
            /\ counter = BaseOf(step) + m * P + Cardinality({w \in Workers : Arrivals(w) = m + 1})
      BY DEF CountInv
    <3>4. m = 0
      <4>1. 0 \in {m, m + 1} /\ m \in Nat
        BY <3>1, <3>2, <3>3, PhasesNat
      <4> QED
        BY <4>1
    <3>5. {w \in Workers : Arrivals(w) = m + 1} = {}
      BY <3>1, <3>4
    <3>6. Cardinality({w \in Workers : Arrivals(w) = m + 1}) = 0
      BY <3>5, FS_EmptySet, Zenon
    <3>7. counter = BaseOf(step)
      BY <3>3, <3>4, <3>6, BaseFacts, ConstAssumption DEF TypeOK
    <3>8. barBase = BaseOf(step)
      BY <3>1, <3>2 DEF BaseInv
    <3> QED
      BY <2>2, <3>7, <3>8 DEF CheckCounter, NoProtocolFailure
  <2> QED
    BY <2>1, <2>2
<1> QED
  BY <1>2, <1>3, <1>4, <1>6, <1>7, <1>8, <1>9, <1>10

\* Dispatch, StartTask and Exit move no block across a barrier and store no
\* tile.  A block dispatched after block 0 exited can only be one of a kernel
\* without barriers, where both bases agree.
LEMMA QuietInv ==
    ASSUME IndInv, NEW w \in Workers, Dispatch(w) \/ StartTask(w) \/ Exit(w)
    PROVE  IndInv'
<1> USE DEF IndInv
<1>1. /\ UNCHANGED <<host, resident, launched, step, counter, phase, iter, ws>>
      /\ \A v \in Workers : pc'[v] = "spin" <=> pc[v] = "spin"
      /\ pc'[w] \in {"ready", "run", "done"}
      /\ \A v \in Workers : v # w => pc'[v] = pc[v] /\ base'[v] = base[v]
  BY DEF Dispatch, StartTask, Exit, TypeOK
<1>2. \A v \in Workers : Arrivals(v)' = Arrivals(v)
  BY <1>1 DEF Arrivals
<1>3. TypeOK'
  <2>1. base[w] + NB * P \in Nat
    BY ConstAssumption DEF TypeOK
  <2> QED
    BY <1>1, <2>1 DEF Dispatch, StartTask, Exit, TypeOK
<1>4. PcInv'
  BY <1>1 DEF Dispatch, StartTask, Exit, PcInv, TypeOK, HasTask, TaskId
<1>5. PhaseOrder'
  BY <1>1, <1>2 DEF PhaseOrder
<1>6. CountInv'
  BY <1>1, <1>2, CountFrame
<1>7. TileInv'
  <2>1. \A j \in Phases : \A o \in Workers : \A q \in 0 .. TaskCount[j] :
            TileDone(j, o, q)' => TileDone(j, o, q)
    BY <1>1, <1>2 DEF TileDone
  <2>2. \A v \in Workers : phase[v]' \in Nat /\ phase[v] <= phase[v]'
    BY <1>1, ArrivalsNat
  <2> QED
    BY <1>1, <2>1, <2>2, TileFrame
<1>8. LogitsComplete' /\ NoProtocolFailure'
  BY <1>1 DEF LogitsComplete, NoProtocolFailure
<1>9. BaseInv' /\ BaseAgreed'
  <2>1. step \in Nat /\ BaseOf(step') = BaseOf(step) /\ BaseOf(step' + 1) = BaseOf(step + 1)
    BY <1>1, ConstAssumption DEF TypeOK
  <2>2. CASE Dispatch(w)
    <3>1. barBase = BaseOf(step)
      <4>1. CASE pc[0] = "done"
        <5>1. phase[0] = NB /\ Arrivals(w) = 0
          BY <2>2, <4>1, PhasesNat DEF PcInv, Dispatch, Arrivals
        <5>2. NB = 0
          BY <5>1, PhasesNat, ConstAssumption DEF PhaseOrder
        <5>3. BaseOf(step + 1) = BaseOf(step)
          BY <2>1, <5>2, BaseFacts, ConstAssumption
        <5> QED
          BY <4>1, <5>3 DEF BaseInv
      <4>2. CASE pc[0] # "done"
        BY <4>2 DEF BaseInv
      <4> QED
        BY <4>1, <4>2
    <3>2. barBase' = barBase /\ base'[w] = barBase /\ (pc'[0] = "done" <=> pc[0] = "done")
      BY <2>2, PhasesNat DEF Dispatch, TypeOK
    <3>3. BaseInv'
      BY <1>1, <2>1, <3>2 DEF BaseInv
    <3>4. BaseAgreed'
      BY <1>1, <2>1, <3>1, <3>2 DEF BaseAgreed
    <3> QED
      BY <3>3, <3>4
  <2>3. CASE StartTask(w)
    <3>1. barBase' = barBase /\ base' = base /\ (pc'[0] = "done" <=> pc[0] = "done")
          /\ pc[w] = "ready"
      BY <2>3, PhasesNat DEF StartTask, TypeOK
    <3> QED
      BY <1>1, <2>1, <3>1 DEF BaseInv, BaseAgreed
  <2>4. CASE Exit(w)
    <3>1. base' = base /\ base[w] = BaseOf(step) /\ pc'[w] = "done" /\ pc[w] = "ready"
      BY <2>4 DEF Exit, BaseAgreed, TypeOK
    <3>2. BaseAgreed'
      BY <1>1, <2>1, <3>1 DEF BaseAgreed
    <3>3. CASE w = 0
      <4>1. barBase' = BaseOf(step) + NB * P
        BY <2>4, <3>1, <3>3 DEF Exit
      <4> QED
        BY <2>1, <3>1, <3>2, <3>3, <4>1, BaseFacts DEF BaseInv
    <3>4. CASE w # 0
      BY <1>1, <2>1, <2>4, <3>2, <3>4, PhasesNat DEF Exit, BaseInv
    <3> QED
      BY <3>3, <3>4
  <2> QED
    BY <2>2, <2>3, <2>4
<1> QED
  BY <1>3, <1>4, <1>5, <1>6, <1>7, <1>8, <1>9

\* Storing a tile clobbers no live tile: the phase being executed lies in the
\* lifetime of both buffers, so a legal plan keeps them apart.
LEMMA StoreTileInv ==
    ASSUME IndInv, NEW w \in Workers, StoreTile(w)
    PROVE  IndInv'
<1> USE DEF IndInv
<1> DEFINE p == phase[w]
           c == Offset[p] + TaskId(w)
<1>1. /\ UNCHANGED <<host, resident, launched, step, counter, barBase, base, phase>>
      /\ pc[w] = "run" /\ pc'[w] = "ready" /\ iter'[w] = iter[w] + 1
      /\ \A v \in Workers : v # w => pc'[v] = pc[v] /\ iter'[v] = iter[v]
      /\ ws' = [ws EXCEPT ![c] = <<step, p>>]
  BY DEF StoreTile, TypeOK
<1>2. \A v \in Workers : Arrivals(v)' = Arrivals(v)
  BY <1>1 DEF Arrivals
<1>3. /\ p \in Phases /\ w \in Nat /\ iter[w] \in Nat /\ P \in Nat /\ iter[w] * P \in Nat
      /\ Offset[p] \in Nat /\ TaskCount[p] \in Nat /\ step \in Nat
      /\ TaskId(w) \in Nat /\ TaskId(w) < TaskCount[p]
  <2>1. p \in Phases /\ w \in Nat /\ iter[w] \in Nat /\ P \in Nat /\ iter[w] * P \in Nat
    BY ConstAssumption DEF TypeOK, Workers
  <2>2. TaskId(w) \in Nat
    BY <2>1 DEF TaskId
  <2>3. TaskId(w) < TaskCount[p]
    BY <1>1 DEF PcInv, HasTask
  <2> QED
    BY <2>1, <2>2, <2>3, ConstAssumption DEF TypeOK
<1>4. c \in Cells
  BY <1>3, ConstAssumption, PlanAssumption DEF Cells, PlanFits
<1>5. TypeOK'
  <2>1. <<step, p>> \in Nat \X Phases
    BY <1>3
  <2>2. ws' \in [Cells -> {Empty} \union (Nat \X Phases)]
    BY <1>1, <1>4, <2>1 DEF TypeOK
  <2>3. pc' \in [Workers -> {"idle", "ready", "run", "spin", "done"}] /\ iter' \in [Workers -> Nat]
    BY <1>3 DEF StoreTile, TypeOK
  <2> QED
    BY <1>1, <2>2, <2>3 DEF TypeOK
<1>6. PcInv'
  BY <1>1 DEF PcInv, TypeOK, HasTask, TaskId
<1>7. BaseInv' /\ BaseAgreed'
  BY <1>1, PhasesNat DEF BaseInv, BaseAgreed, BaseOf
<1>8. PhaseOrder'
  BY <1>1, <1>2 DEF PhaseOrder
<1>9. CountInv'
  BY <1>1, <1>2, CountFrame
<1>10. LogitsComplete' /\ NoProtocolFailure'
  BY <1>1 DEF LogitsComplete, NoProtocolFailure
<1>11. TileInv'
  <2> SUFFICES ASSUME NEW j \in Phases, NEW o \in Workers, NEW q \in 0 .. TaskCount[j],
                      o + q * P < TaskCount[j], TileDone(j, o, q)', StillLive(j)'
               PROVE  ws'[Offset[j] + o + q * P] = <<step', j>>
    BY DEF TileInv
  <2>1. StillLive(j)
    BY <1>1 DEF StillLive, Touches
  <2>2. /\ o \in Nat /\ q \in Nat /\ q * P \in Nat /\ j \in Nat /\ p \in Nat
        /\ Offset[j] \in Nat /\ TaskCount[j] \in Nat
        /\ Offset[j] + TaskCount[j] <= WsTotal /\ WsTotal \in Nat
    <3>1. o \in Nat /\ TaskCount[j] \in Nat /\ j \in Nat /\ p \in Nat
      <4>1. o \in Nat /\ TaskCount[j] \in Nat
        BY ConstAssumption DEF Workers
      <4>2. j \in Nat /\ p \in Nat
        BY <1>3, PhasesNat
      <4> QED
        BY <4>1, <4>2
    <3>2. q \in Nat
      BY <3>1
    <3>3. q * P \in Nat
      BY <1>3, <3>2
    <3> QED
      BY <3>1, <3>2, <3>3, ConstAssumption, PlanAssumption DEF PlanFits
  <2>3. Offset[j] + o + q * P \in Cells
    BY <2>2 DEF Cells
  <2>4. CASE j = p /\ o = w /\ q = iter[w]
    <3>1. Offset[j] + o + q * P = c
      BY <1>3, <2>2, <2>4 DEF TaskId
    <3> QED
      BY <1>1, <1>4, <2>4, <3>1 DEF TypeOK
  <2>5. CASE ~ (j = p /\ o = w /\ q = iter[w])
    <3>1. TileDone(j, o, q)
      BY <1>1, <1>2, <1>3, <2>2, <2>5 DEF TileDone, TypeOK
    <3>2. ws[Offset[j] + o + q * P] = <<step, j>>
      BY <2>1, <3>1 DEF TileInv
    <3>3. CASE j = p
      BY <1>1, <1>4, <2>3, <3>2, <3>3 DEF TypeOK
    <3>4. CASE j # p
      <4>1. j <= p
        <5>1. phase[o] <= Arrivals(w) /\ Arrivals(w) = p
          BY <1>1 DEF PhaseOrder, Arrivals
        <5>2. phase[o] \in Nat /\ Arrivals(o) <= phase[o] + 1 /\ Arrivals(o) \in Nat
          BY ArrivalsNat DEF Arrivals
        <5> QED
          BY <2>2, <3>1, <5>1, <5>2 DEF TileDone
      <4>2. LiveIn(j, p)
        BY <2>1, <4>1 DEF StillLive, LiveIn
      <4>3. LiveIn(p, p)
        BY <1>3, <2>2 DEF LiveIn, Touches
      <4>4. Offset[j] + TaskCount[j] <= Offset[p] \/ Offset[p] + TaskCount[p] <= Offset[j]
        BY <1>3, <3>4, <4>2, <4>3, PlanAssumption DEF PlanLegal
      <4>5. Offset[j] + o + q * P # c
        BY <1>3, <2>2, <4>4
      <4> QED
        BY <1>1, <1>4, <2>3, <3>2, <4>5 DEF TypeOK
    <3> QED
      BY <3>3, <3>4
  <2> QED
    BY <2>4, <2>5
<1> QED
  BY <1>5, <1>6, <1>7, <1>8, <1>9, <1>10, <1>11

\* An arrival: the block's tiles are all stored, and it joins the blocks ahead
\* or, when all blocks are level, opens the next generation.
LEMMA ArriveInv ==
    ASSUME IndInv, NEW w \in Workers, Arrive(w)
    PROVE  IndInv'
<1> USE DEF IndInv
<1>1. /\ UNCHANGED <<host, resident, launched, step, barBase, base, phase, iter, ws>>
      /\ pc[w] = "ready" /\ pc'[w] = "spin" /\ ~ HasTask(w) /\ phase[w] < NB
      /\ \A v \in Workers : v # w => pc'[v] = pc[v]
      /\ counter' = counter + 1
  BY DEF Arrive, TypeOK
<1>2. /\ \A v \in Workers : v # w => Arrivals(v)' = Arrivals(v)
      /\ Arrivals(w) = phase[w] /\ Arrivals(w)' = phase[w] + 1
  BY <1>1 DEF Arrivals
<1>3. /\ \A v \in Workers : Arrivals(v) \in Nat /\ phase[v] \in Nat
      /\ NB \in Nat /\ P \in Nat /\ step \in Nat /\ counter \in Nat
  BY ArrivalsNat, ConstAssumption DEF TypeOK
<1>4. TypeOK'
  BY <1>1 DEF TypeOK, Arrive
<1>5. PcInv'
  BY <1>1 DEF PcInv, TypeOK, HasTask, TaskId
<1>6. BaseInv' /\ BaseAgreed'
  BY <1>1, PhasesNat DEF BaseInv, BaseAgreed, BaseOf
<1>7. PhaseOrder'
  BY <1>1, <1>2, <1>3 DEF PhaseOrder
<1>8. LogitsComplete' /\ NoProtocolFailure'
  BY <1>1 DEF LogitsComplete, NoProtocolFailure
<1>9. TileInv'
  <2>1. ASSUME NEW j \in Phases, NEW o \in Workers, NEW q \in 0 .. TaskCount[j],
               o + q * P < TaskCount[j], TileDone(j, o, q)'
        PROVE  TileDone(j, o, q)
    <3>1. j \in Nat
      BY PhasesNat
    <3>2. CASE o = w /\ j = phase[w]
      <4>1. q \in Nat
        BY ConstAssumption
      <4>2. iter[w] > q
        BY <1>1, <2>1, <3>2, <4>1, AllStored
      <4> QED
        BY <3>2, <4>2 DEF TileDone
    <3>3. CASE ~ (o = w /\ j = phase[w])
      BY <1>1, <1>2, <1>3, <2>1, <3>1, <3>3 DEF TileDone
    <3> QED
      BY <3>2, <3>3
  <2>2. \A v \in Workers : phase[v]' \in Nat /\ phase[v] <= phase[v]'
    BY <1>1, <1>3
  <2> QED
    BY <1>1, <2>1, <2>2, TileFrame
<1>10. CountInv'
  <2>1. PICK m \in Phases :
          /\ \A v \in Workers : Arrivals(v) \in {m, m + 1}
          /\ counter = BaseOf(step) + m * P + Cardinality({v \in Workers : Arrivals(v) = m + 1})
    BY DEF CountInv
  <2> DEFINE A == {v \in Workers : Arrivals(v) = m + 1}
             B(n) == {v \in Workers : Arrivals(v)' = n + 1}
  <2>2. m \in Nat /\ m * P \in Nat /\ BaseOf(step) \in Nat /\ BaseOf(step') = BaseOf(step)
    <3>1. m \in Nat
      BY PhasesNat
    <3> QED
      BY <1>1, <1>3, <3>1, BaseFacts
  <2>3. IsFiniteSet(A) /\ Cardinality(A) \in Nat
    BY WorkersFinite, FS_Subset, FS_CardinalityType
  <2>4. CASE phase[w] = m
    <3>1. B(m) = A \union {w} /\ w \notin A
      BY <1>2, <1>3, <2>2, <2>4
    <3>2. Cardinality(B(m)) = Cardinality(A) + 1
      BY <2>3, <3>1, FS_AddElement
    <3>3. \A v \in Workers : Arrivals(v)' \in {m, m + 1}
      BY <1>2, <2>1, <2>4
    <3>4. counter' = BaseOf(step') + m * P + Cardinality(B(m))
      BY <1>1, <2>1, <2>2, <2>3, <3>2
    <3> QED
      BY <3>3, <3>4 DEF CountInv, BaseOf
  <2>5. CASE phase[w] = m + 1
    <3>1. \A v \in Workers : Arrivals(v) = m + 1
      BY <1>3, <2>1, <2>2, <2>5 DEF PhaseOrder
    <3>2. A = Workers
      BY <3>1
    <3>3. Cardinality(A) = P
      BY <3>2, WorkersFinite
    <3>4. B(m + 1) = {w}
      BY <1>2, <2>2, <2>5, <3>1
    <3>5. Cardinality(B(m + 1)) = 1
      BY <3>4, FS_Singleton
    <3>6. m + 1 \in Phases
      BY <1>1, <1>3, <2>2, <2>5 DEF Phases
    <3>7. \A v \in Workers : Arrivals(v)' \in {m + 1, (m + 1) + 1}
      BY <1>2, <2>5, <3>1
    <3>8. (m + 1) * P = m * P + P
      BY <1>3, <2>2
    <3>9. counter' = BaseOf(step') + (m + 1) * P + Cardinality(B(m + 1))
      BY <1>1, <1>3, <2>1, <2>2, <3>3, <3>5, <3>8
    <3> QED
      BY <3>6, <3>7, <3>9 DEF CountInv, BaseOf
  <2>6. phase[w] \in {m, m + 1}
    BY <1>2, <2>1
  <2> QED
    BY <2>4, <2>5, <2>6
<1> QED
  BY <1>4, <1>5, <1>6, <1>7, <1>8, <1>9, <1>10

\* A release: the counter has reached the target only if every block arrived.
LEMMA ReleaseInv ==
    ASSUME NoWrap, IndInv, NEW w \in Workers, Release(w)
    PROVE  IndInv' /\ \A v \in Workers : Arrivals(v) >= Arrivals(w)
<1> USE DEF IndInv
<1>1. /\ UNCHANGED <<host, resident, launched, step, counter, barBase, base, ws>>
      /\ pc[w] = "spin" /\ pc'[w] = "ready"
      /\ phase'[w] = phase[w] + 1 /\ iter'[w] = 0 /\ phase[w] < NB
      /\ \A v \in Workers : v # w => pc'[v] = pc[v] /\ phase'[v] = phase[v] /\ iter'[v] = iter[v]
      /\ counter >= SpinTarget(Target(w))
  BY DEF Release, TypeOK, PcInv
<1>2. \A v \in Workers : Arrivals(v)' = Arrivals(v)
  BY <1>1 DEF Arrivals
<1>3. /\ \A v \in Workers : Arrivals(v) \in Nat /\ phase[v] \in Nat
      /\ NB \in Nat /\ P \in Nat /\ step \in Nat /\ counter \in Nat
      /\ Arrivals(w) = phase[w] + 1
  BY <1>1, ArrivalsNat, ConstAssumption DEF TypeOK, Arrivals
<1>4. counter >= BaseOf(step) + (phase[w] + 1) * P
  <2>1. step \in 0 .. MaxLaunches - 1 /\ phase[w] \in 0 .. NB - 1
    BY <1>1, <1>3, ConstAssumption DEF TypeOK, PcInv
  <2>2. SpinTarget(BaseOf(step) + (phase[w] + 1) * P) = BaseOf(step) + (phase[w] + 1) * P
    BY <2>1, SpinTargetExact
  <2>3. base[w] = BaseOf(step)
    BY <1>1 DEF BaseAgreed
  <2> QED
    BY <1>1, <2>2, <2>3 DEF Target
<1>5. \A v \in Workers : Arrivals(v) >= phase[w] + 1
  <2>1. PICK m \in Phases :
          /\ \A v \in Workers : Arrivals(v) \in {m, m + 1}
          /\ counter = BaseOf(step) + m * P + Cardinality({v \in Workers : Arrivals(v) = m + 1})
    BY DEF CountInv
  <2> DEFINE A == {v \in Workers : Arrivals(v) = m + 1}
  <2>2. m \in Nat /\ m * P \in Nat /\ BaseOf(step) \in Nat
    <3>1. m \in Nat
      BY PhasesNat
    <3> QED
      BY <1>3, <3>1, BaseFacts
  <2>3. IsFiniteSet(A) /\ Cardinality(A) \in Nat /\ A \subseteq Workers
    BY WorkersFinite, FS_Subset, FS_CardinalityType
  <2>4. CASE phase[w] + 1 = m
    BY <1>3, <2>1, <2>2, <2>4
  <2>5. CASE phase[w] + 1 = m + 1
    <3>1. (m + 1) * P = m * P + P
      BY <1>3, <2>2
    <3>2. Cardinality(A) >= P
      BY <1>3, <1>4, <2>1, <2>2, <2>3, <2>5, <3>1
    <3>3. A = Workers
      BY <1>3, <2>3, <3>2, WorkersFinite, FS_Subset
    <3> QED
      BY <1>3, <2>2, <2>5, <3>3
  <2> QED
    BY <1>3, <2>1, <2>4, <2>5
<1>6. TypeOK'
  <2>1. phase[w] + 1 \in Phases
    BY <1>1, <1>3 DEF Phases
  <2> QED
    BY <1>1, <2>1 DEF TypeOK, Release
<1>7. PcInv'
  BY <1>1 DEF PcInv, TypeOK, HasTask, TaskId
<1>8. BaseInv' /\ BaseAgreed'
  BY <1>1, PhasesNat DEF BaseInv, BaseAgreed, BaseOf
<1>9. PhaseOrder'
  BY <1>1, <1>2, <1>3, <1>5 DEF PhaseOrder
<1>10. LogitsComplete' /\ NoProtocolFailure'
  BY <1>1 DEF LogitsComplete, NoProtocolFailure
<1>11. TileInv'
  <2>1. ASSUME NEW j \in Phases, NEW o \in Workers, NEW q \in 0 .. TaskCount[j],
               TileDone(j, o, q)'
        PROVE  TileDone(j, o, q)
    <3>1. j \in Nat /\ q \in Nat
      BY PhasesNat, ConstAssumption
    <3> QED
      BY <1>1, <1>2, <1>3, <2>1, <3>1 DEF TileDone
  <2>2. \A v \in Workers : phase[v]' \in Nat /\ phase[v] <= phase[v]'
    BY <1>1, <1>3
  <2> QED
    BY <1>1, <2>1, <2>2, TileFrame
<1>12. CountInv'
  BY <1>1, <1>2, CountFrame
<1> QED
  BY <1>3, <1>5, <1>6, <1>7, <1>8, <1>9, <1>10, <1>11, <1>12

\* Retirement: all blocks are at the end, so the counter is the next base and
\* every tile of the last phase is stored.
LEMMA RetireInv ==
    ASSUME IndInv, Retire
    PROVE  IndInv'
<1> USE DEF IndInv
<1>1. /\ UNCHANGED <<host, resident, launched, counter, barBase, base, ws>>
      /\ \A w \in Workers : pc[w] = "done" /\ phase[w] = NB /\ ~ HasTask(w) /\ Arrivals(w) = NB
      /\ \A w \in Workers : pc'[w] = "idle" /\ phase'[w] = 0 /\ iter'[w] = 0 /\ Arrivals(w)' = 0
      /\ step' = step + 1
  BY DEF Retire, PcInv, Arrivals
<1>2. NB \in Nat /\ P \in Nat /\ step \in Nat /\ counter \in Nat /\ step < launched
  BY <1>1, PhasesNat, ConstAssumption DEF TypeOK, PcInv
<1>3. TypeOK'
  BY <1>1, <1>2, PhasesNat DEF TypeOK, Retire
<1>4. PcInv'
  BY <1>1 DEF PcInv
<1>5. BaseInv' /\ BaseAgreed'
  BY <1>1, PhasesNat DEF BaseInv, BaseAgreed, BaseOf
<1>6. PhaseOrder'
  BY <1>1 DEF PhaseOrder
<1>7. NoProtocolFailure'
  BY <1>1 DEF NoProtocolFailure
<1>8. TileInv'
  <2>1. ASSUME NEW j \in Phases, NEW o \in Workers, NEW q \in 0 .. TaskCount[j]
        PROVE  ~ TileDone(j, o, q)'
    <3>1. j \in Nat /\ q \in Nat
      BY PhasesNat, ConstAssumption
    <3> QED
      BY <1>1, <3>1 DEF TileDone
  <2> QED
    BY <2>1 DEF TileInv
<1>9. LogitsComplete'
  <2>1. ASSUME NEW t \in 0 .. TaskCount[NB] - 1
        PROVE  ws[Offset[NB] + t] = <<step, NB>>
    <3>1. t \in Nat /\ TaskCount[NB] \in Nat /\ Offset[NB] \in Nat
      BY PhasesNat, ConstAssumption
    <3>2. PICK o \in Workers, q \in 0 .. t : t = o + q * P
      BY <3>1, TaskOwner
    <3>3. q \in 0 .. TaskCount[NB] /\ q \in Nat /\ o \in Nat /\ q * P \in Nat
      BY <1>2, <3>1 DEF Workers
    <3>4. iter[o] > q
      BY <1>1, <3>1, <3>2, <3>3, AllStored
    <3>5. TileDone(NB, o, q)
      BY <1>1, <3>4 DEF TileDone
    <3>6. StillLive(NB)
      BY <1>1, <1>2, PhasesNat DEF StillLive, Touches
    <3>7. ws[Offset[NB] + o + q * P] = <<step, NB>>
      <4>1. o + q * P < TaskCount[NB]
        BY <3>1, <3>2
      <4> QED
        BY <3>3, <3>5, <3>6, <4>1, PhasesNat, Zenon DEF TileInv
    <3> QED
      BY <3>1, <3>2, <3>3, <3>7
  <2> QED
    BY <1>1, <1>2, <2>1 DEF LogitsComplete
<1>10. CountInv'
  <2>1. PICK m \in Phases :
          /\ \A v \in Workers : Arrivals(v) \in {m, m + 1}
          /\ counter = BaseOf(step) + m * P + Cardinality({v \in Workers : Arrivals(v) = m + 1})
    BY DEF CountInv
  <2> DEFINE A == {v \in Workers : Arrivals(v) = m + 1}
             B == {v \in Workers : Arrivals(v)' = 0 + 1}
  <2>2. m \in Nat /\ m * P \in Nat /\ BaseOf(step) \in Nat /\ NB * P \in Nat
    <3>1. m \in Nat
      BY PhasesNat
    <3> QED
      BY <1>2, <3>1, BaseFacts
  <2>3. counter = BaseOf(step) + NB * P
    <3>1. NB \in {m, m + 1}
      BY <1>1, <2>1, PhasesNat
    <3>2. CASE NB = m
      <4>1. A = {}
        BY <1>1, <2>2, <3>2
      <4>2. Cardinality(A) = 0
        BY <4>1, FS_EmptySet
      <4> QED
        BY <2>1, <2>2, <3>2, <4>2
    <3>3. CASE NB = m + 1
      <4>1. A = Workers
        BY <1>1, <3>3
      <4>2. Cardinality(A) = P
        BY <4>1, WorkersFinite
      <4>3. NB * P = m * P + P
        BY <1>2, <2>2, <3>3
      <4> QED
        BY <1>2, <2>1, <2>2, <4>2, <4>3
    <3> QED
      BY <3>1, <3>2, <3>3
  <2>4. B = {}
    BY <1>1
  <2>5. Cardinality(B) = 0
    BY <2>4, FS_EmptySet
  <2>6. counter' = BaseOf(step') + 0 * P + Cardinality(B)
    BY <1>1, <1>2, <2>2, <2>3, <2>5, BaseFacts
  <2>7. \A v \in Workers : Arrivals(v)' \in {0, 0 + 1}
    BY <1>1
  <2> QED
    BY <2>6, <2>7, PhasesNat DEF CountInv, BaseOf
<1> QED
  BY <1>3, <1>4, <1>5, <1>6, <1>7, <1>8, <1>9, <1>10

\* Every step preserves the invariant.
LEMMA StepInv ==
    ASSUME NoWrap, IndInv, [Next]_vars
    PROVE  IndInv'
<1>1. CASE Prepare \/ Launch \/ CheckCounter
  BY <1>1, HostInv
<1>2. CASE Retire
  BY <1>2, RetireInv
<1>3. ASSUME NEW w \in Workers, BlockStep(w)
      PROVE  IndInv'
  <2>1. CASE Dispatch(w) \/ StartTask(w) \/ Exit(w)
    BY <2>1, QuietInv
  <2>2. CASE StoreTile(w)
    BY <2>2, StoreTileInv
  <2>3. CASE Arrive(w)
    BY <2>3, ArriveInv
  <2>4. CASE Release(w)
    BY <2>4, ReleaseInv
  <2> QED
    BY <1>3, <2>1, <2>2, <2>3, <2>4 DEF BlockStep
<1>4. CASE UNCHANGED vars
  <2> USE <1>4 DEF vars
  <2>1. \A w \in Workers : Arrivals(w)' = Arrivals(w)
    BY DEF Arrivals
  <2>2. CountInv'
    BY <2>1, CountFrame DEF IndInv
  <2>3. TypeOK' /\ PcInv' /\ BaseInv' /\ BaseAgreed'
    BY DEF IndInv, TypeOK, PcInv, HasTask, TaskId, BaseInv, BaseAgreed, BaseOf
  <2>4. PhaseOrder' /\ NoProtocolFailure' /\ LogitsComplete'
    BY <2>1 DEF IndInv, PhaseOrder, NoProtocolFailure, LogitsComplete
  <2>5. TileInv'
    <3>1. \A j \in Phases : \A o \in Workers : \A q \in 0 .. TaskCount[j] :
              TileDone(j, o, q)' => TileDone(j, o, q)
      BY <2>1 DEF TileDone
    <3>2. \A w \in Workers : phase[w]' \in Nat /\ phase[w] <= phase[w]'
      BY ArrivalsNat DEF IndInv
    <3> QED
      BY <3>1, <3>2, TileFrame DEF IndInv
  <2> QED
    BY <2>2, <2>3, <2>4, <2>5 DEF IndInv
<1> QED
  BY <1>1, <1>2, <1>3, <1>4 DEF Next

\* The invariant gives the read property: a reader in phase p has everyone in
\* phase p or waiting behind it, so its inputs are complete and still live.
LEMMA InvFresh ==
    ASSUME IndInv
    PROVE  FreshReads
<1> USE DEF IndInv
<1> SUFFICES ASSUME NEW w \in Workers, pc[w] = "run", NEW j \in Reads[phase[w]],
                    NEW t \in 0 .. TaskCount[j] - 1
             PROVE  ws[Offset[j] + t] = <<step, j>>
  BY DEF FreshReads
<1>1. phase[w] \in Phases /\ j \in Phases
  BY ConstAssumption DEF TypeOK
<1>2. phase[w] \in Nat /\ j \in Nat /\ j < phase[w] /\ Arrivals(w) = phase[w]
  BY <1>1, PhasesNat, ConstAssumption DEF Arrivals
<1>3. TaskCount[j] \in Nat /\ Offset[j] \in Nat /\ t \in Nat /\ P \in Nat
  BY <1>1, ConstAssumption
<1>4. PICK o \in Workers, q \in 0 .. t : t = o + q * P
  BY <1>3, TaskOwner
<1>5. q \in Nat /\ q \in 0 .. TaskCount[j] /\ o \in Nat /\ q * P \in Nat
  BY <1>3 DEF Workers
<1>6. TileDone(j, o, q)
  BY <1>2, ArrivalsNat DEF TileDone, PhaseOrder
<1>7. StillLive(j)
  BY <1>1, <1>2 DEF StillLive, Touches, PhaseOrder
<1>8. ws[Offset[j] + o + q * P] = <<step, j>>
  <2>1. o + q * P < TaskCount[j]
    BY <1>3, <1>4
  <2> QED
    BY <1>1, <1>5, <1>6, <1>7, <2>1, Zenon DEF TileInv
<1> QED
  BY <1>3, <1>4, <1>5, <1>8

-----------------------------------------------------------------------------
(* The theorems *)

\* The inductive invariant holds in every reachable state.
THEOREM Invariance == NoWrap => (Spec => []IndInv)
<1> SUFFICES ASSUME NoWrap PROVE Spec => []IndInv
  OBVIOUS
<1>1. Init => IndInv
  BY InitInv
<1>2. IndInv /\ [Next]_vars => IndInv'
  BY StepInv
<1> QED
  BY <1>1, <1>2, PTL DEF Spec

\* Every variable keeps its type.
THEOREM TypeCorrect == NoWrap => (Spec => []TypeOK)
<1>1. IndInv => TypeOK
  BY DEF IndInv
<1> QED
  BY <1>1, Invariance, PTL

\* No block is ever a phase ahead of a block that has not arrived.
THEOREM PhasesInOrder == NoWrap => (Spec => []PhaseOrder)
<1>1. IndInv => PhaseOrder
  BY DEF IndInv
<1> QED
  BY <1>1, Invariance, PTL

\* A running task never reads a missing, stale or overwritten tile, for every
\* legal workspace plan.
THEOREM ReadsFresh == NoWrap => (Spec => []FreshReads)
<1>1. IndInv => FreshReads
  BY InvFresh
<1> QED
  BY <1>1, Invariance, PTL

\* The base that block 0 overwrites is never seen by a block of its launch.
THEOREM BasesAgree == NoWrap => (Spec => []BaseAgreed)
<1>1. IndInv => BaseAgreed
  BY DEF IndInv
<1> QED
  BY <1>1, Invariance, PTL

\* The host's counter check never fails on a launch that ran its schedule, and a
\* retired launch left all its logits.
THEOREM LaunchesSound == NoWrap => (Spec => []LaunchSound)
<1>1. IndInv => LaunchSound
  BY DEF IndInv, LaunchSound
<1> QED
  BY <1>1, Invariance, PTL

-----------------------------------------------------------------------------
(* The counting barrier implements the abstract one *)

\* The two abstract variables, as functions of the concrete state.
ArrivedMap  == [w \in Workers |-> step * NB + Arrivals(w)]
DepartedMap == [w \in Workers |-> step * NB + phase[w]]

\* A step that changes neither the launch nor any block's position at the
\* barriers is a stuttering step of the abstract barrier.
LEMMA AbstractStutter ==
    ASSUME step' = step, phase' = phase, \A w \in Workers : Arrivals(w)' = Arrivals(w)
    PROVE  ArrivedMap' = ArrivedMap /\ DepartedMap' = DepartedMap
BY DEF ArrivedMap, DepartedMap

\* Every step is a step of the abstract barrier or leaves it unchanged.
LEMMA AbstractStep ==
    ASSUME NoWrap, IndInv, [Next]_vars
    PROVE  [Abstract!BarrierNext]_(Abstract!bvars)
<1> USE DEF IndInv
<1>0. /\ \A w \in Workers : Arrivals(w) \in Nat /\ phase[w] \in Nat
      /\ step \in Nat /\ NB \in Nat /\ step * NB \in Nat
  <2>1. step \in Nat /\ NB \in Nat
    BY ConstAssumption DEF TypeOK
  <2> QED
    BY <2>1, ArrivalsNat
<1>1. ASSUME ArrivedMap' = ArrivedMap, DepartedMap' = DepartedMap
      PROVE  UNCHANGED Abstract!bvars
  BY <1>1 DEF Abstract!bvars, ArrivedMap, DepartedMap
<1>2. CASE Prepare \/ Launch \/ CheckCounter \/ UNCHANGED vars
  <2>1. step' = step /\ phase' = phase /\ pc' = pc
    BY <1>2 DEF Prepare, Launch, CheckCounter, vars
  <2> QED
    BY <1>1, <2>1, AbstractStutter DEF Arrivals
<1>3. CASE Retire
  <2>1. \A w \in Workers : /\ phase[w] = NB /\ Arrivals(w) = NB
                           /\ phase'[w] = 0 /\ Arrivals(w)' = 0
    BY <1>3 DEF Retire, PcInv, Arrivals
  <2>2. step' * NB = step * NB + NB /\ step' * NB \in Nat
    BY <1>0, <1>3 DEF Retire
  <2>3. \A w \in Workers : /\ step' * NB + Arrivals(w)' = step * NB + Arrivals(w)
                           /\ step' * NB + phase'[w] = step * NB + phase[w]
    BY <1>0, <2>1, <2>2
  <2> QED
    BY <1>1, <2>3 DEF ArrivedMap, DepartedMap
<1>4. ASSUME NEW w \in Workers, BlockStep(w)
      PROVE  [Abstract!BarrierNext]_(Abstract!bvars)
  <2>1. CASE Dispatch(w) \/ StartTask(w) \/ StoreTile(w) \/ Exit(w)
    <3>1. step' = step /\ phase' = phase
      BY <2>1 DEF Dispatch, StartTask, StoreTile, Exit
    <3>2. \A v \in Workers : Arrivals(v)' = Arrivals(v)
      BY <2>1 DEF Dispatch, StartTask, StoreTile, Exit, Arrivals, TypeOK
    <3> QED
      BY <1>1, <3>1, <3>2, AbstractStutter
  <2>2. CASE Arrive(w)
    <3>1. /\ step' = step /\ phase' = phase
          /\ Arrivals(w) = phase[w] /\ Arrivals(w)' = phase[w] + 1
          /\ \A v \in Workers : v # w => Arrivals(v)' = Arrivals(v)
      BY <2>2 DEF Arrive, Arrivals, TypeOK
    <3>2. ArrivedMap' = [ArrivedMap EXCEPT ![w] = @ + 1]
      <4>1. \A v \in Workers : step' * NB + Arrivals(v)' =
                IF v = w THEN (step * NB + Arrivals(v)) + 1 ELSE step * NB + Arrivals(v)
        BY <1>0, <3>1
      <4>2. ArrivedMap' = [v \in Workers |-> step' * NB + Arrivals(v)']
        BY DEF ArrivedMap
      <4> QED
        BY <4>1, <4>2 DEF ArrivedMap
    <3>3. ArrivedMap[w] = DepartedMap[w] /\ DepartedMap' = DepartedMap
      BY <3>1 DEF ArrivedMap, DepartedMap
    <3>4. Abstract!BarrierArrive(w)
      BY <3>2, <3>3 DEF Abstract!BarrierArrive, ArrivedMap, DepartedMap
    <3> QED
      BY <3>4 DEF Abstract!BarrierNext
  <2>3. CASE Release(w)
    <3>1. /\ step' = step /\ Arrivals(w) = phase[w] + 1
          /\ phase' = [phase EXCEPT ![w] = @ + 1]
          /\ \A v \in Workers : Arrivals(v)' = Arrivals(v)
      BY <2>3 DEF Release, Arrivals, TypeOK
    <3>2. \A v \in Workers : Arrivals(v) >= Arrivals(w)
      BY <2>3, ReleaseInv
    <3>3. DepartedMap' = [DepartedMap EXCEPT ![w] = @ + 1]
      <4>1. \A v \in Workers : step' * NB + phase'[v] =
                IF v = w THEN (step * NB + phase[v]) + 1 ELSE step * NB + phase[v]
        BY <1>0, <3>1 DEF TypeOK
      <4>2. DepartedMap' = [v \in Workers |-> step' * NB + phase'[v]]
        BY DEF DepartedMap
      <4> QED
        BY <4>1, <4>2 DEF DepartedMap
    <3>4. ArrivedMap' = ArrivedMap /\ DepartedMap[w] < ArrivedMap[w]
      BY <1>0, <3>1 DEF ArrivedMap, DepartedMap
    <3>5. \A v \in Workers : ArrivedMap[v] >= ArrivedMap[w]
      BY <1>0, <3>2 DEF ArrivedMap
    <3>6. Abstract!BarrierDepart(w)
      BY <3>3, <3>4, <3>5 DEF Abstract!BarrierDepart, ArrivedMap, DepartedMap
    <3> QED
      BY <3>6 DEF Abstract!BarrierNext
  <2> QED
    BY <1>4, <2>1, <2>2, <2>3 DEF BlockStep
<1> QED
  BY <1>2, <1>3, <1>4 DEF Next

\* The megakernel's counter implements the obligations of GridBarrierSpec.
THEOREM BarrierImplemented == NoWrap => (Spec => BarrierRefinement)
<1> SUFFICES ASSUME NoWrap PROVE Spec => BarrierRefinement
  OBVIOUS
<1>1. Init => Abstract!BarrierInit
  BY ConstAssumption DEF Init, Abstract!BarrierInit, Arrivals
<1>2. IndInv /\ [Next]_vars => [Abstract!BarrierNext]_(Abstract!bvars)
  BY AbstractStep
<1> QED
  BY <1>1, <1>2, Invariance, PTL DEF Spec, BarrierRefinement, Abstract!BarrierSpec
=============================================================================
