-------------------------- MODULE PhaseMegakernel --------------------------
(***************************************************************************)
(* The persistent megakernel (compiler/device_triton.py) and its host      *)
(* runner TritonMegakernel: P blocks run the phases of one decode step,    *)
(* separated by a grid barrier over one int64 counter that is never reset, *)
(* over a workspace whose cells the memory planner reuses across phases.   *)
(*                                                                         *)
(* One tile of a phase is one task; the numeric body of a task is a write  *)
(* of the tag <<step, phase>> into its cell, after having read every tile  *)
(* of the phases it depends on.  A read and its write are separate steps.  *)
(***************************************************************************)
EXTENDS PhasePlan, FiniteSets

CONSTANTS P,            \* persistent blocks of the launch (workers)
          MaxResident,  \* bound: largest residency bound a device offers
          MaxLaunches,  \* bound: launches the host issues
          Vendor,       \* "sm" or "cdna": which grid_barrier is compiled in
          Half          \* 2^31, half the range of the 32-bit spin guard

Workers == 0 .. P - 1
Cells   == 0 .. WsTotal - 1

ASSUME ConstAssumption ==
    /\ P \in Nat \ {0} /\ NB \in Nat
    /\ TaskCount \in [Phases -> Nat]
    /\ Reads \in [Phases -> SUBSET Phases]
    /\ \A k \in Phases : \A j \in Reads[k] : j < k
    /\ WsTotal \in Nat /\ Offset \in [Phases -> Nat]
    /\ MaxResident \in Nat \ {0} /\ MaxLaunches \in Nat
    /\ Half \in Nat \ {0}

\* What plan_memory gives the megakernel.
ASSUME PlanAssumption == PlanLegal /\ PlanFits

VARIABLES
    host,       \* "new", "ready", "refused" or "failed": the runner object
    resident,   \* blocks of this kernel the device can hold at once
    launched,   \* launches enqueued on the runner's stream
    step,       \* launches the device has retired, in stream order
    counter,    \* barrier_counter
    barBase,    \* _bar_base_device
    pc,         \* pc[w]: where block w is
    base,       \* base[w]: bar_base as block w loaded it
    phase,      \* phase[w]: current phase of block w
    iter,       \* iter[w]: tasks block w has finished in its phase
    ws          \* ws[c]: tag of the last write to workspace cell c

vars == <<host, resident, launched, step, counter, barBase, pc, base, phase, iter, ws>>

Empty == <<-1, -1>>

Init ==
    /\ host = "new"
    /\ resident \in 1 .. MaxResident
    /\ launched = 0 /\ step = 0
    /\ counter = 0 /\ barBase = 0
    /\ pc    = [w \in Workers |-> "idle"]
    /\ base  = [w \in Workers |-> 0]
    /\ phase = [w \in Workers |-> 0]
    /\ iter  = [w \in Workers |-> 0]
    /\ ws    = [c \in Cells |-> Empty]

-----------------------------------------------------------------------------
(* Host: construction with the residency gate, launches, the counter check *)

\* Fault model: the constructor does not compare the grid with the bound.
ResidencyUnchecked == TRUE

\* validate_residency: a grid that cannot be co-resident is refused.
ResidencyOK == P <= resident

Prepare ==
    /\ host = "new"
    /\ host' = IF ResidencyOK THEN "ready" ELSE "refused"
    /\ UNCHANGED <<resident, launched, step, counter, barBase, pc, base, phase, iter, ws>>

\* run / run_device: one kernel launch, enqueued on the runner's own stream.
Launch ==
    /\ host = "ready"
    /\ launched < MaxLaunches
    /\ launched' = launched + 1
    /\ UNCHANGED <<host, resident, step, counter, barBase, pc, base, phase, iter, ws>>

\* run(check_counter=True): synchronize, then compare the counter to the base.
CheckCounter ==
    /\ host = "ready"
    /\ launched > 0 /\ step = launched
    /\ host' = IF counter = barBase THEN host ELSE "failed"
    /\ UNCHANGED <<resident, launched, step, counter, barBase, pc, base, phase, iter, ws>>

-----------------------------------------------------------------------------
(* Device: one action per step of a block *)

Occupied == {w \in Workers : pc[w] \in {"run", "ready", "spin"}}

\* A block gets a residency slot, starts, and loads bar_base.
Dispatch(w) ==
    /\ step < launched
    /\ pc[w] = "idle"
    /\ Cardinality(Occupied) < resident
    /\ pc' = [pc EXCEPT ![w] = "ready"]
    /\ base' = [base EXCEPT ![w] = barBase]
    /\ UNCHANGED <<host, resident, launched, step, counter, barBase, phase, iter, ws>>

\* The stride assignment: block w takes tasks w, w + P, w + 2P, ...
TaskId(w) == w + iter[w] * P
\* Fault model: the task loop stops one short of the phase's task count.
HasTaskShort(w) == TaskId(w) + 1 < TaskCount[phase[w]]

HasTask(w) == TaskId(w) < TaskCount[phase[w]]

\* A task body starts: from here to StoreTile it reads its input buffers.
StartTask(w) ==
    /\ pc[w] = "ready" /\ HasTask(w)
    /\ pc' = [pc EXCEPT ![w] = "run"]
    /\ UNCHANGED <<host, resident, launched, step, counter, barBase, base, phase, iter, ws>>

StoreTile(w) ==
    /\ pc[w] = "run"
    /\ pc' = [pc EXCEPT ![w] = "ready"]
    /\ iter' = [iter EXCEPT ![w] = @ + 1]
    /\ ws' = [ws EXCEPT ![Offset[phase[w]] + TaskId(w)] = <<step, phase[w]>>]
    /\ UNCHANGED <<host, resident, launched, step, counter, barBase, base, phase>>

\* Fault model: a barrier after the last phase too.
ArriveAfterLast(w) ==
    /\ pc[w] = "ready" /\ ~ HasTask(w)
    /\ pc' = [pc EXCEPT ![w] = "spin"]
    /\ counter' = counter + 1
    /\ UNCHANGED <<host, resident, launched, step, barBase, base, phase, iter, ws>>

\* Fault model: block 0 publishes the next base before the last barrier.
ArrivePublishing(w) ==
    /\ pc[w] = "ready" /\ ~ HasTask(w)
    /\ phase[w] < NB
    /\ pc' = [pc EXCEPT ![w] = "spin"]
    /\ counter' = counter + 1
    /\ barBase' = IF w = 0 /\ phase[w] = 0 THEN base[w] + NB * P ELSE barBase
    /\ UNCHANGED <<host, resident, launched, step, base, phase, iter, ws>>

\* grid_barrier, first half: the acq_rel arrival on the counter.
Arrive(w) ==
    /\ pc[w] = "ready" /\ ~ HasTask(w)
    /\ phase[w] < NB
    /\ pc' = [pc EXCEPT ![w] = "spin"]
    /\ counter' = counter + 1
    /\ UNCHANGED <<host, resident, launched, step, barBase, base, phase, iter, ws>>

\* target.to(tl.int32): the low half of the target, as a signed value.
Narrow(t) == ((t + Half) % (2 * Half)) - Half

\* The value the spin loop compares the counter with.
SpinTarget(t) == IF Vendor = "cdna" THEN Narrow(t) ELSE t

\* Fault model: barrier k waits for k * P arrivals instead of (k + 1) * P.
TargetShort(w) == base[w] + phase[w] * P

Target(w) == base[w] + (phase[w] + 1) * P

\* grid_barrier, second half: the spin guard fails and the block goes on.
Release(w) ==
    /\ pc[w] = "spin"
    /\ counter >= SpinTarget(Target(w))
    /\ pc' = [pc EXCEPT ![w] = "ready"]
    /\ phase' = [phase EXCEPT ![w] = @ + 1]
    /\ iter' = [iter EXCEPT ![w] = 0]
    /\ UNCHANGED <<host, resident, launched, step, counter, barBase, base, ws>>

\* Fault model: the published base counts a barrier after the last phase.
ExitOvercount(w) ==
    /\ pc[w] = "ready" /\ ~ HasTask(w)
    /\ phase[w] = NB
    /\ pc' = [pc EXCEPT ![w] = "done"]
    /\ barBase' = IF w = 0 THEN base[w] + (NB + 1) * P ELSE barBase
    /\ UNCHANGED <<host, resident, launched, step, counter, base, phase, iter, ws>>

\* The end of the kernel: no barrier after the last phase; block 0 publishes
\* the base of the next launch.
Exit(w) ==
    /\ pc[w] = "ready" /\ ~ HasTask(w)
    /\ phase[w] = NB
    /\ pc' = [pc EXCEPT ![w] = "done"]
    /\ barBase' = IF w = 0 THEN base[w] + NB * P ELSE barBase
    /\ UNCHANGED <<host, resident, launched, step, counter, base, phase, iter, ws>>

\* Stream order: the next launch starts only when every block has exited.
Retire ==
    /\ \A w \in Workers : pc[w] = "done"
    /\ step' = step + 1
    /\ pc'    = [w \in Workers |-> "idle"]
    /\ phase' = [w \in Workers |-> 0]
    /\ iter'  = [w \in Workers |-> 0]
    /\ UNCHANGED <<host, resident, launched, counter, barBase, base, ws>>

BlockStep(w) == \/ Dispatch(w) \/ StartTask(w) \/ StoreTile(w)
                \/ Arrive(w) \/ Release(w) \/ Exit(w)

Next == \/ Prepare \/ Launch \/ CheckCounter \/ Retire
        \/ \E w \in Workers : BlockStep(w)

Spec == Init /\ [][Next]_vars

\* Resident blocks all make progress, and a free residency slot is given to
\* some waiting block; the host owes nothing.
Fairness == /\ \A w \in Workers : WF_vars(BlockStep(w))
            /\ WF_vars(Retire)

FairSpec == Spec /\ Fairness

-----------------------------------------------------------------------------
(* Properties *)

\* Types of the runner, of the device words and of the blocks: a block is
\* always in one of the NB + 1 phases, and no launch retires unissued.
TypeOK ==
    /\ host \in {"new", "ready", "refused", "failed"}
    /\ resident \in 1 .. MaxResident
    /\ launched \in 0 .. MaxLaunches /\ step \in 0 .. launched
    /\ counter \in Nat /\ barBase \in Nat
    /\ pc \in [Workers -> {"idle", "ready", "run", "spin", "done"}]
    /\ base \in [Workers -> Nat]
    /\ phase \in [Workers -> Phases]
    /\ iter \in [Workers -> Nat]
    /\ ws \in [Cells -> {Empty} \union (Nat \X Phases)]

\* Barrier instances block w has arrived at in the current launch.
Arrivals(w) == IF pc[w] = "spin" THEN phase[w] + 1 ELSE phase[w]

\* No block enters a phase before every block has arrived at the barrier
\* that ends the phase before it.
PhaseOrder == \A v, w \in Workers : phase[w] <= Arrivals(v)

\* While a task body runs, every tile of every buffer it reads holds what
\* this launch's producer phase wrote: no missing tile, no tile of an earlier
\* launch, no tile overwritten by a buffer that reuses the storage.
FreshReads ==
    \A w \in Workers : pc[w] = "run" =>
        \A j \in Reads[phase[w]] : \A t \in 0 .. TaskCount[j] - 1 :
            ws[Offset[j] + t] = <<step, j>>

\* Arrivals that all launches before launch s have made.
BaseOf(s) == s * NB * P

\* Every block of a launch works from the base its launch started with, even
\* though block 0 overwrites bar_base while other blocks still run.
BaseAgreed == \A w \in Workers : pc[w] \in {"ready", "run", "spin"} =>
                 base[w] = BaseOf(step)

\* The counter check of run() never reports a protocol failure.
NoProtocolFailure == host # "failed"

\* The logits of a retired launch are complete: when the device is between
\* launches, every tile of the last phase is the one of the last launch.
LogitsComplete ==
    (step > 0 /\ \A w \in Workers : pc[w] = "idle") =>
        \A t \in 0 .. TaskCount[NB] - 1 : ws[Offset[NB] + t] = <<step - 1, NB>>

\* A launch leaves the runner in a state it can launch from: neither the counter
\* it published nor the logits it leaves behind are wrong.
LaunchSound == NoProtocolFailure /\ LogitsComplete

\* Every launch that run() enqueued retires: no block waits forever at a
\* barrier and no block waits forever for a residency slot.
LaunchesRetire == \A n \in 1 .. MaxLaunches : (launched >= n) ~> (step >= n)

-----------------------------------------------------------------------------
(* The inductive invariant behind the proofs of PhaseMegakernelProofs *)

\* Tile q of block o in phase j has been stored in the current launch.
TileDone(j, o, q) == Arrivals(o) > j \/ (phase[o] = j /\ iter[o] > q)

\* Some phase that touches buffer j is not behind any block.
StillLive(j) == \E n \in Phases : Touches(n, j) /\ \A w \in Workers : phase[w] <= n

PcInv ==
    \A w \in Workers :
        /\ pc[w] = "idle" => phase[w] = 0 /\ iter[w] = 0
        /\ pc[w] # "idle" => step < launched
        /\ pc[w] = "run" => HasTask(w)
        /\ pc[w] \in {"spin", "done"} => ~ HasTask(w)
        /\ pc[w] = "spin" => phase[w] < NB
        /\ pc[w] = "done" => phase[w] = NB

BaseInv == barBase = IF pc[0] = "done" THEN BaseOf(step + 1) ELSE BaseOf(step)

\* All blocks are in one of two adjacent generations, and the counter is the
\* number of arrivals.
CountInv ==
    \E m \in Phases :
        /\ \A w \in Workers : Arrivals(w) \in {m, m + 1}
        /\ counter = BaseOf(step) + m * P
                       + Cardinality({w \in Workers : Arrivals(w) = m + 1})

\* A stored tile of a live buffer is still there.
TileInv ==
    \A j \in Phases : \A o \in Workers : \A q \in 0 .. TaskCount[j] :
        (o + q * P < TaskCount[j] /\ TileDone(j, o, q) /\ StillLive(j)) =>
            ws[Offset[j] + o + q * P] = <<step, j>>

IndInv == /\ TypeOK /\ PcInv /\ BaseInv /\ BaseAgreed /\ PhaseOrder
          /\ CountInv /\ TileInv /\ NoProtocolFailure /\ LogitsComplete

-----------------------------------------------------------------------------
\* The arrivals and departures of each block, over all launches.
Abstract == INSTANCE GridBarrier WITH
    arrived  <- [w \in Workers |-> step * NB + Arrivals(w)],
    departed <- [w \in Workers |-> step * NB + phase[w]]

\* The counting barrier implements the abstract grid barrier: no block leaves
\* an instance that some block has not reached, across launches too.
BarrierRefinement == Abstract!BarrierSpec
=============================================================================
