----------------------------- MODULE Milestone0 -----------------------------
(***************************************************************************)
(* verify_milestone0 (compiler/runtime/synchronization.py) and its device  *)
(* microprogram milestone0_barrier_test (compiler/device_triton.py): every *)
(* round each block writes a round-tagged value, passes one grid barrier   *)
(* and reads its neighbour's value into a checksum; the host runs several  *)
(* invocations against one counter and judges checksum and counter.        *)
(*                                                                         *)
(* A tag is <<invocation, round>>; the device stores only the round, the   *)
(* invocation is recorded to tell old tags from new ones.                  *)
(***************************************************************************)
EXTENDS Integers, FiniteSets

CONSTANTS P,            \* blocks
          ROUNDS,       \* rounds per invocation
          Invocations   \* launches of the microprogram per configuration

ASSUME M0Assumption == /\ P \in Nat \ {0} /\ ROUNDS \in Nat \ {0}
                       /\ Invocations \in Nat \ {0}

Blocks == 0 .. P - 1
Nb(w)  == (w + 1) % P

VARIABLES
    idle,     \* IDLE: odd blocks skip the write
    verdict,  \* "running", "verified" or "failed"
    inv,      \* invocations completed
    counter,  \* bar
    base,     \* the host's running base
    pc, r,    \* position and round of each block
    out,      \* out[w]: the tag in the slot of block w
    acc,      \* acc[w]: the round part of the checksum of block w
    saw       \* saw[w]: tag block w read last, and the round it read it in

m0Vars == <<idle, verdict, inv, counter, base, pc, r, out, acc, saw>>

None == <<-1, -1>>

M0Init ==
    /\ idle \in BOOLEAN
    /\ verdict = "running"
    /\ inv = 0 /\ counter = 0 /\ base = 0
    /\ pc  = [w \in Blocks |-> "write"]
    /\ r   = [w \in Blocks |-> 0]
    /\ out = [w \in Blocks |-> None]
    /\ acc = [w \in Blocks |-> 0]
    /\ saw = [w \in Blocks |-> None]

Writes(w) == ~ idle \/ w % 2 = 0

Write(w) ==
    /\ verdict = "running" /\ pc[w] = "write" /\ r[w] < ROUNDS
    /\ out' = IF Writes(w) THEN [out EXCEPT ![w] = <<inv, r[w]>>] ELSE out
    /\ pc' = [pc EXCEPT ![w] = "arrive"]
    /\ UNCHANGED <<idle, verdict, inv, counter, base, r, acc, saw>>

Arrive(w) ==
    /\ pc[w] = "arrive"
    /\ counter' = counter + 1
    /\ pc' = [pc EXCEPT ![w] = "spin"]
    /\ UNCHANGED <<idle, verdict, inv, base, r, out, acc, saw>>

\* Fault model: the target of round r leaves out the round's own arrivals.
RoundTargetShort(w) == base + r[w] * P

RoundTarget(w) == base + (r[w] + 1) * P

Release(w) ==
    /\ pc[w] = "spin"
    /\ counter >= RoundTarget(w)
    /\ pc' = [pc EXCEPT ![w] = "read"]
    /\ UNCHANGED <<idle, verdict, inv, counter, base, r, out, acc, saw>>

\* Reads and, unless the neighbour is idle, accumulates; then the next round.
Read(w) ==
    /\ pc[w] = "read"
    /\ saw' = [saw EXCEPT ![w] = out[Nb(w)]]
    /\ acc' = [acc EXCEPT ![w] = IF Writes(Nb(w)) THEN @ + out[Nb(w)][2] ELSE @]
    /\ r' = [r EXCEPT ![w] = @ + 1]
    /\ pc' = [pc EXCEPT ![w] = "write"]
    /\ UNCHANGED <<idle, verdict, inv, counter, base, out>>

Finished == \A w \in Blocks : r[w] = ROUNDS /\ pc[w] = "write"

\* Fault model: the base counts a barrier that is not there.
NextBaseWide == base + (ROUNDS + 1) * P

NextBase == base + ROUNDS * P

\* torch.cuda.synchronize between invocations; the next one starts over.
Synchronize ==
    /\ verdict = "running" /\ Finished /\ inv < Invocations
    /\ inv' = inv + 1
    /\ base' = NextBase
    /\ r'   = IF inv + 1 < Invocations THEN [w \in Blocks |-> 0] ELSE r
    /\ acc' = IF inv + 1 < Invocations THEN [w \in Blocks |-> 0] ELSE acc
    /\ saw' = [w \in Blocks |-> None]
    /\ UNCHANGED <<idle, verdict, counter, pc, out>>

Expected(w) == IF Writes(Nb(w)) THEN (ROUNDS * (ROUNDS - 1)) \div 2 ELSE 0

\* abs(got - expect) > 1e-2 * max(1.0, abs(expect)), scaled by 100.
Mismatch(w) ==
    LET diff  == IF acc[w] >= Expected(w) THEN acc[w] - Expected(w) ELSE Expected(w) - acc[w]
        total == IF Writes(Nb(w)) THEN Nb(w) * 1000 * ROUNDS + Expected(w) ELSE 1
    IN  100 * diff > (IF total > 1 THEN total ELSE 1)

\* The checks that follow the invocations; the tensors go with the call.
Judge ==
    /\ verdict = "running" /\ inv = Invocations
    /\ verdict' = IF counter # base \/ \E w \in Blocks : Mismatch(w)
                  THEN "failed" ELSE "verified"
    /\ out' = [w \in Blocks |-> None] /\ saw' = out'
    /\ acc' = [w \in Blocks |-> 0]
    /\ UNCHANGED <<idle, inv, counter, base, pc, r>>

BlockStep(w) == inv < Invocations /\ (Write(w) \/ Arrive(w) \/ Release(w) \/ Read(w))

HostStep == Synchronize \/ Judge

-----------------------------------------------------------------------------
\* What a read can return.  The barrier has published the neighbour's write of
\* the round, so nothing of an earlier round or an earlier invocation is read;
\* but the one slot of a block is free for its next write as soon as the block
\* has left the barrier, so what is read may be one round ahead, and no more.
ReadWindow ==
    \A w \in Blocks : saw[w] # None /\ Writes(Nb(w)) =>
        saw[w][1] = inv /\ saw[w][2] \in r[w] - 1 .. r[w]
=============================================================================
