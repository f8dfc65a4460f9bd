---------------------------- MODULE GridBarrier ----------------------------
(***************************************************************************)
(* What a grid barrier promises: the protocol obligations of               *)
(* GridBarrierSpec and of the CPU model SimulatedGridBarrier in            *)
(* compiler/runtime/synchronization.py, free of any counter.               *)
(*                                                                         *)
(* arrived[w] is the number of barrier instances block w has arrived at,   *)
(* departed[w] the number it has passed.  A block arrives at an instance   *)
(* exactly once, and leaves it only when no block is still missing.        *)
(***************************************************************************)
EXTENDS Naturals

CONSTANT Workers

VARIABLES arrived, departed

bvars == <<arrived, departed>>

BarrierTypeOK == /\ arrived \in [Workers -> Nat]
                 /\ departed \in [Workers -> Nat]

BarrierInit == /\ arrived = [w \in Workers |-> 0]
               /\ departed = [w \in Workers |-> 0]

\* SimulatedGridBarrier.arrive: a second arrival at one instance is an error.
BarrierArrive(w) ==
    /\ arrived[w] = departed[w]
    /\ arrived' = [arrived EXCEPT ![w] = @ + 1]
    /\ UNCHANGED departed

\* SimulatedGridBarrier.release: an instance passes with no worker missing.
BarrierDepart(w) ==
    /\ departed[w] < arrived[w]
    /\ \A v \in Workers : arrived[v] >= arrived[w]
    /\ departed' = [departed EXCEPT ![w] = @ + 1]
    /\ UNCHANGED arrived

BarrierNext == \E w \in Workers : BarrierArrive(w) \/ BarrierDepart(w)

BarrierSpec == BarrierInit /\ [][BarrierNext]_bvars
=============================================================================
