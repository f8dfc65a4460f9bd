------------------------------ MODULE PhasePlan ------------------------------
(***************************************************************************)
(* What a schedule of phases needs of its memory plan: phase k writes one  *)
(* output buffer of TaskCount[k] cells at Offset[k], which the phases that *)
(* read it must find intact.                                               *)
(***************************************************************************)
EXTENDS Integers

CONSTANTS NB,           \* barriers per launch; the phases are 0..NB
          TaskCount,    \* TaskCount[k]: tasks of phase k
          Reads,        \* Reads[k]: phases whose output buffer phase k reads
          Offset,       \* Offset[k]: planned offset of phase k's output buffer
          WsTotal       \* cells of the workspace

Phases == 0 .. NB

\* plan_memory: a buffer lives from the phase that writes it to the last
\* phase that touches it.
Touches(k, j) == k = j \/ j \in Reads[k]
LiveIn(j, k)  == j <= k /\ \E n \in Phases : k <= n /\ Touches(n, j)

\* No two buffers that are live in one phase share a cell.
PlanLegal ==
    \A i, j \in Phases :
        (i # j /\ \E k \in Phases : LiveIn(i, k) /\ LiveIn(j, k)) =>
            \/ Offset[i] + TaskCount[i] <= Offset[j]
            \/ Offset[j] + TaskCount[j] <= Offset[i]

\* The workspace holds every buffer.
PlanFits == \A k \in Phases : Offset[k] + TaskCount[k] <= WsTotal
=============================================================================
