----------------------------- MODULE Workspace -----------------------------
(***************************************************************************)
(* The packed workspace in use: the reference executor (reference_exec.py) *)
(* runs the phases over the plan that MemoryPlanner makes, with its NaN    *)
(* canary behind every phase.                                              *)
(*                                                                         *)
(* An element holds the buffer whose data is in it, or NaN.  A buffer is   *)
(* filled in its first phase and used in every phase up to its last.  The  *)
(* plan lists buffers by first phase, so within one canary pass everything *)
(* that is poisoned comes before everything that is inspected.             *)
(***************************************************************************)
EXTENDS MemoryPlanner

\* So that a workspace for all of them can be given a size.
ASSUME SizesAssumption == \E m \in Sizes : \A n \in Sizes : n <= m

VARIABLES at,     \* index of the next phase
          ws,     \* ws[e]: element e of the workspace
          alarm,  \* buffers for which the canary raised ExecutorError
          lost    \* buffers whose data a phase did not find

execVars == <<at, ws, alarm, lost>>
wsVars   == <<vars, execVars>>

NaN      == 0
Elements == 0 .. N * AlignUp(Max(Sizes)) - 1
Region(i) == offset[i] .. offset[i] + numel[i] - 1

\* A new invocation re-arms every canary.
WInit == Init /\ at = 0 /\ ws = [e \in Elements |-> NaN] /\ alarm = {} /\ lost = {}

LiveAt(i, k) == life[i][1] <= k /\ k <= life[i][2]

\* The tasks of phase k fill the buffers that are born in it.
Filled(k) ==
    [e \in Elements |->
        LET born == {i \in Bufs : life[i][1] = k /\ e \in Region(i)}
        IN  IF born = {} THEN ws[e] ELSE Max(born)]

\* last_phase == phase.index and not live_at_end
Dying(i, k) == life[i][2] = k /\ k # MaxPhase

\* Fault model: a buffer that is born in this phase does not count.
HasLiveCooccupantOld(i, k) ==
    \E j \in Bufs \ {i} : /\ life[j][1] < k /\ k <= life[j][2]
                         /\ Region(i) \intersect Region(j) # {}

HasLiveCooccupant(i, k) ==
    \E j \in Bufs \ {i} : LiveAt(j, k) /\ Region(i) \intersect Region(j) # {}

\* What is left of a phase's memory when the dying buffers are poisoned.
Poisoned(m, k) ==
    [e \in Elements |-> IF \E i \in Bufs : Dying(i, k) /\ e \in Region(i) THEN NaN ELSE m[e]]

\* The buffers that are not yet born and not explained by a live co-occupant
\* must still be all NaN.
Tripped(m, k) ==
    {i \in Bufs : /\ life[i][1] > k /\ ~ HasLiveCooccupant(i, k)
                  /\ \E e \in Region(i) : m[e] # NaN}

\* One phase: its tasks, the barrier, the canary, which raises or lets the
\* next phase start.
RunPhase ==
    /\ total # -1 /\ at <= MaxPhase /\ alarm = {}
    /\ ws' = Poisoned(Filled(at), at)
    /\ lost' = {i \in Bufs : LiveAt(i, at) /\ \E e \in Region(i) : Filled(at)[e] # i}
    /\ alarm' = Tripped(ws', at)
    /\ at' = at + 1
    /\ UNCHANGED vars

WNext == (Next /\ UNCHANGED execVars) \/ RunPhase

-----------------------------------------------------------------------------
\* The workspace the host allocates holds every buffer, every phase finds in
\* its live buffers what their producers left there, whatever else was placed
\* on, freed or poisoned in the meantime, what the last phase leaves is still
\* there for the caller, and the canary raises no alarm.
ReuseSafe ==
    /\ WorkspaceHolds /\ lost = {} /\ alarm = {}
    /\ at > MaxPhase => \A i \in Bufs : LiveAt(i, MaxPhase) => \A e \in Region(i) : ws[e] = i
=============================================================================
