--------------------------- MODULE MemoryPlanner ---------------------------
(***************************************************************************)
(* plan_memory (compiler/memory.py): lifetimes of the intermediate buffers *)
(* from the phases that touch them, then first-fit packing with reuse.     *)
(* One Place or Skip is one turn of the "while True" search for the buffer *)
(* being placed.  Buffers are numbered in the order the sort leaves them.  *)
(***************************************************************************)
EXTENDS Integers, FiniteSetsExt

CONSTANTS N,         \* buffers
          ALIGN,     \* ALIGN_ELEMENTS
          Sizes,     \* element counts a buffer may have
          MaxPhase   \* phases are 0 .. MaxPhase

ASSUME PlannerAssumption ==
    /\ N \in Nat /\ ALIGN \in Nat \ {0}
    /\ Sizes \subseteq Nat \ {0} /\ MaxPhase \in Nat

Bufs   == 1 .. N
Stages == 0 .. MaxPhase

AlignUp(x) == ((x + ALIGN - 1) \div ALIGN) * ALIGN

\* A buffer lives from the first to the last phase that touches it; one that
\* no phase touches keeps the one-phase life [0, 0].
Lifetime(l, touched) ==
    IF touched = {} THEN l = <<0, 0>>
    ELSE l[1] \in touched /\ l[2] \in touched /\ \A k \in touched : l[1] <= k /\ k <= l[2]

VARIABLES numel, life,  \* size and <<first_phase, last_phase>> of each buffer
          cur,          \* the buffer being placed; N + 1 when all are
          candidate,    \* candidate offset of the search
          offset,       \* offsets of the buffers before cur
          total         \* total_elements, -1 until the plan is complete

vars == <<numel, life, cur, candidate, offset, total>>

\* buffers.sort(key=(first_phase, -numel))
Sorted(n, l) ==
    \A i, j \in Bufs : i < j =>
        l[i][1] < l[j][1] \/ (l[i][1] = l[j][1] /\ n[i] >= n[j])

Lives == {l \in Stages \X Stages : l[1] <= l[2]}

Init ==
    /\ numel \in [Bufs -> Sizes]
    /\ life \in [Bufs -> Stages \X Stages]
    /\ \A i \in Bufs : \E touched \in SUBSET Stages : Lifetime(life[i], touched)
    /\ Sorted(numel, life)
    /\ cur = 1 /\ candidate = 0 /\ total = -1
    /\ offset = [i \in Bufs |-> 0]

\* Fault model: a life that ends in the phase another starts in is apart.
OverlapsLifetimeStrict(i, j) == life[i][1] < life[j][2] /\ life[j][1] < life[i][2]

OverlapsLifetime(i, j) == life[i][1] <= life[j][2] /\ life[j][1] <= life[i][2]

\* A placed buffer p is in the way of placing cur at offset c.
Conflicts(p, c) ==
    /\ OverlapsLifetime(p, cur)
    /\ c < offset[p] + AlignUp(numel[p])
    /\ offset[p] < c + AlignUp(numel[cur])

InTheWay(c) == {p \in 1 .. cur - 1 : Conflicts(p, c)}

\* No conflict: the buffer is placed, and the next search starts from 0.
Place ==
    LET c == AlignUp(candidate) IN
    /\ cur <= N
    /\ InTheWay(c) = {}
    /\ offset' = [offset EXCEPT ![cur] = c]
    /\ cur' = cur + 1
    /\ candidate' = 0
    /\ UNCHANGED <<numel, life, total>>

\* Fault model: the search skips an aligned hole behind the conflict.
BehindFar(p) == offset[p] + AlignUp(numel[p]) + ALIGN

Behind(p) == offset[p] + AlignUp(numel[p])

\* A conflict: the search goes on behind the first buffer in the way.
Skip ==
    LET c == AlignUp(candidate) IN
    /\ cur <= N
    /\ \E p \in InTheWay(c) :
          /\ \A q \in InTheWay(c) : p <= q
          /\ candidate' = Behind(p)
    /\ UNCHANGED <<numel, life, cur, offset, total>>

EndOfPlan == Max({0} \union {offset[i] + numel[i] : i \in Bufs})

Total ==
    /\ cur = N + 1 /\ total = -1
    /\ total' = EndOfPlan
    /\ UNCHANGED <<numel, life, cur, candidate, offset>>

Next == Place \/ Skip \/ Total

-----------------------------------------------------------------------------
\* Some phase lies in the life of both buffers.
LiveTogether(i, j) ==
    \E k \in Stages : /\ life[i][1] <= k /\ k <= life[i][2]
                      /\ life[j][1] <= k /\ k <= life[j][2]

\* Two buffers that are live in a common phase share no element.
NoLiveOverlap ==
    \A i, j \in 1 .. cur - 1 : i # j /\ LiveTogether(i, j) =>
        offset[i] + numel[i] <= offset[j] \/ offset[j] + numel[j] <= offset[i]

\* "the lowest aligned offset that does not collide": at every lower aligned
\* offset the buffer would have met a buffer placed before it.
LowestOffset ==
    \A j \in 1 .. cur - 1 : offset[j] % ALIGN = 0 /\
        \A c \in {x \in 0 .. offset[j] - 1 : x % ALIGN = 0} :
            \E p \in 1 .. j - 1 :
                /\ OverlapsLifetime(p, j)
                /\ c < offset[p] + AlignUp(numel[p])
                /\ offset[p] < c + AlignUp(numel[j])

\* The workspace the host allocates holds every buffer.
WorkspaceHolds == total # -1 => \A i \in Bufs : offset[i] + numel[i] <= total

\* The search never turns back: within one buffer the candidate only grows.
SearchAdvances == [][cur' = cur /\ cur <= N => candidate' > candidate]_vars
=============================================================================
