----------------------------- MODULE SlotTable -----------------------------
(***************************************************************************)
(* The per-row slot tables of TritonMegakernel (compiler/device_triton.py) *)
(* and what a decode step does through them: row b appends its key/value   *)
(* at table[b][pos] and its attention reads table[b][0 .. pos].  Rows that *)
(* are shorter than the cache capacity are padded with slot 0.             *)
(*                                                                         *)
(* The cache is abstracted to who wrote each slot last under the installed *)
(* table; a slot nobody wrote holds what the caller committed before.      *)
(* slot(b, i) is entry i + 1 of the row's sequence.                        *)
(***************************************************************************)
EXTENDS Integers, Sequences

CONSTANTS B,          \* batch: rows of the table
          SCAP,       \* cache capacity: positions per row
          PoolSlots,  \* slots of the pool
          Offered     \* tables a caller may offer: a sequence of rows each

ASSUME SlotAssumption == /\ B \in Nat \ {0} /\ SCAP \in Nat \ {0}
                         /\ PoolSlots \in Nat /\ B * SCAP <= PoolSlots
                         /\ Offered \subseteq Seq(Seq(Int))

Rows      == 1 .. B
Positions == 0 .. SCAP - 1
Slots     == 0 .. PoolSlots - 1

VARIABLES table,    \* the padded device table
          rowLens,  \* _table_row_lens
          width,    \* entries of the installed table before its padding
          cache,    \* cache[s]: <<row, position>> that wrote s last, or Free
          seen,     \* <<row, position, content>> the last step's attention read
          phase,    \* "host", or "append" while a step is on the device
          pos,      \* positions of that step
          todo      \* rows of that step that have not appended

step == <<phase, pos, todo>>
vars == <<table, rowLens, width, cache, seen, step>>

Free == <<0, -1>>

\* Fault model: the default rows start one slot, not one capacity, apart.
DefaultTableDense == [b \in Rows |-> [k \in 1 .. SCAP |-> (b - 1) + (k - 1)]]

\* Row b owns the slots b * capacity .. (b + 1) * capacity - 1.
DefaultTable == [b \in Rows |-> [k \in 1 .. SCAP |-> (b - 1) * SCAP + (k - 1)]]

Init ==
    /\ table = DefaultTable
    /\ rowLens = [b \in Rows |-> SCAP]
    /\ width = SCAP
    /\ cache = [s \in Slots |-> Free]
    /\ seen = {}
    /\ phase = "host" /\ pos = [b \in Rows |-> 0] /\ todo = {}

\* The checks of set_slot_table that come before it changes anything.
Wellformed(t) ==
    /\ Len(t) = B /\ Len(t[1]) > 0
    /\ \A b \in Rows : \A k \in 1 .. Len(t[b]) : t[b][k] < PoolSlots

Pad(t) == [b \in Rows |-> [k \in 1 .. SCAP |-> IF k <= Len(t[b]) THEN t[b][k] ELSE 0]]

\* set_slot_table: the row lengths are recorded first; a table wider than the
\* capacity then raises, with the old table still installed.
Install(t) ==
    /\ phase = "host" /\ Wellformed(t)
    /\ UNCHANGED step
    /\ rowLens' = [b \in Rows |-> Len(t[1])]
    /\ IF Len(t[1]) <= SCAP
       THEN /\ table' = Pad(t) /\ width' = Len(t[1])
            /\ cache' = [s \in Slots |-> Free] /\ seen' = {}
       ELSE UNCHANGED <<table, width, cache, seen>>

\* set_slot_table raises before it has changed anything.
Reject(t) == phase = "host" /\ ~ Wellformed(t) /\ UNCHANGED vars

\* Fault model: the position may equal the row's length.
PositionOKLoose(b, p) == p \in Positions /\ p <= rowLens[b]

PositionOK(b, p) == p \in Positions /\ p < rowLens[b]

Slot(b, p) == table[b][p + 1]

\* run: bounds checks of every row, then one launch.
Run(p) ==
    /\ phase = "host"
    /\ \A b \in Rows : PositionOK(b, p[b])
    /\ phase' = "append" /\ pos' = p /\ todo' = Rows
    /\ UNCHANGED <<table, rowLens, width, cache, seen>>

\* run raises: nothing was copied or launched.
RunRejected(p) ==
    /\ phase = "host"
    /\ \E b \in Rows : ~ PositionOK(b, p[b])
    /\ UNCHANGED vars

\* The append phase: rows that share a slot race for it.
AppendRow(b) ==
    /\ phase = "append" /\ b \in todo
    /\ cache' = [cache EXCEPT ![Slot(b, pos[b])] = <<b, pos[b]>>]
    /\ todo' = todo \ {b}
    /\ UNCHANGED <<table, rowLens, width, seen, phase, pos>>

\* Behind the barrier, scores and values read the row up to its position.
Attend ==
    /\ phase = "append" /\ todo = {}
    /\ seen' = {<<x[1], x[2], cache[Slot(x[1], x[2])]>> :
                   x \in {y \in Rows \X Positions : y[2] <= pos[y[1]]}}
    /\ phase' = "host"
    /\ UNCHANGED <<table, rowLens, width, cache, pos, todo>>

Next == \/ \E t \in Offered : Install(t) \/ Reject(t)
        \/ \E p \in [Rows -> 0 .. SCAP] : Run(p) \/ RunRejected(p)
        \/ Attend \/ \E b \in Rows : AppendRow(b)

Spec == Init /\ [][Next]_vars

-----------------------------------------------------------------------------
(* What the caller of set_slot_table may be asked to promise *)

\* No table that passes the checks is wider than the capacity.
Narrow == \A t \in Offered : Wellformed(t) => Len(t[1]) <= SCAP

\* A table is rectangular and leases a slot of the pool to one position of one row.
Leases ==
    \A t \in Offered : Wellformed(t) =>
        \A b \in Rows : Len(t[b]) = Len(t[1]) /\ \A k \in 1 .. Len(t[1]) :
            /\ t[b][k] >= 0
            /\ \A c \in Rows, l \in 1 .. Len(t[1]) : t[b][k] = t[c][l] => b = c /\ k = l

-----------------------------------------------------------------------------
\* "padding is never read because each row's accesses are masked to its
\* runtime position, and run bounds-checks positions against the logical row
\* lengths": a step reads no entry behind the table the caller installed.
PaddingUnread == \A x \in seen : x[2] < width

\* "so independent sequences never alias": under tables with disjoint rows, a
\* position a row attends to was written by that row at that position, or was
\* committed before the table was installed.
NoAlias == \A x \in seen : x[3] \in {Free, <<x[1], x[2]>>}
=============================================================================
