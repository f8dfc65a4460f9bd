------------------------------ MODULE Regions ------------------------------
(***************************************************************************)
(* Views, regions and tile grids of the compiler (operator_ir.py,          *)
(* task_ir.py).  A view addresses a storage by strides; a region is a box  *)
(* of a view; a cell is one element of a storage.                          *)
(***************************************************************************)
EXTENDS Integers, Sequences, FiniteSetsExt, Functions

CONSTANT Position   \* Position[b]: the decode position p of row b

-----------------------------------------------------------------------------
(* Views *)

Product(s) == FoldFunction(LAMBDA a, b : a * b, 1, s)
RowMajor(shape) == [i \in DOMAIN shape |-> Product([j \in (i + 1) .. Len(shape) |-> shape[j]])]

View(st, shape) == [st |-> st, off |-> 0, shape |-> shape, strides |-> RowMajor(shape)]

Contiguous(v) == \A i \in DOMAIN v.shape : v.shape[i] = 1 \/ v.strides[i] = RowMajor(v.shape)[i]

\* A reshape of a contiguous view, its transpose, and a slice along an axis.
Reshaped(v, shape) == [v EXCEPT !.shape = shape, !.strides = RowMajor(shape)]
Transposed(v) == [v EXCEPT !.shape = <<v.shape[2], v.shape[1]>>,
                           !.strides = <<v.strides[2], v.strides[1]>>]
Narrow(v, axis, start, length) ==
    [v EXCEPT !.shape[axis] = length, !.off = v.off + (start * v.strides[axis])]

-----------------------------------------------------------------------------
(* Regions: a range [lo, hi) per dimension.  Symbolic is the bound p + 1.   *)

Symbolic == -1

Tile(v, box) == [v |-> v, box |-> box, paged |-> FALSE]

\* The part of v under the leading indices c, and its prefix along an axis.
Row(v, c) == Tile(v, [i \in DOMAIN v.shape |->
                        IF i <= Len(c) THEN <<c[i], c[i] + 1>> ELSE <<0, v.shape[i]>>])
Whole(v) == Row(v, <<>>)
Prefix(v, c, axis) == [Row(v, c) EXCEPT !.box[axis] = <<0, Symbolic>>]

\* Rows chosen at run time through a slot table.
Indirect(v) == [Whole(v) EXCEPT !.paged = TRUE]

Address(v, x) == FoldFunction(LAMBDA a, b : a + b, v.off, [i \in DOMAIN x |-> x[i] * v.strides[i]])

\* storage_span: the bounding interval.  A symbolic bound is the full extent, a
\* range that is empty within the extent counts as index 0, and an
\* indirect region is the whole pool.
Span(g) ==
    LET hi(i)   == IF g.box[i][2] = Symbolic THEN g.v.shape[i] ELSE Min({g.box[i][2], g.v.shape[i]})
        low(i)  == IF hi(i) > g.box[i][1] THEN g.box[i][1] ELSE 0
        high(i) == IF hi(i) > g.box[i][1] THEN hi(i) - 1 ELSE 0
    IN  IF g.paged THEN g.v.off .. (g.v.off + Product(g.v.shape) - 1)
        ELSE Address(g.v, [i \in DOMAIN g.box |-> low(i)]) ..
             Address(g.v, [i \in DOMAIN g.box |-> high(i)])

Overlaps(g, h) == g.v.st = h.v.st /\ Span(g) \intersect Span(h) # {}

\* The elements a body touches through a region; the first dimension of a view
\* with a symbolic bound is the row.
Cells(g) ==
    LET hi(i) == IF g.box[i][2] = Symbolic THEN Position[g.box[1][1]] + 1 ELSE g.box[i][2]
        inside == {x \in [DOMAIN g.box -> 0 .. Max(Range(g.v.shape)) - 1] :
                      \A i \in DOMAIN x : g.box[i][1] <= x[i] /\ x[i] < hi(i)}
    IN  {<<g.v.st, Address(g.v, x)>> : x \in inside}
CellsOf(regions) == UNION {Cells(g) : g \in regions}

-----------------------------------------------------------------------------
(* Tile grids.  A one-dimensional grid has 0 as second coordinate.  The tile  *)
(* sizes of the code are attributes of an operator here, so that small views  *)
(* have several tiles.                                                        *)

Grid(m, n) == (0 .. m - 1) \X (0 .. n - 1)
Count(extent, tile) == (extent + tile - 1) \div tile
Clip(i, tile, extent) == <<i * tile, Min({(i + 1) * tile, extent})>>

Declared(reads, writes) == [reads |-> reads, writes |-> writes]
Touched(uses, sets) == [uses |-> CellsOf(uses), sets |-> CellsOf(sets)]
=============================================================================
