------------------------------- MODULE Tiling -------------------------------
(***************************************************************************)
(* backend/preprocessing/tiling.py: the grid of windows an image is read   *)
(* in. Pixels are counted from 0; a box is half open, [x0, x1) by [y0, y1).*)
(***************************************************************************)
EXTENDS Integers, Sequences, FiniteSets

Smaller(a, b) == IF a <= b THEN a ELSE b
Larger(a, b) == IF a >= b THEN a ELSE b

(* Python's round(n / d): to the nearest, ties to the even neighbour. *)
Rounded(n, d) ==
  LET q == n \div d
      r == 2 * (n % d)
  IN  IF r > d \/ (r = d /\ q % 2 = 1) THEN q + 1 ELSE q

(* What compute_tile_windows does not refuse. *)
Tileable(width, height, tile, overlapPct) ==
  {width, height, tile} \subseteq Nat \ {0} /\ overlapPct \in 0..99

Stride(tile, overlapPct) == Larger(1, Rounded(tile * (100 - overlapPct), 100))

(* Slip: the march goes on while a tile may still start. *)
AxisOffsetsUnanchored(dim, tile, stride) ==
  IF dim <= tile THEN <<0>>
  ELSE [i \in 1..((dim - tile) \div stride) + 1 |-> (i - 1) * stride]

(* _axis_offsets: steps of `stride` while a full tile fits before the end, *)
(* then one tile flush with the end.                                       *)
AxisOffsets(dim, tile, stride) ==
  IF dim <= tile THEN <<0>>
  ELSE LET marched == {k \in 0..dim : k * stride + tile < dim}
           n == Cardinality(marched)
       IN  [i \in 1..(n + 1) |-> IF i <= n THEN (i - 1) * stride ELSE dim - tile]

(* compute_tile_windows, in row-major order. *)
Windows(width, height, tile, overlapPct) ==
  LET stride == Stride(tile, overlapPct)
      rows == AxisOffsets(height, tile, stride)
      cols == AxisOffsets(width, tile, stride)
      n == Len(cols)
  IN  [i \in 1..(Len(rows) * n) |->
         LET row == rows[((i - 1) \div n) + 1]
             col == cols[((i - 1) % n) + 1]
         IN  [ x0 |-> col, x1 |-> col + Smaller(tile, width - col),
               y0 |-> row, y1 |-> row + Smaller(tile, height - row) ]]

Box == [x0 : Nat, y0 : Nat, x1 : Nat, y1 : Nat]

Within(a, b) == a.x0 >= b.x0 /\ a.x1 <= b.x1 /\ a.y0 >= b.y0 /\ a.y1 <= b.y1

(* The part of box a that box b shows, in b's own coordinates and back. *)
Clipped(a, b) ==
  [ x0 |-> Larger(a.x0, b.x0), x1 |-> Smaller(a.x1, b.x1),
    y0 |-> Larger(a.y0, b.y0), y1 |-> Smaller(a.y1, b.y1) ]

Shifted(a, dx, dy) ==
  [x0 |-> a.x0 + dx, x1 |-> a.x1 + dx, y0 |-> a.y0 + dy, y1 |-> a.y1 + dy]

(* A box with no pixel has no area (stitching.py:45-51). *)
Area(a) == Larger(0, a.x1 - a.x0) * Larger(0, a.y1 - a.y0)
=============================================================================
