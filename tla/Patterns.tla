------------------------------ MODULE Patterns ------------------------------
(***************************************************************************)
(* Shapes of blocks on a slab of columns, as the three parts of the        *)
(* repository that look for them see them: the Monte Carlo model (sim.py,  *)
(* masks), the reference matcher (patterns.py, match_tops) and the lines   *)
(* of the generated datapack (run.py, patterns.py), which detect a shape   *)
(* or score how near the world is to one.                                  *)
(*                                                                         *)
(* A column is as high as it has blocks, without gaps: h[c] is their       *)
(* number, and p[c] how many of them an enderman put there.                *)
(***************************************************************************)
EXTENDS Integers, FiniteSets, FiniteSetsExt

CONSTANT N      \* the slab is N x N columns

ASSUME SlabAssumption == N \in Nat \ {0}

Slab == (0..(N - 1)) \X (0..(N - 1))
At(w, cell) == <<w[1] + cell[1], w[2] + cell[2]>>
Sides == {<<1, 0>>, <<-1, 0>>, <<0, 1>>, <<0, -1>>}
Inner == {c \in Slab : \A s \in Sides : At(c, s) \in Slab}

Tops(h) == [c \in Slab |-> h[c] - 1]

(* A pattern: [size, anchor, required, any_of, min_any, forbid_rest].  Its *)
(* anchor is one of the cells it requires.                                 *)
Window(P) == (0..(P.size - 1)) \X (0..(P.size - 1))
Corners(P) == {w \in Slab : \A cell \in Window(P) : At(w, cell) \in Slab}
Forbidden(P) ==
  IF P.forbid_rest THEN Window(P) \ (P.required \cup P.any_of) ELSE {}

(* The cells of the window at w for which At holds make the pattern.       *)
Makes(P, cells) ==
  /\ P.required \subseteq cells
  /\ Cardinality(P.any_of \cap cells) >= P.min_any
  /\ Forbidden(P) \cap cells = {}

-----------------------------------------------------------------------------
(* sim.py.  A cell counts when its top block was placed and is at y.       *)

PlacedAt(h, p, c, y) == p[c] > 0 /\ h[c] - 1 = y

SimCells(h, p, P, w, y) == {cell \in Window(P) : PlacedAt(h, p, At(w, cell), y)}
SimHits(h, p, P) ==
  {<<w, h[At(w, P.anchor)] - 1>> :
     w \in {v \in Corners(P) : Makes(P, SimCells(h, p, P, v, h[At(v, P.anchor)] - 1))}}

Pillar(p, k) == \E c \in Slab : p[c] >= k

(* An open cell between four walls, each one block above its floor.        *)
Trap1(h, p) == {c \in Inner : \A s \in Sides : PlacedAt(h, p, At(c, s), h[c])}

-----------------------------------------------------------------------------
(* patterns.py, match_tops: the reference, which knows the tops only.      *)

TopCells(tops, P, w, y) == {cell \in Window(P) : tops[At(w, cell)] = y}
match_tops(tops, P, levels) ==
  {<<w, tops[At(w, P.anchor)]>> :
     w \in {v \in Corners(P) :
              LET y == tops[At(v, P.anchor)]
              IN y \in levels /\ Makes(P, TopCells(tops, P, v, y))}}

-----------------------------------------------------------------------------
(* The datapack, which asks for single blocks.                             *)

Block(h, c, y) == 0 <= y /\ y < h[c]

(* Mutant: the block above is not asked for.                               *)
top_at_covered(h, c, y) == Block(h, c, y)

(* _top_at                                                                 *)
top_at(h, c, y) == Block(h, c, y) /\ ~Block(h, c, y + 1)

(* check_lines calls count_function where all required cells match.        *)
PackCells(h, P, w, y) == {cell \in Window(P) : top_at(h, At(w, cell), y)}
PackHits(h, P, levels) ==
  {x \in Corners(P) \X levels : Makes(P, PackCells(h, P, x[1], x[2]))}

(* A column_stack detector, and the column_stack_profile that scores it.   *)
Stacked(h, base, k) == {c \in Slab : \A i \in 0..(k - 1) : Block(h, c, base + i)}
ColumnStack(h, base, k) == Stacked(h, base, k) # {}
Profile(h, base, k) == Cardinality(Stacked(h, base, k))

(* An entity_enclosed detector for an entity on c, and how many sides its  *)
(* profile scores.                                                         *)
Walls(h, c, dys) == {s \in Sides : \A dy \in dys : Block(h, At(c, s), h[c] + dy)}
Enclosed(h, c, dys) == Walls(h, c, dys) = Sides

(* best_match_function: #s_<name>_gated, the most any_of cells in a window *)
(* with all that are required.                                             *)
(* Mutant: the required cells are not asked for.                           *)
Gated_ungated(P, cells) == TRUE

Gated(P, cells) == P.required \subseteq cells

BestGated(h, P, levels) ==
  Max({-1} \cup {Cardinality(P.any_of \cap PackCells(h, P, x[1], x[2])) :
                   x \in {x \in Corners(P) \X levels : Gated(P, PackCells(h, P, x[1], x[2]))}})
=============================================================================
