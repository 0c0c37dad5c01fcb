----------------------------- MODULE MonteCarlo -----------------------------
(***************************************************************************)
(* The Monte Carlo model of an enderman on a flat slab (montecarlo/sim.py):*)
(* it walks or is teleported, takes a block that lies as high as it stands *)
(* or higher, and puts it down elsewhere, among columns that were seeded   *)
(* with loose blocks; a villager may wander about.  Shapes that come about *)
(* are counted once a day.                                                 *)
(*                                                                         *)
(* Odds and waiting times are left out: what may happen, happens.          *)
(***************************************************************************)
EXTENDS Patterns, Functions

CONSTANTS
  BASE,           \* solid blocks of a column of the flat slab
  Loose,          \* loose blocks it is seeded with
  Villager,       \* is there one?
  Haunts,         \* bound: the columns it may stand on
  Roofed,         \* no daylight and no rain
  Shapes,         \* the patterns that are looked for
  Scanned,        \* the levels the datapack scans for them
  MaxFormed       \* bound: traps formed

ASSUME MonteCarloAssumption ==
  /\ BASE \in Nat \ {0} /\ Loose \in Nat
  /\ Villager \in BOOLEAN /\ Roofed \in BOOLEAN
  /\ Haunts \subseteq Slab
  /\ Scanned \subseteq {y \in Nat : y >= BASE}
  /\ \A P \in Shapes : /\ P.size \in Nat
                       /\ P.required \cup P.any_of \subseteq Window(P)
                       /\ P.anchor \in P.required
                       /\ P.min_any \in 0..Cardinality(P.any_of)

VARIABLES
  h, p,           \* blocks of each column, and how many of them were placed
  d,              \* original blocks taken from it
  at,             \* the enderman's column
  villager,       \* the villager's
  carrying,
  deep_pit,       \* takes that dug below the base
  trap_close,     \* traps a placement closed
  prev,           \* the traps of the last scan
  counts,         \* the traps counted by the scans
  formed          \* history: the traps that formed

vars == <<h, p, d, at, villager, carrying, deep_pit, trap_close, prev, counts, formed>>

Init ==
  /\ \E seeded \in kSubset(Loose, Slab) :
       /\ h = [c \in Slab |-> IF c \in seeded THEN BASE + 1 ELSE BASE]
       /\ p = [c \in Slab |-> IF c \in seeded THEN 1 ELSE 0]
  /\ d = [c \in Slab |-> 0]
  /\ at \in Slab /\ villager \in Haunts
  /\ carrying = FALSE /\ deep_pit = 0 /\ trap_close = 0
  /\ prev = Trap1(h, p) /\ counts = 0 /\ formed = 0

Formed == Cardinality(Trap1(h', p') \ Trap1(h, p))

-----------------------------------------------------------------------------
(* Movement.                                                               *)

Near(a, b, r) == /\ b[1] - a[1] \in -r..r
                 /\ b[2] - a[2] \in -r..r

(* advance: a step of a stroll, up by one block at most.                   *)
Step ==
  /\ at' \in {c \in Slab \ {at} : Near(at, c, 1) /\ h[c] <= h[at] + 1}
  /\ UNCHANGED <<h, p, d, villager, carrying, deep_pit, trap_close, prev, counts, formed>>

(* Mutant: one column too far.                                             *)
Targets_wide == (0..N) \X (0..N)

Targets == Slab

(* Under the open sky, and by the shortcut for a long wait with a block.   *)
relocate ==
  /\ ~Roofed \/ carrying
  /\ at' \in Targets \ {at}
  /\ UNCHANGED <<h, p, d, villager, carrying, deep_pit, trap_close, prev, counts, formed>>

(* Only a wait with a block is long enough; then a diffusion, anywhere.    *)
advance_villager ==
  /\ Villager /\ carrying
  /\ villager' \in Haunts \ {villager}
  /\ UNCHANGED <<h, p, d, at, carrying, deep_pit, trap_close, prev, counts, formed>>

-----------------------------------------------------------------------------
(* Taking and leaving.                                                     *)

(* The columns under the line between the centres of two, sampled at       *)
(* int(4 * distance) + 1 steps.                                            *)
Samples(dx, dz) ==
  (CHOOSE n \in 0..(4 * N * N) : /\ n * n <= 16 * (dx * dx + dz * dz)
                                 /\ (n + 1) * (n + 1) > 16 * (dx * dx + dz * dz)) + 1
Under(a, b) ==
  LET dx == b[1] - a[1]  dz == b[2] - a[2]  n == Samples(dx, dz)
  IN {<<a[1] + (n + 2 * dx * s) \div (2 * n), a[2] + (n + 2 * dz * s) \div (2 * n)>> :
        s \in 1..(n - 1)}

Clear(c, y) == \A u \in Under(at, c) \ {c} : h[u] <= y

(* Mutant: from below its feet, as if it could dig.                        *)
Reach_dig(c) == h[c] - 1 \in (h[at] - 1)..(h[at] + 2)

(* Only the top block is exposed, and it is feet high or up to two higher. *)
Reach(c) == h[c] - 1 \in h[at]..(h[at] + 2)

try_take ==
  /\ ~carrying
  /\ \E c \in Slab :
       /\ Near(at, c, 2) /\ Reach(c) /\ Clear(c, h[c] - 1)
       /\ h' = [h EXCEPT ![c] = @ - 1]
       /\ IF p[c] > 0
          THEN p' = [p EXCEPT ![c] = @ - 1] /\ UNCHANGED d
          ELSE d' = [d EXCEPT ![c] = @ + 1] /\ UNCHANGED p
       /\ deep_pit' = IF h[c] - 1 < BASE THEN deep_pit + 1 ELSE deep_pit
  /\ carrying' = TRUE
  /\ formed' = formed + Formed /\ formed' <= MaxFormed
  /\ UNCHANGED <<at, villager, trap_close, prev, counts>>

(* _check_trap: the cells beside c that are closed now.                    *)
check_trap(c, hh, pp) == Cardinality({t \in Trap1(hh, pp) : \E s \in Sides : At(t, s) = c})

(* On top of a column that is feet high or one higher, not on the villager.*)
try_leave ==
  /\ carrying
  /\ \E c \in Slab :
       /\ Near(at, c, 1) /\ h[c] \in h[at]..(h[at] + 1) /\ h[c] >= 1
       /\ ~(Villager /\ villager = c)
       /\ h' = [h EXCEPT ![c] = @ + 1]
       /\ p' = [p EXCEPT ![c] = @ + 1]
       /\ trap_close' = trap_close + check_trap(c, h', p')
  /\ carrying' = FALSE
  /\ formed' = formed + Formed /\ formed' <= MaxFormed
  /\ UNCHANGED <<d, at, villager, deep_pit, prev, counts>>

-----------------------------------------------------------------------------
(* Mutant: compared with the first scan for ever.                          *)
NextPrev_first == prev

NextPrev == Trap1(h, p)

(* run_one: what was not there at the last scan.                           *)
Scan ==
  /\ NextPrev # prev \/ Trap1(h, p) # prev
  /\ counts' = counts + Cardinality(Trap1(h, p) \ prev)
  /\ prev' = NextPrev
  /\ UNCHANGED <<h, p, d, at, villager, carrying, deep_pit, trap_close, formed>>

Next == Step \/ relocate \/ advance_villager \/ try_take \/ try_leave \/ Scan

Spec == Init /\ [][Next]_vars

-----------------------------------------------------------------------------
(* The shape of every variable.                                            *)
TypeOK ==
  /\ h \in [Slab -> Nat] /\ p \in [Slab -> Nat] /\ d \in [Slab -> Nat]
  /\ at \in Slab /\ villager \in Slab /\ carrying \in BOOLEAN
  /\ deep_pit \in Nat /\ trap_close \in Nat /\ counts \in Nat /\ formed \in Nat
  /\ prev \subseteq Inner

(* A pit cannot be dug from flat ground: every column has its original     *)
(* blocks and, on them, those that were placed.                            *)
GroundIsWhole ==
  /\ \A c \in Slab : d[c] = 0 /\ h[c] = BASE + p[c]
  /\ deep_pit = 0

(* On every slab the model can reach, the datapack and the reference       *)
(* matcher see exactly the shapes the model counts, on the scanned levels, *)
(* and no wall it counts as a trap is missed by entity_enclosed.           *)
SimAndPackAgree ==
  /\ \A P \in Shapes :
       /\ PackHits(h, P, Scanned) = {x \in SimHits(h, p, P) : x[2] \in Scanned}
       /\ PackHits(h, P, Scanned) = match_tops(Tops(h), P, Scanned)
  /\ \A k \in 1..5 : ColumnStack(h, BASE, k) <=> Pillar(p, k)
  /\ \A c \in Trap1(h, p) : Enclosed(h, c, {0})

(* The score a search climbs is at its goal where the detector fires, and  *)
(* nowhere else.                                                           *)
ScoreReachesTheEvent ==
  /\ \A P \in Shapes : ~P.forbid_rest =>
       (BestGated(h, P, Scanned) >= P.min_any <=> PackHits(h, P, Scanned) # {})
  /\ \A k \in 1..5 : Profile(h, BASE, k) > 0 <=> Pillar(p, k)

(* A trap is counted when it forms and not while it stays: a placement     *)
(* closes no trap that was there before, however many it touches, and a    *)
(* scan counts none again, however often it comes.                         *)
TrapsCountedOnce ==
  [][trap_close' - trap_close <= Formed /\ counts' <= formed']_vars
=============================================================================
