------------------------------- MODULE NodeRun -------------------------------
(***************************************************************************)
(* The nodes of a search on their servers, one after the other: booted,    *)
(* set up (Replica.setup) or resumed from the checkpoint of a parent       *)
(* (Replica.resume), ticked through a segment under the detector pack,     *)
(* read, and checkpointed.  Siblings run on servers of their own and share *)
(* nothing but the checkpoint, so their order does not matter.             *)
(*                                                                         *)
(* The server is frozen except where a Tick says so; one that stood still  *)
(* when goto gave up may tick on later.  Outside this model:               *)
(* check_every_ticks is 1, and what the score function reads.              *)
(***************************************************************************)
EXTENDS Detector

CONSTANTS
  Threshold,      \* name -> the number it is compared with
  FromBaseline,   \* those compared with what is counted at setup instead
  Counts,         \* what a selector or a scan can count
  Summons,        \* how many mobs setup.summons brings
  Blocks,         \* the arena's material, restore_material's `blocks`
  Segment,        \* ticks of a segment
  DumpAt,         \* its stops before the last, as offsets
  None,           \* no parent
  Nodes,          \* bound: how many nodes run
  MaxSteps        \* bound: tick steps a reload is waited for (40)

ASSUME NodeAssumption ==
  /\ Counts \subseteq 0..(MaxInt - 1) /\ Threshold \in [Names -> 0..(MaxInt - 1)]
  /\ {Summons, Blocks, Nodes, MaxSteps} \subseteq Nat /\ Nodes > 0
  /\ Segment \in Nat \ {0} /\ DumpAt \subseteq 1..(Segment - 1)
  /\ \A d \in Names : Requires[d] \subseteq Names

VARIABLES
  world,          \* the server's world, or what is left of it
  at,             \* what the runner is at with the node
  boots,          \* boots spent on it: two of _boot_one, one of _reboot_one
  steps,          \* tick steps of the reload so far
  node,           \* the node: [gen, seed, resume, start, stop, final, hits]
  parent,         \* the checkpoint it resumes, or None
  own,            \* the checkpoint it wrote, or None
  meant,          \* history: the thresholds of the scenario
  seen,           \* history: name -> when it should have fired in this segment
  starts,         \* history: the worlds the children of `parent` started from
  faults          \* history: what failed outside the runner, for this node

vars == <<world, at, boots, steps, node, parent, own, meant, seen, starts, faults>>

Resumed     == parent # None
SetupOrder  == <<"arena", "players", "summon", "reload", "install", "arm">>
(* Mutant: the players join after the reseed.                              *)
ResumeOrder_playersLast == <<"frozen", "ensure", "restock", "reseed", "players", "arm">>
ResumeOrder == <<"frozen", "ensure", "restock", "players", "reseed", "arm">>
Order       == IF Resumed THEN ResumeOrder ELSE SetupOrder
Preparing   == at \in Range(Order)
Ended       == at \in {"ok", "error"}

(* The runner has done what `stage` stands for, and goes on.               *)
Past(stage) ==
  /\ at = stage
  /\ LET i == CHOOSE i \in DOMAIN Order : Order[i] = stage
     IN at' = IF i = Len(Order) THEN "ticking" ELSE Order[i + 1]

-----------------------------------------------------------------------------
(* Worlds.  The stream is a key and the draws taken since.                 *)

NoneFired == [d \in {} |-> 0]

(* What is new in t is added to s.                                         *)
Noted(s, t) ==
  [d \in DOMAIN s \cup DOMAIN t |-> IF d \in DOMAIN s THEN s[d] ELSE t[d]]

Fresh ==
  [time |-> 0, board |-> Missing, old |-> FALSE, due |-> FALSE,
   players |-> FALSE, mobs |-> 0, blocks |-> 0, key |-> 0, draws |-> 0]

(* What a setup may come to: what is counted then, for some of them.       *)
Installed ==
  {[d \in Names |-> IF Op[d] = "present" THEN MaxInt
                    ELSE IF d \in FromBaseline THEN count[d] ELSE Threshold[d]] :
     count \in [FromBaseline -> Counts]}

(* Checkpoints that a search of an older version may have left in a world  *)
(* set up with the thresholds th: its pack disarms on load and, on a       *)
(* resume, forgets them; its scoreboard may be lost; it saved no mobs.     *)
OldBoards(th) ==
  {Missing} \cup {[Reset(a) EXCEPT !.th = t] :
                    a \in {0, 1}, t \in {th, [d \in Names |-> MaxInt]}}

OldCheckpoints(th) ==
  [time : {5}, board : OldBoards(th), old : {TRUE}, due : {FALSE}, players : {FALSE},
   mobs : {0}, blocks : {0, Blocks}, key : {0}, draws : {0}]

(* A node as it is planned: of a generation, with a reseed, to be resumed  *)
(* at the gametime its parent's record says.                               *)
NewNode(gen, seed, resume) ==
  [gen |-> gen, seed |-> seed, resume |-> resume,
   start |-> 0, stop |-> 0, final |-> 0, hits |-> NoneFired]

Init ==
  /\ at = "boot" /\ boots = 0 /\ steps = 0
  /\ own = None /\ seen = NoneFired /\ starts = {} /\ faults = {}
  /\ meant \in Installed
  /\ \/ parent = None /\ node = NewNode(0, 0, 0)
     \/ /\ parent \in OldCheckpoints(meant)
        /\ node = NewNode(1, 1, parent.time)
  /\ world = Fresh

-----------------------------------------------------------------------------
(* Booting: a clean data directory, with the parent's world and a pack     *)
(* generated anew; one retry here and one by run_wave.                     *)

(* Mutant: the copied world keeps the pack it was born with.               *)
prepare_dir_keepsPack == [parent EXCEPT !.due = TRUE, !.players = FALSE]

(* Carpet's players do not come back, and the load tag is due at the first *)
(* tick.                                                                   *)
prepare_dir == [parent EXCEPT !.due = TRUE, !.players = FALSE, !.old = FALSE]

(* Mutant: a resumed server is not told to boot frozen.                    *)
Booted_thawed ==
  IF Resumed THEN [prepare_dir EXCEPT !.time = @ + 1] ELSE Fresh

Booted == IF Resumed THEN prepare_dir ELSE Fresh

(* A server that is not frozen from the start ticks before it is.          *)
Boot ==
  /\ at = "boot"
  /\ at' = Order[1]
  /\ boots' = boots + 1
  /\ \/ world' = Booted /\ UNCHANGED faults
     \/ /\ Resumed /\ faults' = faults \cup {"fault"}
        /\ world' = [Booted EXCEPT !.time = @ + 1]
  /\ UNCHANGED <<steps, node, parent, own, meant, seen, starts>>

(* Mutant: one retry too many.                                             *)
MayRetry_late == boots <= 3

MayRetry == boots < 3

(* Mutant: as often as it takes.                                           *)
Drop_again ==
  /\ at' = "boot"
  /\ boots' = 0 /\ steps' = 0
  /\ UNCHANGED <<world, node, parent, own, meant, seen, starts>>

(* A preparation that raises is retried once, by _reboot_one: what is left *)
(* of _boot_one's own retry is lost.                                       *)
Drop ==
  /\ at' = IF MayRetry THEN "boot" ELSE "error"
  /\ boots' = IF boots < 2 THEN 2 ELSE boots
  /\ steps' = 0
  /\ UNCHANGED <<world, node, parent, own, meant, seen, starts>>

RaiseBoot == /\ at = "boot" /\ boots < 3
             /\ boots' = boots + 1
             /\ at' = IF boots' < 3 THEN "boot" ELSE "error"
             /\ faults' = faults \cup {"fault"}
             /\ UNCHANGED <<world, steps, node, parent, own, meant, seen, starts>>

RaisePrepare == Preparing /\ faults' = faults \cup {"fault"} /\ Drop

-----------------------------------------------------------------------------
(* Replica.setup, for a node without a parent.                             *)

Draw(w) == [w EXCEPT !.draws = @ + 1]

BuildArena ==
  /\ Past("arena")
  /\ world' = [world EXCEPT !.blocks = Blocks]
  /\ UNCHANGED <<boots, steps, node, parent, own, meant, seen, starts, faults>>

(* Tries to set the game mode until the player is there, and asks `list`;  *)
(* a player that never joined raises, which is RaisePrepare.               *)
spawn_fake_players ==
  /\ Past("players")
  /\ world' = Draw([world EXCEPT !.players = TRUE])
  /\ UNCHANGED <<boots, steps, node, parent, own, meant, seen, starts, faults>>

do_summons(w) == Draw([w EXCEPT !.mobs = @ + Summons])

Summon ==
  /\ Past("summon")
  /\ world' = do_summons(world)
  /\ UNCHANGED <<boots, steps, node, parent, own, meant, seen, starts, faults>>

(* await_reload.  A frozen server completes a reload only inside a tick    *)
(* step, and then runs the load tag.                                       *)
NewObjective == [Reset(Unset) EXCEPT !.loaded = 0]
Loaded       == world.board # Missing /\ world.board.loaded = 1

step_until_loaded ==
  /\ at = "reload" /\ steps < MaxSteps /\ ~Loaded
  /\ steps' = steps + 1
  /\ \E done \in BOOLEAN :
       world' = LET board == IF steps = 0 THEN NewObjective ELSE world.board
                IN Draw([world EXCEPT !.time = @ + 1,
                                      !.board = IF done THEN Load(board, FALSE) ELSE board])
  /\ UNCHANGED <<at, boots, node, parent, own, meant, seen, starts, faults>>

Reloaded ==
  /\ steps < MaxSteps /\ Loaded
  /\ Past("reload")
  /\ UNCHANGED <<world, boots, steps, node, parent, own, meant, seen, starts, faults>>

(* What the last step brought is not looked at.                            *)
ReloadNeverCompletes ==
  /\ at = "reload" /\ steps = MaxSteps
  /\ faults' = faults \cup {"fault"}
  /\ Drop

(* The thresholds, the check that is run once while unarmed, and the flags *)
(* it may have set put back.                                               *)
install_detector ==
  /\ Past("install")
  /\ meant' \in Installed
  /\ world' = [world EXCEPT !.board = [Reset(world.board.armed) EXCEPT !.th = meant']]
  /\ UNCHANGED <<boots, steps, node, parent, own, seen, starts, faults>>

-----------------------------------------------------------------------------
(* Replica.resume, for a child.  Nothing here steps the tick loop.         *)

CheckGametime ==
  /\ Past("frozen")
  /\ world.time = node.resume
  /\ UNCHANGED <<world, boots, steps, node, parent, own, meant, seen, starts, faults>>

WrongGametime ==
  /\ at = "frozen" /\ world.time # node.resume
  /\ UNCHANGED faults
  /\ Drop

Repaired(board) ==
  IF Loaded THEN board ELSE Load(board, FALSE)

ensure_detmc_loaded ==
  /\ Past("ensure")
  /\ world' = [world EXCEPT !.board = Repaired(@)]
  /\ UNCHANGED <<boots, steps, node, parent, own, meant, seen, starts, faults>>

(* The mobs are summoned again and the missing blocks put back, as far as  *)
(* the grid has room.                                                      *)
Restock ==
  /\ Past("restock")
  /\ world' = [do_summons(world) EXCEPT !.blocks = IF @ < Blocks THEN Blocks ELSE @]
  /\ UNCHANGED <<boots, steps, node, parent, own, meant, seen, starts, faults>>

Reseed ==
  /\ Past("reseed")
  /\ world' = [world EXCEPT !.key = node.seed, !.draws = 0]
  /\ UNCHANGED <<boots, steps, node, parent, own, meant, seen, starts, faults>>

-----------------------------------------------------------------------------
(* The last command before the segment, then the segment.                  *)

Least(S) == CHOOSE x \in S : \A y \in S : x <= y
Stops    == {node.start + k : k \in DumpAt \cup {Segment}}

Arm ==
  /\ Past("arm")
  /\ LET now == [world EXCEPT !.board = SetArmed(@)]
     IN /\ world' = now
        /\ starts' = IF Resumed THEN starts \cup {[now EXCEPT !.key = 0]} ELSE starts
  /\ node' = [node EXCEPT !.start = world.time,
                          !.stop = world.time + Least(DumpAt \cup {Segment})]
  /\ seen' = NoneFired /\ boots' = 0 /\ steps' = 0
  /\ UNCHANGED <<parent, own, meant, faults>>

(* What the scenario asks for: a detector fires when its count first meets *)
(* its threshold while all it requires have fired.                         *)
SeeOne(s, d, count) ==
  IF /\ d \notin DOMAIN s /\ Requires[d] \subseteq DOMAIN s
     /\ Fires(d, count[d], meant[d])
  THEN Noted(s, [e \in {d} |-> world.time])
  ELSE s

Sight(count) ==
  LET after[n \in 0..Len(Detectors)] ==
        IF n = 0 THEN seen ELSE SeeOne(after[n - 1], Detectors[n], count)
  IN after

SeenWith(count) == Sight(count)[Len(Detectors)]

(* A tick of the segment; a mob may carry a block out of the arena.  When  *)
(* goto gave up on the last stop, its steps are still to be made, and the  *)
(* server may come back to them after the last look at the flags.          *)
Tick ==
  /\ at \in {"ticking", "stopped"} /\ world.time < node.stop
  /\ faults' = IF at = "stopped" THEN faults \cup {"late tick"} ELSE faults
  /\ \E count \in [Names -> Counts], taken \in {0, 1} :
       /\ taken <= world.blocks
       /\ world' = Draw([world EXCEPT
            !.time = @ + 1, !.blocks = @ - taken, !.due = FALSE,
            !.board = PackTick(@, world.due, world.old, count, world.time)])
       /\ seen' = SeenWith(count)
  /\ UNCHANGED <<at, boots, steps, node, parent, own, meant, starts>>

Fired(board) == {d \in Names : board.hit[d] = 1}

(* What is new at this stop.                                               *)
read_detector ==
  Noted(node.hits, [d \in Fired(world.board) |-> world.board.gt[d]])

(* goto gives up on a server that stands still for ten seconds.            *)
Stall == IF world.time = node.stop THEN {}
         ELSE IF world.time = node.start THEN {"not a tick"} ELSE {"fault"}

(* goto landed on the stop, or gave up before it, which is only a warning. *)
Stop ==
  /\ at = "ticking"
  /\ faults' = faults \cup Stall
  /\ LET later == {s \in Stops : s > node.stop}
     IN IF later = {}
        THEN /\ at' = "stopped"
             /\ node' = [node EXCEPT !.hits = read_detector, !.final = world.time]
        ELSE /\ node' = [node EXCEPT !.hits = read_detector, !.stop = Least(later)]
             /\ UNCHANGED at
  /\ UNCHANGED <<world, boots, steps, parent, own, meant, seen, starts>>

StillArmed == world.board # Missing /\ world.board.armed = 1

(* #armed is read again: a segment that went by unwatched is an error.     *)
(* Then the score, the save and the copy, whose record has the gametime    *)
(* goto gave, not the one the world is at.                                 *)
Checkpoint ==
  /\ at = "stopped"
  /\ at' = IF StillArmed THEN "ok" ELSE "error"
  /\ own' = IF StillArmed THEN world ELSE own
  /\ UNCHANGED <<world, boots, steps, node, parent, meant, seen, starts, faults>>

RaiseAdvance ==
  /\ at \in {"ticking", "stopped"}
  /\ at' = "error" /\ faults' = faults \cup {"fault"}
  /\ UNCHANGED <<world, boots, steps, node, parent, own, meant, seen, starts>>

-----------------------------------------------------------------------------
(* The next node: a sibling, or a child of the world just written.  A      *)
(* checkpoint that ticked on after its record is a fault it brings along.  *)

NextNode(from, gen, resume) ==
  /\ Ended /\ node.seed < Nodes
  /\ at' = "boot" /\ boots' = 0 /\ steps' = 0 /\ own' = None
  /\ parent' = from
  /\ node' = NewNode(gen, node.seed + 1, resume)
  /\ world' = from                      \* not there before it boots
  /\ seen' = NoneFired
  /\ faults' = IF from.time = resume THEN {} ELSE {"fault"}
  /\ UNCHANGED meant

Sibling == Resumed /\ NextNode(parent, node.gen, node.resume) /\ UNCHANGED starts
Descend == at = "ok" /\ NextNode(own, node.gen + 1, node.final) /\ starts' = {}

Work == \/ Boot \/ RaiseBoot \/ RaisePrepare
        \/ BuildArena \/ spawn_fake_players \/ Summon
        \/ step_until_loaded \/ Reloaded \/ ReloadNeverCompletes \/ install_detector
        \/ CheckGametime \/ WrongGametime \/ ensure_detmc_loaded \/ Restock \/ Reseed
        \/ Arm \/ Tick \/ Stop \/ Checkpoint \/ RaiseAdvance

Next == Work \/ Sibling \/ Descend

(* Every wait of the runner is bounded.                                    *)
Spec == Init /\ [][Next]_vars /\ WF_vars(Work)

-----------------------------------------------------------------------------
Worlds == [time : Nat, board : Boards \cup {Missing},
           old : BOOLEAN, due : BOOLEAN, players : BOOLEAN, mobs : Nat,
           blocks : 0..Blocks, key : 0..Nodes, draws : Nat]

Faults == {"fault", "not a tick", "late tick"}

ASSUME NoneAssumption == None \notin Worlds

(* The shape of every variable.                                            *)
TypeOK ==
  /\ world \in Worlds /\ parent \in Worlds \cup {None} /\ own \in Worlds \cup {None}
  /\ at \in {"boot", "ticking", "stopped", "ok", "error"} \cup Range(SetupOrder)
            \cup Range(ResumeOrder)
  /\ boots \in 0..3 /\ steps \in 0..MaxSteps
  /\ node.gen \in Nat /\ node.seed \in 0..Nodes
  /\ {node.resume, node.start, node.stop, node.final} \subseteq Nat
  /\ DOMAIN node.hits \subseteq Names /\ DOMAIN seen \subseteq Names
  /\ meant \in [Names -> 0..MaxInt]
  /\ starts \subseteq Worlds /\ faults \subseteq Faults

(* Does what d reports depend on a threshold the runner wrote at setup,    *)
(* its own or that of a detector some chain of `requires` leads to?        *)
Dependent(S) == \A d \in Names : Op[d] # "present" \/ Requires[d] \cap S # {} => d \in S
Thresholded(d) == \A S \in SUBSET Names : Dependent(S) => d \in S

Reports(d) == IF d \in DOMAIN node.hits THEN node.hits[d] ELSE -1
Meant(d)   == IF d \in DOMAIN seen THEN seen[d] ELSE -1

(* A node that is through reports nothing but what happened in its         *)
(* segment, and when, and all of it unless the server ticked on after the  *)
(* last look: nothing is missed, left over from setup or from its parent,  *)
(* or seen before its cause.  After a resume this is only so of detectors  *)
(* without a threshold, and of a server that ticked before it was read:    *)
(* until the first tick the flags are the parent's.                        *)
HitsAreTrue ==
  at = "ok" /\ "not a tick" \notin faults =>
    \A d \in Names : ~Resumed \/ ~Thresholded(d) =>
      \/ Reports(d) = Meant(d)
      \/ Reports(d) = -1 /\ "late tick" \in faults

(* All children of a checkpoint start from the same world, whatever was    *)
(* repaired, retried or summoned again on the way: only the key differs.   *)
SiblingsStartAlike == Cardinality(starts) <= 1

(* A resumed segment starts at the gametime of its checkpoint, which is    *)
(* the recorded one, on a stream that is its reseed and from which nothing *)
(* was drawn: a lineage is described by (gametime, reseed) pairs.          *)
StartsAtItsReseed ==
  Resumed /\ at = "ticking" /\ world.time = node.start =>
    /\ world.time = parent.time /\ world.time = node.resume
    /\ world.key = node.seed /\ world.draws = 0

(* A segment is a function of its checkpoint and its reseed.               *)
SegmentStartsRight == SiblingsStartAlike /\ StartsAtItsReseed

(* No tick of a segment passes unwatched or on an empty server.            *)
TicksAreWatched ==
  [][world'.time > world.time /\ at \in {"ticking", "stopped"}
       => world'.board.armed = 1 /\ world.players]_vars

(* A node is lost only to something outside the runner: what an old        *)
(* version left in its checkpoint is repaired.                             *)
LostToFaultsOnly == at = "error" => faults # {}

(* Every node comes to an end.                                             *)
NodeEnds == ~Ended ~> Ended

-----------------------------------------------------------------------------
(* What the documentation says: the late load tag of a resumed world "is   *)
(* now harmless".  So a node whose checkpoint brought the scoreboard, with *)
(* the thresholds of its setup, would see what happens in its segment.     *)
BroughtThresholds == parent.board # Missing /\ parent.board.th = meant

LateLoadIsHarmless ==
  at = "ok" /\ faults = {} /\ (Resumed => BroughtThresholds) =>
    \A d \in Names : Reports(d) = Meant(d)
=============================================================================
