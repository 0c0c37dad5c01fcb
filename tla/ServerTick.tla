----------------------------- MODULE ServerTick -----------------------------
(***************************************************************************)
(* The main thread of a server with detmc (MinecraftServerMixin): ticks,   *)
(* the drain at the end of each, and the loop between two ticks that the   *)
(* host's clock ends.  IO workers and rcon clients act when they like.     *)
(*                                                                         *)
(* `ideal` is the same world where a command or a tick takes all its chunk *)
(* work with it at once and no eager save takes any time: what the mixins  *)
(* are there to make true of the server, one level at a time.              *)
(***************************************************************************)
EXTENDS TickWork

CONSTANTS
  AutosaveTicks,  \* DETMC_AUTOSAVE_TICKS, and vanilla's first countdown
  MaxValue,       \* Integer.MAX_VALUE
  MaxRounds,      \* 16
  MaxPolls,       \* 4,000,000
  Commands,       \* what rcon clients may send
  Asks,           \* chunks a tick may ask for itself
  Starts,         \* gametimes a world may be loaded at
  MaxTicks,       \* bound: ticks
  MaxCommands     \* bound: commands

ASSUME TickAssumption ==
  /\ {AutosaveTicks, MaxValue} \subseteq Nat \ {0, 1} /\ AutosaveTicks <= MaxValue
  /\ {MaxRounds, MaxPolls} \subseteq Nat \ {0}
  /\ Starts \subseteq Nat /\ Levels \in Seq(LevelSet)
  /\ \A c \in Commands : c[1] \in {"load", "drop", "reseed"}
                          /\ (c[1] # "reseed" => c[2] \in Chunks)

VARIABLES
  world, ideal,
  mainq,          \* commands on the main-thread queue
  pc,             \* "wait" | "drain" | "barrier" | "tail"
  drain,          \* [level, more, guard, round]: the loops of the drain
  gt,             \* gametime
  booted,         \* the gametime it was loaded at
  ticks, sent,
  countdown,      \* ticksUntilAutosave
  lastAutosave,   \* detmc$lastAutosaveGameTime; -1 is Long.MIN_VALUE
  saves,          \* history: gametimes of the autosaves
  cut,            \* history: this tick began on unfinished chunk work
  missed,         \* history: entities in the inbox at a reseed
  ioBarrier,      \* -Ddetmc.ioBarrier
  gaveUp          \* history: a barrier of the tick that ran last gave up

vars == <<world, ideal, mainq, pc, drain, gt, booted, ticks, sent, countdown,
          lastAutosave, saves, cut, missed, ioBarrier, gaveUp>>
timing == <<gt, booted, ticks, countdown, lastAutosave, saves, ioBarrier>>

Init ==
  /\ world = Empty /\ ideal = Empty /\ mainq = <<>>
  /\ pc = "wait" /\ drain = [level |-> 1, more |-> FALSE, guard |-> 0, round |-> 0]
  /\ booted \in Starts /\ gt = booted /\ ticks = 0 /\ sent = 0
  /\ countdown = AutosaveTicks /\ lastAutosave = -1 /\ saves = <<>>
  /\ cut = FALSE /\ missed = {}
  /\ ioBarrier \in BOOLEAN /\ gaveUp = FALSE

-----------------------------------------------------------------------------
(* The others.                                                             *)

Arrive ==
  /\ sent < MaxCommands
  /\ \E c \in Commands : mainq' = Append(mainq, c)
  /\ sent' = sent + 1
  /\ UNCHANGED <<world, ideal, pc, drain, timing, cut, missed, gaveUp>>

Written ==
  /\ \E l \in LevelSet :
       /\ world.writes[l] # <<>>
       /\ world' = Land(world, l)
       /\ ideal' = IF Head(world.writes[l])[2] THEN Land(ideal, l) ELSE ideal
  /\ UNCHANGED <<mainq, pc, drain, timing, sent, cut, missed, gaveUp>>

-----------------------------------------------------------------------------
(* MinecraftServer.pollTask with detmc$chunkWorkBeforeCommands: the first  *)
(* level that has work, and a command only when none has.                  *)

PollChunks ==
  \E i \in DOMAIN Levels :
    /\ Busy(world, Levels[i]) /\ \A j \in 1..(i - 1) : ~Busy(world, Levels[j])
    /\ world' = RunTask(world, Levels[i])
    /\ UNCHANGED <<ideal, mainq, missed>>

(* Mutant: vanilla's order, the main-thread queue first.                   *)
MayRun_vanilla == mainq # <<>>

(* detmc$shouldRunWithoutAClock: whatever is at the head.                  *)
MayRun == mainq # <<>> /\ Quiet(world)

PollCommand ==
  /\ MayRun
  /\ mainq' = Tail(mainq)
  /\ world' = Do(world, Head(mainq))
  /\ \E done \in {Do(ideal, Head(mainq))} : ideal' = Finish(done)
  /\ missed' = IF Head(mainq)[1] = "reseed"
               THEN missed \cup UNION {Range(world.inbox[l]) : l \in LevelSet} ELSE missed

pollTask == PollChunks \/ PollCommand
Idle     == Quiet(world) /\ ~MayRun

(* Between two ticks.                                                      *)
Wait == /\ pc = "wait" /\ pollTask
        /\ UNCHANGED <<pc, drain, timing, sent, cut, gaveUp>>

-----------------------------------------------------------------------------
(* A tick.  Whether it runs or is frozen, and what it asks for, is input.  *)

(* When the clock says so, wherever the wait is.                           *)
StartTick ==
  /\ pc = "wait" /\ ticks < MaxTicks
  /\ pc' = "drain"
  /\ ticks' = ticks + 1
  /\ cut' = ~Quiet(world)
  /\ \E runs \in BOOLEAN, asked \in {{}} \cup {{c} : c \in Asks} :
       /\ runs \/ asked = {}
       /\ gt' = IF runs THEN gt + 1 ELSE gt
       /\ world' = Body(world, asked, gt')
       /\ \E done \in {Body(ideal, asked, gt')} : ideal' = Fast(Finish(done))
  /\ countdown' = IF countdown > 1 THEN countdown - 1 ELSE AutosaveTicks
  /\ saves' = IF countdown > 1 THEN saves ELSE Append(saves, gt')
  /\ drain' = [level |-> 1, more |-> TRUE, guard |-> 0, round |-> 0]
  /\ gaveUp' = FALSE
  /\ UNCHANGED <<mainq, sent, booted, lastAutosave, missed, ioBarrier>>

(* detmc$drainChunkTasksAtTickEnd: each level once, then pollTask until it *)
(* has nothing, which guard does not count.                                *)
Entered == drain.more /\ drain.guard < MaxPolls

EnterLoop ==
  /\ pc = "drain" /\ drain.level = 1 /\ drain.more
  /\ IF Entered
     THEN pc' = pc /\ drain' = [drain EXCEPT !.level = 2, !.more = FALSE, !.guard = @ + 1]
     ELSE pc' = "barrier" /\ UNCHANGED drain
  /\ UNCHANGED <<world, ideal, mainq, timing, sent, cut, missed, gaveUp>>

LevelAt == Levels[drain.level - 1]

DrainLevel ==
  /\ pc = "drain" /\ drain.level \in 2..(Len(Levels) + 1)
  /\ world' = IF Busy(world, LevelAt) THEN RunTask(world, LevelAt) ELSE world
  /\ drain' = [drain EXCEPT !.level = @ + 1, !.more = @ \/ Busy(world, LevelAt)]
  /\ UNCHANGED <<ideal, mainq, pc, timing, sent, cut, missed, gaveUp>>

DrainMain ==
  /\ pc = "drain" /\ drain.level = Len(Levels) + 2
  /\ pollTask
  /\ drain' = [drain EXCEPT !.more = TRUE]
  /\ UNCHANGED <<pc, timing, sent, cut, gaveUp>>

DrainTurn ==
  /\ pc = "drain" /\ drain.level = Len(Levels) + 2 /\ Idle
  /\ drain' = [drain EXCEPT !.level = 1]
  /\ pc' = IF drain.more THEN "drain" ELSE "barrier"
  /\ UNCHANGED <<world, ideal, mainq, timing, sent, cut, missed, gaveUp>>

(* Mutant: the writes of the first level only are waited for.              *)
ioBarrierOf_overworld(w) == LandAllOf(w, {Levels[1]})

(* detmc$ioBarrier.  The spin after the join may give up.                  *)
ioBarrierOf(w) == LandAllOf(w, LevelSet)

(* Mutant: the rounds are not counted.                                     *)
NextRound_first == 0

NextRound == drain.round + 1

Barrier ==
  /\ pc = "barrier"
  /\ LET waited == \E l \in LevelSet : world.writes[l] # <<>>
     IN \/ /\ ioBarrier /\ waited
           /\ \/ world' = ioBarrierOf(world) /\ ideal' = ioBarrierOf(ideal) /\ gaveUp' = gaveUp
              \/ gaveUp' = TRUE /\ UNCHANGED <<world, ideal>>
           /\ IF NextRound < MaxRounds
              THEN pc' = "drain" /\ drain' = [level |-> 1, more |-> TRUE, guard |-> 0,
                                              round |-> NextRound]
              ELSE pc' = "tail" /\ UNCHANGED drain
        \/ /\ ~ioBarrier \/ ~waited
           /\ pc' = "tail"
           /\ UNCHANGED <<world, ideal, drain, gaveUp>>
  /\ UNCHANGED <<mainq, timing, sent, cut, missed>>

(* Mutant: a tick that did not advance the world saves again.              *)
AutosaveDue_always == gt > 0 /\ gt % AutosaveTicks = 0

AutosaveDue == gt # lastAutosave /\ gt > 0 /\ gt % AutosaveTicks = 0

(* The tick is over; a tick that began on unfinished work does not count.  *)
Settle(w, v) ==
  /\ world' = Forget(w)
  /\ ideal' = IF cut THEN Fast(Forget(w)) ELSE Forget(v)

(* detmc$autosaveOnWorldClock.  saveEverything hands every chunk to the IO *)
(* workers, and detmc$saveBarrier waits for them whatever -Ddetmc.ioBarrier *)
(* says, or gives up.                                                      *)
Autosave ==
  LET w == saveAllChunks(world, gt)  v == Fast(saveAllChunks(ideal, gt))
  IN \/ gaveUp' = FALSE /\ Settle(ioBarrierOf(w), ioBarrierOf(v))
     \/ gaveUp' = TRUE /\ (\E l \in LevelSet : w.writes[l] # <<>>) /\ Settle(w, v)

TickEnd ==
  /\ pc = "tail"
  /\ pc' = "wait"
  /\ countdown' = MaxValue
  /\ lastAutosave' = gt
  /\ \/ ~AutosaveDue /\ saves' = saves /\ gaveUp' = FALSE /\ Settle(world, ideal)
     \/ AutosaveDue /\ saves' = Append(saves, gt) /\ Autosave
  /\ cut' = FALSE
  /\ drain' = [level |-> 1, more |-> FALSE, guard |-> 0, round |-> 0]
  /\ UNCHANGED <<mainq, gt, booted, ticks, sent, missed, ioBarrier>>

InTick == EnterLoop \/ DrainLevel \/ DrainMain \/ DrainTurn \/ Barrier \/ TickEnd

Next == Arrive \/ Written \/ Wait \/ StartTick \/ InTick

(* The main thread does not rest inside a tick.                            *)
Spec == Init /\ [][Next]_vars /\ WF_vars(InTick)

-----------------------------------------------------------------------------
(* The shape of every variable.                                            *)
TypeOK ==
  /\ \A w \in {world, ideal} :
       /\ \A l \in LevelSet :
            /\ \A t \in w.q[l] : t[1] \in Of(l) /\ t[2] \in 1..Steps[t[1]]
            /\ w.live[l] \subseteq Of(l)
            /\ \A s \in {w.unload[l], w.inbox[l]} : IsInjective(s) /\ Range(s) \subseteq Of(l)
       /\ \A c \in Chunks : w.at[c] \in {"out", "coming", "in", "leaving", "saving"}
  /\ pc \in {"wait", "drain", "barrier", "tail"}
  /\ drain.guard \in 0..MaxPolls /\ drain.round \in 0..(MaxRounds - 1)
  /\ gt \in Nat /\ countdown \in 1..MaxValue /\ saves \in Seq(Nat)

(* Everything but the order of births across levels, and saves in flight.  *)
View(w) == [Fast(w) EXCEPT !.born = <<>>]

(* Whatever the clock cut the wait to, whenever writes landed and commands *)
(* came: each level went through commands and ticks one by one, each with  *)
(* all the chunk work it caused.  Unless a tick began on unfinished work.  *)
AsIfAtomic == Quiet(world) /\ ~cut => View(world) = View(ideal)

(* Autosaves come at the multiples of 6000 and once at each, however many  *)
(* frozen ticks there were; vanilla's countdown adds none.                 *)
OnTheGrid(from, to) ==
  /\ Range(saves) = {g \in from..to : g > 0 /\ g % AutosaveTicks = 0}
  /\ \A i, j \in DOMAIN saves : i < j => saves[i] < saves[j]
AutosavesOnTheGrid ==
  pc = "wait" /\ ticks > 0 => OnTheGrid(booted, gt) \/ OnTheGrid(booted + 1, gt)

(* After a reseed no level and no entity draws from an older key, but the  *)
(* entities that were still in a loading inbox.                            *)
ReseedReachesTheLoaded ==
  \A l \in LevelSet :
    /\ world.level[l] = world.master
    /\ \A c \in world.live[l] \ missed : world.key[c] = world.master

(* A tick leaves no chunk task behind, and no write either with the IO     *)
(* barrier or after an autosave, which has handed every chunk to the IO    *)
(* workers once more: unless a barrier said that it gave up.               *)
Waited == (ioBarrier /\ ~gaveUp) \/ AutosaveDue
TickLeavesNothing ==
  [][pc = "tail" /\ pc' = "wait" =>
       /\ Quiet(world')
       /\ Waited /\ ~gaveUp' => \A l \in LevelSet : world'.writes[l] = <<>>]_vars

(* Every tick ends, if chunk work does.                                    *)
TickEnds == pc # "wait" ~> pc = "wait"

-----------------------------------------------------------------------------
(* What the comment says: the drain makes the tick boundary a barrier, "no *)
(* chunk task ever straddles it, so the interleaving is fixed".            *)
InterleavingIsFixed == pc = "tail" => View(world) = View(ideal) /\ world.born = ideal.born
=============================================================================
