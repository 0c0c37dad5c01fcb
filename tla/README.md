# A TLA+ model of detmc

detmc makes a Minecraft server deterministic and searches over its futures.
A mod (`common/`, Java) routes every random draw of the server through one
seeded stream, takes the clock and the thread pools out of the order of events,
and writes the position of the stream into a file beside the world. A runner
(`runner/`, Python) boots servers in containers, ticks them, scores their
worlds and branches the best ones with `/detmc reseed`. The promise of the
whole is one sentence of `runner/branch.py`: a branch is described entirely by
its base seed and its schedule of reseeds.

This directory holds the model of that promise: TLA+ modules translated from
the source, TLC configurations that check them on small instances, and proofs
checked by TLAPS. `PROJECT.json` maps every definition to the lines it models
and lists the hazards the properties are for.

## Inventory

| Component | State it keeps | Operations | Correct when |
|---|---|---|---|
| Seed source (`DetRng.java`) | stream words, draw count, entity ordinal, master/base seed, reseed flag; `detmc-rng.properties` and its `.tmp` | static initialiser, `bindWorldSeed`, `restoreState`, `nextSeed`, `entitySeed`, `reseed`, `persistState` | the stream is the one its labels name; entity seeds are never re-issued; a restart continues exactly what a save that completed held |
| Executors (`DetExecutors.java`, `UtilMixin`) | per-thread queue and flag | `runHere`, `SameThreadService.execute`, the futures joined on it | never nests, never strands a task, never waits for itself, keeps submission order |
| Server tick (`MinecraftServerMixin`, `ChunkMapMixin`, `SectionStorageMixin`, `IOWorkerMixin`, `EntityStorageMixin`) | chunk and main-thread task queues, writes in flight, last autosave gametime | drain to a fixpoint, IO barrier, autosave on the world clock | a level goes through ticks and commands as if each took its chunk work with it; the autosave grid is a function of gametime |
| Save (`MinecraftServerMixin`) | queued writes, the sidecar | `saveEverything`, save barrier, `persistState` | the sidecar moves after every write of its save |
| `/detmc reseed` (`DetCommands.java`) | every live `RandomSource` | re-key levels and entities | independent of iteration order; no stream keeps its old key |
| Ordering mixins | collections that vanilla hashes by identity | sort, or take the lowest key first | the order is a function of the world |
| Segment runner (`run.py`) | replicas, `done`, reseeds applied, `DONE` | setup, lock-step segments, `goto`, hits | every replica is where the record says; `DONE` says how it ended |
| Resume and detector (`run.py`) | scoreboard holders, datapack | `install_detector`, `resume`, `ensure_detmc_loaded` | watched in every tick; what is reported happened in the segment; siblings differ in their reseed only |
| Branch search (`branch.py`) | nodes, `next_ordinal`, `lineage.jsonl`, `checkpoints/` | waves, ranking, pruning, spawning, `--resume`, clone | lineage true to the worlds; reseeds distinct; beam never lost |
| Checkpointing (`branch.py`, `run.py`) | the world directory, its copy | `save_world`, `checkpoint`, `bad_nbt_files` | the copy is one moment of the world |
| Replay (`branch.py`) | one lineage | `replay`, `replay_leg`, `verify_checkpoint` | reproduces the recorded leg or says why not |
| Memory gate (`memgate.py`) | a lock file, MemAvailable | `acquire` | launchers never overcommit the host |
| Patterns (`patterns.py`) | none | `match_tops`, generated mcfunctions | both find what the simulator counts; the score peaks where the detector fires |
| Prefilter (`prefilter.py`, `seedscan.c`) | candidate seeds | scan, locate, check | every reported seed meets the requirements |
| Monte Carlo (`montecarlo/sim.py`) | columns, the enderman, a villager, counters | walk, take, leave, scan | no pit below the base; each trap counted once |
| Trace, camera, benchmarks, tests | output only | | |

How they interact. The tick loop of a server drains the executors, draws from
the seed source and, on the world clock, saves; a save ends by writing the
sidecar. The runner talks to a server through rcon commands, the sidecar's
mtime and a copy of the world directory, never through memory. The search
drives one thread per node of a wave and meets its own past only through
`lineage.jsonl` and `checkpoints/`, which is what a resume reads.

Where it is hard. The server is killed, never stopped (compose sends SIGKILL),
so the sidecar must be whole or absent. Tasks submit tasks and join futures on
the one thread that can complete them. IO workers write behind a save the
harness already sees as finished. A search runs for days, is interrupted
between any two of its file operations, and goes on from what is left.

## Modules

| Module | Models | Runs |
|---|---|---|
| `DurableStream` | abstract: a stream position, made durable by saves, continued by restarts | refined by `DetRng` |
| `DetRng` | `DetRng.java` | `det_rng` |
| `DetRngProofs` | theorems about `DetRng` | |
| `SerialExecutor` | abstract: tasks of a thread run serially, in order, all of them | refined by `DetExecutors` |
| `DetExecutors` | `DetExecutors.java`, `UtilMixin` | `executors` |
| `DetExecutorsProofs` | theorems about `DetExecutors` and its refinement | |
| `Beam` | abstract: a beam of worlds replaced only by worlds grown out of it | refined by `BranchSearch` |
| `BranchSearch` | the search of `branch.py` | `search`, `stale_record` |
| `BranchSearchProofs` | theorems about `BranchSearch` and its refinement | |
| `Detector` | the generated detector datapack of `run.py` | within `NodeRun` |
| `NodeRun` | a node: `_boot_one`, `_prepare_one`, `_advance_one` with `Replica.setup`, `resume` and what they call | `node_run`, `late_load` |
| `NodeRunProofs` | theorems about `NodeRun` and `Detector` | |
| `TickWork` | the main thread's chunk work, commands and tick body, as functions of the world | within `ServerTick` |
| `ServerTick` | `MinecraftServerMixin` and the mixins of the tick | `server_tick`, `interleaving` |
| `ServerTickProofs` | theorems about `ServerTick` and `TickWork` | |
| `Patterns` | shapes as `sim.py`, `patterns.py` and the datapack see them | within `MonteCarlo` |
| `MonteCarlo` | `montecarlo/sim.py` | `monte_carlo` |
| `MonteCarloProofs` | theorems about `MonteCarlo` and `Patterns` | |
| `SaveCheckpoint` | `saveEverything`, `save_world`, `checkpoint` | `save_checkpoint` |
| `RunSegments` | `Run.execute` of `run.py` | `segments` |
| `RunSegmentsProofs` | theorems about `RunSegments` | |
| `MemGate` | `memgate.py` and the launchers that call it | `mem_gate` |
| `SaveAndGateProofs` | theorems about `SaveCheckpoint` and `MemGate` | |

**DetRng.** A xoroshiro state is named by the key it was expanded from and the
draws taken since: the mixing functions are pure, so two servers hand out the
same seeds exactly when these agree. Everything the code does under
`DetRng.LOCK` is one action. `persistState` is not under it and is four:
the snapshot, opening the temporary file, storing, moving; each may fail with
the logged `IOException` and the process may be killed before any of them.
`Xor` is a constant function. The phases `static`, `bound`, `run` are class
loading, the levels' construction and the first save-able moment.

**DetExecutors.** A thread is the stack of calls it is in. A `drain` frame is
`runHere` in its loop, `queued` and `direct` frames are tasks of the trampoline
and of the background service. Tasks are arbitrary: submit, submit and join,
return, throw. A join of a future that is not complete blocks its frame, so the
properties would show a deadlock as an incomplete join at the top of a stack.
`TrampolineHolds` is three parts: one loop per thread, no nesting, no task that
joins its own thread. Deadlock is checked; `Quiescent` is the state where every task was submitted.

**BranchSearch.** A world is the sequence of ordinals of the reseeds it went
through, which is its history by construction of `Booted`; a record carries the
`schedule` the code computed instead, and `LineageFaithful` compares the two.
The steps are those of the file system: a wave boots, advances, copies a world
(`checkpoint`), writes `meta.json` (`WriteMeta`), appends a record at a time
(`record_wave`), deletes a loser at a time (`Prune`). `Stop` is a kill in any
of them, and may leave the last line of the lineage half-written; `Resume` and
`clone_for_resume` go on from the files alone. Ranks are nondeterministic; a
resume ranks what it inherits with its own `score.rank`, which is the one of the
records unless `NewObjective` (`Reranked`).
`ReseedsSurvive` and `BeamIsWhole` have two parts each. What one node goes
through between two of these steps is `NodeRun`.

**SaveCheckpoint.** The world is frozen at the gametime of the checkpoint, so
a part of it on disk is `old`, `half` written or of `now`. Switches state what
may go wrong: `WritesMayFail` (a barrier raises or gives up, which is only
logged, as is an `IOException` that leaves the sidecar where it was), `MayRunOut` (the save is slower than `save_world`'s timeout, which is
only a warning), `ServerMayDie` (the JVM is killed between any two steps; the
container has `restart: "no"`). `broken` and `late` remember that a warning was
given. A server that dies between its region writes and its sidecar leaves a
world newer than its RNG position: the sidecar does not move, so the wait of
`save_world` runs out and the checkpoint comes with a warning. A save that
outlasts the wait goes on under the copy; a second one is never started there,
since the world stands still and a run of the model is one checkpoint. After a
warning the model promises no more than whole data files and an end.

**RunSegments.** The main thread is a program counter (`main`), each replica has
a server (`time`, `fired`, `branched`) and, during a segment, a thread. `goto`
lands on the target, stops short of it or runs past it; a thread may die of an
rcon exception at any step, and a server whose thread gave up may go on
stepping (`TicksOn`). `faulty` remembers any of these. What the main thread
raises goes through `Teardown` and `write_done`. The boot retry leaves no state
behind and is part of `Boot`. Every server is taken to know `detmc reseed` and
the ticks of the schedule to be distinct; the runner warns about the first and
skips the second.

**MemGate.** Memory is counted in containers. `Check` is under the lock, the
settle time is the stage between `Check` and `Return`, and only then does the
caller start its containers (`Up`), which take their memory one by one
(`Allocate`). `unseen` counts the containers that were let through and not yet
resident at the last check that could miss any (`Missed`): the lock is dropped
after the settle time, before the container exists. A launcher may replace a
container, whether it has its memory or not, while it holds the rest of its wave
(`Retry`); it does so one at a time, where `branch.py` has a thread per node. A launcher never wants more than the empty host has (`HostAssumption`):
otherwise it waits for ever, by design.

**Detector** and **NodeRun**. The datapack's functions are operators on the
scoreboard they keep everything in (`Load`, `Check`, `Hit`, `PackTick`); a server
runs `Load` when the pack is loaded, which on a frozen boot is inside the first
tick that runs (`due`). `NodeRun` is one node after the other on a world that is
reduced to its gametime, the scoreboard, players, mobs, arena blocks, and the
stream as a key with the draws taken since. `at` walks through the calls of
`Replica.setup` (`SetupOrder`) or `Replica.resume` (`ResumeOrder`), each an
action, then through the stops of the segment; `Drop` is the node's second
chance from a clean directory. `goto` may give up on a stop; on the last one its
server may come back to its ticks after the last look at the flags (`Tick` while
`stopped`), so that what is saved is of a later gametime than the record says.
A parent may also be a checkpoint of an older version of the runner, in a world
set up with the scenario's thresholds (`Installed`): its pack disarms on load,
its scoreboard has those thresholds, or has lost them in a resume, or is lost
itself (`OldBoards`, `OldCheckpoints`), which `refresh_detector_pack` and
`ensure_detmc_loaded` are there for. `meant` and `seen` are what the scenario
asks for and when it first held, computed beside the scoreboard and never from
it. Siblings run at the same time in the code; they share nothing but the
checkpoint, so here one comes after the other. A replay leg is the same code
with a recorded target.

**TickWork** and **ServerTick**. A chunk comes in by a chain of tasks, the first
of which reads its entities; the queue of a level pops the lowest position of
the top priority. A read of entities is joined where it is asked for; one that
fails is logged and brings nothing (`Unreadable`). The fallback of
`IOWorkerMixin` for a read issued by an IO worker itself, "never seen from
vanilla", is left out. A tick saves at most `EagerCap` chunks of a level ahead of
time (20), the rest at the next; an autosave hands over every chunk that is in
and puts it off for `Resave` ticks (`saveAllChunks`), then waits for the writes or
gives up (`Autosave`). `Wait` polls until the clock starts a tick, at any point;
`StartTick` is the tick's body (unloads, eager saves, loads of its own, the
loading inbox); `EnterLoop`, `DrainLevel`, `DrainMain`, `DrainTurn` and `Barrier`
are the drain at its end, poll by poll and round by round, `TickEnd` the
autosave with its barrier. Vanilla's own countdown is in `StartTick`; after the
first tick it never runs out. Rcon commands arrive and writes land between any two of these.
`ideal` is the same world with every command and tick taking all of its chunk
work with it and every eager save landing at once; `AsIfAtomic` compares the
two. The order of births across levels is not compared: it is by level in the
drain.

**Patterns** and **MonteCarlo**. A column is as high as it has blocks. The same
shape is asked for in three ways: by `sim.py` of placed tops at one height
(`SimHits`), by `match_tops` of tops (`match_tops`), by the datapack of single
blocks, a solid one under air (`PackHits`). A pattern's anchor is one of its
required cells (`MonteCarloAssumption`): with another anchor the matcher and the
datapack differ, and no pattern of the repository has one. `MonteCarlo` lets
what may happen happen: odds and waiting times are left out, so walks and
teleports go wherever they could.

## What the runs check

| Run | Bounds | Shows |
|---|---|---|
| `det_rng` | 2 seeds, 2 launches, 1 draw, 2 entities, reads of the sidecar may fail | `StreamNamed`, `EntitySeedsFresh`, refinement of `DurableStream` (a life that cannot read its save starts its own stream, which is what the code chooses) |
| `executors` | 2 threads, 4 tasks | `TrampolineHolds`, refinement of `SerialExecutor` with liveness |
| `search` | 3 replicas, 3 generations, beam of 2, waves of 2, two ranks in generation 0, 3 failures, 1 resume | lineage, reseeds, parents and width, refinement of `Beam` |
| `save_checkpoint` | 3 copies (the code's number); slow, failing and late writes; a server that dies | the sidecar is last, a checkpoint is one moment, never torn, and is accepted or given up |
| `mem_gate` | 3 launchers, a host of 3 containers, one of them the reserve, waves of at most 2, 1 replacement each | grants fit the host but for what a check could not see; if it saw everything, everyone is answered |
| `segments` | 2 replicas, 3 ticks in segments of 2, reseeds at 1 and 3 | lock step with each reseed once at its boundary, what `DONE` with status 0 stands for, the run ends |
| `node_run` | 3 detectors (a `<` count against its baseline, a block, a block that requires it), counts 0 and 1, segments of 2 ticks with a stop at 1, 2 steps of a reload, 3 nodes | hits are true, siblings start alike at their reseed, every tick watched, lost to faults only, every node ends |
| `server_tick` | 3 chunks on 2 levels, chains of 1 and 2 tasks, 3 ticks, 2 commands out of 4, autosave every 2 ticks, 2 rounds, 2 polls, 1 eager save of a level a tick, one unreadable chunk, `ioBarrier` on and off | as if atomic, the autosave grid, what a reseed reaches, a tick leaves nothing and ends |
| `monte_carlo` | 3 by 3 columns, 4 loose blocks, roofed, a villager on two columns, a relaxed and a strict 2 by 2 shape on 2 levels, 2 traps formed | no pit, three sights of one shape, the score and the event, traps counted once |

Why the bounds suffice. The seed source needs two keys (the launch's and a
foreign one, or a branch that returns to the launch key) and two launches (one
that saves, one that restores). In the executors a task inside a direct call inside a queued task, and a task
queued behind it, take four; threads share nothing, two show that. The search
needs three replicas for a wave boundary and a loser, three generations for a
parent that is itself a child, and one interruption for every resume; three
failures are one more than end a search, ranks differ where losers are deleted
for the first time. The hazard of a second interruption is `stale_record`.
Three ticks in segments of two give a full and a cut segment, a reseed inside
one and one at the end; two replicas are a pair that can part. Two patient
launchers with waves of two do not fit beside each other where two containers
are left, which is what hold and wait needs, and a third has the timeout. A node needs a stop
before its last, a cause and a consequence, a sibling and a child; three nodes
give each after the other. A tick needs two chunks of one level for the order
of the queue, a third on another level for the order of the levels, and a chain
of two tasks to be cut in; an eager save of one chunk a tick leaves the other
chunk of its level for the next; three ticks of an autosave period of two pass a
multiple from either side. Nine columns hold one trap and its four walls. All
safety properties are also proved, without bounds.

Fairness. `DetRng`, `BranchSearch` and `MonteCarlo` have none: they promise no
progress. In `DetExecutors` a running thread executes its loop and tasks
terminate; submitting is not fair. In `SaveCheckpoint` the server, each writer
and the harness go on; failures are never forced, and a dead server takes no
step. In `RunSegments` the main thread goes on and every thread does, since each
of its waits is bounded in the code; no server has to go on. In `NodeRun` the
same holds of the runner's work (`Work`): `goto` gives up on a server that
stands still. In `ServerTick` the main thread does not rest inside a tick;
starting one is the clock's. The gate that a compose up goes through has no
timeout: that it answers is `EveryoneIsAnswered` of `MemGate`, where launchers
and JVMs go on, every wave ends, and `flock` starves nobody.

Mutants. Each property of a passing run is broken by at least one plausible
bug in the mapped code: a definition `X_what` beside `X`, which no
specification uses.

## What the documentation says and the code does not do

Three runs check a sentence of the repository and find it violated.

- `stale_record`: stopped twice in one generation, a search may resume with a
  node's first record and its second world. The child's recorded schedule is
  then not its history. `last_usable_generation` (`branch.py:146`) keeps every
  record whose checkpoint exists, and summaries, not resumes, drop superseded
  ones.
- `late_load`: the load tag that fires on the first tick of a resumed world "is
  now harmless" (`run.py:1381`) to `#armed`, but it still puts every threshold to
  `MAX_INT` (`run.py:579`), and `resume` writes none. After a resume an
  `entity_count` detector with `>=` is deaf and one with `<` fires at once. The
  run asks only about checkpoints that brought the thresholds of their setup:
  with a load tag that keeps them it passes.
  `HitsAreTrue` therefore speaks of thresholds in generation 0 only.
- `interleaving`: "no chunk task ever straddles" a tick boundary
  (`MinecraftServerMixin.java:126`) is true of the drain; but the wait between
  two ticks starts chunk work of its own when a command arrives, and the clock
  may end it between a chunk's request and its tasks, which then come after the
  body of the tick.

The models show the following too, without a run of their own.

*Search.* A partial last line is foreseen in `write_done` (`branch.py:1001`), but
`resume_nodes` raises on it (`branch.py:813`). After two stops in one generation
`len(ok) >= 2` (`branch.py:149`) can be true of one node recorded twice, so
`BeamIsWhole` is checked and proved with one resume. A resume may rank what it
inherits by another `score.rank` (`branch.py:839`), and then takes for a parent
what the stopped search had begun to delete: `prune` leaves a half-deleted
checkpoint whose `meta.json` is still there. With `NewObjective = TRUE` in
`MC_BranchSearch.cfg` TLC finds `LineageFaithful`, `BeamIsWhole` and
`ReseedsSurvive` violated after one resume, so the properties of a resumed
search are those of one that keeps its objective. "Last complete generation"
(`branch.py:1622`) is the last one with two usable records. "Every node ever
created wrote a record" (`branch.py:816`) is not so for an interrupted wave,
whose ordinals are handed out again: the reseeds in the file still never collide
and the lost generation is repeated with the same ones (`ReseedsSurvive`).

*Runner.* `DONE` "covers the crash path too" (`run.py:2364`), except a first
`compose up` that fails and a `compose down` that times out (`run.py:2216`,
`2288`), which is why `ReportIsComplete` speaks of a run that has one. Reseeds
are issued at "the same place every replica issues them" (`run.py:2306`) only by
replicas that reach it; one that stalls is reseeded where it is, with a warning
(`run.py:1569`), and counted as reseeded even when the server refused. `goto`
gives up after some ten seconds without a tick; before the first tick of a
resumed segment the flags it then reads are the parent's (`HitsAreTrue` excepts
such a node). A server that ticks on after that is saved at a gametime its
record does not have, and `CheckGametime` fails its children. `step_until_loaded`
does not look at what its last step brought.

*Memory gate.* The reserve "is never spent by us", and "two launchers cannot both
pass on the same free megabytes" (`memgate.py:14`), but the settle time passes
before the caller's container exists (`memgate.py:99`), so they can, and then the
reserve is spent. By how much is `GrantsFitTheHost`: by no more than what was on
the way at the last check that could miss any. Two patient launchers that were
granted the same memory may then hold their waves and wait for each other's for
ever, which is why `EveryoneIsAnswered` excepts that case.

*Server.* The drain is "capped" (`MinecraftServerMixin.java:128`), but its inner
`while (pollTask())` is not counted, so with `syncTasks` the cap is never what
ends it. The IO barrier "pins the unload to the tick that issued the save": it
is `processUnloads` of the next tick that takes it. `/detmc reseed` does not
reach entities that are still in a loading inbox, nor the streams of
`ShufflingListMixin`, `RaidMixin`, `WanderingTraderSpawnerMixin` and
`MinecraftServer.random`. `ChunkTaskPriorityQueueMixin` calls insertion order
"vanilla order" of phase 7; the switch that selects it is off by default.

*Checkpoint.* A server that dies in a save is noticed by nobody but the wait that
runs out: `save_world` warns and the world on disk is checkpointed as it is.

*Patterns.* `entity_enclosed` with `levels: [0]` is called montecarlo's trap
"cell for cell" (`run.py:395-401`); it asks for walls that are not air, not for
placed ones that end there, so every trap is found and more than traps are
(`SimAndPackAgree` states the one direction). `trap2_close` of `sim.py` is
never counted up.

*Prefilter*, read and not modelled: its README calls the closest hit of nine
probes a lower bound on the nearest (`prefilter/README.md:136`) where it is an
upper one; `spawn_biome_radius` asks for every
point of a grid in `seedscan.c` and for the nearest allowed biome in the `locate`
backend (`prefilter.py:354-361`); `within: 0` is no limit in one and a distance of
zero in the other; and a boot that times out leaves its server up
(`prefilter.py:346`).

## What is proved

Every theorem holds for every value of the constants that the named assumptions
allow; the runs show the same formulas on small instances. Each argument has the
same outline: an inductive invariant `IInv`, `Init => IInv`, one step per action
for `IInv /\ [Next]_vars => IInv'`, and the property from `IInv`. What follows
says why the properties alone are not inductive, which is what the other parts
of `IInv` are.

**DetRngProofs** (`SeedAssumption`: any set of seeds, any exclusive-or that
stays in it, any bound): `TypeCorrect`; `StreamIsNamed`, the live stream is the
one its labels and its launch name; `EntitySeedsAreFresh`, no entity seed is
issued twice within a life; `SeedSourceIsDurable`, `DetRng` implements
`DurableStream`. A restart adopts whatever a file holds, so `StreamNamed` needs
it of every adoptable file (`FilesInv`); a file is written in steps from a
snapshot, so it needs it of the snapshot while a save is under way, and that the
temporary file holds exactly the snapshot when it is moved (`SaverInv`); a crash
or a launch resets the history, so nothing may have been handed out before the
levels exist (`StartupInv`). The refinement maps each action to a step of
`DurableStream` or to a stutter: `persistMove` is the step that makes a save
durable, every other file operation stutters.

**DetExecutorsProofs** (`NoneAssumption`; any threads and tasks, finitely many
or not): `TypeCorrect`; `Trampoline`, one loop per thread, no nesting, nobody
waits for its own thread; `RunsSerially`, the safety half of the refinement: it
starts as `SerialExecutor` and every step is one of its steps or a stutter.
`IInv` describes a thread's stack. The thread's own code is at the bottom, a
loop has exactly the task it runs above it and occurs once (`Shape`); a frame
joins what is done or the direct call right above it (`Joins`), which is why
nobody waits for a queued task of its own; the flag is up exactly while a loop
is on the stack and a queue without a loop is empty (`Flag`), which is why a
nested submission is queued and none is stranded.

**BranchSearchProofs** (`ArgumentAssumption`; any replicas, generations, beam,
children, waves, ranks and failures). For any number of kills and resumes:
`TypeCorrect`; `ReseedsNeverCollide`, no two records, and no record and running
node, share a reseed. For a search that is resumed at most once, and with the objective it began with, which
is as far as they go (`stale_record` is the second resume): `RecordsAreFaithful`, a good
record has the history of its world; `TheBeamStaysWhole`, the worlds that are
branched from are on disk as they were saved and no generation thins out;
`ReseedsSurviveAResume`, what was lost without a record is started again as it
was; `TheBeamIsCarried`, `BranchSearch` implements `Beam`: `Select` and a resume
replace the beam or keep it, every other step is a stutter.

The part that holds in every life of a search (`Shape`, `InMemory`, `Family`,
`Numbers`) says that a schedule has one reseed per generation, the node's own
last, and that the beam has the ordinals right after all that are recorded
(`Given`); an ordinal read back is the greatest that was recorded, which is how
reseeds stay apart. In the first life and after the first resume the worlds in
memory are those on disk (`Faithful`). What a resume will find has to be known
while the first life goes on: every node is recorded once, in order
(`FirstLife`); as long as the generation that runs has fewer than two usable
records, the last usable generation is the one before and what a resume would
keep are the parents, from then on it is the generation itself (`OnFile`), and
deleting losers changes neither. So a kill leaves files from which the lost
generation, or the next one, follows (`LeftBehind`), and after the resume the
search carries that through (`SecondLife`). The operators need lemmas of their
own: a sort by a strict total order is a bijection and does not depend on the
places its elements had (`SortedIs`, `SortedByPlace`), leaving out elements that
are not kept does not change what is kept (`KeptSame`), and a recursion over a
list is the function its equations say (`Recursion`), so that the children
fill the width the search was launched with (`SlotsFill`).

**SaveAndGateProofs**, the save (`SwitchAssumption`, `AttemptsAssumption`; whatever
fails): `SaveTypeCorrect`; `OneMoment`, a checkpoint accepted without a warning is
one moment of the world, and none is accepted with truncated data files;
`SidecarLast`, the sidecar moves after every write of its save. The last two assume `SaveBarrier`,
the default. A part half written has a writer, and what a barrier let through is
on disk (`WritesAreQueued`); one `save-all` is one save, and nothing is left of
it when the harness goes on (`OneSaveAtATime`); so from the sidecar on there is
one world to read and the copy holds nothing else (`CopiesTheSettled`). A sidecar
that could not be written leaves the wait to run out, with its warning.

**SaveAndGateProofs**, the gate (`HostAssumption`): `TypeCorrect`; `GrantsFit`, what is
granted exceeds the host less its reserve by no more than a check could not see,
with nothing assumed of how fast containers boot.
Memory is a sum over launchers, counted as a set of containers: the lemmas say
how the count changes with one launcher. The invariant adds that only the holder
of the lock is between its check and its return (`LockIsHeld`), that a wave
starts from nothing and a launcher that has one asks for the one container it
replaces (`AskIsModest`), that nobody has more containers resident than started
(`OnlyTheStarted`), and that who asks while its other containers still boot leaves room for what it
asks for, or hides no more than another check has missed already (`RoomIsLeft`):
the guard of `Check` does not see those containers, so this is what makes the
answer right.

**RunSegmentsProofs** (`RunAssumption`; any schedule of increasing ticks):
`TypeCorrect`; `StaysInStep`, the replicas that met no fault take the same
reseeds at the same ticks and are never further apart than a segment;
`DoneMeansComplete`, what
a `DONE` with status 0 stands for. Lock step is seen between segments only, so
the invariant follows a replica through its thread: where it is before and after
the `goto` (`OnTarget`), that boundaries are multiples of the interval or the
end (`OnGrid`), that its reseeds are a prefix of the schedule (`Prefix`), that a
replica that stopped has no thread (`DoneRests`); for the report, that the
runner's hits are the server's once a thread is through (`HitsAreKept`) and that
records are one per replica and final (`Records`).

**ServerTickProofs** (`WorkAssumption`, `TickAssumption`; any finite set of
chunks, any levels, commands, loading times): `TypeCorrect`; `WorksAsIfAtomic`,
each level goes through what it would if commands and ticks took all their chunk
work with them at once, unless a tick began on unfinished work; `ReseedReaches`, after `/detmc reseed` every level and
loaded entity draws from the new key; `AutosavesKeepTheGrid`, autosaves come at
every multiple of the period in gametime and at each once; `TickEndsQuiet`, a
tick leaves no chunk task and, after an autosave or with the IO barrier, no write
unless a barrier gave up.
`Typed` says that whatever waits, comes in or lives in a level is of that level;
`Keyed` has the property of the inboxes too, those a reseed missed excepted,
since what is in an inbox is alive next; `Drained` says what the drain has
established when it goes on; `Clock` ties the saves made so far to the last
gametime that was looked at, and keeps vanilla's countdown from running out,
which is where the assumption that `Integer.MAX_VALUE` is more than 1 comes in
(that it is no less than the autosave period is what an `int` is; `TypeOK`
needs it).
`AsIfAtomic` speaks of quiet queues only and is far from inductive. What holds
at every step (`Atomic`) is that the chunk work the world still has to do adds
up to the world next to it: finishing `world` gives `ideal` (`Linked`). A chunk
task leaves that sum as it is (`RunTaskFinishes`), because the task that is
popped is the first of the order in which all of them finish; quiet queues add
nothing (`QuietFinishes`), so a command or a tick that begins on them begins in
one and the same world twice (`LinkedDo`, `LinkedBody`). For that a world must
be in order (`Placed`): a chunk has a task as long as it is coming and one only,
is in the inbox once and only after its first task, and its unload waits once,
on the IO workers or in the queue of unloads, which are one sequence that writes
only move along (`Waiting`). Chunks are popped, written and saved in the order of
a finite set; that such an order exists and is one is proved first
(`EnumerationExists`, `EnumerationIsUnique`).

**NodeRunProofs** (`DetectorAssumption`, `NodeAssumption`, `NoneAssumption`; any
scenario, thresholds, stops, checkpoints, number of nodes and retries):
`TypeCorrect`; `ReportsTheSegment`, a node that is through reports what
happened in its segment, when, and nothing else, and all of it unless its server
ticked on after the last look; `StartsRight`, siblings start alike and a
resumed segment starts at the gametime of its checkpoint on its own reseed;
`LosesToFaultsOnly`, what loses a node is outside the runner; `WatchesEveryTick`,
no tick passes unwatched or on an empty server (an action property). The invariant has the pieces of a node's way: where the
calls of setup and resume have got to and what they have done by then (`Path`,
`Setting`, `Resuming`), that the starts of siblings are the checkpoint mended in
one way (`Alike`), that a segment is watched from its first tick and its
scoreboard agrees with the scenario once the load tag has run (`Segments`), and
that what was read of it happened (`Reported`). The detectors are evaluated in order
and one may read the result of an earlier one, in the datapack and in the
observer alike: `Recursion` turns both recursive functions into their equations
and `OneLine`, `EveryLine` show by a smallest counterexample that line by line
they agree. The proof found what TLC's scenarios did not have: a chain of
`requires` passes a threshold that a reload has lost on to every detector behind
it, so `Thresholded` follows the chain (`run.py:585`).

**MonteCarloProofs** (`SlabAssumption`, `MonteCarloAssumption`; any slab, loose
blocks, base, patterns): `TypeCorrect`; `PitsNever`, the ground stays whole;
`SightsAgree`, the datapack sees the shapes `sim.py` counts; `ScoreIsTheEvent`,
`match_tops` scores full marks exactly where the datapack fires, and the profile
of a level agrees with it; `CountsOnce`, an action property. Whoever stands on
whole ground stands at least `BASE` high, so what is in reach is a placed block
(`ReachesPlacedOnly`): that is the step a take needs. Where the ground is whole
a block at a scanned level is the top of its column and placed exactly when the
pack sees one under air; from that, lemmas about a cell, a window, the sets of
hits. `CountsOnce` needs that the counters and the traps that stand unseen are
together at most the traps formed (`Counted`). `MonteCarloAssumption` asks that a
pattern does not want more of its `any_of` cells than it has. The code does not
check it; with `min_any` above zero and no such cells the datapack drops the
condition (`if pattern.any_of`) and fires where `match_tops` never does. No
pattern of the repository is like that.

Only model-checked:

- all liveness (`SerialExecutor`'s, that a run, a node, a checkpoint and a tick
  end, that everyone at the gate is answered): fairness and ENABLED are out of
  the prover's reach.

Every safety property of a passing run is proved.

## What is not modelled

The mixing functions of the stream (pure), trace and digest output, logging,
camera, benchmarks, reports, YAML parsing, world generation in `seedscan.c`.
Frames, manifests and summaries of `branch.py` are outside `BranchSearch`: the
search does not read them. Of replay, the driver that walks a lineage leg by leg
and compares files is sequential and left out; a leg is `NodeRun`. A gametime
that misses its target (`goto` only warns) is outside `SaveCheckpoint`;
`RunSegments` and `NodeRun` have it. Snapshots of `run.py` are outside
`RunSegments`. In `Detector` what a check body looks for is its count:
`check_every_ticks` above 1 and custom datapacks are left out; markers
(`run_survey`) count as blocks. In `ServerTick` vanilla's chunk pipeline is
external: a chain of tasks per chunk, tickets as `forceload`; switches of
`DetExecutors` are at their defaults except the IO barrier. In `Patterns` the
material counts of `entity_enclosed` are left out, in `MonteCarlo` odds, waiting
times, and the masks `ring3`, `trap2` and the pits. The ordering and seeding
mixins that are one assignment each are not modelled, nor are the streams no
reseed reaches. The prefilter keeps no state between candidates: it is a filter
over third-party world generation, read and not modelled.

## Plan

Of the system: the driver of `replay` with its comparison, the mask of `ring3`
with its hole, tickets other than `forceload` in `ServerTick`, and the candidate
loop of the prefilter.
