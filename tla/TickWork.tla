------------------------------ MODULE TickWork ------------------------------
(***************************************************************************)
(* What the main thread of the server does with chunks, as functions of    *)
(* its world: one chunk task, one command, the body of one tick.  The      *)
(* detmc mixins fix the order inside each; when each runs is ServerTick's. *)
(*                                                                         *)
(* A chunk comes in by a chain of tasks on the queue of its level.  Every  *)
(* chunk holds one entity, read by the first of them, and every chunk that *)
(* is in has changed since it was saved.  The switches of DetExecutors are *)
(* at their defaults.                                                      *)
(***************************************************************************)
EXTENDS Integers, FiniteSets, SequencesExt

CONSTANTS
  Levels,         \* the levels, in the order of getAllLevels
  Chunks,         \* packed positions
  LevelOf,        \* chunk -> its level
  Priority,       \* chunk -> its priority level, 0 first
  Steps,          \* chunk -> tasks it takes to come in
  Unreadable,     \* chunks whose entities the region file does not give
  Resave,         \* ticks between two eager saves of a chunk (200)
  EagerCap        \* eager saves of a level in one tick (20)

LevelSet == Range(Levels)

ASSUME WorkAssumption ==
  /\ Chunks \subseteq Nat \ {0} /\ IsFiniteSet(Chunks) /\ LevelOf \in [Chunks -> LevelSet]
  /\ Priority \in [Chunks -> Nat] /\ Steps \in [Chunks -> Nat \ {0}]

Of(l)    == {c \in Chunks : LevelOf[c] = l}

(* Numbers from the lowest up, and chunks in the order of their tasks.     *)
InOrder(S) ==
  CHOOSE s \in [1..Cardinality(S) -> S] : \A i, j \in DOMAIN s : i < j => s[i] < s[j]

Before(c, d) == Priority[c] < Priority[d] \/ (Priority[c] = Priority[d] /\ c < d)
AsPopped(S) ==
  CHOOSE s \in [1..Cardinality(S) -> S] : \A i, j \in DOMAIN s : i < j => Before(s[i], s[j])

(* The writes in s that an unload waits for.                               *)
Unloads(s) ==
  LET at == InOrder({i \in DOMAIN s : s[i][2]}) IN [k \in DOMAIN at |-> s[at[k]]]

Empty ==
  [q      |-> [l \in LevelSet |-> {}],          \* chunk tasks: <<chunk, step>>
   at     |-> [c \in Chunks |-> "out"],
   writes |-> [l \in LevelSet |-> <<>>],        \* on the IO workers: <<chunk, its unload?>>
   unload |-> [l \in LevelSet |-> <<>>],        \* unloadQueue
   inbox  |-> [l \in LevelSet |-> <<>>],        \* loadingInbox
   live   |-> [l \in LevelSet |-> {}],          \* whose entities are in the world
   saved  |-> [c \in Chunks |-> 0],             \* when it is due again
   key    |-> [c \in Chunks |-> 0],             \* what its entity's stream is keyed by
   level  |-> [l \in LevelSet |-> 0],           \* and the level's
   master |-> 0,
   log    |-> [l \in LevelSet |-> <<>>],        \* history: what happened in each level
   born   |-> <<>>]                             \* history: the entities, in order

Log(w, l, what, c) == [w EXCEPT !.log[l] = Append(@, <<what, c>>)]

-----------------------------------------------------------------------------
(* Chunk tasks.                                                            *)

Busy(w, l) == w.q[l] # {}
Quiet(w)   == \A l \in LevelSet : ~Busy(w, l)

(* ChunkTaskPriorityQueue.pop.  The lowest position of the top priority.   *)
pop(w, l) ==
  LET top == {t \in w.q[l] : \A u \in w.q[l] : Priority[t[1]] <= Priority[u[1]]}
  IN CHOOSE t \in top : \A u \in top : t[1] <= u[1]

(* The region read is joined and its entities are built at the request; a  *)
(* read that fails is logged, and nothing comes of it.                     *)
LoadEntities(w, l, c) ==
  IF c \in Unreadable THEN w
  ELSE [w EXCEPT !.inbox[l] = Append(@, c), !.key[c] = w.master, !.born = Append(@, c)]

(* One task of a chunk: the first reads, the last completes it, every      *)
(* other submits its successor.                                            *)
RunTask(w, l) ==
  LET t == pop(w, l)  c == t[1]  k == t[2]
      read == IF k = 1 THEN LoadEntities(w, l, c) ELSE w
  IN IF k = Steps[c]
     THEN Log([read EXCEPT !.q[l] = @ \ {t}, !.at[c] = "in"], l, "in", c)
     ELSE [read EXCEPT !.q[l] = (@ \ {t}) \cup {<<c, k + 1>>}]

(* Mutant: of a chunk that is in, or coming.                               *)
Request_again(w, c) ==
  [w EXCEPT !.at[c] = "coming", !.q[LevelOf[c]] = @ \cup {<<c, 1>>}]

Request(w, c) ==
  IF w.at[c] = "out"
  THEN [w EXCEPT !.at[c] = "coming", !.q[LevelOf[c]] = @ \cup {<<c, 1>>}]
  ELSE w

(* Whose entities are still to be read, and can be.                        *)
ToRead(w, l) == {c \in Of(l) \ Unreadable : <<c, 1>> \in w.q[l]}

(* All of it, chunk after chunk: what the tasks add up to.                 *)
Finish(w) ==
  LET all  == [l \in LevelSet |-> AsPopped({t[1] : t \in w.q[l]})]
      read == [l \in LevelSet |-> AsPopped(ToRead(w, l))]
  IN [w EXCEPT
        !.q     = [l \in LevelSet |-> {}],
        !.at    = [c \in Chunks |-> IF @[c] = "coming" THEN "in" ELSE @[c]],
        !.inbox = [l \in LevelSet |-> @[l] \o read[l]],
        !.key   = [c \in Chunks |-> IF c \in ToRead(w, LevelOf[c]) THEN w.master ELSE @[c]],
        !.log   = [l \in LevelSet |-> @[l] \o [i \in DOMAIN all[l] |-> <<"in", all[l][i]>>]],
        !.born  = @ \o FlattenSeq([i \in DOMAIN Levels |-> read[Levels[i]]])]

-----------------------------------------------------------------------------
(* Commands.                                                               *)

(* Mutant: only the first level and its entities get the new key.          *)
reseed_overworld(w) ==
  LET k == w.master + 1 IN
  [w EXCEPT !.master = k,
            !.level = [@ EXCEPT ![Levels[1]] = k],
            !.key = [c \in Chunks |-> IF c \in w.live[Levels[1]] THEN k ELSE @[c]]]

(* DetCommands.reseed: the levels, and the entities that are in the world. *)
reseed(w) ==
  LET k == w.master + 1 IN
  [w EXCEPT !.master = k,
            !.level = [l \in LevelSet |-> k],
            !.key = [c \in Chunks |-> IF c \in w.live[LevelOf[c]] THEN k ELSE @[c]]]

(* forceload add, forceload remove, detmc reseed.                          *)
Do(w, cmd) ==
  CASE cmd[1] = "load"   -> Request(Log(w, LevelOf[cmd[2]], "load", cmd[2]), cmd[2])
    [] cmd[1] = "drop"   -> IF w.at[cmd[2]] = "in"
                            THEN [w EXCEPT !.at[cmd[2]] = "leaving"] ELSE w
    [] cmd[1] = "reseed" -> reseed(w)

-----------------------------------------------------------------------------
(* The body of a tick, level after level.                                  *)

(* scheduleUnload: the unload waits for the write of the chunk.            *)
Leaving(w, l) == {c \in Of(l) : w.at[c] = "leaving"}

(* Writes of the chunks in S for the IO worker.                            *)
Handed(S, unload) == [i \in 1..Cardinality(S) |-> <<InOrder(S)[i], unload>>]

Loaded(w, l) == {c \in Of(l) : w.at[c] = "in"}

(* Mutant: no save while a write is in flight.                             *)
SaveDue_active(w, l, now) ==
  LET due == {c \in Loaded(w, l) : w.saved[c] <= now /\ w.writes[l] = <<>>}
  IN {c \in due : Cardinality({d \in due : d < c}) < EagerCap}

(* saveChunksEagerly on the world's clock, whatever is in flight: the      *)
(* first of what is due, the rest next tick.                               *)
SaveDue(w, l, now) ==
  LET due == {c \in Loaded(w, l) : w.saved[c] <= now}
  IN {c \in due : Cardinality({d \in due : d < c}) < EagerCap}

(* saveAllChunks of the autosave: every chunk, due or not.                 *)
saveAllChunks(w, now) ==
  [w EXCEPT
     !.writes = [l \in LevelSet |-> @[l] \o Handed(Loaded(w, l), FALSE)],
     !.saved  = [c \in Chunks |-> IF c \in Loaded(w, LevelOf[c]) THEN now + Resave ELSE @[c]]]

(* processUnloads takes the whole queue, whatever the clock says; then the *)
(* eager saves, what the tick asks for, and processPendingLoads with the   *)
(* inbox in the order it filled in.                                        *)
Body(w, asked, now) ==
  LET gone == UNION {Range(w.unload[l]) : l \in LevelSet}
      new  == {c \in asked : w.at[c] = "out"}
      due  == [l \in LevelSet |-> SaveDue(w, l, now)]
      out  == [l \in LevelSet |-> Leaving(w, l)]
  IN [w EXCEPT
        !.at     = [c \in Chunks |-> CASE c \in out[LevelOf[c]] -> "saving"
                                       [] c \in gone -> "out" [] c \in new -> "coming"
                                       [] OTHER -> @[c]],
        !.q      = [l \in LevelSet |-> @[l] \cup {<<c, 1>> : c \in new \cap Of(l)}],
        !.writes = [l \in LevelSet |-> @[l] \o Handed(out[l], TRUE) \o Handed(due[l], FALSE)],
        !.unload = [l \in LevelSet |-> <<>>],
        !.inbox  = [l \in LevelSet |-> <<>>],
        !.live   = [l \in LevelSet |-> (@[l] \ gone) \cup Range(w.inbox[l])],
        !.saved  = [c \in Chunks |-> IF c \in due[LevelOf[c]] THEN now + Resave ELSE @[c]],
        !.log    = [l \in LevelSet |->
                      Append(@[l], <<"tick", out[l], w.unload[l], due[l], w.inbox[l]>>)]]

(* A write lands; an unload that waits for it may go ahead.                *)
Land(w, l) ==
  IF w.writes[l] = <<>> THEN w
  ELSE [w EXCEPT !.writes[l] = Tail(@),
                 !.unload[l] = IF Head(w.writes[l])[2] THEN Append(@, Head(w.writes[l])[1]) ELSE @]

LandAllOf(w, S) ==
  [w EXCEPT !.writes = [l \in LevelSet |-> IF l \in S THEN <<>> ELSE @[l]],
            !.unload = [l \in LevelSet |->
                          IF l \in S THEN @[l] \o [i \in DOMAIN Unloads(w.writes[l]) |->
                                                     Unloads(w.writes[l])[i][1]]
                          ELSE @[l]]]

(* The eager saves are on disk, the unloads wait.                          *)
Fast(w) == [w EXCEPT !.writes = [l \in LevelSet |-> Unloads(@[l])]]

Forget(w) == [w EXCEPT !.log = [l \in LevelSet |-> <<>>], !.born = <<>>]
=============================================================================
