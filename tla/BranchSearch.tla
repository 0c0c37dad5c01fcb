---------------------------- MODULE BranchSearch ----------------------------
(***************************************************************************)
(* The beam search of runner/branch.py over saved worlds: the generations  *)
(* and their waves, what a run directory holds (lineage.jsonl and the      *)
(* checkpoints), and the search that continues it after a crash.           *)
(*                                                                         *)
(* A world is its history: the base seed it was launched with, then one    *)
(* reseed per resume point.  A reseed is child_seed(ordinal), which is     *)
(* injective, so the ordinal stands for it.  A recorded schedule is such a *)
(* sequence too; that it is the history of the world it is recorded for is *)
(* what has to be shown.  Gametimes are left out: all worlds of one        *)
(* generation are at the same one, which is why the gametime a resume      *)
(* checks cannot tell two of them apart.                                   *)
(***************************************************************************)
EXTENDS Integers, SequencesExt, Functions

CONSTANTS
  Replicas, Generations, KeepTop, Children, Concurrency,   \* the arguments
  Ranks,          \* per generation, the values of score.rank
  NewObjective,   \* a resumed search may be given another score.rank
  None,           \* no parent
  MaxResumes,     \* bound: how often the run directory is resumed
  MaxFailures     \* bound: how many nodes fail, as far as anyone remembers

ASSUME ArgumentAssumption ==
  /\ {Replicas, Generations, Children, Concurrency} \subseteq Nat \ {0}
  /\ KeepTop \in Nat /\ KeepTop >= 2
  /\ Ranks \in [0..(Generations - 1) -> SUBSET Int]
  /\ None \notin Nat \X Nat /\ MaxResumes \in Nat /\ NewObjective \in BOOLEAN

VARIABLES
  phase,          \* what the search process is at
  gen,            \* the generation it runs, or has just ranked
  beam,           \* the nodes of that generation
  width,          \* nodes per wave
  status,         \* how far each node of the beam is
  recorded,       \* how many of them are in the lineage
  ranked,         \* the survivors, best first, while a beam is chosen
  ordinal,        \* the counter of next_ordinal
  lineage,        \* lineage.jsonl, a record per line
  torn,           \* its last line is only partly written
  checkpoints,    \* the directory: node id -> what is under it
  resumes,
  lost            \* history: what the search that last ended was at

memory == <<gen, beam, width, status, recorded, ranked, ordinal>>
files  == <<lineage, torn, checkpoints>>
vars   == <<phase, memory, files, resumes, lost>>

Id        == Nat \X Nat                \* <<g, n>> is node g<g>n<n>
Half      == <<0>>                     \* a world directory with parts missing
BeamWidth == LET fan == KeepTop * Children
             IN IF fan > Replicas THEN fan ELSE Replicas

-----------------------------------------------------------------------------
(* Ranking and choosing, on lists of [id, rank, schedule].  A list with    *)
(* some of its elements left out keeps the others at their places.  The    *)
(* code compares ids as strings, which is by number as long as the numbers *)
(* have one digit, as the fewer than ten nodes of a generation here do.    *)

Before(a, b) == \/ a.rank > b.rank
                \/ a.rank = b.rank /\ a.id[2] < b.id[2]

(* sorted(..., key=lambda n: (-n.rank, n.id)), a stable sort.              *)
Sorted(s) ==
  LET Ahead(i) == {j \in DOMAIN s : Before(s[j], s[i]) \/ (~Before(s[i], s[j]) /\ j < i)}
  IN [k \in 1..Cardinality(DOMAIN s) |->
        s[CHOOSE i \in DOMAIN s : Cardinality(Ahead(i)) = k - 1]]

Kept(s)   == SubSeq(s, 1, IF Len(s) < KeepTop THEN Len(s) ELSE KeepTop)
Pruned_oneTooMany(s) == SubSeq(s, KeepTop, Len(s))     \* mutant: one too early
Pruned(s) == SubSeq(s, KeepTop + 1, Len(s))
Ids(s)    == {s[k].id : k \in DOMAIN s}

HasCheckpoint(id) == id \in DOMAIN checkpoints /\ checkpoints[id].meta

(* The records of generation g that a search can go on from, by line.      *)
Usable(g) == {k \in DOMAIN lineage : /\ lineage[k].id[1] = g /\ lineage[k].ok
                                     /\ HasCheckpoint(lineage[k].id)}

(* Mutant: one survivor is enough to go on from.                           *)
UsableGenerations_ofOne == {g \in 0..(Generations - 1) : Cardinality(Usable(g)) >= 1}

UsableGenerations == {g \in 0..(Generations - 1) : Cardinality(Usable(g)) >= 2}

last_usable_generation == Max(UsableGenerations)

-----------------------------------------------------------------------------
(* A new generation.                                                       *)

NotStarted == [at |-> "todo", rank |-> 0, world |-> Half]

initial_nodes ==
  [i \in 1..Replicas |->
     [id |-> <<0, i - 1>>, parent |-> None, ordinal |-> i, schedule |-> <<i>>]]

(* How many children each kept parent gets: M, and the best ones what is   *)
(* missing to the width the search was launched with.                      *)
ChildCount(keep) ==
  LET spare == BeamWidth - Children * Cardinality(Ids(keep))
      Extra(id) == {s \in 0..(spare - 1) : keep[(s % Len(keep)) + 1].id = id}
  IN [id \in Ids(keep) |-> Children + Cardinality(Extra(id))]

(* Mutant: the children are named after their parents' generation.         *)
Child_sameGeneration(p, g, n, o) == [id |-> <<g, n>>, parent |-> p.id, ordinal |-> o,
                                     schedule |-> Append(p.schedule, o)]

Child(p, g, n, o) == [id |-> <<g + 1, n>>, parent |-> p.id, ordinal |-> o,
                      schedule |-> Append(p.schedule, o)]

(* The parents of the children of the first k kept nodes, in the order the *)
(* children are created in.                                                *)
Slots(keep) ==
  LET count == ChildCount(keep)
      slots[k \in 0..Len(keep)] ==
        IF k = 0 THEN <<>> ELSE slots[k - 1] \o [c \in 1..count[keep[k].id] |-> keep[k]]
  IN slots

(* The children of generation g, with the ordinals after o.                *)
spawn_children(keep, g, o) ==
  LET slots == Slots(keep)[Len(keep)]
  IN [n \in DOMAIN slots |-> Child(slots[n], g, n - 1, o + n)]

StartGeneration(g, nodes) ==
  /\ phase' = "wave"
  /\ gen' = g
  /\ beam' = nodes
  /\ width' \in 1..Concurrency          \* as many as the host has memory for
  /\ status' = [i \in DOMAIN nodes |-> NotStarted]
  /\ recorded' = 0
  /\ ranked' = <<>>
  /\ ordinal' = ordinal + Len(nodes)

Init ==
  /\ phase = "start"
  /\ gen = 0 /\ beam = <<>> /\ width = 1 /\ status = <<>> /\ recorded = 0
  /\ ranked = <<>> /\ ordinal = 0
  /\ lineage = <<>> /\ torn = FALSE /\ checkpoints = <<>>
  /\ resumes = 0 /\ lost = [nodes |-> <<>>, parents |-> {}]

search ==
  /\ phase = "start"
  /\ StartGeneration(0, initial_nodes)
  /\ UNCHANGED <<files, resumes, lost>>

-----------------------------------------------------------------------------
(* A wave: its nodes are prepared one after the other, then tick in        *)
(* parallel, and are recorded when all of them are through.                *)

Wave == {i \in DOMAIN beam : (i - 1) \div width = recorded \div width}

Reach(i, at, rank, world) ==
  status' = [status EXCEPT ![i] = [at |-> at, rank |-> rank, world |-> world]]

(* Mutant: the copy is resumed without its reseed.                         *)
Booted_sameBranch(i) ==
  LET nd == beam[i]
  IN IF nd.parent = None THEN nd.schedule ELSE checkpoints[nd.parent].world

(* The world a node boots: its parent's, with its own reseed on top.  What *)
(* grows out of a half world is no better.                                 *)
Booted(i) ==
  LET nd == beam[i]
  IN IF nd.parent = None THEN nd.schedule
     ELSE IF checkpoints[nd.parent].world = Half THEN Half
     ELSE Append(checkpoints[nd.parent].world, nd.ordinal)

(* prepare_dir needs the parent's world, and the resume its meta.json.     *)
CanBoot(i) == beam[i].parent = None \/ HasCheckpoint(beam[i].parent)

(* The bound on failures; a node without a parent to boot fails anyway.    *)
MayFail ==
  Cardinality({k \in DOMAIN lineage : ~lineage[k].ok})
    + Cardinality({j \in DOMAIN status : j > recorded /\ status[j].at = "error"}) < MaxFailures

(* prepare_dir, the boot, setup or resume, and the one retry.              *)
Prepare(i) ==
  /\ phase = "wave" /\ i \in Wave
  /\ status[i].at = "todo"
  /\ \A j \in Wave : j < i => status[j].at # "todo"
  /\ \/ (~CanBoot(i) \/ MayFail) /\ Reach(i, "error", 0, Half)
     \/ CanBoot(i) /\ Reach(i, "ready", 0, Booted(i))
  /\ UNCHANGED <<phase, gen, beam, width, recorded, ranked, ordinal, files, resumes, lost>>

WaveReady == \A i \in Wave : status[i].at # "todo"

(* The segment is ticked and scored; then checkpoint() empties the node's  *)
(* directory, which may hold a world of an earlier attempt, and copies.    *)
checkpoint(i) ==
  /\ phase = "wave" /\ i \in Wave /\ WaveReady
  /\ status[i].at = "ready"
  /\ \E r \in Ranks[gen] : Reach(i, "copying", r, status[i].world)
  /\ \E meta \in {FALSE, HasCheckpoint(beam[i].id)} :
       checkpoints' = [id \in DOMAIN checkpoints \cup {beam[i].id} |->
                         IF id = beam[i].id THEN [meta |-> meta, world |-> Half]
                         ELSE checkpoints[id]]
  /\ UNCHANGED <<phase, gen, beam, width, recorded, ranked, ordinal,
                 lineage, torn, resumes, lost>>

(* The copy is whole, and meta.json is written last.                       *)
WriteMeta(i) ==
  /\ phase = "wave" /\ i \in Wave
  /\ status[i].at = "copying"
  /\ checkpoints' = [checkpoints EXCEPT
                       ![beam[i].id] = [meta |-> TRUE, world |-> status[i].world]]
  /\ Reach(i, "ok", status[i].rank, status[i].world)
  /\ UNCHANGED <<phase, gen, beam, width, recorded, ranked, ordinal,
                 lineage, torn, resumes, lost>>

(* Anything that raises while the node ticks, saves or is copied drops it. *)
Fail(i) ==
  /\ phase = "wave" /\ i \in Wave /\ WaveReady
  /\ status[i].at \in {"ready", "copying"} /\ MayFail
  /\ Reach(i, "error", 0, Half)
  /\ UNCHANGED <<phase, gen, beam, width, recorded, ranked, ordinal, files, resumes, lost>>

WaveOver == \A i \in Wave : status[i].at \in {"ok", "error"}

Record(i) == [id |-> beam[i].id, parent |-> beam[i].parent, ordinal |-> beam[i].ordinal,
              schedule |-> beam[i].schedule, ok |-> status[i].at = "ok",
              rank |-> status[i].rank, world |-> status[i].world]

(* One line per node, in wave order; `world` is no field of the file but   *)
(* the world the record was written for.                                   *)
record_wave ==
  /\ phase = "wave" /\ WaveOver
  /\ lineage' = Append(lineage, Record(recorded + 1))
  /\ recorded' = recorded + 1
  /\ phase' = IF recorded' = Len(beam) THEN "rank" ELSE "wave"
  /\ UNCHANGED <<gen, beam, width, status, ranked, ordinal, torn, checkpoints, resumes, lost>>

-----------------------------------------------------------------------------
(* Between two generations.                                                *)

Alive == [i \in {k \in DOMAIN beam : status[k].at = "ok"} |->
            [id |-> beam[i].id, rank |-> status[i].rank, schedule |-> beam[i].schedule]]

Cleared == /\ beam' = <<>> /\ status' = <<>> /\ recorded' = 0

(* The ids of the worlds that are being branched from.                     *)
Parents == IF phase = "prune" THEN Ids(Kept(ranked))
           ELSE {beam[i].parent : i \in DOMAIN beam}

(* The process is gone, and its memory with it.                            *)
Leave(p) == /\ phase' = p
            /\ Cleared /\ ranked' = <<>> /\ width' = 1 /\ ordinal' = 0 /\ gen' = 0
            /\ lost' = [nodes |-> beam, parents |-> Parents]

TooFew ==
  /\ phase = "rank" /\ Cardinality(DOMAIN Alive) < 2
  /\ Leave("down")
  /\ UNCHANGED <<files, resumes>>

(* The last generation, or a detector of a survivor fired.                 *)
Finish ==
  /\ phase = "rank" /\ Cardinality(DOMAIN Alive) >= 2
  /\ Leave("finished")
  /\ UNCHANGED <<files, resumes>>

Select ==
  /\ phase = "rank" /\ Cardinality(DOMAIN Alive) >= 2
  /\ gen < Generations - 1
  /\ phase' = "prune"
  /\ ranked' = Sorted(Alive)
  /\ Cleared
  /\ UNCHANGED <<gen, width, ordinal, files, resumes, lost>>

(* spawn_children deletes what it does not keep; rmtree removes the files  *)
(* of a directory one by one, and meta.json may well be the last.          *)
Doomed == Ids(Pruned(ranked)) \cap DOMAIN checkpoints

Prune(id) ==
  /\ phase = "prune" /\ id \in Doomed
  /\ \/ /\ checkpoints[id].world # Half
        /\ checkpoints' = [checkpoints EXCEPT ![id].world = Half]
     \/ checkpoints' = Restrict(checkpoints, DOMAIN checkpoints \ {id})
  /\ UNCHANGED <<phase, memory, lineage, torn, resumes, lost>>

Spawn ==
  /\ phase = "prune" /\ Doomed = {}
  /\ IF gen + 1 < Generations
     THEN StartGeneration(gen + 1, spawn_children(Kept(ranked), gen, ordinal)) /\ UNCHANGED lost
     ELSE Leave("finished")       \* only a resumed search gets here
  /\ UNCHANGED <<files, resumes>>

-----------------------------------------------------------------------------
(* Stops and resumes.                                                      *)

(* The process is killed or the search raises, anywhere; only a kill while *)
(* a line is being appended leaves part of one.                            *)
Stop ==
  /\ phase \in {"wave", "rank", "prune"}
  /\ Leave("down")
  /\ torn' \in (IF phase = "wave" /\ WaveOver THEN BOOLEAN ELSE {FALSE})
  /\ UNCHANGED <<lineage, checkpoints, resumes>>

(* Mutant: only the records the search goes on from are counted.          *)
RecoveredOrdinal_usable == Cardinality(Usable(last_usable_generation))

RecoveredOrdinal ==
  LET seen == {lineage[k].ordinal : k \in {j \in DOMAIN lineage : lineage[j].parent # None}}
  IN Max({Len(lineage)} \cup seen)

Inherited(g) == [k \in Usable(g) |-> [id |-> lineage[k].id, rank |-> lineage[k].rank,
                                      schedule |-> lineage[k].schedule]]

(* The records are ranked by this run's score.rank: as they were, if it is *)
(* still the same, and in any way if it is another one.                    *)
Reranked(g) ==
  IF NewObjective
  THEN {[k \in Usable(g) |-> [Inherited(g)[k] EXCEPT !.rank = rank[k]]] :
          rank \in [Usable(g) -> Ranks[g]]}
  ELSE {Inherited(g)}

(* The beam is rebuilt from the files.                                     *)
resume_nodes ==
  LET g == last_usable_generation
  IN /\ phase' = "prune"
     /\ gen' = g
     /\ ranked' \in {Sorted(list) : list \in Reranked(g)}
     /\ ordinal' = RecoveredOrdinal
     /\ Cleared /\ width' = 1

Resumable == ~torn /\ UsableGenerations # {}

(* --resume: a partial line does not parse, and raises; so does a run with *)
(* no usable generation.                                                   *)
Resume ==
  /\ phase \in {"down", "finished"} /\ resumes < MaxResumes
  /\ resumes' = resumes + 1
  /\ IF Resumable THEN resume_nodes ELSE phase' = "down" /\ UNCHANGED memory
  /\ UNCHANGED <<files, lost>>

(* --resume-from: the same on a copy of the lineage and of the parents'    *)
(* checkpoints; copying one of them twice raises.                          *)
clone_for_resume ==
  /\ phase \in {"down", "finished"} /\ resumes < MaxResumes
  /\ Resumable
  /\ LET ok == Inherited(last_usable_generation)
     IN /\ Cardinality(Ids(ok)) = Cardinality(DOMAIN ok)
        /\ checkpoints' = Restrict(checkpoints, Ids(ok))
  /\ resumes' = resumes + 1
  /\ resume_nodes
  /\ UNCHANGED <<lineage, torn, lost>>

-----------------------------------------------------------------------------
Work == \/ search \/ record_wave
        \/ \E i \in DOMAIN beam : Prepare(i) \/ checkpoint(i) \/ WriteMeta(i) \/ Fail(i)
        \/ TooFew \/ Finish \/ Select \/ Spawn
        \/ \E id \in Doomed : Prune(id)

Next == Work \/ Stop \/ Resume \/ clone_for_resume

Spec == Init /\ [][Next]_vars

-----------------------------------------------------------------------------
History == Seq(Nat)

(* The shape of every variable.                                            *)
TypeOK ==
  /\ phase \in {"start", "wave", "rank", "prune", "down", "finished"}
  /\ gen \in Nat /\ width \in 1..Concurrency /\ ordinal \in Nat
  /\ \A i \in DOMAIN beam : /\ beam[i].id = <<gen, i - 1>>
                            /\ beam[i].schedule \in History
  /\ DOMAIN status = DOMAIN beam
  /\ \A i \in DOMAIN status : status[i].rank \in Ranks[gen] \cup {0} /\ status[i].world \in History
  /\ recorded \in 0..Len(beam)
  /\ \A k \in DOMAIN ranked : ranked[k].id \in Id
  /\ \A k \in DOMAIN lineage : lineage[k].id \in Id
  /\ torn \in BOOLEAN /\ resumes \in 0..MaxResumes
  /\ \A id \in DOMAIN checkpoints : /\ id \in Id /\ checkpoints[id].meta \in BOOLEAN
                                    /\ checkpoints[id].world \in History

(* A branch is described entirely by its base seed and its schedule: every *)
(* record without an error carries the history of the very world it was    *)
(* written for, whatever was interrupted and resumed before it.            *)
LineageFaithful ==
  \A k \in DOMAIN lineage : lineage[k].ok => lineage[k].schedule = lineage[k].world

(* No two records, and no node still running, share an ordinal: the        *)
(* reseeds of a resumed search never collide with ones in the file.        *)
ReseedsDistinct ==
  /\ \A j, k \in DOMAIN lineage : lineage[j].ordinal = lineage[k].ordinal => j = k
  /\ \A i \in DOMAIN beam, k \in DOMAIN lineage :
       i > recorded => beam[i].ordinal # lineage[k].ordinal

(* While a generation runs, the checkpoint of each of its parents is whole *)
(* and is the world the children's schedules start from: nothing prunes or *)
(* overwrites a world that is still being branched from.                   *)
ParentsOnDisk ==
  \A i \in DOMAIN beam :
    LET nd == beam[i]
    IN nd.parent # None => /\ HasCheckpoint(nd.parent)
                           /\ Append(checkpoints[nd.parent].world, nd.ordinal) = nd.schedule

(* Every later generation branches from at least two different worlds, and *)
(* is as wide as the search was launched to be.                            *)
BeamKeepsItsWidth ==
  phase = "wave" /\ gen > 0 =>
    /\ Cardinality({beam[i].parent : i \in DOMAIN beam}) >= 2
    /\ Len(beam) = BeamWidth

(* The beam never thins out: as many nodes as at launch, grown from at     *)
(* least two worlds, every one of which is still on disk as it was saved.  *)
BeamIsWhole == ParentsOnDisk /\ BeamKeepsItsWidth

(* A search stopped before its generation left a record starts that very   *)
(* generation again when it is resumed: the same nodes, parents, schedules *)
(* and reseeds.                                                            *)
RepeatsTheLostGeneration ==
  phase = "wave" /\ lost.nodes # <<>> /\ lost.nodes[1].id[1] = gen
  /\ (\A k \in DOMAIN lineage : lineage[k].id[1] # gen) => beam = lost.nodes

(* What a resume rebuilds from the records alone is what was lost: reseeds *)
(* that collide with none in the file, and are those of a lost generation. *)
ReseedsSurvive == ReseedsDistinct /\ RepeatsTheLostGeneration

(* The worlds the search goes on from: the parents of what it runs, or of  *)
(* what it ran when it ended.                                              *)
OnDisk(ids) == {checkpoints[id].world : id \in ids \cap DOMAIN checkpoints}

BeamNow == OnDisk(IF phase \in {"down", "finished"} THEN lost.parents ELSE Parents)

Worlds == INSTANCE Beam WITH beam <- BeamNow

(* Through waves, selection, pruning, kills and resumes the search carries *)
(* at least two worlds forward, and each one grew out of the ones before.  *)
CarriesTheBeam == Worlds!Spec
=============================================================================
