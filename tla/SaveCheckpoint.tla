--------------------------- MODULE SaveCheckpoint ---------------------------
(***************************************************************************)
(* How one node's world gets from a running server into a checkpoint:      *)
(* saveEverything with the save barrier of the mod (MinecraftServerMixin), *)
(* the IO workers that write behind it, and the harness that waits for the *)
(* RNG sidecar to move, copies the world file by file and copies it again  *)
(* when the copy is damaged (run.py save_world, branch.py checkpoint).     *)
(*                                                                         *)
(* The world is frozen at the gametime of the checkpoint, so every save    *)
(* writes the same thing: a part of the world on disk is of an earlier     *)
(* save, half-written, or of now.                                          *)
(***************************************************************************)
EXTENDS Naturals

CONSTANTS
  SaveBarrier,      \* -Ddetmc.saveBarrier
  WritesMayFail,    \* a barrier or the sidecar's write may raise, which is only logged
  MayRunOut,        \* a save may take longer than save_world waits for it
  ServerMayDie,     \* the JVM may be killed; its container is not restarted
  Attempts          \* copies a checkpoint is given

ASSUME SwitchAssumption == {SaveBarrier, WritesMayFail, MayRunOut, ServerMayDie} \subseteq BOOLEAN
ASSUME AttemptsAssumption == Attempts \in Nat \ {0}

(* What the IO workers write.  POI and entities live in storages of one    *)
(* kind, flushed by one kind of barrier: "sections" stands for both.       *)
Parts == {"chunks", "sections", "data"}
Files == Parts \cup {"sidecar"}

VARIABLES
  disk,       \* the server's world directory
  pending,    \* the parts with a write queued or under way
  moved,      \* the sidecar's mtime is not the one save_world noted
  requests,   \* save-all commands the server has not begun
  server,     \* what saveEverything waits for next, or that it is gone
  harness, attempt,   \* the node's thread and its local
  copy,       \* the checkpoint's world directory
  broken,     \* history: a barrier was passed with its write outstanding
  late        \* history: save_world returned without its sidecar

srv  == <<pending, requests, server, broken>>
hrn  == <<harness, attempt, copy, late>>
saveVars == <<disk, moved, srv, hrn>>

-----------------------------------------------------------------------------
SaveInit ==
  /\ disk = [f \in Files |-> "old"] /\ pending = {} /\ moved = FALSE
  /\ requests = 0 /\ server = "idle" /\ broken = FALSE
  /\ harness = "save" /\ attempt = 1
  /\ copy = [f \in Files |-> "none"] /\ late = FALSE

(* The container is taken down when the node is through.                   *)
Running == harness \notin {"accepted", "failed"}

(* Each part saved for the first time, or again for whatever reason.       *)
saveEverything ==
  /\ Running /\ server = "idle" /\ requests > 0
  /\ requests' = requests - 1
  /\ \E dirty \in SUBSET Parts :
       /\ {p \in Parts : disk[p] = "old"} \subseteq dirty
       /\ pending' = pending \cup dirty
  /\ server' = IF SaveBarrier THEN "chunks" ELSE "sidecar"
  /\ UNCHANGED <<disk, moved, broken, hrn>>

(* The IO workers write in place.                                          *)
Write(p) ==
  /\ Running /\ p \in pending /\ server # "dead"
  /\ IF disk[p] = "half"
     THEN disk' = [disk EXCEPT ![p] = "now"] /\ pending' = pending \ {p}
     ELSE disk' = [disk EXCEPT ![p] = "half"] /\ UNCHANGED pending
  /\ UNCHANGED <<moved, requests, server, broken, hrn>>

(* Mutant: the section storages are left out.                              *)
After_chunksOnly == [chunks |-> "data", sections |-> "data", data |-> "sidecar"]

(* saveBarrier: the chunk writes, POI and entities, the saved data.        *)
After == [chunks |-> "sections", sections |-> "data", data |-> "sidecar"]

saveBarrier(p) ==
  /\ Running /\ server = p
  /\ \/ p \notin pending /\ UNCHANGED broken
     \/ p \in pending /\ WritesMayFail /\ broken' = TRUE
  /\ server' = After[p]
  /\ UNCHANGED <<disk, moved, pending, requests, hrn>>

(* Killed for memory, at any moment: what is on disk stays as it is.       *)
Die ==
  /\ Running /\ ServerMayDie /\ server # "dead"
  /\ server' = "dead"
  /\ UNCHANGED <<disk, moved, pending, requests, broken, hrn>>

(* The sidecar is written beside its place and moved there.  An            *)
(* IOException is caught and logged: the old one stays, and nothing moves. *)
persistState ==
  /\ Running /\ server = "sidecar"
  /\ \/ disk' = [disk EXCEPT !["sidecar"] = "now"] /\ moved' = TRUE
     \/ WritesMayFail /\ UNCHANGED <<disk, moved>>
  /\ server' = "idle"
  /\ UNCHANGED <<pending, requests, broken, hrn>>

-----------------------------------------------------------------------------
(* save_world notes the sidecar's mtime and sends save-all, which a dead   *)
(* server does not hear: rcon_soft never raises.                           *)
save_world ==
  /\ harness = "save"
  /\ moved' = FALSE
  /\ requests' = requests + 1
  /\ harness' = "wait"
  /\ UNCHANGED <<disk, pending, server, broken, attempt, copy, late>>

(* Mutant: an accepted command is taken for a finished save.               *)
SaveReturns_onCommand ==
  /\ harness = "wait" /\ requests = 0
  /\ harness' = "copy"
  /\ copy' = [f \in Files |-> "none"]
  /\ UNCHANGED <<disk, moved, srv, attempt, late>>

(* No save is left that could move the sidecar.                            *)
NoneToCome == server = "dead" \/ (server = "idle" /\ requests = 0)

(* The sidecar moved, or 240 s are over and a warning is all: the save is  *)
(* slow, there is no server any more, or it could not write the sidecar.   *)
SaveReturns ==
  /\ harness = "wait"
  /\ \/ moved /\ UNCHANGED late
     \/ ~moved /\ (MayRunOut \/ NoneToCome) /\ late' = TRUE
  /\ harness' = "copy"
  /\ copy' = [f \in Files |-> "none"]
  /\ UNCHANGED <<disk, moved, srv, attempt>>

(* copytree, a file at a time; one that is being written may come out torn *)
(* whatever the disk held when the copy began.                             *)
CopyFile(f) ==
  /\ harness = "copy" /\ copy[f] = "none"
  /\ \E read \in {disk[f]} \cup {x \in {"half"} : f \in pending /\ server # "dead"} :
       copy' = [copy EXCEPT ![f] = read]
  /\ UNCHANGED <<disk, moved, srv, harness, attempt, late>>

Copied == harness = "copy" /\ \A f \in Files : copy[f] # "none"

(* What bad_nbt_files can see: the gzipped data files, not the regions.    *)
BadNbt == copy["data"] = "half"

(* Mutants: one attempt too many; the attempts are not counted.            *)
CheckpointVerified_oneMore ==
  /\ Copied
  /\ \/ ~BadNbt /\ harness' = "accepted" /\ UNCHANGED attempt
     \/ BadNbt /\ attempt > Attempts /\ harness' = "failed" /\ UNCHANGED attempt
     \/ BadNbt /\ attempt <= Attempts /\ harness' = "save" /\ attempt' = attempt + 1
  /\ UNCHANGED <<disk, moved, srv, copy, late>>

CheckpointVerified_uncounted ==
  /\ Copied
  /\ harness' = IF BadNbt THEN "save" ELSE "accepted"
  /\ UNCHANGED <<attempt, disk, moved, srv, copy, late>>

CheckpointVerified ==
  /\ Copied
  /\ \/ ~BadNbt /\ harness' = "accepted" /\ UNCHANGED attempt
     \/ BadNbt /\ attempt = Attempts /\ harness' = "failed" /\ UNCHANGED attempt
     \/ BadNbt /\ attempt < Attempts /\ harness' = "save" /\ attempt' = attempt + 1
  /\ UNCHANGED <<disk, moved, srv, copy, late>>

-----------------------------------------------------------------------------
Server  == saveEverything \/ (\E p \in Parts : saveBarrier(p)) \/ persistState
Harness == save_world \/ SaveReturns \/ (\E f \in Files : CopyFile(f)) \/ CheckpointVerified

SaveNext == Server \/ (\E p \in Parts : Write(p)) \/ Die \/ Harness

(* A live server, its IO workers and the harness go on; nothing has to die. *)
SaveSpec ==
  /\ SaveInit /\ [][SaveNext]_saveVars
  /\ WF_saveVars(Server) /\ WF_saveVars(Harness)
  /\ \A p \in Parts : WF_saveVars(Write(p))

-----------------------------------------------------------------------------
Content == {"old", "half", "now"}

(* The shape of every variable.                                            *)
SaveTypeOK ==
  /\ disk \in [Files -> Content] /\ copy \in [Files -> Content \cup {"none"}]
  /\ pending \subseteq Parts
  /\ moved \in BOOLEAN /\ requests \in Nat
  /\ server \in Files \cup {"idle", "dead"} /\ attempt \in 1..Attempts
  /\ harness \in {"save", "wait", "copy", "accepted", "failed"}
  /\ broken \in BOOLEAN /\ late \in BOOLEAN

(* The sidecar is a completion signal: when it moves, every write its save *)
(* queued is on disk, unless a barrier was logged as failed.               *)
SidecarIsLast ==
  [][disk'["sidecar"] # disk["sidecar"] \/ (~moved /\ moved') => pending = {} \/ broken]_saveVars

(* A checkpoint is one moment: chunks, sections, saved data and the RNG    *)
(* position of the same gametime, whatever the IO workers still held and   *)
(* whenever the server died, unless a warning said otherwise; and not even *)
(* then does it hold truncated data files.                                 *)
CheckpointIsOneMoment ==
  harness = "accepted" =>
    /\ copy["data"] # "half"
    /\ ~late /\ ~broken => \A f \in Files : copy[f] = "now"

(* A checkpoint is accepted or given up: the copies are bounded.           *)
CheckpointEnds == <>(harness \in {"accepted", "failed"})
=============================================================================
