------------------------------- MODULE DetRng -------------------------------
(***************************************************************************)
(* The seed source of the mod (DetRng.java): one shared xoroshiro stream   *)
(* keyed on -Ddetmc.seed XOR the world seed, the entity ordinal beside it, *)
(* /detmc reseed, and the sidecar file that carries the stream position    *)
(* through a restart.                                                      *)
(*                                                                         *)
(* A xoroshiro state is named by the key it was expanded from and by the   *)
(* number of draws taken since, so two states are equal exactly when a     *)
(* server would hand out the same seeds from both.  Everything under       *)
(* DetRng.LOCK is one action; the file operations of persistState are not  *)
(* under it and are one action each.  A crash may come between any two.    *)
(***************************************************************************)
EXTENDS Naturals

CONSTANTS
  Seed,         \* the longs a -Ddetmc.seed or a reseed may be given
  ZeroSeed,     \* 0L, the default of an unset long
  Xor,          \* exclusive or, as a function of two seeds
  WorldSeed,    \* the seed stored in the world the server opens
  None,         \* no value
  ReadErrors,   \* whether reading the sidecar may fail with an IOException
  MaxIssued,    \* bound on the draws of one stream
  MaxOrdinal,   \* bound on the entities seeded
  MaxLives      \* bound on the launches of the server

ASSUME SeedAssumption ==
  /\ ZeroSeed \in Seed
  /\ WorldSeed \in Seed
  /\ None \notin Seed
  /\ Xor \in [Seed -> [Seed -> Seed]]
  /\ ReadErrors \in BOOLEAN
  /\ MaxIssued \in Nat
  /\ MaxOrdinal \in Nat
  /\ MaxLives \in Nat

VARIABLES
  phase,     \* "down", "static" (class loaded), "bound" (world seed known), "run"
  prop,      \* PROP_SEED_VALUE of the running process
  rng,       \* the static fields under LOCK
  sidecar,   \* <world>/detmc-rng.properties
  tmp,       \* <world>/detmc-rng.properties.tmp
  saver,     \* the program counter of persistState on the server thread
  snap,      \* the Properties object persistState built
  lives,     \* launches so far
  handed     \* history: the entity seeds this life has handed out

server  == <<phase, prop, lives>>
disk    == <<sidecar, tmp>>
saving  == <<saver, snap>>
vars    == <<server, rng, disk, saving, handed>>

-----------------------------------------------------------------------------
(* The fields of the seed source, and the sidecar's reading of them.       *)

State == [key : Seed, pos : Nat]        \* stateLo, stateHi

(* Both words zero: the one value no expansion and no draw can leave.      *)
AllZero == [key |-> None, pos |-> 0]

Rng == [master : Seed, base : Seed, reseeded : BOOLEAN, arg : Seed,
        state : State, issued : Nat, ordinal : Nat]

NoFile    == [kind |-> "none"]
Malformed == [kind |-> "malformed"]     \* truncated, or a field that is no number

FileOf(r) == [kind |-> "file", rng |-> r]

(* A file from before the reseed command has no baseMaster; the default    *)
(* makes masterSeed stand for it.                                          *)
OldFile(m, i, o) ==
  FileOf([master |-> m, base |-> m, reseeded |-> FALSE, arg |-> ZeroSeed,
          state |-> [key |-> m, pos |-> i], issued |-> i, ordinal |-> o])

ZeroFile(m) ==
  FileOf([master |-> m, base |-> m, reseeded |-> FALSE, arg |-> ZeroSeed,
          state |-> AllZero, issued |-> 0, ordinal |-> 0])

(* Mutant: keying the stream also restarts the entity ordinal.             *)
rekey_resetsOrdinal(r, seed) ==
  [r EXCEPT !.master = seed, !.state = [key |-> seed, pos |-> 0],
            !.issued = 0, !.ordinal = 0]

rekey(r, seed) ==
  [r EXCEPT !.master = seed, !.state = [key |-> seed, pos |-> 0], !.issued = 0]

(* One xoroshiro128++ step.                                                *)
Advanced(st) == [key |-> st.key, pos |-> st.pos + 1]

(* The static initialiser: the stream of the property alone.               *)
AtClassLoad(p) ==
  [master |-> p, base |-> p, reseeded |-> FALSE, arg |-> ZeroSeed,
   state |-> [key |-> p, pos |-> 0], issued |-> 0, ordinal |-> 0]

(* Mutant: the all-zero state is not refused.                              *)
Adoptable_anyState(file, expected) ==
  /\ file.kind = "file"
  /\ file.rng.base = expected

(* What restoreState makes of the file: adopted only when it parses, was   *)
(* written under this launch-time key and holds a usable state.            *)
Adoptable(file, expected) ==
  /\ file.kind = "file"
  /\ file.rng.base = expected
  /\ file.rng.state # AllZero

(* Mutant: the launch-time master stays, also in a save made after a       *)
(* reseed.                                                                 *)
Adopt_launchMaster(r, file) ==
  [r EXCEPT !.reseeded = file.rng.reseeded,
            !.arg      = file.rng.arg,
            !.state    = file.rng.state,
            !.issued   = file.rng.issued,
            !.ordinal  = file.rng.ordinal]

(* Every field but baseMaster, which bindWorldSeed has already set.        *)
Adopt(r, file) ==
  [r EXCEPT !.master   = file.rng.master,
            !.reseeded = file.rng.reseeded,
            !.arg      = file.rng.arg,
            !.state    = file.rng.state,
            !.issued   = file.rng.issued,
            !.ordinal  = file.rng.ordinal]

-----------------------------------------------------------------------------
Init ==
  /\ phase = "down"
  /\ prop = ZeroSeed
  /\ rng = AtClassLoad(ZeroSeed)
  /\ sidecar \in {NoFile, Malformed} \cup {ZeroFile(m) : m \in Seed}
                   \cup {OldFile(m, 1, 1) : m \in Seed}
  /\ tmp = NoFile
  /\ saver = "idle"
  /\ snap = AtClassLoad(ZeroSeed)
  /\ lives = 0
  /\ handed = {}

(* The JVM starts: the static initialiser keys the stream from the         *)
(* property.                                                               *)
StaticInit(p) ==
  /\ phase = "down"
  /\ lives < MaxLives
  /\ phase' = "static"
  /\ prop' = p
  /\ lives' = lives + 1
  /\ rng' = AtClassLoad(p)
  /\ UNCHANGED <<disk, saving, handed>>

(* createLevels reads the world seed once, before any level exists.        *)
bindWorldSeed ==
  /\ phase = "static"
  /\ LET base == Xor[prop][WorldSeed] IN
       rng' = rekey([rng EXCEPT !.base = base], base)
  /\ phase' = "bound"
  /\ UNCHANGED <<prop, lives, disk, saving, handed>>

Running(r) ==
  /\ rng' = r
  /\ phase' = "run"
  /\ UNCHANGED <<prop, lives, disk, saving, handed>>

restoreState ==
  /\ phase = "bound"
  /\ Running(IF Adoptable(sidecar, Xor[prop][WorldSeed])
             THEN Adopt(rng, sidecar) ELSE rng)

(* Mutant: an unreadable sidecar falls back to the property-only stream.   *)
restoreUnreadable_unbound ==
  /\ ReadErrors
  /\ phase = "bound"
  /\ sidecar # NoFile
  /\ Running(AtClassLoad(prop))

restoreUnreadable ==
  /\ ReadErrors
  /\ phase = "bound"
  /\ sidecar # NoFile
  /\ Running(rng)

Moved(r) ==
  /\ rng' = r
  /\ UNCHANGED <<server, disk, saving>>

(* Any thread of a live server draws from the shared stream: before the    *)
(* levels (MinecraftServer's own random) and once they exist.  Nothing     *)
(* draws between the two calls createLevels makes in a row.                *)
nextSeed ==
  /\ phase \in {"static", "run"}
  /\ rng.issued < MaxIssued
  /\ Moved([rng EXCEPT !.state = Advanced(rng.state), !.issued = @ + 1])
  /\ UNCHANGED handed

(* Entities are constructed only once the levels exist.                    *)
entitySeed ==
  /\ phase = "run"
  /\ rng.ordinal < MaxOrdinal
  /\ handed' = handed \cup {[master |-> rng.master, ordinal |-> rng.ordinal]}
  /\ Moved([rng EXCEPT !.ordinal = @ + 1])

(* A command runs on the server thread, so never inside persistState.      *)
reseed(n) ==
  /\ phase = "run"
  /\ saver = "idle"
  /\ Moved([rekey(rng, Xor[n][WorldSeed]) EXCEPT !.arg = n, !.reseeded = TRUE])
  /\ UNCHANGED handed

-----------------------------------------------------------------------------
(* persistState: snapshot under the lock, then the temporary file, then    *)
(* the rename.                                                             *)

Saving(from, to) ==
  /\ phase = "run"
  /\ saver = from
  /\ saver' = to
  /\ UNCHANGED <<server, rng, handed>>

persistSnapshot ==
  /\ Saving("idle", "open")
  /\ snap' = rng
  /\ UNCHANGED disk

(* Mutant: the sidecar is written in place, without the temporary file.    *)
persistOpen_inPlace ==
  /\ Saving("open", "store")
  /\ sidecar' = Malformed
  /\ UNCHANGED <<tmp, snap>>

persistOpen ==
  /\ Saving("open", "store")
  /\ tmp' = Malformed
  /\ UNCHANGED <<sidecar, snap>>

persistStore ==
  /\ Saving("store", "move")
  /\ tmp' = FileOf(snap)
  /\ UNCHANGED <<sidecar, snap>>

persistMove ==
  /\ Saving("move", "idle")
  /\ sidecar' = tmp
  /\ tmp' = NoFile
  /\ UNCHANGED snap

(* An IOException of any of them is logged and the save goes on without a  *)
(* new sidecar.                                                            *)
persistFails ==
  /\ \E at \in {"open", "store", "move"} : Saving(at, "idle")
  /\ UNCHANGED <<disk, snap>>

(* The process ends, by a stop or a kill, wherever it is.                  *)
Crash ==
  /\ phase # "down"
  /\ phase' = "down"
  /\ prop' = ZeroSeed
  /\ rng' = AtClassLoad(ZeroSeed)
  /\ saver' = "idle"
  /\ snap' = AtClassLoad(ZeroSeed)
  /\ handed' = {}
  /\ UNCHANGED <<lives, disk>>

Next ==
  \/ \E s \in Seed : StaticInit(s) \/ reseed(s)
  \/ bindWorldSeed
  \/ restoreState
  \/ restoreUnreadable
  \/ nextSeed
  \/ entitySeed
  \/ persistSnapshot
  \/ persistOpen
  \/ persistStore
  \/ persistMove
  \/ persistFails
  \/ Crash

Spec == Init /\ [][Next]_vars

-----------------------------------------------------------------------------
File == {NoFile, Malformed}
          \cup [kind : {"file"}, rng : Rng]
          \cup {ZeroFile(m) : m \in Seed}

(* Every variable has its type.                                            *)
TypeOK ==
  /\ phase \in {"down", "static", "bound", "run"}
  /\ prop \in Seed
  /\ rng \in Rng
  /\ sidecar \in File
  /\ tmp \in File
  /\ saver \in {"idle", "open", "store", "move"}
  /\ snap \in Rng
  /\ lives \in 0..MaxLives
  /\ handed \subseteq [master : Seed, ordinal : Nat]

(* A stream is what its labels say: its words are `issued' draws after the *)
(* expansion of its master.                                                *)
Labelled(r) == r.state = [key |-> r.master, pos |-> r.issued]

(* The master of a bound stream is the one a server launched with that     *)
(* seed would have had: the branch argument's if there is a branch, else   *)
(* the launch-time one.                                                    *)
NamedByOneNumber(r) ==
  r.master = IF r.reseeded THEN Xor[r.arg][WorldSeed] ELSE r.base

(* Whatever was restored, drawn or reseeded, the live stream carries the   *)
(* labels /detmc rng reports and belongs to this launch ("a branch is      *)
(* named by one number and nothing else").                                 *)
StreamNamed ==
  phase # "down" =>
    /\ Labelled(rng)
    /\ NamedByOneNumber(rng)
    /\ phase # "static" => rng.base = Xor[prop][WorldSeed]

(* The next entity of a life is never given a seed this life has given     *)
(* before, also when it goes back to a branch it was on (reseed keeps the  *)
(* ordinal for this).                                                      *)
EntitySeedsFresh == \A e \in handed : e.ordinal < rng.ordinal

(* The restart promise, as an implementation of DurableStream.             *)
PositionOf(r) ==
  [base |-> r.base, branch |-> IF r.reseeded THEN r.arg ELSE None,
   drawn |-> r.state.pos, ordinal |-> r.ordinal]

Nowhere == [base |-> None]

LivePosition == IF phase = "run" THEN PositionOf(rng) ELSE Nowhere

DurablePosition ==
  IF sidecar.kind = "file" /\ sidecar.rng.state # AllZero
  THEN PositionOf(sidecar.rng) ELSE Nowhere

PendingPosition == IF saver # "idle" THEN PositionOf(snap) ELSE Nowhere

Stream == INSTANCE DurableStream WITH
  live <- LivePosition, durable <- DurablePosition, pending <- PendingPosition

(* A save is the whole position the life was at when it began, and a restart continues *)
(* a save of its own key and no other one.                                 *)
ContinuesTheStream == Stream!Spec
=============================================================================
