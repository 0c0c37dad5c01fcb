---------------------------- MODULE DetRngProofs ----------------------------
(***************************************************************************)
(* Theorems about the seed source for every set of seeds, every world seed *)
(* and every bound: its types, the naming of the stream, the freshness of  *)
(* entity seeds, and the restart promise of DurableStream.                 *)
(***************************************************************************)
EXTENDS DetRng, TLAPS

(* What makes the naming of the stream survive a restart: every file that  *)
(* restoreState would adopt, and the snapshot a save is about to write,    *)
(* are named and labelled as the live stream is.                           *)
Named(r) == Labelled(r) /\ NamedByOneNumber(r)

NamedFile(f) == f.kind = "file" /\ f.rng.state # AllZero => Named(f.rng)

SaverInv ==
  /\ saver # "idle" => phase = "run" /\ Named(snap)
  /\ saver = "move" => tmp = FileOf(snap)

FilesInv == NamedFile(sidecar) /\ NamedFile(tmp)

(* Before the levels exist there has been no reseed and no entity has been *)
(* given a seed; a stream just bound has not been drawn from.              *)
StartupInv ==
  /\ phase # "run" => ~rng.reseeded /\ handed = {} /\ rng.ordinal = 0
  /\ phase = "bound" => rng.issued = 0

IInv ==
  /\ TypeOK
  /\ FilesInv
  /\ SaverInv
  /\ StreamNamed
  /\ StartupInv
  /\ EntitySeedsFresh

-----------------------------------------------------------------------------
(* Facts about the operators of the seed source.                           *)

LEMMA AtClassLoadType ==
  ASSUME NEW p \in Seed
  PROVE  AtClassLoad(p) \in Rng /\ Labelled(AtClassLoad(p))
  BY SeedAssumption DEF AtClassLoad, Rng, State, Labelled

LEMMA RekeyFacts ==
  ASSUME NEW r \in Rng, NEW s \in Seed
  PROVE  /\ rekey(r, s) \in Rng
         /\ Labelled(rekey(r, s))
         /\ rekey(r, s).master = s
         /\ rekey(r, s).base = r.base
         /\ rekey(r, s).reseeded = r.reseeded
         /\ rekey(r, s).arg = r.arg
         /\ rekey(r, s).ordinal = r.ordinal
         /\ rekey(r, s).issued = 0
         /\ rekey(r, s).state = [key |-> s, pos |-> 0]
  BY DEF rekey, Rng, State, Labelled

LEMMA XorType == \A a, b \in Seed : Xor[a][b] \in Seed
  BY SeedAssumption

(* A file restoreState adopts holds a whole position of the stream.        *)
LEMMA AdoptableType ==
  ASSUME NEW f \in File, NEW base, Adoptable(f, base)
  PROVE  f = FileOf(f.rng) /\ f.rng \in Rng /\ f.rng.base = base
  BY DEF File, Adoptable, FileOf, NoFile, Malformed, ZeroFile, AllZero

LEMMA AdoptIsTheFile ==
  ASSUME NEW r \in Rng, NEW f \in File, Adoptable(f, r.base)
  PROVE  Adopt(r, f) = f.rng
  BY AdoptableType DEF Adopt, Rng

LEMMA StateIsUsable == \A s \in State : s # AllZero
  BY SeedAssumption DEF State, AllZero

-----------------------------------------------------------------------------
LEMMA InitIInv == Init => IInv
<1> SUFFICES ASSUME Init PROVE IInv
  OBVIOUS
<1>1. rng \in Rng /\ snap \in Rng /\ prop \in Seed
  BY AtClassLoadType, SeedAssumption DEF Init
<1>2. sidecar \in File /\ NamedFile(sidecar)
  <2>1. CASE sidecar \in {NoFile, Malformed}
    BY <2>1 DEF File, NamedFile, NoFile, Malformed
  <2>2. CASE \E m \in Seed : sidecar = ZeroFile(m)
    <3>1. PICK m \in Seed : sidecar = ZeroFile(m)
      BY <2>2
    <3>2. sidecar.rng.state = AllZero
      BY <3>1 DEF ZeroFile, FileOf
    <3>3. QED
      BY <3>1, <3>2 DEF File, NamedFile
  <2>3. CASE \E m \in Seed : sidecar = OldFile(m, 1, 1)
    BY <2>3, SeedAssumption
       DEF File, NamedFile, OldFile, FileOf, Rng, State, Named, Labelled, NamedByOneNumber
  <2>4. QED
    BY <2>1, <2>2, <2>3 DEF Init
<1>3. tmp \in File /\ NamedFile(tmp)
  BY DEF Init, File, NamedFile, NoFile
<1>4. TypeOK
  BY <1>1, <1>2, <1>3, SeedAssumption DEF Init, TypeOK
<1>5. SaverInv /\ StreamNamed /\ StartupInv /\ EntitySeedsFresh
  BY DEF Init, SaverInv, StreamNamed, StartupInv, EntitySeedsFresh, AtClassLoad
<1>6. QED
  BY <1>2, <1>3, <1>4, <1>5 DEF IInv, FilesInv

LEMMA NextIInv == IInv /\ [Next]_vars => IInv'
<1> SUFFICES ASSUME IInv, [Next]_vars
             PROVE  IInv'
  OBVIOUS
<1> USE DEF IInv, FilesInv, server, disk, saving
<1>1. ASSUME NEW p \in Seed, StaticInit(p)
      PROVE  IInv'
  <2>1. TypeOK'
    BY <1>1, AtClassLoadType, SeedAssumption DEF StaticInit, TypeOK
  <2>2. SaverInv'
    BY <1>1 DEF StaticInit, SaverInv
  <2>3. StreamNamed'
    BY <1>1, AtClassLoadType DEF StaticInit, StreamNamed, NamedByOneNumber, AtClassLoad
  <2>4. StartupInv' /\ EntitySeedsFresh'
    BY <1>1 DEF StaticInit, StartupInv, EntitySeedsFresh, AtClassLoad
  <2>5. QED
    BY <1>1, <2>1, <2>2, <2>3, <2>4 DEF StaticInit
<1>2. ASSUME bindWorldSeed
      PROVE  IInv'
  <2> DEFINE base == Xor[prop][WorldSeed]
             r0   == [rng EXCEPT !.base = base]
  <2>1. base \in Seed
    BY XorType, SeedAssumption DEF TypeOK
  <2>2. /\ r0 \in Rng
        /\ r0.base = base
        /\ r0.reseeded = rng.reseeded
        /\ r0.ordinal = rng.ordinal
    BY <2>1 DEF TypeOK, Rng
  <2> HIDE DEF base, r0
  <2>3. /\ rng' \in Rng
        /\ Labelled(rng')
        /\ rng'.master = base
        /\ rng'.base = base
        /\ rng'.reseeded = rng.reseeded
        /\ rng'.ordinal = rng.ordinal
        /\ rng'.issued = 0
    <3>1. rng' = rekey(r0, base)
      BY <1>2 DEF bindWorldSeed, base, r0
    <3>2. QED
      BY <2>1, <2>2, <3>1, RekeyFacts
  <2>4. phase' = "bound" /\ UNCHANGED <<prop, lives, disk, saving, handed>>
    BY <1>2 DEF bindWorldSeed
  <2>5. TypeOK'
    BY <2>3, <2>4 DEF TypeOK, saving
  <2>6. StreamNamed'
    <3>1. ~rng.reseeded
      BY <1>2 DEF bindWorldSeed, StartupInv
    <3>2. QED
      BY <2>3, <2>4, <3>1 DEF StreamNamed, NamedByOneNumber, base
  <2>7. SaverInv' /\ StartupInv' /\ EntitySeedsFresh' /\ FilesInv'
    <3>1. handed' = {} /\ saver' = "idle" /\ ~rng'.reseeded /\ rng'.ordinal = 0 /\ rng'.issued = 0
      BY <1>2, <2>3, <2>4 DEF bindWorldSeed, StartupInv, SaverInv, saving, TypeOK
    <3>2. QED
      BY <2>4, <3>1 DEF SaverInv, StartupInv, EntitySeedsFresh, NamedFile, saving
  <2>8. QED
    BY <2>5, <2>6, <2>7
<1>3. ASSUME restoreState
      PROVE  IInv'
  <2> DEFINE base == Xor[prop][WorldSeed]
  <2>1. /\ phase = "bound"
        /\ phase' = "run"
        /\ UNCHANGED <<prop, lives, disk, saving, handed>>
    BY <1>3 DEF restoreState, Running
  <2>2. rng.base = base
    BY <2>1 DEF StreamNamed
  <2>3. rng' \in Rng /\ Named(rng') /\ rng'.base = base
    <3>1. CASE Adoptable(sidecar, base)
      <4>1. rng' = sidecar.rng
        BY <1>3, <2>2, <3>1, AdoptIsTheFile DEF restoreState, Running, TypeOK
      <4>2. QED
        BY <3>1, <4>1, AdoptableType DEF TypeOK, NamedFile, Adoptable
    <3>2. CASE ~Adoptable(sidecar, base)
      <4>1. rng' = rng
        BY <1>3, <3>2 DEF restoreState, Running
      <4>2. QED
        BY <2>1, <2>2, <4>1 DEF TypeOK, StreamNamed, Named
    <3>3. QED
      BY <3>1, <3>2
  <2> HIDE DEF base
  <2>4. TypeOK'
    BY <2>1, <2>3 DEF TypeOK, saving
  <2>5. StreamNamed'
    BY <2>1, <2>3 DEF StreamNamed, Named, NamedByOneNumber, base
  <2>6. FilesInv' /\ SaverInv'
    BY <2>1 DEF NamedFile, SaverInv, saving
  <2>7. StartupInv' /\ EntitySeedsFresh'
    BY <2>1 DEF StartupInv, EntitySeedsFresh
  <2>8. QED
    BY <2>4, <2>5, <2>6, <2>7
<1>4. ASSUME restoreUnreadable
      PROVE  IInv'
  <2>1. /\ phase = "bound"
        /\ phase' = "run"
        /\ UNCHANGED <<prop, lives, rng, disk, saving, handed>>
    BY <1>4 DEF restoreUnreadable, Running
  <2>2. TypeOK' /\ FilesInv'
    BY <2>1 DEF TypeOK, NamedFile, saving
  <2>3. SaverInv' /\ StreamNamed' /\ StartupInv' /\ EntitySeedsFresh'
    BY <2>1 DEF SaverInv, StreamNamed, NamedByOneNumber, Labelled, StartupInv,
                EntitySeedsFresh, saving
  <2>4. QED
    BY <2>2, <2>3
<1>5. ASSUME nextSeed
      PROVE  IInv'
  <2> DEFINE st == Advanced(rng.state)
  <2>1. /\ phase \in {"static", "run"}
        /\ rng' = [rng EXCEPT !.state = st, !.issued = @ + 1]
        /\ UNCHANGED <<server, disk, saving, handed>>
    BY <1>5 DEF nextSeed, Moved
  <2>a. st \in State /\ st = [key |-> rng.state.key, pos |-> rng.state.pos + 1]
    BY DEF TypeOK, Rng, State, Advanced
  <2> HIDE DEF st
  <2>2. /\ rng' \in Rng
        /\ rng'.state = st
        /\ rng'.issued = rng.issued + 1
        /\ rng'.master = rng.master
        /\ rng'.base = rng.base
        /\ rng'.reseeded = rng.reseeded
        /\ rng'.arg = rng.arg
        /\ rng'.ordinal = rng.ordinal
    <3>1. rng \in Rng /\ rng.issued + 1 \in Nat
      BY DEF TypeOK, Rng
    <3>2. QED
      BY <2>1, <2>a, <3>1 DEF Rng
  <2>3. StreamNamed'
    BY <2>1, <2>2, <2>a DEF StreamNamed, Labelled, NamedByOneNumber
  <2>4. TypeOK' /\ FilesInv'
    BY <2>1, <2>2 DEF TypeOK, NamedFile, saving
  <2>5. SaverInv' /\ StartupInv' /\ EntitySeedsFresh'
    BY <2>1, <2>2 DEF SaverInv, StartupInv, EntitySeedsFresh, saving
  <2>6. QED
    BY <2>3, <2>4, <2>5
<1>6. ASSUME entitySeed
      PROVE  IInv'
  <2>1. /\ phase = "run"
        /\ rng' = [rng EXCEPT !.ordinal = @ + 1]
        /\ handed' = handed \cup {[master |-> rng.master, ordinal |-> rng.ordinal]}
        /\ UNCHANGED <<server, disk, saving>>
    BY <1>6 DEF entitySeed, Moved
  <2>2. /\ rng' \in Rng
        /\ rng'.state = rng.state
        /\ rng'.issued = rng.issued
        /\ rng'.master = rng.master
        /\ rng'.base = rng.base
        /\ rng'.reseeded = rng.reseeded
        /\ rng'.arg = rng.arg
        /\ rng'.ordinal = rng.ordinal + 1
    BY <2>1 DEF TypeOK, Rng
  <2>3. StreamNamed' /\ StartupInv'
    BY <2>1, <2>2 DEF StreamNamed, Labelled, NamedByOneNumber, StartupInv
  <2>4. EntitySeedsFresh'
    <3>1. rng.ordinal \in Nat /\ \A e \in handed : e.ordinal \in Nat
      BY DEF TypeOK, Rng
    <3>2. QED
      BY <2>1, <2>2, <3>1 DEF EntitySeedsFresh
  <2>5. TypeOK'
    <3>1. [master |-> rng.master, ordinal |-> rng.ordinal] \in [master : Seed, ordinal : Nat]
      BY DEF TypeOK, Rng
    <3>2. QED
      BY <2>1, <2>2, <3>1 DEF TypeOK, saving
  <2>6. FilesInv' /\ SaverInv'
    BY <2>1 DEF NamedFile, SaverInv, saving
  <2>7. QED
    BY <2>3, <2>4, <2>5, <2>6
<1>7. ASSUME NEW n \in Seed, reseed(n)
      PROVE  IInv'
  <2> DEFINE key == Xor[n][WorldSeed]
             r0  == rekey(rng, key)
  <2>1. /\ phase = "run"
        /\ rng' = [r0 EXCEPT !.arg = n, !.reseeded = TRUE]
        /\ UNCHANGED <<server, disk, saving, handed>>
    BY <1>7 DEF reseed, Moved
  <2>2. key \in Seed
    BY XorType, SeedAssumption
  <2> HIDE DEF key
  <2>3. /\ r0 \in Rng
        /\ r0.state = [key |-> key, pos |-> 0]
        /\ r0.issued = 0
        /\ r0.master = key
        /\ r0.base = rng.base
        /\ r0.ordinal = rng.ordinal
    BY <2>2, RekeyFacts DEF TypeOK
  <2> HIDE DEF r0
  <2>4. /\ rng' \in Rng
        /\ rng'.state = [key |-> key, pos |-> 0]
        /\ rng'.issued = 0
        /\ rng'.master = key
        /\ rng'.base = rng.base
        /\ rng'.reseeded = TRUE
        /\ rng'.arg = n
        /\ rng'.ordinal = rng.ordinal
    BY <2>1, <2>3 DEF Rng
  <2>5. StreamNamed' /\ StartupInv'
    BY <2>1, <2>4 DEF StreamNamed, Labelled, NamedByOneNumber, StartupInv, key
  <2>6. TypeOK' /\ FilesInv'
    BY <2>1, <2>4 DEF TypeOK, NamedFile, saving
  <2>7. SaverInv' /\ EntitySeedsFresh'
    BY <2>1, <2>4 DEF SaverInv, EntitySeedsFresh, saving
  <2>8. QED
    BY <2>5, <2>6, <2>7
<1>8. ASSUME persistSnapshot \/ persistOpen \/ persistStore \/ persistMove \/ persistFails
      PROVE  IInv'
  <2>1. /\ phase = "run"
        /\ UNCHANGED <<server, rng, handed>>
    BY <1>8 DEF persistSnapshot, persistOpen, persistStore, persistMove, persistFails, Saving
  <2>2. StreamNamed' /\ StartupInv' /\ EntitySeedsFresh'
    BY <2>1 DEF StreamNamed, Labelled, NamedByOneNumber, StartupInv, EntitySeedsFresh
  <2>3. (TypeOK /\ FilesInv /\ SaverInv)'
    <3>1. CASE persistSnapshot
      BY <2>1, <3>1 DEF persistSnapshot, Saving, TypeOK, NamedFile, SaverInv, StreamNamed, Named
    <3>2. CASE persistOpen
      BY <2>1, <3>2
         DEF persistOpen, Saving, TypeOK, NamedFile, SaverInv, Malformed, File
    <3>3. CASE persistStore
      <4>1. FileOf(snap) \in File /\ NamedFile(FileOf(snap))
        BY <3>3 DEF persistStore, Saving, SaverInv, NamedFile, TypeOK, File, FileOf
      <4>2. /\ tmp' = FileOf(snap)
            /\ saver' = "move"
            /\ UNCHANGED <<sidecar, snap>>
        BY <3>3 DEF persistStore, Saving
      <4>3. Named(snap)'
        BY <3>3, <4>2 DEF persistStore, Saving, SaverInv, Named, Labelled, NamedByOneNumber
      <4>4. QED
        BY <2>1, <4>1, <4>2, <4>3 DEF TypeOK, NamedFile, SaverInv, FileOf
    <3>4. CASE persistMove
      BY <2>1, <3>4
         DEF persistMove, Saving, TypeOK, NamedFile, SaverInv, NoFile, File
    <3>5. CASE persistFails
      BY <2>1, <3>5 DEF persistFails, Saving, TypeOK, NamedFile, SaverInv
    <3>6. QED
      BY <1>8, <3>1, <3>2, <3>3, <3>4, <3>5
  <2>4. QED
    BY <2>2, <2>3
<1>9. ASSUME Crash
      PROVE  IInv'
  <2>1. TypeOK' /\ FilesInv'
    BY <1>9, AtClassLoadType, SeedAssumption DEF Crash, TypeOK, NamedFile
  <2>2. SaverInv' /\ StreamNamed' /\ StartupInv' /\ EntitySeedsFresh'
    BY <1>9 DEF Crash, SaverInv, StreamNamed, StartupInv, EntitySeedsFresh, AtClassLoad
  <2>3. QED
    BY <2>1, <2>2
<1>10. ASSUME UNCHANGED vars
       PROVE  IInv'
  BY <1>10 DEF vars, saving, TypeOK, NamedFile, SaverInv, StreamNamed, Labelled,
               NamedByOneNumber, Named, StartupInv, EntitySeedsFresh
<1>11. QED
  BY <1>1, <1>2, <1>3, <1>4, <1>5, <1>6, <1>7, <1>8, <1>9, <1>10 DEF Next

-----------------------------------------------------------------------------
(* The inductive invariant holds of every reachable state.                 *)
LEMMA Invariance == Spec => []IInv
  BY InitIInv, NextIInv, PTL DEF Spec

(* Type correctness.                                                       *)
THEOREM TypeCorrect == Spec => []TypeOK
  BY Invariance, PTL DEF IInv

(* /detmc rng always names the live stream by what it was keyed from.      *)
THEOREM StreamIsNamed == Spec => []StreamNamed
  BY Invariance, PTL DEF IInv

(* No entity of a life shares its seed with an earlier one of that life.   *)
THEOREM EntitySeedsAreFresh == Spec => []EntitySeedsFresh
  BY Invariance, PTL DEF IInv
-----------------------------------------------------------------------------
(* The restart promise.  Outside the phase "run" the server is nowhere; a  *)
(* save is pending while persistState runs; the sidecar is what is durable.*)

LEMMA PositionFacts ==
  ASSUME NEW r \in Rng
  PROVE  /\ PositionOf(r) \in Stream!Position
         /\ PositionOf(r) # Nowhere
         /\ PositionOf(r).base = r.base
  BY SeedAssumption DEF PositionOf, Stream!Position, Rng, State, Nowhere

LEMMA NowhereIsNoPosition == Nowhere = Stream!NoPosition
  BY DEF Nowhere, Stream!NoPosition

LEMMA InitRefines == Init => Stream!Init
<1> SUFFICES ASSUME Init PROVE Stream!Init
  OBVIOUS
<1>1. LivePosition = Nowhere /\ PendingPosition = Nowhere
  BY DEF Init, LivePosition, PendingPosition
<1>2. DurablePosition \in Stream!Position \cup {Nowhere}
  <2>1. TypeOK
    BY InitIInv DEF IInv
  <2>2. CASE sidecar.kind = "file" /\ sidecar.rng.state # AllZero
    <3>1. sidecar.rng \in Rng
      BY <2>1, <2>2, AdoptableType DEF TypeOK, Adoptable
    <3>2. QED
      BY <2>2, <3>1, PositionFacts DEF DurablePosition
  <2>3. CASE ~(sidecar.kind = "file" /\ sidecar.rng.state # AllZero)
    BY <2>3 DEF DurablePosition
  <2>4. QED
    BY <2>2, <2>3
<1>3. QED
  BY <1>1, <1>2, NowhereIsNoPosition DEF Stream!Init

LEMMA StepRefines == IInv /\ [Next]_vars => [Stream!Next]_(Stream!vars)
<1> SUFFICES ASSUME IInv, [Next]_vars
             PROVE  Stream!Next \/ UNCHANGED Stream!vars
  OBVIOUS
<1> USE DEF IInv, FilesInv, server, disk, saving
<1> USE NowhereIsNoPosition
<1>a. /\ rng \in Rng /\ snap \in Rng
      /\ saver # "idle" => phase = "run"
  BY DEF TypeOK, SaverInv
<1>b. UNCHANGED sidecar => UNCHANGED DurablePosition
  BY DEF DurablePosition
<1>c. UNCHANGED saving => UNCHANGED PendingPosition
  BY DEF PendingPosition
<1>1. ASSUME NEW p \in Seed, StaticInit(p)
      PROVE  UNCHANGED Stream!vars
  BY <1>1, <1>b, <1>c DEF StaticInit, LivePosition, Stream!vars
<1>2. ASSUME bindWorldSeed
      PROVE  UNCHANGED Stream!vars
  BY <1>2, <1>b, <1>c DEF bindWorldSeed, LivePosition, Stream!vars
<1>3. ASSUME restoreState
      PROVE  Stream!Next
  <2> DEFINE base == Xor[prop][WorldSeed]
  <2>1. /\ phase = "bound"
        /\ phase' = "run"
        /\ UNCHANGED <<disk, saving>>
    BY <1>3 DEF restoreState, Running
  <2>2. base \in Seed /\ rng.base = base
    BY <2>1, XorType, SeedAssumption DEF StreamNamed, TypeOK
  <2>3. LivePosition = Nowhere /\ LivePosition' = PositionOf(rng')
    BY <2>1 DEF LivePosition
  <2>4. LivePosition' = IF DurablePosition.base = base
                        THEN DurablePosition ELSE Stream!Start(base)
    <3>1. CASE Adoptable(sidecar, base)
      <4>1. rng' = sidecar.rng /\ sidecar.rng \in Rng /\ sidecar.rng.base = base
        BY <1>3, <2>2, <3>1, AdoptIsTheFile, AdoptableType
           DEF restoreState, Running, TypeOK
      <4>2. DurablePosition = PositionOf(sidecar.rng)
        BY <3>1 DEF DurablePosition, Adoptable
      <4>3. QED
        BY <2>3, <4>1, <4>2, PositionFacts
    <3>2. CASE ~Adoptable(sidecar, base)
      <4>1. rng' = rng
        BY <1>3, <3>2 DEF restoreState, Running
      <4>2. PositionOf(rng) = Stream!Start(base)
        BY <2>1, <2>2
           DEF StartupInv, StreamNamed, Labelled, PositionOf, Stream!Start
      <4>3. DurablePosition.base # base
        <5>1. CASE sidecar.kind = "file" /\ sidecar.rng.state # AllZero
          <6>1. sidecar.rng \in Rng /\ sidecar.rng.base # base
            BY <3>2, <5>1, AdoptableType DEF TypeOK, Adoptable
          <6>2. QED
            BY <5>1, <6>1, PositionFacts DEF DurablePosition
        <5>2. CASE ~(sidecar.kind = "file" /\ sidecar.rng.state # AllZero)
          BY <2>2, <5>2, SeedAssumption DEF DurablePosition, Nowhere
        <5>3. QED
          BY <5>1, <5>2
      <4>4. QED
        BY <2>3, <4>1, <4>2, <4>3
    <3>3. QED
      BY <3>1, <3>2
  <2>5. Stream!Launch(base)
    BY <2>1, <2>3, <2>4, <1>b, <1>c DEF Stream!Launch, Stream!MoveTo
  <2>6. QED
    BY <2>2, <2>5 DEF Stream!Next
<1>4. ASSUME restoreUnreadable
      PROVE  Stream!Next
  <2> DEFINE base == Xor[prop][WorldSeed]
  <2>1. /\ ReadErrors
        /\ phase = "bound"
        /\ phase' = "run"
        /\ UNCHANGED <<rng, disk, saving>>
    BY <1>4 DEF restoreUnreadable, Running
  <2>2. base \in Seed /\ rng.base = base
    BY <2>1, XorType, SeedAssumption DEF StreamNamed, TypeOK
  <2>3. LivePosition = Nowhere /\ LivePosition' = Stream!Start(base)
    BY <2>1, <2>2
       DEF LivePosition, StartupInv, StreamNamed, Labelled, PositionOf, Stream!Start
  <2>4. Stream!LaunchUnreadable(base)
    BY <2>1, <2>3, <1>b, <1>c DEF Stream!LaunchUnreadable, Stream!MoveTo
  <2>5. QED
    BY <2>2, <2>4 DEF Stream!Next
<1>5. ASSUME nextSeed
      PROVE  Stream!Next \/ UNCHANGED Stream!vars
  <2>1. /\ rng' = [rng EXCEPT !.state = Advanced(rng.state), !.issued = @ + 1]
        /\ UNCHANGED <<server, disk, saving>>
    BY <1>5 DEF nextSeed, Moved
  <2>2. CASE phase # "run"
    BY <2>1, <2>2, <1>b, <1>c DEF LivePosition, Stream!vars
  <2>3. CASE phase = "run"
    <3>1. LivePosition = PositionOf(rng) /\ LivePosition' = PositionOf(rng')
      BY <2>1, <2>3 DEF LivePosition
    <3>2. PositionOf(rng') = [PositionOf(rng) EXCEPT !.drawn = @ + 1]
      BY <2>1, <1>a DEF PositionOf, Rng, State, Advanced
    <3>3. Stream!DrawShared
      BY <2>1, <3>1, <3>2, <1>a, <1>b, <1>c, PositionFacts
         DEF Stream!DrawShared, Stream!MoveTo
    <3>4. QED
      BY <3>3 DEF Stream!Next
  <2>4. QED
    BY <2>2, <2>3
<1>6. ASSUME entitySeed
      PROVE  Stream!Next
  <2>1. /\ phase = "run"
        /\ rng' = [rng EXCEPT !.ordinal = @ + 1]
        /\ UNCHANGED <<server, disk, saving>>
    BY <1>6 DEF entitySeed, Moved
  <2>2. LivePosition = PositionOf(rng) /\ LivePosition' = PositionOf(rng')
    BY <2>1 DEF LivePosition
  <2>3. PositionOf(rng') = [PositionOf(rng) EXCEPT !.ordinal = @ + 1]
    BY <2>1, <1>a DEF PositionOf, Rng
  <2>4. Stream!DrawEntity
    BY <2>1, <2>2, <2>3, <1>a, <1>b, <1>c, PositionFacts
       DEF Stream!DrawEntity, Stream!MoveTo
  <2>5. QED
    BY <2>4 DEF Stream!Next
<1>7. ASSUME NEW n \in Seed, reseed(n)
      PROVE  Stream!Next
  <2> DEFINE key == Xor[n][WorldSeed]
             r0  == rekey(rng, key)
  <2>1. /\ phase = "run"
        /\ rng' = [r0 EXCEPT !.arg = n, !.reseeded = TRUE]
        /\ UNCHANGED <<server, disk, saving>>
    BY <1>7 DEF reseed, Moved
  <2>a. key \in Seed
    BY XorType, SeedAssumption
  <2> HIDE DEF key
  <2>b. /\ r0 \in Rng
        /\ r0.state = [key |-> key, pos |-> 0]
        /\ r0.base = rng.base
        /\ r0.ordinal = rng.ordinal
    BY <1>a, <2>a, RekeyFacts
  <2> HIDE DEF r0
  <2>2. /\ rng'.state.pos = 0
        /\ rng'.base = rng.base
        /\ rng'.reseeded = TRUE
        /\ rng'.arg = n
        /\ rng'.ordinal = rng.ordinal
    BY <2>1, <2>b DEF Rng
  <2>3. LivePosition = PositionOf(rng) /\ LivePosition' = PositionOf(rng')
    BY <2>1 DEF LivePosition
  <2>4. PositionOf(rng') = [base |-> PositionOf(rng).base, branch |-> n, drawn |-> 0,
                            ordinal |-> PositionOf(rng).ordinal]
    BY <2>2 DEF PositionOf
  <2>5. Stream!Branch(n)
    BY <2>1, <2>3, <2>4, <1>a, <1>b, <1>c, PositionFacts
       DEF Stream!Branch, Stream!MoveTo
  <2>6. QED
    BY <2>5 DEF Stream!Next
<1>8. ASSUME persistSnapshot \/ persistOpen \/ persistStore \/ persistMove \/ persistFails
      PROVE  Stream!Next \/ UNCHANGED Stream!vars
  <2>1. /\ phase = "run"
        /\ UNCHANGED <<server, rng>>
    BY <1>8 DEF persistSnapshot, persistOpen, persistStore, persistMove, persistFails, Saving
  <2>2. LivePosition = PositionOf(rng) /\ UNCHANGED LivePosition
    BY <2>1 DEF LivePosition
  <2>3. CASE persistSnapshot
    <3>1. PendingPosition = Nowhere /\ PendingPosition' = PositionOf(rng)
      BY <2>3 DEF persistSnapshot, Saving, PendingPosition
    <3>2. Stream!BeginSave
      BY <2>2, <2>3, <3>1, <1>a, <1>b, PositionFacts
         DEF persistSnapshot, Stream!BeginSave
    <3>3. QED
      BY <3>2 DEF Stream!Next
  <2>4. CASE persistOpen \/ persistStore
    <3>1. UNCHANGED PendingPosition
      BY <2>4 DEF persistOpen, persistStore, Saving, PendingPosition
    <3>2. UNCHANGED DurablePosition
      BY <2>4, <1>b DEF persistOpen, persistStore
    <3>3. QED
      BY <2>2, <3>1, <3>2 DEF Stream!vars
  <2>5. CASE persistMove \/ persistFails
    <3>1. PendingPosition = PositionOf(snap) /\ PendingPosition' = Nowhere
      BY <2>5 DEF persistMove, persistFails, Saving, PendingPosition
    <3>2. DurablePosition' \in {DurablePosition, PositionOf(snap)}
      <4>1. CASE persistMove
        <5>1. sidecar' = FileOf(snap)
          BY <4>1 DEF persistMove, Saving, SaverInv
        <5>2. snap.state # AllZero
          BY <1>a, StateIsUsable DEF Rng
        <5>3. QED
          BY <5>1, <5>2 DEF DurablePosition, FileOf
      <4>2. CASE persistFails
        BY <4>2, <1>b DEF persistFails
      <4>3. QED
        BY <2>5, <4>1, <4>2
    <3>3. Stream!EndSave
      BY <2>2, <3>1, <3>2, <1>a, PositionFacts DEF Stream!EndSave
    <3>4. QED
      BY <3>3 DEF Stream!Next
  <2>6. QED
    BY <1>8, <2>3, <2>4, <2>5
<1>9. ASSUME Crash
      PROVE  Stream!Next
  <2>1. Stream!Stop
    BY <1>9, <1>b DEF Crash, LivePosition, PendingPosition, Stream!Stop
  <2>2. QED
    BY <2>1 DEF Stream!Next
<1>10. ASSUME UNCHANGED vars
       PROVE  UNCHANGED Stream!vars
  BY <1>10, <1>b, <1>c DEF vars, saving, LivePosition, Stream!vars
<1>11. QED
  BY <1>1, <1>2, <1>3, <1>4, <1>5, <1>6, <1>7, <1>8, <1>9, <1>10 DEF Next

(* The seed source of the code keeps the promise of DurableStream: a save  *)
(* is all or nothing, and a restart continues the save of its own key.     *)
THEOREM SeedSourceIsDurable == Spec => ContinuesTheStream
<1>1. Init => Stream!Init
  BY InitRefines
<1>2. IInv /\ [Next]_vars => [Stream!Next]_(Stream!vars)
  BY StepRefines
<1>3. QED
  BY <1>1, <1>2, Invariance, PTL DEF Spec, Stream!Spec, ContinuesTheStream
=============================================================================
