-------------------------- MODULE OwnedDistanceProofs --------------------------
(***************************************************************************)
(* Proofs about OwnedDistance, for any number of threads, wrappers and     *)
(* entities, whatever distances the engine authors and other mods write.   *)
(*                                                                         *)
(* The lock makes one thread at a time the author of a record; what it is  *)
(* about to do with the record is in its place and its frame.  So the      *)
(* inductive invariant speaks of the places inside the lock too: the       *)
(* record of a thread about to extend is in the table but not yet counted, *)
(* the record of a thread about to give back is out of the table but still *)
(* counted, and a distance of the mod's making is covered by exactly one   *)
(* of the two kinds.                                                       *)
(***************************************************************************)
EXTENDS OwnedDistance, FiniteSetTheorems, TLAPS

Locked == {"publish", "apply", "restore"}

\* The lock is held by the thread in a critical place, or by the uninstaller
\* while it restores; and the flags follow the uninstaller's stage.
LockInv ==
  /\ \A t \in Threads : pc[t] \in Locked <=> lock = t
  /\ lock = Closer <=> lifecycle = "restoring"
  /\ enabled <=> lifecycle = "running"
  /\ shutdown_terminal <=> lifecycle \notin {"installed", "running"}
  /\ hooked <=> lifecycle \in {"installed", "running", "disabled"}
  /\ \A t \in Threads : pc[t] \in {"publish", "apply"} => enabled

\* A hook has a wrapper with an entity, and no other hook has it.
FrameInv ==
  /\ \A t \in Threads : pc[t] # "idle" =>
       /\ frame[t].wrapper \in Wrappers
       /\ held[frame[t].wrapper] # NoEntity
  /\ \A t, u \in Threads :
       pc[t] # "idle" /\ pc[u] # "idle" /\ frame[t].wrapper = frame[u].wrapper
         => t = u
  /\ \A v, w \in Wrappers : held[v] # NoEntity /\ held[v] = held[w] => v = w

\* An entity has one record at most.
RecordInv ==
  /\ \A w \in Wrappers : owned[w] # NoRecord => owned[w].entity # NoEntity
  /\ \A v, w \in Wrappers :
       owned[v] # NoRecord /\ owned[v].entity = owned[w].entity => v = w

\* What the record in a thread's frame has to do with the table.
InPlace(t) ==
  LET w == frame[t].wrapper
      r == frame[t].record
  IN
  /\ pc[t] \in Locked => r.entity = held[w] /\ r # NoRecord
  /\ pc[t] = "apply" => owned[w] = r /\ r.applied /\ r.entity \notin modded
  /\ pc[t] = "restore" =>
       /\ owned[w] = NoRecord
       /\ \A v \in Wrappers : owned[v].entity # r.entity
  /\ pc[t] = "release" /\ owned[w] # NoRecord => owned[w].entity = held[w]
  /\ pc[t] = "free" /\ hooked => owned[w] = NoRecord
PlaceInv == \A t \in Threads : InPlace(t)

\* A record covers a distance of the mod's making: it is in the table, or in
\* the frame of the thread that is giving it back.
Covers(r, e) == r.entity = e /\ r.applied /\ r.scaled = distance[e]
InTable(e) == \E w \in Wrappers : Covers(owned[w], e)
InFrame(e) == \E t \in Threads : pc[t] = "restore" /\ Covers(frame[t].record, e)
CoverInv == modded \subseteq Live /\ \A e \in modded : InTable(e) \/ InFrame(e)

\* The wrappers whose record distance_applied_active counts.
Applying(w) == \E t \in Threads : pc[t] = "apply" /\ frame[t].wrapper = w
Returning(w) ==
  \E t \in Threads : pc[t] = "restore" /\ frame[t].wrapper = w /\ frame[t].record.applied
Owed == {w \in Wrappers : (owned[w].applied /\ ~Applying(w)) \/ Returning(w)}
CountInv == applied_active = Cardinality(Owed)

\* The uninstaller leaves nothing behind it.
LeftInv ==
  /\ lifecycle = "restoring" => \A w \in Wrappers \ todo : owned[w] = NoRecord
  /\ lifecycle = "restored" => lock = Nobody /\ \A w \in Wrappers : owned[w] = NoRecord

DInv ==
  /\ TypeOK /\ LockInv /\ FrameInv /\ RecordInv /\ PlaceInv
  /\ CoverInv /\ CountInv /\ OwnedIsLive /\ LeftInv

-----------------------------------------------------------------------------
(* Types.                                                                   *)

\* Every distance is a natural number, and what the mod makes of one is one.
LEMMA DistanceIsNat == ASSUME NEW d \in Distances PROVE d \in Nat
BY DistanceAssumption DEF Distances

LEMMA ScaleInRange == ASSUME NEW d \in Distances PROVE Scale(d) \in Distances
<1>1. d \in Nat /\ Multiplier \in Nat /\ Coverage \in Nat
  BY DistanceIsNat, DistanceAssumption
<1>2. PICK m \in Nat : m = d * Multiplier
  BY <1>1
<1>3. AtMost(m, Coverage) \in 0 .. Coverage
  BY <1>1 DEF AtMost
<1>4. QED
  BY <1>2, <1>3 DEF Scale, AtLeast, Distances

Frames == [wrapper : Wrappers \cup {NoEntity}, record : Records]

LEMMA FrameWith ==
  ASSUME NEW f \in Frames, NEW r \in Records
  PROVE  [f EXCEPT !.record = r] \in Frames
BY DEF Frames

\* A thread in a critical place has a record of an entity in hand.
LEMMA AtWork ==
  ASSUME TypeOK, FrameInv, PlaceInv, NEW t \in Threads, pc[t] \in Locked
  PROVE  /\ frame[t].wrapper \in Wrappers
         /\ frame[t].record \in Records
         /\ frame[t].record.entity \in Entities
         /\ frame[t].record.entity = held[frame[t].wrapper]
         /\ frame[t].record.entity # NoEntity
BY DEF TypeOK, FrameInv, PlaceInv, InPlace, Locked, Frames

LEMMA NoRecordIsRecord == NoRecord \in Records
BY DEF NoRecord, Records, Distances

\* Every step leaves each variable its type.
LEMMA TypeStep ==
  ASSUME TypeOK, FrameInv, PlaceInv,
         [Next]_vars
  PROVE  TypeOK'
<1> USE DEF TypeOK, flags, Go, Others
<1>1. ASSUME NEW w \in Wrappers, NEW e \in Entities, NEW d \in Authored, Create(w, e, d)
      PROVE  TypeOK'
  BY <1>1, DistanceIsNat DEF Create, Distances
<1>2. ASSUME NEW e \in Entities, NEW d \in Foreign, ForeignWrite(e, d)
      PROVE  TypeOK'
  BY <1>2 DEF ForeignWrite, Distances
<1>3. ASSUME NEW t \in Threads, NEW w \in Wrappers, CallCommit(t, w)
      PROVE  TypeOK'
  BY <1>3, NoRecordIsRecord DEF CallCommit, NoFrame
<1>4. ASSUME NEW t \in Threads, NEW w \in Wrappers, CallRelease(t, w)
      PROVE  TypeOK'
  BY <1>4, NoRecordIsRecord DEF CallRelease, NoFrame
<1>5. ASSUME NEW t \in Threads, CommitPass(t)
      PROVE  TypeOK'
  BY <1>5, NoRecordIsRecord DEF CommitPass, NoFrame
<1>6. ASSUME NEW t \in Threads, CommitRead(t)
      PROVE  TypeOK'
  <2> DEFINE w == frame[t].wrapper
  <2> DEFINE r == [entity |-> held[w], original |-> distance[held[w]],
                   scaled |-> Scale(distance[held[w]]),
                   applied |-> Scale(distance[held[w]]) # distance[held[w]]]
  <2>1. w \in Wrappers /\ held[w] \in Entities
    BY <1>6 DEF CommitRead, FrameInv
  <2>2. r \in Records
    BY <2>1, ScaleInRange DEF Records
  <2>3. [frame[t] EXCEPT !.record = r] \in
          [wrapper : Wrappers \cup {NoEntity}, record : Records]
    BY <2>2
  <2>4. NoFrame \in [wrapper : Wrappers \cup {NoEntity}, record : Records]
    BY NoRecordIsRecord DEF NoFrame
  <2>5. frame' \in [Threads -> [wrapper : Wrappers \cup {NoEntity}, record : Records]]
    BY <1>6, <2>3, <2>4 DEF CommitRead
  <2>6. QED
    BY <1>6, <2>5 DEF CommitRead
<1>7. ASSUME NEW t \in Threads, CommitPublish(t)
      PROVE  TypeOK'
  BY <1>7, NoRecordIsRecord DEF CommitPublish, NoFrame
<1>8. ASSUME NEW t \in Threads, CommitApply(t)
      PROVE  TypeOK'
  <2>1. frame[t].record \in Records
    OBVIOUS
  <2>2. distance' \in [Entities -> Distances]
    BY <1>8, <2>1 DEF CommitApply, Records
  <2>3. owned' \in [Wrappers -> Records]
    BY <1>8, NoRecordIsRecord DEF CommitApply
  <2>4. modded' \subseteq Entities
    BY <1>8, <2>1, AtWork DEF CommitApply, Locked
  <2>5. QED
    BY <1>8, <2>2, <2>3, <2>4, NoRecordIsRecord DEF CommitApply, NoFrame
<1>9. ASSUME NEW t \in Threads, ReleaseTake(t)
      PROVE  TypeOK'
  <2>1. frame[t].wrapper \in Wrappers
    BY <1>9 DEF ReleaseTake, FrameInv
  <2>2. owned[frame[t].wrapper] \in Records
    BY <2>1
  <2>3. [frame[t] EXCEPT !.record = owned[frame[t].wrapper]] \in Frames
    BY <2>2, FrameWith DEF Frames
  <2>4. frame' \in [Threads -> Frames]
    BY <1>9, <2>3 DEF ReleaseTake, Frames
  <2>5. QED
    BY <1>9, <2>4, NoRecordIsRecord DEF ReleaseTake, Frames
<1>10. ASSUME NEW t \in Threads, ReleaseRestore(t)
      PROVE  TypeOK'
  <2>1. frame[t].record \in Records /\ frame[t].record.original \in Distances
    BY DEF Records
  <2>2. distance' \in [Entities -> Distances]
    BY <1>10, <2>1 DEF ReleaseRestore, GiveBack
  <2>3. [frame[t] EXCEPT !.record = NoRecord] \in Frames
    BY NoRecordIsRecord, FrameWith DEF Frames
  <2>4. frame' \in [Threads -> Frames]
    BY <1>10, <2>3 DEF ReleaseRestore, Frames
  <2>5. applied_active' \in Int
    BY <1>10, <2>1 DEF ReleaseRestore
  <2>6. modded' \subseteq Entities
    BY <1>10 DEF ReleaseRestore, GiveBack
  <2>7. QED
    BY <1>10, <2>2, <2>4, <2>5, <2>6 DEF ReleaseRestore, Frames
<1>11. ASSUME NEW t \in Threads, Free(t)
      PROVE  TypeOK'
  BY <1>11, NoRecordIsRecord DEF Free, NoFrame
<1>12. CASE Enable
  BY <1>12 DEF Enable
<1>13. CASE Disable
  BY <1>13 DEF Disable
<1>14. CASE Unhook
  BY <1>14 DEF Unhook
<1>15. CASE RestoreAll
  BY <1>15 DEF RestoreAll
<1>16. CASE RestoreDone
  BY <1>16 DEF RestoreDone
<1>17. ASSUME NEW w \in Wrappers, RestoreOne(w)
      PROVE  TypeOK'
  BY <1>17, NoRecordIsRecord DEF RestoreOne, GiveBack, Records
<1>18. CASE UNCHANGED vars
  BY <1>18 DEF vars, flags
<1>19. QED
  BY <1>1, <1>2, <1>3, <1>4, <1>5, <1>6, <1>7, <1>8, <1>9,
     <1>10, <1>11, <1>12, <1>13, <1>14, <1>15, <1>16, <1>17, <1>18
  DEF Next, Commit, Release

\* The lock follows the places, the flags follow the uninstaller.
LEMMA LockStep ==
  ASSUME TypeOK, LockInv,
         [Next]_vars
  PROVE  LockInv'
<1> USE DEF TypeOK, LockInv, Locked, flags, Others, Go
<1>1. ASSUME NEW w \in Wrappers, NEW e \in Entities, NEW d \in Authored, Create(w, e, d)
      PROVE  LockInv'
  BY <1>1, DistanceAssumption DEF Create
<1>2. ASSUME NEW e \in Entities, NEW d \in Foreign, ForeignWrite(e, d)
      PROVE  LockInv'
  BY <1>2, DistanceAssumption DEF ForeignWrite
<1>3. ASSUME NEW t \in Threads, NEW w \in Wrappers, CallCommit(t, w)
      PROVE  LockInv'
  BY <1>3, DistanceAssumption DEF CallCommit
<1>4. ASSUME NEW t \in Threads, NEW w \in Wrappers, CallRelease(t, w)
      PROVE  LockInv'
  BY <1>4, DistanceAssumption DEF CallRelease
<1>5. ASSUME NEW t \in Threads, CommitPass(t)
      PROVE  LockInv'
  BY <1>5, DistanceAssumption DEF CommitPass
<1>6. ASSUME NEW t \in Threads, CommitRead(t)
      PROVE  LockInv'
  BY <1>6, DistanceAssumption DEF CommitRead
<1>7. ASSUME NEW t \in Threads, CommitPublish(t)
      PROVE  LockInv'
  BY <1>7, DistanceAssumption DEF CommitPublish
<1>8. ASSUME NEW t \in Threads, CommitApply(t)
      PROVE  LockInv'
  BY <1>8, DistanceAssumption DEF CommitApply
<1>9. ASSUME NEW t \in Threads, ReleaseTake(t)
      PROVE  LockInv'
  BY <1>9, DistanceAssumption DEF ReleaseTake
<1>10. ASSUME NEW t \in Threads, ReleaseRestore(t)
      PROVE  LockInv'
  BY <1>10, DistanceAssumption DEF ReleaseRestore
<1>11. ASSUME NEW t \in Threads, Free(t)
      PROVE  LockInv'
  BY <1>11, DistanceAssumption DEF Free
<1>12. CASE Enable
  BY <1>12, DistanceAssumption DEF Enable
<1>13. CASE Disable
  BY <1>13, DistanceAssumption DEF Disable
<1>14. CASE Unhook
  BY <1>14, DistanceAssumption DEF Unhook
<1>15. CASE RestoreAll
  BY <1>15, DistanceAssumption DEF RestoreAll
<1>16. CASE RestoreDone
  BY <1>16, DistanceAssumption DEF RestoreDone
<1>17. ASSUME NEW w \in Wrappers, RestoreOne(w)
      PROVE  LockInv'
  BY <1>17, DistanceAssumption DEF RestoreOne
<1>18. CASE UNCHANGED vars
  BY <1>18, DistanceAssumption DEF vars, flags
<1>19. QED
  BY <1>1, <1>2, <1>3, <1>4, <1>5, <1>6, <1>7, <1>8, <1>9,
     <1>10, <1>11, <1>12, <1>13, <1>14, <1>15, <1>16, <1>17, <1>18
  DEF Next, Commit, Release

\* A wrapper is in the hands of one hook, an entity in those of one wrapper.
LEMMA FrameStep ==
  ASSUME TypeOK, FrameInv,
         [Next]_vars
  PROVE  FrameInv'
<1> USE DEF TypeOK, FrameInv, flags, Others, Go, Busy, Live
<1>1. ASSUME NEW w \in Wrappers, NEW e \in Entities, NEW d \in Authored, Create(w, e, d)
      PROVE  FrameInv'
  BY <1>1 DEF Create
<1>2. ASSUME NEW e \in Entities, NEW d \in Foreign, ForeignWrite(e, d)
      PROVE  FrameInv'
  BY <1>2 DEF ForeignWrite
<1>3. ASSUME NEW t \in Threads, NEW w \in Wrappers, CallCommit(t, w)
      PROVE  FrameInv'
  BY <1>3 DEF CallCommit
<1>4. ASSUME NEW t \in Threads, NEW w \in Wrappers, CallRelease(t, w)
      PROVE  FrameInv'
  BY <1>4 DEF CallRelease
<1>5. ASSUME NEW t \in Threads, CommitPass(t)
      PROVE  FrameInv'
  BY <1>5 DEF CommitPass
<1>6. ASSUME NEW t \in Threads, CommitRead(t)
      PROVE  FrameInv'
  <2>1. held' = held /\ frame'[t].wrapper \in {frame[t].wrapper, NoEntity}
    BY <1>6 DEF CommitRead, NoFrame
  <2>2. pc'[t] # "idle" => frame'[t].wrapper = frame[t].wrapper
    BY <1>6 DEF CommitRead
  <2>3. pc[t] # "idle"
    BY <1>6 DEF CommitRead
  <2>4. \A u \in Threads \ {t} : pc'[u] = pc[u] /\ frame'[u] = frame[u]
    BY <1>6 DEF CommitRead
  <2>5. QED
    BY <2>1, <2>2, <2>3, <2>4
<1>7. ASSUME NEW t \in Threads, CommitPublish(t)
      PROVE  FrameInv'
  BY <1>7 DEF CommitPublish
<1>8. ASSUME NEW t \in Threads, CommitApply(t)
      PROVE  FrameInv'
  BY <1>8 DEF CommitApply
<1>9. ASSUME NEW t \in Threads, ReleaseTake(t)
      PROVE  FrameInv'
  BY <1>9 DEF ReleaseTake
<1>10. ASSUME NEW t \in Threads, ReleaseRestore(t)
      PROVE  FrameInv'
  BY <1>10 DEF ReleaseRestore
<1>11. ASSUME NEW t \in Threads, Free(t)
      PROVE  FrameInv'
  BY <1>11 DEF Free
<1>12. CASE Enable
  BY <1>12 DEF Enable
<1>13. CASE Disable
  BY <1>13 DEF Disable
<1>14. CASE Unhook
  BY <1>14 DEF Unhook
<1>15. CASE RestoreAll
  BY <1>15 DEF RestoreAll
<1>16. CASE RestoreDone
  BY <1>16 DEF RestoreDone
<1>17. ASSUME NEW w \in Wrappers, RestoreOne(w)
      PROVE  FrameInv'
  BY <1>17 DEF RestoreOne
<1>18. CASE UNCHANGED vars
  BY <1>18 DEF vars, flags
<1>19. QED
  BY <1>1, <1>2, <1>3, <1>4, <1>5, <1>6, <1>7, <1>8, <1>9,
     <1>10, <1>11, <1>12, <1>13, <1>14, <1>15, <1>16, <1>17, <1>18
  DEF Next, Commit, Release


LEMMA TakenOut ==
  ASSUME TypeOK, RecordInv, NEW w \in Wrappers, owned' = [owned EXCEPT ![w] = NoRecord]
  PROVE  RecordInv'
<1>1. \A v \in Wrappers : owned'[v] = IF v = w THEN NoRecord ELSE owned[v]
  BY DEF TypeOK
<1>2. NoRecord.entity = NoEntity
  BY DEF NoRecord
<1>3. QED
  BY <1>1, <1>2 DEF RecordInv

\* A record is made for an entity that has none.
LEMMA RecordStep ==
  ASSUME TypeOK, LockInv, FrameInv, RecordInv, PlaceInv,
         [Next]_vars
  PROVE  RecordInv'
<1> USE DEF TypeOK, RecordInv, flags, Others, Go
<1>1. ASSUME NEW w \in Wrappers, NEW e \in Entities, NEW d \in Authored, Create(w, e, d)
      PROVE  RecordInv'
  BY <1>1 DEF Create
<1>2. ASSUME NEW e \in Entities, NEW d \in Foreign, ForeignWrite(e, d)
      PROVE  RecordInv'
  BY <1>2 DEF ForeignWrite
<1>3. ASSUME NEW t \in Threads, NEW w \in Wrappers, CallCommit(t, w)
      PROVE  RecordInv'
  BY <1>3 DEF CallCommit
<1>4. ASSUME NEW t \in Threads, NEW w \in Wrappers, CallRelease(t, w)
      PROVE  RecordInv'
  BY <1>4 DEF CallRelease
<1>5. ASSUME NEW t \in Threads, CommitPass(t)
      PROVE  RecordInv'
  BY <1>5 DEF CommitPass
<1>6. ASSUME NEW t \in Threads, CommitRead(t)
      PROVE  RecordInv'
  BY <1>6 DEF CommitRead
<1>7. ASSUME NEW t \in Threads, CommitPublish(t)
      PROVE  RecordInv'
  <2> DEFINE w == frame[t].wrapper
  <2> DEFINE r == frame[t].record
  <2>1. w \in Wrappers /\ r.entity # NoEntity
    BY <1>7, AtWork DEF CommitPublish, Locked
  <2>2. CASE UNCHANGED owned
    BY <2>2
  <2>3. CASE /\ owned' = [owned EXCEPT ![w] = r]
             /\ Owner(r.entity) = {}
    <3>1. \A v \in Wrappers : owned'[v] = IF v = w THEN r ELSE owned[v]
      BY <2>3
    <3>2. \A v \in Wrappers : owned[v].entity # r.entity
      BY <2>3 DEF Owner
    <3>3. QED
      BY <2>1, <3>1, <3>2
  <2>4. QED
    BY <1>7, <2>2, <2>3 DEF CommitPublish
<1>8. ASSUME NEW t \in Threads, CommitApply(t)
      PROVE  RecordInv'
  <2>1. frame[t].wrapper \in Wrappers
    BY <1>8, AtWork DEF CommitApply, Locked
  <2>2. CASE UNCHANGED owned
    BY <2>2
  <2>3. CASE owned' = [owned EXCEPT ![frame[t].wrapper] = NoRecord]
    BY <2>1, <2>3, TakenOut
  <2>4. QED
    BY <1>8, <2>2, <2>3 DEF CommitApply
<1>9. ASSUME NEW t \in Threads, ReleaseTake(t)
      PROVE  RecordInv'
  <2>1. frame[t].wrapper \in Wrappers
    BY <1>9 DEF ReleaseTake, FrameInv
  <2>2. CASE UNCHANGED owned
    BY <2>2
  <2>3. CASE owned' = [owned EXCEPT ![frame[t].wrapper] = NoRecord]
    BY <2>1, <2>3, TakenOut
  <2>4. QED
    BY <1>9, <2>2, <2>3 DEF ReleaseTake
<1>10. ASSUME NEW t \in Threads, ReleaseRestore(t)
      PROVE  RecordInv'
  BY <1>10 DEF ReleaseRestore
<1>11. ASSUME NEW t \in Threads, Free(t)
      PROVE  RecordInv'
  BY <1>11 DEF Free
<1>12. CASE Enable
  BY <1>12 DEF Enable
<1>13. CASE Disable
  BY <1>13 DEF Disable
<1>14. CASE Unhook
  BY <1>14 DEF Unhook
<1>15. CASE RestoreAll
  BY <1>15 DEF RestoreAll
<1>16. CASE RestoreDone
  BY <1>16 DEF RestoreDone
<1>17. ASSUME NEW w \in Wrappers, RestoreOne(w)
      PROVE  RecordInv'
  BY <1>17, TakenOut DEF RestoreOne
<1>18. CASE UNCHANGED vars
  BY <1>18 DEF vars, flags
<1>19. QED
  BY <1>1, <1>2, <1>3, <1>4, <1>5, <1>6, <1>7, <1>8, <1>9,
     <1>10, <1>11, <1>12, <1>13, <1>14, <1>15, <1>16, <1>17, <1>18
  DEF Next, Commit, Release

\* While the hooks are in, the release hook takes the record out first.
LEMMA LiveStep ==
  ASSUME TypeOK, LockInv, FrameInv, RecordInv, PlaceInv, OwnedIsLive,
         [Next]_vars
  PROVE  OwnedIsLive'
<1> USE DEF TypeOK, OwnedIsLive, flags, Others, Go
<1>1. ASSUME NEW w \in Wrappers, NEW e \in Entities, NEW d \in Authored, Create(w, e, d)
      PROVE  OwnedIsLive'
  BY <1>1 DEF Create, RecordInv
<1>2. ASSUME NEW e \in Entities, NEW d \in Foreign, ForeignWrite(e, d)
      PROVE  OwnedIsLive'
  BY <1>2 DEF ForeignWrite
<1>3. ASSUME NEW t \in Threads, NEW w \in Wrappers, CallCommit(t, w)
      PROVE  OwnedIsLive'
  BY <1>3 DEF CallCommit
<1>4. ASSUME NEW t \in Threads, NEW w \in Wrappers, CallRelease(t, w)
      PROVE  OwnedIsLive'
  BY <1>4 DEF CallRelease
<1>5. ASSUME NEW t \in Threads, CommitPass(t)
      PROVE  OwnedIsLive'
  BY <1>5 DEF CommitPass
<1>6. ASSUME NEW t \in Threads, CommitRead(t)
      PROVE  OwnedIsLive'
  BY <1>6 DEF CommitRead
<1>7. ASSUME NEW t \in Threads, CommitPublish(t)
      PROVE  OwnedIsLive'
  <2>1. /\ frame[t].wrapper \in Wrappers
        /\ frame[t].record.entity = held[frame[t].wrapper]
    BY <1>7, AtWork DEF CommitPublish, Locked
  <2>2. \A w \in Wrappers : owned'[w] # owned[w] => owned'[w].entity = held[w]
    BY <1>7, <2>1 DEF CommitPublish
  <2>3. hooked' = hooked /\ held' = held
    BY <1>7 DEF CommitPublish
  <2>4. QED
    BY <2>2, <2>3
<1>8. ASSUME NEW t \in Threads, CommitApply(t)
      PROVE  OwnedIsLive'
  BY <1>8 DEF CommitApply
<1>9. ASSUME NEW t \in Threads, ReleaseTake(t)
      PROVE  OwnedIsLive'
  BY <1>9 DEF ReleaseTake
<1>10. ASSUME NEW t \in Threads, ReleaseRestore(t)
      PROVE  OwnedIsLive'
  BY <1>10 DEF ReleaseRestore
<1>11. ASSUME NEW t \in Threads, Free(t)
      PROVE  OwnedIsLive'
  <2>1. hooked => owned[frame[t].wrapper] = NoRecord
    BY <1>11 DEF Free, PlaceInv, InPlace
  <2>2. QED
    BY <1>11, <2>1 DEF Free
<1>12. CASE Enable
  BY <1>12 DEF Enable
<1>13. CASE Disable
  BY <1>13 DEF Disable
<1>14. CASE Unhook
  BY <1>14 DEF Unhook
<1>15. CASE RestoreAll
  BY <1>15 DEF RestoreAll
<1>16. CASE RestoreDone
  BY <1>16 DEF RestoreDone
<1>17. ASSUME NEW w \in Wrappers, RestoreOne(w)
      PROVE  OwnedIsLive'
  BY <1>17 DEF RestoreOne
<1>18. CASE UNCHANGED vars
  BY <1>18 DEF vars, flags
<1>19. QED
  BY <1>1, <1>2, <1>3, <1>4, <1>5, <1>6, <1>7, <1>8, <1>9,
     <1>10, <1>11, <1>12, <1>13, <1>14, <1>15, <1>16, <1>17, <1>18
  DEF Next, Commit, Release

\* Nothing is put into the table once the hooks are disabled.
LEMMA LeftStep ==
  ASSUME TypeOK, LockInv, FrameInv, PlaceInv, LeftInv,
         [Next]_vars
  PROVE  LeftInv'
<1> USE DEF TypeOK, LeftInv, flags, Others, Go
<1>1. ASSUME NEW w \in Wrappers, NEW e \in Entities, NEW d \in Authored, Create(w, e, d)
      PROVE  LeftInv'
  BY <1>1 DEF Create
<1>2. ASSUME NEW e \in Entities, NEW d \in Foreign, ForeignWrite(e, d)
      PROVE  LeftInv'
  BY <1>2 DEF ForeignWrite
<1>3. ASSUME NEW t \in Threads, NEW w \in Wrappers, CallCommit(t, w)
      PROVE  LeftInv'
  BY <1>3 DEF CallCommit
<1>4. ASSUME NEW t \in Threads, NEW w \in Wrappers, CallRelease(t, w)
      PROVE  LeftInv'
  BY <1>4 DEF CallRelease
<1>5. ASSUME NEW t \in Threads, CommitPass(t)
      PROVE  LeftInv'
  BY <1>5 DEF CommitPass
<1>6. ASSUME NEW t \in Threads, CommitRead(t)
      PROVE  LeftInv'
  BY <1>6 DEF CommitRead, LockInv
<1>7. ASSUME NEW t \in Threads, CommitPublish(t)
      PROVE  LeftInv'
  <2>1. lifecycle = "running"
    BY <1>7 DEF CommitPublish, LockInv
  <2>2. QED
    BY <1>7, <2>1 DEF CommitPublish
<1>8. ASSUME NEW t \in Threads, CommitApply(t)
      PROVE  LeftInv'
  BY <1>8 DEF CommitApply
<1>9. ASSUME NEW t \in Threads, ReleaseTake(t)
      PROVE  LeftInv'
  <2>1. frame[t].wrapper \in Wrappers
    BY <1>9 DEF ReleaseTake, FrameInv
  <2>2. \A w \in Wrappers : owned[w] = NoRecord => owned'[w] = NoRecord
    BY <1>9 DEF ReleaseTake
  <2>3. lifecycle = "restored" => lock' = lock
    BY <1>9, <2>1 DEF ReleaseTake
  <2>4. QED
    BY <1>9, <2>2, <2>3 DEF ReleaseTake
<1>10. ASSUME NEW t \in Threads, ReleaseRestore(t)
      PROVE  LeftInv'
  BY <1>10 DEF ReleaseRestore
<1>11. ASSUME NEW t \in Threads, Free(t)
      PROVE  LeftInv'
  BY <1>11 DEF Free
<1>12. CASE Enable
  BY <1>12 DEF Enable
<1>13. CASE Disable
  BY <1>13 DEF Disable
<1>14. CASE Unhook
  BY <1>14 DEF Unhook
<1>15. CASE RestoreAll
  BY <1>15 DEF RestoreAll
<1>16. CASE RestoreDone
  BY <1>16 DEF RestoreDone
<1>17. ASSUME NEW w \in Wrappers, RestoreOne(w)
      PROVE  LeftInv'
  BY <1>17 DEF RestoreOne
<1>18. CASE UNCHANGED vars
  BY <1>18 DEF vars, flags
<1>19. QED
  BY <1>1, <1>2, <1>3, <1>4, <1>5, <1>6, <1>7, <1>8, <1>9,
     <1>10, <1>11, <1>12, <1>13, <1>14, <1>15, <1>16, <1>17, <1>18
  DEF Next, Commit, Release


\* The lock leaves one thread at a time in a critical place.
LEMMA Alone ==
  ASSUME LockInv, NEW t \in Threads, lock \in {t, Nobody}
  PROVE  \A u \in Threads \ {t} : pc[u] \notin Locked
BY DistanceAssumption DEF LockInv

\* What a hook does to its own wrapper does not move the others.
LEMMA OthersStay ==
  ASSUME FrameInv, PlaceInv, NEW t \in Threads, pc[t] # "idle",
         \A u \in Threads \ {t} : pc'[u] = pc[u] /\ frame'[u] = frame[u],
         \A w \in Wrappers \ {frame[t].wrapper} : owned'[w] = owned[w] /\ held'[w] = held[w],
         hooked' = hooked,
         \/ \A u \in Threads \ {t} : pc[u] \notin Locked
         \/ owned' = owned /\ modded' \subseteq modded
  PROVE  \A u \in Threads \ {t} : InPlace(u)'
<1> SUFFICES ASSUME NEW u \in Threads \ {t} PROVE InPlace(u)'
  OBVIOUS
<1>1. InPlace(u) /\ pc'[u] = pc[u] /\ frame'[u] = frame[u]
  BY DEF PlaceInv
<1>2. CASE pc[u] = "idle"
  BY <1>1, <1>2 DEF InPlace, Locked
<1>3. CASE pc[u] # "idle"
  <2>1. frame[u].wrapper \in Wrappers \ {frame[t].wrapper}
    BY <1>3 DEF FrameInv
  <2>2. /\ owned'[frame[u].wrapper] = owned[frame[u].wrapper]
        /\ held'[frame[u].wrapper] = held[frame[u].wrapper]
    BY <2>1
  <2>3. CASE pc[u] \notin Locked
    BY <1>1, <2>2, <2>3 DEF InPlace, Locked
  <2>4. CASE owned' = owned /\ modded' \subseteq modded
    BY <1>1, <2>2, <2>4 DEF InPlace, Locked
  <2>5. QED
    BY <2>3, <2>4
<1>4. QED
  BY <1>2, <1>3

\* The hand that holds a record knows where else it is.
LEMMA PlaceStep ==
  ASSUME TypeOK, LockInv, FrameInv, RecordInv, PlaceInv, CoverInv, OwnedIsLive,
         [Next]_vars
  PROVE  PlaceInv'
<1> USE DEF TypeOK, flags, Others, Go, Locked
<1>1. ASSUME NEW w \in Wrappers, NEW e \in Entities, NEW d \in Authored, Create(w, e, d)
      PROVE  PlaceInv'
  <2>1. \A u \in Threads : frame[u].wrapper # w
    BY <1>1 DEF Create, Busy
  <2>2. \A u \in Threads : pc[u] # "idle" => held'[frame[u].wrapper] = held[frame[u].wrapper]
    BY <1>1, <2>1 DEF Create, FrameInv
  <2>3. modded' \subseteq modded /\ UNCHANGED <<pc, frame, owned, hooked>>
    BY <1>1 DEF Create
  <2>4. QED
    BY <2>2, <2>3 DEF PlaceInv, InPlace
<1>2. ASSUME NEW e \in Entities, NEW d \in Foreign, ForeignWrite(e, d)
      PROVE  PlaceInv'
  BY <1>2 DEF ForeignWrite, PlaceInv, InPlace
<1>3. ASSUME NEW t \in Threads, NEW w \in Wrappers, CallCommit(t, w)
      PROVE  PlaceInv'
  <2>1. \A u \in Threads \ {t} : InPlace(u)'
    BY <1>3 DEF CallCommit, InPlace, PlaceInv
  <2>8. InPlace(t)'
    BY <1>3 DEF CallCommit, InPlace
  <2>9. QED
    BY <2>1, <2>8 DEF PlaceInv
<1>4. ASSUME NEW t \in Threads, NEW w \in Wrappers, CallRelease(t, w)
      PROVE  PlaceInv'
  <2>1. \A u \in Threads \ {t} : InPlace(u)'
    BY <1>4 DEF CallRelease, InPlace, PlaceInv
  <2>2. w \in Wrappers /\ frame'[t].wrapper = w /\ held' = held /\ owned' = owned
        /\ hooked' = hooked /\ pc'[t] = IF hooked THEN "release" ELSE "free"
    BY <1>4 DEF CallRelease, NoFrame
  <2>8. InPlace(t)'
    BY <2>2 DEF InPlace, OwnedIsLive
  <2>9. QED
    BY <2>1, <2>8 DEF PlaceInv
<1>5. ASSUME NEW t \in Threads, CommitPass(t)
      PROVE  PlaceInv'
  <2>1. \A u \in Threads \ {t} : InPlace(u)'
    BY <1>5, OthersStay DEF CommitPass
  <2>8. InPlace(t)'
    BY <1>5 DEF CommitPass, InPlace
  <2>9. QED
    BY <2>1, <2>8 DEF PlaceInv
<1>6. ASSUME NEW t \in Threads, CommitRead(t)
      PROVE  PlaceInv'
  <2>1. \A u \in Threads \ {t} : InPlace(u)'
    BY <1>6, OthersStay DEF CommitRead
  <2>2. frame[t].wrapper \in Wrappers /\ held[frame[t].wrapper] # NoEntity
    BY <1>6 DEF CommitRead, FrameInv
  <2>3. ASSUME pc'[t] = "idle"
       PROVE  InPlace(t)'
    BY <2>3 DEF InPlace
  <2>4. ASSUME pc'[t] # "idle"
       PROVE  InPlace(t)'
    <3>1. /\ pc'[t] = "publish" /\ held' = held
          /\ frame'[t].wrapper = frame[t].wrapper
          /\ frame'[t].record.entity = held[frame[t].wrapper]
      BY <1>6, <2>4 DEF CommitRead
    <3>2. NoRecord.entity = NoEntity
      BY DEF NoRecord
    <3>3. QED
      BY <3>1, <3>2, <2>2 DEF InPlace
  <2>8. InPlace(t)'
    BY <2>3, <2>4
  <2>9. QED
    BY <2>1, <2>8 DEF PlaceInv
<1>7. ASSUME NEW t \in Threads, CommitPublish(t)
      PROVE  PlaceInv'
  <2>1. \A u \in Threads \ {t} : InPlace(u)'
    <3>1. lock \in {t, Nobody}
      BY <1>7 DEF CommitPublish, LockInv
    <3>2. QED
      BY <1>7, <3>1, Alone, OthersStay DEF CommitPublish
  <2>2. /\ frame[t].wrapper \in Wrappers
        /\ frame[t].record.entity = held[frame[t].wrapper]
        /\ frame[t].record # NoRecord
    BY <1>7, AtWork DEF CommitPublish, PlaceInv, InPlace
  <2>3. ASSUME pc'[t] = "idle"
       PROVE  InPlace(t)'
    BY <2>3 DEF InPlace
  <2>4. ASSUME pc'[t] # "idle"
       PROVE  InPlace(t)'
    <3> DEFINE w == frame[t].wrapper
    <3> DEFINE r == frame[t].record
    <3>1. /\ pc'[t] = "apply" /\ held' = held /\ modded' = modded
          /\ frame'[t] = frame[t] /\ r.applied
          /\ Owner(r.entity) = {} /\ owned'[w] = r
      BY <1>7, <2>2, <2>4 DEF CommitPublish
    <3>2. ~InTable(r.entity)
      BY <3>1 DEF Owner, InTable, Covers
    <3>3. ~InFrame(r.entity)
      BY <1>7 DEF CommitPublish, InFrame, LockInv
    <3>4. r.entity \notin modded
      BY <3>2, <3>3 DEF CoverInv
    <3>5. QED
      BY <2>2, <3>1, <3>4 DEF InPlace
  <2>8. InPlace(t)'
    BY <2>3, <2>4
  <2>9. QED
    BY <2>1, <2>8 DEF PlaceInv
<1>8. ASSUME NEW t \in Threads, CommitApply(t)
      PROVE  PlaceInv'
  <2>1. \A u \in Threads \ {t} : InPlace(u)'
    <3>1. lock \in {t, Nobody}
      BY <1>8 DEF CommitApply, LockInv
    <3>2. QED
      BY <1>8, <3>1, Alone, OthersStay DEF CommitApply
  <2>8. InPlace(t)'
    BY <1>8 DEF CommitApply, InPlace
  <2>9. QED
    BY <2>1, <2>8 DEF PlaceInv
<1>9. ASSUME NEW t \in Threads, ReleaseTake(t)
      PROVE  PlaceInv'
  <2>1. \A u \in Threads \ {t} : InPlace(u)'
    <3>1. lock \in {t, Nobody}
      BY <1>9 DEF ReleaseTake, LockInv
    <3>2. QED
      BY <1>9, <3>1, Alone, OthersStay DEF ReleaseTake
  <2> DEFINE w == frame[t].wrapper
  <2>2. w \in Wrappers /\ held[w] # NoEntity
    BY <1>9 DEF ReleaseTake, FrameInv
  <2>3. ASSUME owned[w] = NoRecord
       PROVE  InPlace(t)'
    BY <1>9, <2>2, <2>3 DEF ReleaseTake, InPlace
  <2>4. ASSUME owned[w] # NoRecord
       PROVE  InPlace(t)'
    <3>1. owned[w].entity = held[w]
      BY <1>9, <2>4 DEF ReleaseTake, PlaceInv, InPlace
    <3>2. /\ pc'[t] = "restore" /\ held' = held
          /\ frame'[t].wrapper = w /\ frame'[t].record = owned[w]
      BY <1>9, <2>4 DEF ReleaseTake
    <3>3. \A v \in Wrappers : owned'[v] = IF v = w THEN NoRecord ELSE owned[v]
      BY <1>9, <2>4 DEF ReleaseTake
    <3>4. NoRecord.entity = NoEntity
      BY DEF NoRecord
    <3>5. \A v \in Wrappers : owned'[v].entity # owned[w].entity
      BY <2>2, <2>4, <3>1, <3>3, <3>4 DEF RecordInv
    <3>6. QED
      BY <2>2, <2>4, <3>1, <3>2, <3>3, <3>5 DEF InPlace
  <2>8. InPlace(t)'
    BY <2>3, <2>4
  <2>9. QED
    BY <2>1, <2>8 DEF PlaceInv
<1>10. ASSUME NEW t \in Threads, ReleaseRestore(t)
      PROVE  PlaceInv'
  <2>1. \A u \in Threads \ {t} : InPlace(u)'
    <3>1. lock \in {t, Nobody}
      BY <1>10 DEF ReleaseRestore, LockInv
    <3>2. QED
      BY <1>10, <3>1, Alone, OthersStay DEF ReleaseRestore
  <2>2. pc'[t] = "free" /\ frame'[t].wrapper = frame[t].wrapper /\ owned' = owned
    BY <1>10 DEF ReleaseRestore
  <2>3. owned[frame[t].wrapper] = NoRecord
    BY <1>10 DEF ReleaseRestore, PlaceInv, InPlace
  <2>8. InPlace(t)'
    BY <2>2, <2>3 DEF InPlace
  <2>9. QED
    BY <2>1, <2>8 DEF PlaceInv
<1>11. ASSUME NEW t \in Threads, Free(t)
      PROVE  PlaceInv'
  <2>1. \A u \in Threads \ {t} : InPlace(u)'
    BY <1>11, OthersStay DEF Free
  <2>8. InPlace(t)'
    BY <1>11 DEF Free, InPlace
  <2>9. QED
    BY <2>1, <2>8 DEF PlaceInv
<1>12. CASE Enable
  BY <1>12 DEF Enable, PlaceInv, InPlace
<1>13. CASE Disable
  BY <1>13 DEF Disable, PlaceInv, InPlace
<1>14. CASE Unhook
  BY <1>14 DEF Unhook, PlaceInv, InPlace
<1>15. CASE RestoreAll
  BY <1>15 DEF RestoreAll, PlaceInv, InPlace
<1>16. CASE RestoreDone
  BY <1>16 DEF RestoreDone, PlaceInv, InPlace
<1>17. ASSUME NEW w \in Wrappers, RestoreOne(w)
      PROVE  PlaceInv'
  <2>1. \A u \in Threads : pc[u] \notin Locked
    BY <1>17, DistanceAssumption DEF RestoreOne, LockInv
  <2>2. \A v \in Wrappers : owned'[v] = owned[v] \/ owned'[v] = NoRecord
    BY <1>17 DEF RestoreOne
  <2>3. UNCHANGED <<pc, frame, held, hooked>>
    BY <1>17 DEF RestoreOne
  <2>4. \A u \in Threads : pc[u] # "idle" => frame[u].wrapper \in Wrappers
    BY DEF FrameInv
  <2>5. QED
    BY <2>1, <2>2, <2>3, <2>4 DEF PlaceInv, InPlace
<1>18. CASE UNCHANGED vars
  BY <1>18 DEF vars, flags, PlaceInv, InPlace
<1>19. QED
  BY <1>1, <1>2, <1>3, <1>4, <1>5, <1>6, <1>7, <1>8, <1>9,
     <1>10, <1>11, <1>12, <1>13, <1>14, <1>15, <1>16, <1>17, <1>18
  DEF Next, Commit, Release


\* An entity stays covered by a step that touches neither its distance nor what
\* covers it.
LEMMA StillCovered ==
  ASSUME CoverInv, held' = held, NEW e \in modded, distance'[e] = distance[e],
         \A w \in Wrappers : owned[w].entity = e => owned'[w] = owned[w],
         \A t \in Threads : pc[t] = "restore" /\ frame[t].record.entity = e
           => pc'[t] = "restore" /\ frame'[t] = frame[t]
  PROVE  e \in Live' /\ (InTable(e)' \/ InFrame(e)')
<1>1. e \in Live'
  BY DEF CoverInv, Live
<1>2. CASE InTable(e)
  BY <1>1, <1>2 DEF InTable, Covers
<1>3. CASE InFrame(e)
  BY <1>1, <1>3 DEF InFrame, Covers
<1>4. QED
  BY <1>2, <1>3 DEF CoverInv

\* A distance of the mod's making keeps its record.
LEMMA CoverStep ==
  ASSUME TypeOK, LockInv, FrameInv, RecordInv, PlaceInv, CoverInv,
         [Next]_vars
  PROVE  CoverInv'
<1> USE DEF TypeOK, flags, Others, Go
<1>1. ASSUME NEW w \in Wrappers, NEW e \in Entities, NEW d \in Authored, Create(w, e, d)
      PROVE  CoverInv'
  BY <1>1 DEF Create, CoverInv, Live, InTable, InFrame, Covers
<1>2. ASSUME NEW e \in Entities, NEW d \in Foreign, ForeignWrite(e, d)
      PROVE  CoverInv'
  BY <1>2 DEF ForeignWrite, CoverInv, Live, InTable, InFrame, Covers
<1>3. ASSUME NEW t \in Threads, NEW w \in Wrappers, CallCommit(t, w)
      PROVE  CoverInv'
  BY <1>3 DEF CallCommit, CoverInv, Live, InTable, InFrame, Covers
<1>4. ASSUME NEW t \in Threads, NEW w \in Wrappers, CallRelease(t, w)
      PROVE  CoverInv'
  BY <1>4 DEF CallRelease, CoverInv, Live, InTable, InFrame, Covers
<1>5. ASSUME NEW t \in Threads, CommitPass(t)
      PROVE  CoverInv'
  BY <1>5 DEF CommitPass, CoverInv, Live, InTable, InFrame, Covers
<1>6. ASSUME NEW t \in Threads, CommitRead(t)
      PROVE  CoverInv'
  <2>1. /\ modded' = modded /\ held' = held /\ distance' = distance /\ owned' = owned
        /\ pc[t] # "restore"
        /\ \A u \in Threads \ {t} : pc'[u] = pc[u] /\ frame'[u] = frame[u]
    BY <1>6 DEF CommitRead
  <2>2. QED
    BY <2>1, StillCovered DEF CoverInv
<1>7. ASSUME NEW t \in Threads, CommitPublish(t)
      PROVE  CoverInv'
  <2>1. /\ modded' = modded /\ held' = held /\ distance' = distance
        /\ pc[t] # "restore"
        /\ \A u \in Threads \ {t} : pc'[u] = pc[u] /\ frame'[u] = frame[u]
        /\ \A w \in Wrappers : owned'[w] = owned[w] \/ owned[w] = NoRecord
    BY <1>7 DEF CommitPublish
  <2>2. \A e \in modded : e # NoEntity
    BY DEF CoverInv, Live
  <2>3. \A e \in modded : \A w \in Wrappers : owned[w].entity = e => owned'[w] = owned[w]
    BY <2>1, <2>2 DEF NoRecord
  <2>4. QED
    BY <2>1, <2>3, StillCovered DEF CoverInv
<1>8. ASSUME NEW t \in Threads, CommitApply(t)
      PROVE  CoverInv'
  <2> DEFINE w == frame[t].wrapper
  <2> DEFINE r == frame[t].record
  <2>1. /\ w \in Wrappers /\ r.entity \in Entities
        /\ r.entity = held[w] /\ r.entity # NoEntity
        /\ owned[w] = r /\ r.applied /\ r.entity \notin modded
    BY <1>8, AtWork DEF CommitApply, PlaceInv, InPlace, Locked
  <2>0. PICK x \in Entities : x = r.entity
    BY <2>1
  <2>2. /\ pc[t] # "restore" /\ held' = held
        /\ \A u \in Threads \ {t} : pc'[u] = pc[u] /\ frame'[u] = frame[u]
    BY <1>8 DEF CommitApply
  <2>3. /\ modded' \subseteq modded \cup {r.entity}
        /\ \A e \in Entities \ {r.entity} : distance'[e] = distance[e]
        /\ \A v \in Wrappers \ {w} : owned'[v] = owned[v]
    BY <1>8 DEF CommitApply
  <2>4. \A e \in modded : e \in Live' /\ (InTable(e)' \/ InFrame(e)')
    <3> SUFFICES ASSUME NEW e \in modded
                 PROVE  e \in Live' /\ (InTable(e)' \/ InFrame(e)')
      OBVIOUS
    <3>1. e \in Entities \ {r.entity}
      BY <2>1
    <3>2. \A v \in Wrappers : owned[v].entity = e => owned'[v] = owned[v]
      BY <2>1, <2>3, <3>1
    <3>3. QED
      BY <2>2, <2>3, <3>1, <3>2, StillCovered
  <2>5. x \in modded' => x \in Live' /\ InTable(x)'
    <3>1. CASE distance[x] = r.original
      <4>1. owned' = owned /\ distance'[x] = r.scaled
        BY <1>8, <2>0, <2>1, <3>1 DEF CommitApply
      <4>2. x \in Live'
        BY <2>0, <2>1, <2>2 DEF Live
      <4>3. \E v \in Wrappers : Covers(owned[v], x)'
        BY <2>0, <2>1, <4>1 DEF Covers
      <4>4. QED
        BY <4>2, <4>3 DEF InTable
    <3>2. CASE distance[x] # r.original
      BY <1>8, <2>0, <2>1, <3>2 DEF CommitApply
    <3>3. QED
      BY <3>1, <3>2
  <2>6. QED
    BY <2>0, <2>3, <2>4, <2>5 DEF CoverInv
<1>9. ASSUME NEW t \in Threads, ReleaseTake(t)
      PROVE  CoverInv'
  <2> DEFINE w == frame[t].wrapper
  <2>1. CASE owned[w] = NoRecord
    <3>1. /\ modded' = modded /\ held' = held /\ distance' = distance /\ owned' = owned
          /\ pc[t] # "restore"
          /\ \A u \in Threads \ {t} : pc'[u] = pc[u] /\ frame'[u] = frame[u]
      BY <1>9, <2>1 DEF ReleaseTake
    <3>2. QED
      BY <3>1, StillCovered DEF CoverInv
  <2>2. CASE owned[w] # NoRecord
    <3>1. /\ modded' = modded /\ held' = held /\ distance' = distance
          /\ pc'[t] = "restore" /\ frame'[t].record = owned[w]
          /\ \A v \in Wrappers \ {w} : owned'[v] = owned[v]
      BY <1>9, <2>2 DEF ReleaseTake
    <3>2. \A u \in Threads : pc[u] # "restore"
      BY <1>9, DistanceAssumption DEF ReleaseTake, LockInv, Locked
    <3>3. ASSUME NEW e \in modded PROVE InTable(e)' \/ InFrame(e)'
      <4>1. PICK v \in Wrappers : Covers(owned[v], e)
        BY <3>2, <3>3 DEF CoverInv, InTable, InFrame
      <4>2. CASE v = w
        BY <3>1, <4>1, <4>2 DEF InFrame, Covers
      <4>3. CASE v # w
        BY <3>1, <4>1, <4>3 DEF InTable, Covers
      <4>4. QED
        BY <4>2, <4>3
    <3>4. modded' \subseteq Live'
      BY <3>1 DEF CoverInv, Live
    <3>5. QED
      BY <3>1, <3>3, <3>4 DEF CoverInv
  <2>3. QED
    BY <2>1, <2>2
<1>10. ASSUME NEW t \in Threads, ReleaseRestore(t)
      PROVE  CoverInv'
  <2> DEFINE r == frame[t].record
  <2>1. /\ r.entity \in Entities
        /\ \A v \in Wrappers : owned[v].entity # r.entity
    BY <1>10, AtWork DEF ReleaseRestore, PlaceInv, InPlace, Locked
  <2>2. /\ modded' \subseteq modded /\ held' = held /\ owned' = owned
        /\ \A e \in Entities \ {r.entity} : distance'[e] = distance[e]
        /\ \A u \in Threads \ {t} : pc'[u] = pc[u] /\ frame'[u] = frame[u]
    BY <1>10 DEF ReleaseRestore, GiveBack
  <2>3. \A u \in Threads : pc[u] = "restore" => u = t
    BY <1>10 DEF ReleaseRestore, LockInv, Locked
  <2>4. r.entity \notin modded'
    <3> SUFFICES ASSUME r.entity \in modded'
                 PROVE  FALSE
      OBVIOUS
    <3>1. r.entity \in modded /\ ~InTable(r.entity)
      BY <2>1, <2>2 DEF InTable, Covers
    <3>2. r.applied /\ r.scaled = distance[r.entity]
      BY <2>3, <3>1 DEF CoverInv, InFrame, Covers
    <3>3. r.entity = held[frame[t].wrapper]
      BY <1>10, AtWork DEF ReleaseRestore, Locked
    <3>4. modded' = modded \ {r.entity}
      BY <1>10, <3>2, <3>3 DEF ReleaseRestore, GiveBack
    <3>5. QED
      BY <3>4
  <2>5. ASSUME NEW e \in modded'
        PROVE  e \in Live' /\ (InTable(e)' \/ InFrame(e)')
    <3>1. e \in modded /\ e \in Entities \ {r.entity}
      BY <2>2, <2>4
    <3>2. \A u \in Threads : pc[u] = "restore" => frame[u].record.entity # e
      BY <2>3, <3>1
    <3>3. QED
      BY <2>2, <3>1, <3>2, StillCovered
  <2>6. QED
    BY <2>5 DEF CoverInv
<1>11. ASSUME NEW t \in Threads, Free(t)
      PROVE  CoverInv'
  BY <1>11 DEF Free, CoverInv, Live, InTable, InFrame, Covers
<1>12. CASE Enable
  BY <1>12 DEF Enable, CoverInv, Live, InTable, InFrame, Covers
<1>13. CASE Disable
  BY <1>13 DEF Disable, CoverInv, Live, InTable, InFrame, Covers
<1>14. CASE Unhook
  BY <1>14 DEF Unhook, CoverInv, Live, InTable, InFrame, Covers
<1>15. CASE RestoreAll
  BY <1>15 DEF RestoreAll, CoverInv, Live, InTable, InFrame, Covers
<1>16. CASE RestoreDone
  BY <1>16 DEF RestoreDone, CoverInv, Live, InTable, InFrame, Covers
<1>17. ASSUME NEW w \in Wrappers, RestoreOne(w)
      PROVE  CoverInv'
  <2> DEFINE r == owned[w]
  <2>1. \A u \in Threads : pc[u] # "restore"
    BY <1>17, DistanceAssumption DEF RestoreOne, LockInv, Locked
  <2>2. /\ modded' \subseteq modded /\ held' = held
        /\ \A v \in Wrappers \ {w} : owned'[v] = owned[v]
        /\ \A e \in Entities \ {r.entity} : distance'[e] = distance[e]
    BY <1>17 DEF RestoreOne, GiveBack
  <2>3. r.entity \notin modded'
    <3> SUFFICES ASSUME r.entity \in modded'
                 PROVE  FALSE
      OBVIOUS
    <3>1. r.entity \in modded /\ r.entity # NoEntity
      BY <2>2 DEF CoverInv, Live
    <3>2. r # NoRecord
      BY <3>1 DEF NoRecord
    <3>3. PICK v \in Wrappers : Covers(owned[v], r.entity)
      BY <2>1, <3>1 DEF CoverInv, InTable, InFrame
    <3>4. v = w
      BY <3>2, <3>3 DEF RecordInv, Covers
    <3>5. modded' = modded \ {r.entity}
      BY <1>17, <3>2, <3>3, <3>4 DEF RestoreOne, GiveBack, Covers
    <3>6. QED
      BY <3>5
  <2>4. ASSUME NEW e \in modded'
        PROVE  e \in Live' /\ (InTable(e)' \/ InFrame(e)')
    <3>1. e \in modded /\ e \in Entities \ {r.entity}
      BY <2>2, <2>3
    <3>2. \A v \in Wrappers : owned[v].entity = e => owned'[v] = owned[v]
      BY <2>2, <3>1
    <3>3. QED
      BY <2>1, <2>2, <3>1, <3>2, StillCovered
  <2>5. QED
    BY <2>4 DEF CoverInv
<1>18. CASE UNCHANGED vars
  BY <1>18 DEF vars, flags, CoverInv, Live, InTable, InFrame, Covers
<1>19. QED
  BY <1>1, <1>2, <1>3, <1>4, <1>5, <1>6, <1>7, <1>8, <1>9,
     <1>10, <1>11, <1>12, <1>13, <1>14, <1>15, <1>16, <1>17, <1>18
  DEF Next, Commit, Release


\* Steps outside the critical places owe nothing new.
LEMMA OwedKept ==
  ASSUME owned' = owned,
         \A u \in Threads : \/ pc'[u] = pc[u] /\ frame'[u] = frame[u]
                            \/ {pc[u], pc'[u]} \cap {"apply", "restore"} = {}
  PROVE  Owed' = Owed
<1>1. \A w \in Wrappers : Applying(w)' <=> Applying(w)
  BY DEF Applying
<1>2. \A w \in Wrappers : Returning(w)' <=> Returning(w)
  BY DEF Returning
<1>3. QED
  BY <1>1, <1>2 DEF Owed

LEMMA OwedIsFinite == IsFiniteSet(Owed) /\ Cardinality(Owed) \in Nat
<1>1. Owed \subseteq Wrappers
  BY DEF Owed
<1>2. QED
  BY <1>1, DistanceAssumption, FS_Subset, FS_CardinalityType

\* One wrapper more, or one less, is one more or one less to give back.
LEMMA OneMore ==
  ASSUME CountInv, NEW w \in Wrappers, w \notin Owed, Owed' = Owed \cup {w},
         applied_active' = applied_active + 1
  PROVE  CountInv'
BY OwedIsFinite, FS_AddElement DEF CountInv

LEMMA OneLess ==
  ASSUME CountInv, NEW w \in Wrappers, w \in Owed, Owed' = Owed \ {w},
         applied_active' = applied_active - 1
  PROVE  CountInv'
BY OwedIsFinite, FS_RemoveElement DEF CountInv

\* distance_applied_active counts what is owed.
LEMMA CountStep ==
  ASSUME TypeOK, LockInv, FrameInv, PlaceInv, CountInv,
         [Next]_vars
  PROVE  CountInv'
<1> USE DEF TypeOK, flags, Others, Go
<1>1. ASSUME NEW w \in Wrappers, NEW e \in Entities, NEW d \in Authored, Create(w, e, d)
      PROVE  CountInv'
  <2>1. Owed' = Owed /\ UNCHANGED applied_active
    BY <1>1, OwedKept DEF Create
  <2>2. QED
    BY <2>1 DEF CountInv
<1>2. ASSUME NEW e \in Entities, NEW d \in Foreign, ForeignWrite(e, d)
      PROVE  CountInv'
  <2>1. Owed' = Owed /\ UNCHANGED applied_active
    BY <1>2, OwedKept DEF ForeignWrite
  <2>2. QED
    BY <2>1 DEF CountInv
<1>3. ASSUME NEW t \in Threads, NEW w \in Wrappers, CallCommit(t, w)
      PROVE  CountInv'
  <2>1. Owed' = Owed /\ UNCHANGED applied_active
    BY <1>3, OwedKept DEF CallCommit
  <2>2. QED
    BY <2>1 DEF CountInv
<1>4. ASSUME NEW t \in Threads, NEW w \in Wrappers, CallRelease(t, w)
      PROVE  CountInv'
  <2>1. Owed' = Owed /\ UNCHANGED applied_active
    BY <1>4, OwedKept DEF CallRelease
  <2>2. QED
    BY <2>1 DEF CountInv
<1>5. ASSUME NEW t \in Threads, CommitPass(t)
      PROVE  CountInv'
  <2>1. Owed' = Owed /\ UNCHANGED applied_active
    BY <1>5, OwedKept DEF CommitPass
  <2>2. QED
    BY <2>1 DEF CountInv
<1>6. ASSUME NEW t \in Threads, CommitRead(t)
      PROVE  CountInv'
  <2>1. Owed' = Owed /\ UNCHANGED applied_active
    BY <1>6, OwedKept DEF CommitRead
  <2>2. QED
    BY <2>1 DEF CountInv
<1>7. ASSUME NEW t \in Threads, CommitPublish(t)
      PROVE  CountInv'
  <2> DEFINE w == frame[t].wrapper
  <2> DEFINE r == frame[t].record
  <2>1. /\ applied_active' = applied_active
        /\ \A u \in Threads \ {t} : pc'[u] = pc[u] /\ frame'[u] = frame[u]
        /\ pc[t] = "publish" /\ w \in Wrappers
    BY <1>7, AtWork DEF CommitPublish, Locked
  <2>2. \A u \in Threads \ {t} : pc[u] \notin Locked
    BY <1>7, Alone DEF CommitPublish, LockInv, Locked
  <2>3. CASE UNCHANGED owned
    <3>1. pc'[t] = "idle" \/ owned[w] = r
      BY <1>7, <2>1, <2>3 DEF CommitPublish
    <3>2. pc'[t] = "idle"
      BY <1>7, <2>1, <2>3, <3>1 DEF CommitPublish, PlaceInv, InPlace, Locked
    <3>3. Owed' = Owed
      BY <2>1, <2>3, <3>2, OwedKept
    <3>4. QED
      BY <2>1, <3>3 DEF CountInv
  <2>4. CASE /\ owned[w] = NoRecord
             /\ owned' = [owned EXCEPT ![w] = r]
             /\ IF r.applied THEN pc'[t] = "apply" /\ frame'[t] = frame[t]
                             ELSE pc'[t] = "idle"
    <3>1. \A u \in Threads : pc[u] \notin {"apply", "restore"}
      BY <2>1, <2>2 DEF Locked
    <3>2. \A u \in Threads : pc'[u] # "restore"
      BY <2>1, <2>4, <3>1
    <3>3. \A v \in Wrappers : ~Applying(v) /\ ~Returning(v) /\ ~Returning(v)'
      BY <3>1, <3>2 DEF Applying, Returning
    <3>4. \A v \in Wrappers \ {w} : owned'[v] = owned[v] /\ ~Applying(v)'
      BY <2>1, <2>4, <3>1 DEF Applying
    <3>5. ~owned[w].applied
      BY <2>4 DEF NoRecord
    <3>6. \/ ~owned'[w].applied
          \/ \E u \in Threads : pc'[u] = "apply" /\ frame'[u].wrapper = w
      <4>1. CASE r.applied
        BY <2>4, <4>1
      <4>2. CASE ~r.applied
        BY <2>1, <2>4, <4>2
      <4>3. QED
        BY <4>1, <4>2
    <3>7. \A v \in Wrappers : v \in Owed' <=> v \in Owed
      <4>1. w \notin Owed
        BY <2>1, <3>3, <3>5 DEF Owed
      <4>4. PICK x \in Wrappers : x = w
        BY <2>1
      <4>5. ~owned'[x].applied \/ Applying(x)'
        BY <3>6, <4>4 DEF Applying
      <4>6. x \notin Owed'
        BY <3>3, <4>5 DEF Owed
      <4>2. \A v \in Wrappers \ {w} : v \in Owed' <=> v \in Owed
        BY <3>3, <3>4 DEF Owed
      <4>3. QED
        BY <4>1, <4>2, <4>4, <4>6
    <3>8. Owed' = Owed
      BY <3>7 DEF Owed
    <3>9. QED
      BY <2>1, <3>8 DEF CountInv
  <2>5. QED
    BY <1>7, <2>3, <2>4 DEF CommitPublish
<1>8. ASSUME NEW t \in Threads, CommitApply(t)
      PROVE  CountInv'
  <2> DEFINE w == frame[t].wrapper
  <2> DEFINE r == frame[t].record
  <2>1. /\ pc[t] = "apply" /\ pc'[t] = "idle" /\ w \in Wrappers
        /\ \A u \in Threads \ {t} : pc'[u] = pc[u] /\ frame'[u] = frame[u]
        /\ owned[w] = r /\ r.applied
    BY <1>8, AtWork DEF CommitApply, PlaceInv, InPlace, Locked
  <2>2. \A u \in Threads \ {t} : pc[u] \notin Locked
    BY <1>8, Alone DEF CommitApply, LockInv, Locked
  <2>3. \A v \in Wrappers : /\ Applying(v) <=> v = w
                            /\ ~Applying(v)' /\ ~Returning(v) /\ ~Returning(v)'
    BY <2>1, <2>2 DEF Applying, Returning, Locked
  <2>4. Owed = {v \in Wrappers \ {w} : owned[v].applied}
    BY <2>3 DEF Owed
  <2>5. Owed' = {v \in Wrappers : owned'[v].applied}
    BY <2>3 DEF Owed
  <2>6. CASE distance[r.entity] = r.original
    <3>1. owned' = owned /\ applied_active' = applied_active + 1
      BY <1>8, <2>6 DEF CommitApply
    <3>2. w \notin Owed /\ Owed' = Owed \cup {w}
      BY <2>1, <2>4, <2>5, <3>1
    <3>3. QED
      BY <2>1, <3>1, <3>2, OneMore
  <2>7. CASE distance[r.entity] # r.original
    <3>1. /\ owned' = [owned EXCEPT ![w] = NoRecord]
          /\ applied_active' = applied_active
      BY <1>8, <2>7 DEF CommitApply
    <3>2. /\ \A v \in Wrappers \ {w} : owned'[v] = owned[v]
          /\ ~owned'[w].applied
      BY <2>1, <3>1 DEF NoRecord
    <3>3. Owed' = Owed
      BY <2>4, <2>5, <3>2
    <3>4. QED
      BY <3>1, <3>3 DEF CountInv
  <2>8. QED
    BY <2>6, <2>7
<1>9. ASSUME NEW t \in Threads, ReleaseTake(t)
      PROVE  CountInv'
  <2> DEFINE w == frame[t].wrapper
  <2>1. /\ pc[t] = "release" /\ w \in Wrappers
        /\ \A u \in Threads \ {t} : pc'[u] = pc[u] /\ frame'[u] = frame[u]
        /\ applied_active' = applied_active
    BY <1>9 DEF ReleaseTake, FrameInv
  <2>2. \A u \in Threads : pc[u] \notin Locked
    BY <1>9, <2>1, Alone DEF ReleaseTake, Locked
  <2>3. \A v \in Wrappers : ~Applying(v) /\ ~Returning(v)
    BY <2>2 DEF Applying, Returning, Locked
  <2>4. CASE owned[w] = NoRecord
    <3>1. owned' = owned /\ pc'[t] = "free"
      BY <1>9, <2>4 DEF ReleaseTake
    <3>2. Owed' = Owed
      BY <2>1, <3>1, OwedKept
    <3>3. QED
      BY <2>1, <3>2 DEF CountInv
  <2>5. CASE owned[w] # NoRecord
    <3>1. /\ owned' = [owned EXCEPT ![w] = NoRecord]
          /\ pc'[t] = "restore"
          /\ frame'[t].wrapper = w /\ frame'[t].record = owned[w]
      BY <1>9, <2>5 DEF ReleaseTake
    <3>2. /\ \A v \in Wrappers \ {w} : owned'[v] = owned[v]
          /\ ~owned'[w].applied
      BY <2>1, <3>1 DEF NoRecord
    <3>3. \A v \in Wrappers : ~Applying(v)'
      BY <2>1, <2>2, <3>1 DEF Applying, Locked
    <3>4. \A v \in Wrappers : Returning(v)' <=> v = w /\ owned[w].applied
      BY <2>1, <2>2, <3>1 DEF Returning, Locked
    <3>5. \A v \in Wrappers \ {w} : v \in Owed' <=> v \in Owed
      BY <2>3, <3>2, <3>3, <3>4 DEF Owed
    <3>6. w \in Owed' <=> w \in Owed
      BY <2>1, <2>3, <3>2, <3>4 DEF Owed
    <3>7. Owed' = Owed
      BY <3>5, <3>6 DEF Owed
    <3>8. QED
      BY <2>1, <3>7 DEF CountInv
  <2>6. QED
    BY <2>4, <2>5
<1>10. ASSUME NEW t \in Threads, ReleaseRestore(t)
      PROVE  CountInv'
  <2> DEFINE w == frame[t].wrapper
  <2> DEFINE r == frame[t].record
  <2>1. /\ pc[t] = "restore" /\ pc'[t] = "free" /\ w \in Wrappers
        /\ \A u \in Threads \ {t} : pc'[u] = pc[u] /\ frame'[u] = frame[u]
        /\ owned[w] = NoRecord /\ owned' = owned
    BY <1>10, AtWork DEF ReleaseRestore, PlaceInv, InPlace, Locked
  <2>2. \A u \in Threads \ {t} : pc[u] \notin Locked
    BY <1>10, Alone DEF ReleaseRestore, LockInv, Locked
  <2>3. \A v \in Wrappers : /\ ~Applying(v) /\ ~Applying(v)' /\ ~Returning(v)'
                            /\ Returning(v) <=> v = w /\ r.applied
    BY <2>1, <2>2 DEF Applying, Returning, Locked
  <2>4. ~owned[w].applied
    BY <2>1 DEF NoRecord
  <2>5. Owed' = {v \in Wrappers \ {w} : owned[v].applied}
    BY <2>1, <2>3, <2>4 DEF Owed
  <2>6. CASE r.applied
    <3>1. applied_active' = applied_active - 1
      BY <1>10, <2>6 DEF ReleaseRestore
    <3>2. w \in Owed
      BY <2>1, <2>3, <2>6 DEF Owed
    <3>3. \A v \in Wrappers \ {w} : v \in Owed <=> owned[v].applied
      BY <2>3 DEF Owed
    <3>4. Owed' = Owed \ {w}
      BY <2>5, <3>3 DEF Owed
    <3>5. QED
      BY <2>1, <3>1, <3>2, <3>4, OneLess
  <2>7. CASE ~r.applied
    <3>1. applied_active' = applied_active
      BY <1>10, <2>7 DEF ReleaseRestore
    <3>2. \A v \in Wrappers : ~Returning(v)
      BY <2>3, <2>7
    <3>3. Owed = {v \in Wrappers \ {w} : owned[v].applied}
      BY <2>3, <2>4, <3>2 DEF Owed
    <3>4. QED
      BY <2>5, <3>1, <3>3 DEF CountInv
  <2>8. QED
    BY <2>6, <2>7
<1>11. ASSUME NEW t \in Threads, Free(t)
      PROVE  CountInv'
  <2>1. Owed' = Owed /\ UNCHANGED applied_active
    BY <1>11, OwedKept DEF Free
  <2>2. QED
    BY <2>1 DEF CountInv
<1>12. CASE Enable
  <2>1. Owed' = Owed /\ UNCHANGED applied_active
    BY <1>12, OwedKept DEF Enable
  <2>2. QED
    BY <2>1 DEF CountInv
<1>13. CASE Disable
  <2>1. Owed' = Owed /\ UNCHANGED applied_active
    BY <1>13, OwedKept DEF Disable
  <2>2. QED
    BY <2>1 DEF CountInv
<1>14. CASE Unhook
  <2>1. Owed' = Owed /\ UNCHANGED applied_active
    BY <1>14, OwedKept DEF Unhook
  <2>2. QED
    BY <2>1 DEF CountInv
<1>15. CASE RestoreAll
  <2>1. Owed' = Owed /\ UNCHANGED applied_active
    BY <1>15, OwedKept DEF RestoreAll
  <2>2. QED
    BY <2>1 DEF CountInv
<1>16. CASE RestoreDone
  <2>1. Owed' = Owed /\ UNCHANGED applied_active
    BY <1>16, OwedKept DEF RestoreDone
  <2>2. QED
    BY <2>1 DEF CountInv
<1>17. ASSUME NEW w \in Wrappers, RestoreOne(w)
      PROVE  CountInv'
  <2> DEFINE r == owned[w]
  <2>1. /\ pc' = pc /\ frame' = frame
        /\ owned' = [owned EXCEPT ![w] = NoRecord]
    BY <1>17 DEF RestoreOne
  <2>2. \A u \in Threads : pc[u] \notin Locked
    BY <1>17, DistanceAssumption DEF RestoreOne, LockInv
  <2>3. \A v \in Wrappers : /\ ~Applying(v) /\ ~Applying(v)'
                            /\ ~Returning(v) /\ ~Returning(v)'
    BY <2>1, <2>2 DEF Applying, Returning, Locked
  <2>4. Owed = {v \in Wrappers : owned[v].applied}
    BY <2>3 DEF Owed
  <2>5. /\ \A v \in Wrappers \ {w} : owned'[v] = owned[v]
        /\ ~owned'[w].applied
    BY <2>1 DEF NoRecord
  <2>6. Owed' = {v \in Wrappers \ {w} : owned[v].applied}
    BY <2>3, <2>5 DEF Owed
  <2>7. CASE r.applied
    <3>1. r # NoRecord
      BY <2>7 DEF NoRecord
    <3>2. applied_active' = applied_active - 1
      BY <1>17, <2>7, <3>1 DEF RestoreOne
    <3>3. w \in Owed /\ Owed' = Owed \ {w}
      BY <2>4, <2>6, <2>7
    <3>4. QED
      BY <3>2, <3>3, OneLess
  <2>8. CASE ~r.applied
    <3>1. applied_active' = applied_active
      BY <1>17, <2>8 DEF RestoreOne
    <3>2. Owed' = Owed
      BY <2>4, <2>6, <2>8
    <3>3. QED
      BY <3>1, <3>2 DEF CountInv
  <2>9. QED
    BY <2>7, <2>8
<1>18. CASE UNCHANGED vars
  <2>1. Owed' = Owed /\ UNCHANGED applied_active
    BY <1>18, OwedKept DEF vars
  <2>2. QED
    BY <2>1 DEF CountInv
<1>19. QED
  BY <1>1, <1>2, <1>3, <1>4, <1>5, <1>6, <1>7, <1>8, <1>9,
     <1>10, <1>11, <1>12, <1>13, <1>14, <1>15, <1>16, <1>17, <1>18
  DEF Next, Commit, Release


-----------------------------------------------------------------------------
(* The invariant, and what follows from it.                                 *)

LEMMA InitDInv == ASSUME Init PROVE DInv
<1> USE DEF Init
<1>1. TypeOK
  <2>1. NoFrame \in Frames
    BY NoRecordIsRecord DEF NoFrame, Frames
  <2>2. frame \in [Threads -> Frames] /\ owned \in [Wrappers -> Records]
    BY <2>1, NoRecordIsRecord
  <2>3. distance \in [Entities -> Distances]
    BY DEF Distances
  <2>4. /\ enabled \in BOOLEAN /\ shutdown_terminal \in BOOLEAN /\ hooked \in BOOLEAN
        /\ todo \subseteq Wrappers /\ modded \subseteq Entities
        /\ lock \in Threads \cup {Nobody, Closer}
    BY Zenon
  <2>9. applied_active \in Int
    OBVIOUS
  <2>5. held \in [Wrappers -> Entities \cup {NoEntity}]
    OBVIOUS
  <2>6. pc \in [Threads -> {"idle", "commit", "commit_lock", "publish", "apply",
                            "release", "restore", "free"}]
    OBVIOUS
  <2>7. lifecycle \in {"installed", "running", "disabled", "unhooked", "restoring",
                       "restored"}
    OBVIOUS
  <2>8. QED
    BY <2>2, <2>3, <2>4, <2>5, <2>6, <2>7, <2>9 DEF TypeOK, Frames
<1>2. LockInv
  BY DistanceAssumption DEF LockInv, Locked
<1>3. FrameInv /\ PlaceInv /\ LeftInv
  BY DEF FrameInv, PlaceInv, InPlace, LeftInv, Locked
<1>4. RecordInv /\ OwnedIsLive
  BY DEF RecordInv, OwnedIsLive
<1>5. CoverInv
  BY DEF CoverInv
<1>6. CountInv
  <2>1. \A w \in Wrappers : ~owned[w].applied /\ ~Returning(w)
    BY DEF NoRecord, Returning
  <2>2. Owed = {}
    BY <2>1 DEF Owed
  <2>3. QED
    BY <2>2, FS_EmptySet DEF CountInv
<1>7. QED
  BY <1>1, <1>2, <1>3, <1>4, <1>5, <1>6 DEF DInv

\* Whatever hooks, engine, other mods and uninstaller do, in whatever order, the
\* lock, the frames, the table and the distances keep agreeing.
THEOREM DistanceSound == Spec => []DInv
<1>1. Init => DInv
  BY InitDInv
<1>2. DInv /\ [Next]_vars => DInv'
  BY TypeStep, LockStep, FrameStep, RecordStep, PlaceStep, CoverStep, CountStep,
     LiveStep, LeftStep DEF DInv
<1>3. QED
  BY <1>1, <1>2, PTL DEF Spec

\* Outside the critical sections every distance the mod wrote has a record in the
\* table that gives it back, and the counter is the number of such records.
LEMMA TrackedWhenFree == ASSUME DInv PROVE ScaledIsTracked
<1> USE DEF DInv
<1> SUFFICES ASSUME lock = Nobody PROVE
      /\ \A e \in modded : \E w \in Wrappers :
           /\ owned[w].entity = e /\ owned[w].applied
           /\ owned[w].scaled = distance[e]
      /\ applied_active = Cardinality({w \in Wrappers : owned[w].applied})
  BY DEF ScaledIsTracked
<1>1. \A t \in Threads : pc[t] \notin Locked
  BY DistanceAssumption DEF LockInv
<1>2. \A e \in modded : InTable(e)
  BY <1>1 DEF CoverInv, InFrame, Locked
<1>3. \A w \in Wrappers : ~Applying(w) /\ ~Returning(w)
  BY <1>1 DEF Applying, Returning, Locked
<1>4. Owed = {w \in Wrappers : owned[w].applied}
  BY <1>3 DEF Owed
<1>5. QED
  BY <1>2, <1>4 DEF InTable, Covers, CountInv

\* Every extended distance can be given back, to an entity that is still there
\* while the hooks are in.
THEOREM NoDistanceLost == Spec => []DistanceInv
<1>1. DInv => DistanceInv
  BY TrackedWhenFree DEF DistanceInv, DInv
<1>2. QED
  BY <1>1, DistanceSound, PTL

\* A clean shutdown leaves nothing owned, nothing owed, and no distance of the
\* mod's making.
THEOREM AllGivenBack == Spec => []CleanShutdown
<1>1. DInv => CleanShutdown
  <2> SUFFICES ASSUME DInv, lifecycle = "restored"
               PROVE  /\ \A w \in Wrappers : owned[w] = NoRecord
                      /\ applied_active = 0
                      /\ modded = {}
    BY DEF CleanShutdown
  <2>1. lock = Nobody /\ \A w \in Wrappers : owned[w] = NoRecord
    BY DEF DInv, LeftInv
  <2>2. \A w \in Wrappers : ~owned[w].applied
    BY <2>1 DEF NoRecord
  <2>3. {w \in Wrappers : owned[w].applied} = {}
    BY <2>2
  <2>4. applied_active = 0
    BY <2>1, <2>3, TrackedWhenFree, FS_EmptySet DEF ScaledIsTracked
  <2>5. modded = {}
    BY <2>1, <2>2, TrackedWhenFree DEF ScaledIsTracked
  <2>6. QED
    BY <2>1, <2>4, <2>5
<1>2. QED
  BY <1>1, DistanceSound, PTL

\* A step that extends a distance is the apply step of a commit, and it finds
\* the distance not of the mod's making and the hooks enabled.
LEMMA ExtendsOnce ==
  ASSUME DInv, [Next]_vars
  PROVE  /\ \A e \in Entities :
              e \in modded' /\ distance'[e] # distance[e] => e \notin modded
         /\ shutdown_terminal => modded' \subseteq modded
<1> USE DEF flags, Others
<1>1. ASSUME NEW t \in Threads, CommitApply(t)
      PROVE  /\ \A e \in Entities :
                  e \in modded' /\ distance'[e] # distance[e] => e \notin modded
             /\ ~shutdown_terminal
  <2>1. frame[t].record.entity \notin modded
    BY <1>1 DEF CommitApply, DInv, PlaceInv, InPlace
  <2>2. enabled
    BY <1>1 DEF CommitApply, DInv, LockInv
  <2>3. ~shutdown_terminal
    BY <2>2 DEF DInv, LockInv
  <2>4. \A e \in Entities : distance'[e] # distance[e] => e = frame[t].record.entity
    BY <1>1 DEF CommitApply, DInv, TypeOK
  <2>5. QED
    BY <2>1, <2>3, <2>4
<1> DEFINE Keeps == /\ modded' \subseteq modded
                    /\ \A e \in Entities : distance'[e] # distance[e] => e \notin modded'
<1>2. ASSUME NEW e \in Entities, NEW d, distance' = [distance EXCEPT ![e] = d],
             modded' = modded \ {e}
      PROVE  Keeps
  BY <1>2 DEF DInv, TypeOK
<1>3. ASSUME distance' = distance, modded' \subseteq modded
      PROVE  Keeps
  BY <1>3
<1>4. ASSUME NEW e \in Entities, NEW r, GiveBack(e, r)
      PROVE  Keeps
  <2>1. CASE distance[e] = r.scaled
    BY <1>2, <1>4, <2>1 DEF GiveBack
  <2>2. CASE distance[e] # r.scaled
    BY <1>3, <1>4, <2>2 DEF GiveBack
  <2>3. QED
    BY <2>1, <2>2
<1> HIDE DEF Keeps
<1>5. ASSUME NEW w \in Wrappers, NEW e \in Entities, NEW d \in Authored, Create(w, e, d)
      PROVE  Keeps
  BY <1>5, <1>2 DEF Create
<1>6. ASSUME NEW e \in Entities, NEW d \in Foreign, ForeignWrite(e, d)
      PROVE  Keeps
  BY <1>6, <1>2 DEF ForeignWrite
<1>7. ASSUME NEW t \in Threads, Free(t)
      PROVE  Keeps
  BY <1>7, <1>3 DEF Free
<1>8. ASSUME NEW t \in Threads, ReleaseRestore(t)
      PROVE  Keeps
  <2>1. frame[t].record.entity \in Entities
    BY <1>8, AtWork DEF ReleaseRestore, DInv, Locked
  <2>2. CASE GiveBack(frame[t].record.entity, frame[t].record)
    BY <2>1, <2>2, <1>4
  <2>3. CASE UNCHANGED <<distance, modded>>
    BY <2>3, <1>3
  <2>4. QED
    BY <1>8, <2>2, <2>3 DEF ReleaseRestore
<1>9. ASSUME NEW w \in Wrappers, RestoreOne(w)
      PROVE  Keeps
  <2>1. CASE owned[w] # NoRecord /\ GiveBack(owned[w].entity, owned[w])
    <3>1. owned[w].entity \in Entities
      BY <2>1 DEF DInv, TypeOK, RecordInv, Records
    <3>2. QED
      BY <2>1, <3>1, <1>4
  <2>2. CASE UNCHANGED <<distance, modded>>
    BY <2>2, <1>3
  <2>3. QED
    BY <1>9, <2>1, <2>2 DEF RestoreOne
<1>10. ASSUME UNCHANGED <<distance, modded>>
       PROVE  Keeps
  BY <1>10, <1>3
<1>11. ASSUME NEW t \in Threads, \/ CommitPass(t) \/ CommitRead(t) \/ CommitPublish(t)
                                 \/ ReleaseTake(t)
       PROVE  Keeps
  BY <1>10, <1>11 DEF CommitPass, CommitRead, CommitPublish, ReleaseTake
<1>12. ASSUME NEW t \in Threads, NEW w \in Wrappers, CallCommit(t, w) \/ CallRelease(t, w)
       PROVE  Keeps
  BY <1>10, <1>12 DEF CallCommit, CallRelease
<1>13. ASSUME Enable \/ Disable \/ Unhook \/ RestoreAll \/ RestoreDone \/ UNCHANGED vars
       PROVE  Keeps
  BY <1>10, <1>13 DEF Enable, Disable, Unhook, RestoreAll, RestoreDone, vars
<1>14. Keeps \/ \E t \in Threads : CommitApply(t)
  BY <1>5, <1>6, <1>7, <1>8, <1>9, <1>11, <1>12, <1>13 DEF Next, Commit, Release
<1>15. QED
  BY <1>1, <1>14 DEF Keeps

\* No distance is extended twice, and none after disable has returned.
THEOREM NeverExtendedTwice == Spec => ExtendedOnce
<1>1. DInv /\ [Next]_vars =>
        [/\ \A e \in Entities :
              e \in modded' /\ distance'[e] # distance[e] => e \notin modded
         /\ shutdown_terminal => modded' \subseteq modded]_vars
  BY ExtendsOnce
<1>2. QED
  BY <1>1, DistanceSound, PTL DEF Spec, ExtendedOnce

=============================================================================
