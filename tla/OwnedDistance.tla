---------------------------- MODULE OwnedDistance ----------------------------
(***************************************************************************)
(* The entity half of universal_behavior.c: the commit hook extends the    *)
(* draw distance of a generated entity and remembers what it was, the      *)
(* release hook gives it back before the engine frees the entity, and the  *)
(* uninstaller gives back whatever is still owned.                         *)
(*                                                                         *)
(* All three run under ownership_lock, so the ownership table is a         *)
(* function from wrappers to records here (OwnershipTable shows that its   *)
(* lookups are exact under the lock).  The engine and other mods write     *)
(* distances without that lock, at any moment in between.                  *)
(***************************************************************************)
EXTENDS Integers, FiniteSets

CONSTANTS
  Threads,       \* game threads that run the hooks
  Wrappers,      \* wrapper objects of the engine
  Entities,      \* entity objects of the engine
  Authored,      \* distances the engine gives a new entity (0: unusable)
  Foreign,       \* distances other mods write
  Multiplier,    \* distance_multiplier
  Coverage,      \* GU_STOCK_SOURCE_RADIUS * multiplier
  Nobody, Closer \* the lock is free; the uninstaller holds it

ASSUME DistanceAssumption ==
  /\ Authored \subseteq Nat /\ Foreign \subseteq Nat
  /\ Multiplier \in Nat \ {0, 1} /\ Coverage \in Nat
  /\ IsFiniteSet(Wrappers)
  /\ Nobody \notin Threads /\ Closer \notin Threads /\ Nobody # Closer

VARIABLES
  enabled, shutdown_terminal,
  lock,          \* owner of ownership_lock
  owned,         \* wrapper -> record, or NoRecord
  applied_active,\* distance_applied_active
  distance,      \* entity -> its distance field
  held,          \* wrapper -> its entity, or NoEntity when the engine freed it
  hooked,        \* the call sites lead to the hooks
  pc, frame,     \* per thread: place and locals
  lifecycle,     \* place of the installing/uninstalling thread
  todo,          \* wrappers gu_behavior_restore_all_owned has still to visit
  modded         \* entities whose present distance the mod wrote (observer)

vars == <<enabled, shutdown_terminal, lock, owned, applied_active, distance,
          held, hooked, pc, frame, lifecycle, todo, modded>>
flags == <<enabled, shutdown_terminal, hooked, lifecycle, todo>>

NoEntity == "none"
NoRecord == [entity |-> NoEntity, original |-> 0, scaled |-> 0, applied |-> FALSE]
NoFrame  == [wrapper |-> NoEntity, record |-> NoRecord]

(***************************************************************************)
(* gu_make_owned_distance: the multiplied distance, no further than what   *)
(* is generated at all, and never less than the entity had.                *)
(***************************************************************************)
Scalable(d) == d > 0
AtMost(a, b) == IF a < b THEN a ELSE b
AtLeast(a, b) == IF a > b THEN a ELSE b
Scale(d) == AtLeast(AtMost(d * Multiplier, Coverage), d)

Owner(e) == {w \in Wrappers : owned[w].entity = e}
Live == {held[w] : w \in Wrappers} \ {NoEntity}
Busy(w) == \E t \in Threads : frame[t].wrapper = w

Init ==
  /\ enabled = FALSE /\ shutdown_terminal = FALSE
  /\ lock = Nobody
  /\ owned = [w \in Wrappers |-> NoRecord]
  /\ applied_active = 0
  /\ distance = [e \in Entities |-> 0]
  /\ held = [w \in Wrappers |-> NoEntity]
  /\ hooked = TRUE
  /\ pc = [t \in Threads |-> "idle"]
  /\ frame = [t \in Threads |-> NoFrame]
  /\ lifecycle = "installed"
  /\ todo = {}
  /\ modded = {}

Go(t, place, f) ==
  /\ pc' = [pc EXCEPT ![t] = place]
  /\ frame' = [frame EXCEPT ![t] = f]

-----------------------------------------------------------------------------
(***************************************************************************)
(* The engine.  It hands a wrapper to one hook at a time, calls the commit *)
(* site for a wrapper it linked (again), and the release site before it    *)
(* frees the wrapper and its entity.                                       *)
(***************************************************************************)
Create(w, e, d) ==
  /\ held[w] = NoEntity /\ ~Busy(w) /\ e \notin Live
  /\ held' = [held EXCEPT ![w] = e]
  /\ distance' = [distance EXCEPT ![e] = d]
  /\ modded' = modded \ {e}
  /\ UNCHANGED <<flags, lock, owned, applied_active, pc, frame>>

ForeignWrite(e, d) ==
  /\ e \in Live
  /\ distance' = [distance EXCEPT ![e] = d]
  /\ modded' = modded \ {e}
  /\ UNCHANGED <<flags, lock, owned, applied_active, held, pc, frame>>

CallCommit(t, w) ==
  /\ pc[t] = "idle" /\ hooked /\ held[w] # NoEntity /\ ~Busy(w)
  /\ Go(t, "commit", [NoFrame EXCEPT !.wrapper = w])
  /\ UNCHANGED <<flags, lock, owned, applied_active, distance, held, modded>>

CallRelease(t, w) ==
  /\ pc[t] = "idle" /\ held[w] # NoEntity /\ ~Busy(w)
  /\ Go(t, IF hooked THEN "release" ELSE "free", [NoFrame EXCEPT !.wrapper = w])
  /\ UNCHANGED <<flags, lock, owned, applied_active, distance, held, modded>>

Free(t) ==
  /\ pc[t] = "free"
  /\ held' = [held EXCEPT ![frame[t].wrapper] = NoEntity]
  /\ modded' = modded \ {held[frame[t].wrapper]}
  /\ Go(t, "idle", NoFrame)
  /\ UNCHANGED <<flags, lock, owned, applied_active, distance>>

-----------------------------------------------------------------------------
(***************************************************************************)
(* gu_commit_procobj: a look at the flags without the lock, then           *)
(* gu_commit_procobj_owned_wrapper under it: read the distance, publish    *)
(* the record, and only then change the distance if it is still the same.  *)
(***************************************************************************)
CommitPass(t) ==
  /\ pc[t] = "commit"
  /\ IF enabled \/ ~shutdown_terminal
       THEN Go(t, "commit_lock", frame[t])
       ELSE Go(t, "idle", NoFrame)
  /\ UNCHANGED <<flags, lock, owned, applied_active, distance, held, modded>>

CommitRead(t) ==
  /\ pc[t] = "commit_lock" /\ lock = Nobody
  /\ LET e == held[frame[t].wrapper]
         d == distance[e]
     IN  IF enabled /\ Scalable(d)
           THEN /\ lock' = t
                /\ Go(t, "publish", [frame[t] EXCEPT !.record =
                     [entity |-> e, original |-> d, scaled |-> Scale(d),
                      applied |-> Scale(d) # d]])
           ELSE UNCHANGED lock /\ Go(t, "idle", NoFrame)
  /\ UNCHANGED <<flags, owned, applied_active, distance, held, modded>>

\* Refused when wrapper or entity is owned already; the table may also be full.
CommitPublishReplacing(t) ==  \* mutant: the live key is replaced
  /\ pc[t] = "publish"
  /\ LET r == frame[t].record
         w == frame[t].wrapper
     IN  \/ /\ lock' = Nobody
            /\ Go(t, "idle", NoFrame)
            /\ UNCHANGED owned
         \/ /\ owned' = [owned EXCEPT ![w] = r]
            /\ IF r.applied
                 THEN UNCHANGED lock /\ Go(t, "apply", frame[t])
                 ELSE lock' = Nobody /\ Go(t, "idle", NoFrame)
  /\ UNCHANGED <<flags, applied_active, distance, held, modded>>

CommitPublish(t) ==
  /\ pc[t] = "publish"
  /\ LET r == frame[t].record
         w == frame[t].wrapper
     IN  \/ /\ lock' = Nobody
            /\ Go(t, "idle", NoFrame)
            /\ UNCHANGED owned
         \/ /\ owned[w] = NoRecord /\ Owner(r.entity) = {}
            /\ owned' = [owned EXCEPT ![w] = r]
            /\ IF r.applied
                 THEN UNCHANGED lock /\ Go(t, "apply", frame[t])
                 ELSE lock' = Nobody /\ Go(t, "idle", NoFrame)
  /\ UNCHANGED <<flags, applied_active, distance, held, modded>>

CommitApply(t) ==
  /\ pc[t] = "apply"
  /\ LET r == frame[t].record
     IN  IF distance[r.entity] = r.original
           THEN /\ distance' = [distance EXCEPT ![r.entity] = r.scaled]
                /\ modded' = modded \cup {r.entity}
                /\ applied_active' = applied_active + 1
                /\ UNCHANGED owned
           ELSE /\ owned' = [owned EXCEPT ![frame[t].wrapper] = NoRecord]
                /\ UNCHANGED <<distance, modded, applied_active>>
  /\ lock' = Nobody
  /\ Go(t, "idle", NoFrame)
  /\ UNCHANGED <<flags, held>>

-----------------------------------------------------------------------------
(***************************************************************************)
(* gu_take_releasing_wrapper: take the record out, then give the distance  *)
(* back if it still is the one that was written; otherwise somebody else   *)
(* owns it now.                                                            *)
(***************************************************************************)
GiveBackSwapped(e, r) ==    \* mutant: the exchange with its operands swapped
  IF distance[e] = r.original
    THEN distance' = [distance EXCEPT ![e] = r.scaled] /\ modded' = modded \ {e}
    ELSE UNCHANGED <<distance, modded>>

GiveBack(e, r) ==
  IF distance[e] = r.scaled
    THEN distance' = [distance EXCEPT ![e] = r.original] /\ modded' = modded \ {e}
    ELSE UNCHANGED <<distance, modded>>

ReleaseTake(t) ==
  /\ pc[t] = "release" /\ lock = Nobody
  /\ LET r == owned[frame[t].wrapper]
     IN  IF r = NoRecord
           THEN Go(t, "free", frame[t]) /\ UNCHANGED <<lock, owned>>
           ELSE /\ owned' = [owned EXCEPT ![frame[t].wrapper] = NoRecord]
                /\ lock' = t
                /\ Go(t, "restore", [frame[t] EXCEPT !.record = r])
  /\ UNCHANGED <<flags, applied_active, distance, held, modded>>

ReleaseRestore(t) ==
  /\ pc[t] = "restore"
  /\ LET r == frame[t].record
     IN  IF r.applied
           THEN /\ applied_active' = applied_active - 1
                /\ IF held[frame[t].wrapper] = r.entity
                     THEN GiveBack(r.entity, r)
                     ELSE UNCHANGED <<distance, modded>>
           ELSE UNCHANGED <<applied_active, distance, modded>>
  /\ lock' = Nobody
  /\ Go(t, "free", [frame[t] EXCEPT !.record = NoRecord])
  /\ UNCHANGED <<flags, owned, held>>

-----------------------------------------------------------------------------
(***************************************************************************)
(* The uninstaller: disable under the lock, take the hooks out, restore    *)
(* all that is owned under the lock, one record after the other.           *)
(***************************************************************************)
Others == <<owned, applied_active, distance, held, pc, frame, modded>>

Enable ==
  /\ lifecycle = "installed" /\ lock = Nobody
  /\ enabled' = TRUE
  /\ lifecycle' = "running"
  /\ UNCHANGED <<shutdown_terminal, lock, hooked, todo, Others>>

Disable ==
  /\ lifecycle = "running" /\ lock = Nobody
  /\ enabled' = FALSE
  /\ shutdown_terminal' = TRUE
  /\ lifecycle' = "disabled"
  /\ UNCHANGED <<lock, hooked, todo, Others>>

Unhook ==                   \* gu_install_rollback_writes
  /\ lifecycle = "disabled"
  /\ hooked' = FALSE
  /\ lifecycle' = "unhooked"
  /\ UNCHANGED <<enabled, shutdown_terminal, lock, todo, Others>>

RestoreAll ==               \* the lock, and the check of the flags
  /\ lifecycle = "unhooked" /\ lock = Nobody
  /\ ~enabled /\ shutdown_terminal
  /\ lock' = Closer
  /\ todo' = Wrappers
  /\ lifecycle' = "restoring"
  /\ UNCHANGED <<enabled, shutdown_terminal, hooked, Others>>

RestoreOneUncounted(w) ==   \* mutant: the balance is not reduced
  /\ lifecycle = "restoring" /\ w \in todo
  /\ todo' = todo \ {w}
  /\ LET r == owned[w]
     IN  IF r # NoRecord /\ r.applied
           THEN GiveBack(r.entity, r)
           ELSE UNCHANGED <<distance, modded>>
  /\ owned' = [owned EXCEPT ![w] = NoRecord]
  /\ UNCHANGED <<enabled, shutdown_terminal, lock, hooked, lifecycle,
                 applied_active, held, pc, frame>>

RestoreOne(w) ==
  /\ lifecycle = "restoring" /\ w \in todo
  /\ todo' = todo \ {w}
  /\ LET r == owned[w]
     IN  IF r # NoRecord /\ r.applied
           THEN GiveBack(r.entity, r) /\ applied_active' = applied_active - 1
           ELSE UNCHANGED <<distance, modded, applied_active>>
  /\ owned' = [owned EXCEPT ![w] = NoRecord]
  /\ UNCHANGED <<enabled, shutdown_terminal, lock, hooked, lifecycle, held, pc,
                 frame>>

RestoreDone ==
  /\ lifecycle = "restoring" /\ todo = {}
  /\ lock' = Nobody
  /\ lifecycle' = "restored"
  /\ UNCHANGED <<enabled, shutdown_terminal, hooked, todo, Others>>

-----------------------------------------------------------------------------
Commit(t) == CommitPass(t) \/ CommitRead(t) \/ CommitPublish(t) \/ CommitApply(t)
Release(t) == ReleaseTake(t) \/ ReleaseRestore(t) \/ Free(t)

Next ==
  \/ \E w \in Wrappers, e \in Entities, d \in Authored : Create(w, e, d)
  \/ \E e \in Entities, d \in Foreign : ForeignWrite(e, d)
  \/ \E t \in Threads, w \in Wrappers : CallCommit(t, w) \/ CallRelease(t, w)
  \/ \E t \in Threads : Commit(t) \/ Release(t)
  \/ Enable \/ Disable \/ Unhook \/ RestoreAll \/ RestoreDone
  \/ \E w \in Wrappers : RestoreOne(w)

Spec == Init /\ [][Next]_vars

-----------------------------------------------------------------------------
Distances == Authored \cup Foreign \cup {0} \cup 0 .. Coverage
Records == [entity : Entities \cup {NoEntity}, original : Distances,
            scaled : Distances, applied : BOOLEAN]

\* Every variable has its type, and no distance leaves what the engine authors,
\* another mod writes, or the coverage admits.
TypeOK ==
  /\ enabled \in BOOLEAN /\ shutdown_terminal \in BOOLEAN /\ hooked \in BOOLEAN
  /\ lock \in Threads \cup {Nobody, Closer}
  /\ owned \in [Wrappers -> Records]
  /\ applied_active \in Int
  /\ distance \in [Entities -> Distances]
  /\ held \in [Wrappers -> Entities \cup {NoEntity}]
  /\ pc \in [Threads -> {"idle", "commit", "commit_lock", "publish", "apply",
                         "release", "restore", "free"}]
  /\ frame \in [Threads -> [wrapper : Wrappers \cup {NoEntity}, record : Records]]
  /\ lifecycle \in {"installed", "running", "disabled", "unhooked", "restoring",
                    "restored"}
  /\ todo \subseteq Wrappers
  /\ modded \subseteq Entities

\* The mod never loses track of a distance it extended: whenever nobody is in a
\* critical section, an entity whose distance the mod wrote has a record that
\* says what to give back, and says it of the value that is there now; and
\* distance_applied_active counts exactly the records that are owed a restore.
ScaledIsTracked ==
  lock = Nobody =>
    /\ \A e \in modded : \E w \in Wrappers :
         /\ owned[w].entity = e /\ owned[w].applied
         /\ owned[w].scaled = distance[e]
    /\ applied_active = Cardinality({w \in Wrappers : owned[w].applied})

\* While the hooks are in, a record never outlives its entity: nothing is ever
\* given back to an object the engine has freed or handed out again.
OwnedIsLive ==
  hooked => \A w \in Wrappers : owned[w] # NoRecord => owned[w].entity = held[w]

\* Every extended distance has a record that can give it back, and every record
\* an entity that is still there.
DistanceInv == TypeOK /\ ScaledIsTracked /\ OwnedIsLive

\* After a clean shutdown nothing is owned, nothing is owed, and no live entity
\* still has a distance of the mod's making.
CleanShutdown ==
  lifecycle = "restored" =>
    /\ \A w \in Wrappers : owned[w] = NoRecord
    /\ applied_active = 0
    /\ modded = {}

\* No distance is extended twice, however often a wrapper is committed and
\* whatever other mods write meanwhile; and once disable has returned none is
\* extended any more, not even by a commit that had already passed the unlocked
\* look at the flags.
ExtendedOnce ==
  [][/\ \A e \in Entities :
          e \in modded' /\ distance'[e] # distance[e] => e \notin modded
     /\ shutdown_terminal => modded' \subseteq modded]_vars
=============================================================================
