----------------------- MODULE InstallLifecycleProofs -----------------------
(***************************************************************************)
(* Proofs about InstallLifecycle, for any number of callers, engine        *)
(* threads, sites and installations.                                       *)
(***************************************************************************)
EXTENDS InstallLifecycle, TLAPS

-----------------------------------------------------------------------------
(* The inductive invariant.                                                *)

\* The words of the lifecycle under which a caller can be at a place.
Word(place) ==
  CASE place \in {"arguments", "add", "prepared"} -> {"preparing"}
    [] place = "abort" -> {"preparing", "cancelling"}
    [] place \in {"validate", "write", "unwind", "enable"} -> {"committing"}
    [] place \in {"undo", "rollback"} -> {"committing", "uninstalling"}
    [] place \in {"disable", "rundown", "release"} -> {"uninstalling"}
    [] OTHER -> {"idle", "preparing", "active", "uninstalling", "dirty",
                 "committing", "cancelling"}

WordMatches == \A c \in Callers : lifecycle \in Word(pc[c])

\* Another mod that has saved something shows its own branch, and a site whose
\* mark is 0 is as the engine made it: now, and when the other mod has left.
SiteSound(s) ==
  /\ saved[s] # Nothing => bytes[s] = Foreign
  /\ mark[s] = 0 => protected[s] /\ bytes[s] <= Original /\ saved[s] <= Original

SitesSound == \A s \in Sites : SiteSound(s)

\* No site of the transaction is marked.
Unmarked == \A s \in Sites : mark[s] = 0

\* The sites before the one in hand are live, the others not yet touched.
WrittenUpTo(c) ==
  /\ at[c] \in 1 .. SiteCount + 1
  /\ \A s \in Sites : mark[s] = IF s < at[c] THEN 1 ELSE 0

Installed == \A s \in Sites : mark[s] = 1

\* What is known at each place.
Progress(c) ==
  /\ pc[c] = "arguments" => ~live /\ gen < MaxInstalls
  /\ pc[c] = "add" => gen > 0
  /\ pc[c] \in {"arguments", "add", "prepared", "abort", "validate"} => Unmarked
  /\ pc[c] = "arguments" \/ pc[c] = "out" \/ live
  /\ pc[c] \in {"prepared", "validate", "write", "unwind", "enable", "undo",
                "rollback", "disable", "rundown", "release"} => count = SiteCount
  /\ pc[c] = "write" => WrittenUpTo(c)
  /\ pc[c] \in {"unwind", "rollback"} => at[c] \in 0 .. SiteCount
  /\ pc[c] = "enable" => Installed /\ committed
  /\ pc[c] = "disable" => committed
  /\ pc[c] \in {"rundown", "release"} => Unmarked

\* What is known between two operations.
AtRest ==
  /\ lifecycle = "idle" => ~live /\ Unmarked
  /\ lifecycle = "active" =>
       live /\ enabled /\ committed /\ count = SiteCount /\ Installed
  /\ lifecycle \in {"active", "dirty", "idle"} => (HasUnrestored => committed)

LifecycleInv ==
  /\ TypeOK /\ OneOperation /\ WordMatches
  /\ SitesSound /\ NoDanglingBranch
  /\ (count > 0 => gen > 0)
  /\ (\A c \in Callers : Progress(c)) /\ AtRest

-----------------------------------------------------------------------------
(* Facts about the operators.                                              *)

\* Sites are numbered from 1.
LEMMA SiteNumbers ==
  /\ SiteCount \in Nat \ {0} /\ MaxInstalls \in Nat
  /\ Sites = 1 .. SiteCount /\ Sites \subseteq Int
BY TransactionAssumption DEF Sites

\* What the mod writes at a site: the engine's own bytes, or its branch.
LEMMA ReplacementType ==
  ASSUME TypeOK, NEW s \in Sites
  PROVE  Replacement(s) \in 0 .. MaxInstalls /\ Replacement(s) \in {Original, gen}
BY SiteNumbers DEF TypeOK, Replacement, Original

\* A mark of 0 is true of the image, so nothing reappears and what is left to
\* restore is what is marked.
LEMMA UnrestoredIsMarked ==
  ASSUME TypeOK, SitesSound, count > 0 => gen > 0
  PROVE  HasUnrestored <=> \E s \in 1 .. count : mark[s] # 0
<1>1. ASSUME NEW s \in 1 .. count, Reappeared(s) PROVE FALSE
  <2>1. s \in Sites /\ count > 0
    BY SiteNumbers DEF TypeOK
  <2>2. bytes[s] = gen /\ mark[s] = 0
    BY <1>1 DEF Reappeared, Replacement
  <2> QED
    BY <2>1, <2>2, SiteNumbers DEF SitesSound, SiteSound, Original, TypeOK
<1> QED
  BY <1>1 DEF HasUnrestored

\* The outcomes of a restoration.
LEMMA RestoreSound ==
  ASSUME TypeOK, NEW s \in Sites, SiteSound(s), NEW o \in RestoreOutcomes(s)
  PROVE  /\ o.bytes \in Values /\ o.protected \in BOOLEAN /\ o.mark \in 0 .. 2
         /\ o.bytes \in {bytes[s], Original}
         /\ saved[s] # Nothing => o.bytes = Foreign
         /\ o.mark = 0 => o.protected /\ o.bytes <= Original /\ saved[s] <= Original
<1>1. bytes[s] \in Values /\ Original \in Values /\ protected[s] \in BOOLEAN
  BY DEF TypeOK, Values
<1>2. CASE o = Failed(s, 2)
  BY <1>1, <1>2 DEF Failed, Outcome, SiteSound
<1>3. CASE bytes[s] = Original /\ o \in Undone(s, ~protected[s])
  BY <1>1, <1>3 DEF Undone, Outcome, SiteSound, Original, Foreign, Nothing
<1>4. CASE bytes[s] = Replacement(s) /\ o \in Undone(s, TRUE)
  BY <1>1, <1>4, ReplacementType, SiteNumbers
  DEF Undone, Outcome, SiteSound, Original, Foreign, Nothing
<1> QED
  BY <1>2, <1>3, <1>4 DEF RestoreOutcomes

\* The outcomes of a write.
LEMMA WriteSound ==
  ASSUME TypeOK, NEW s \in Sites, SiteSound(s), NEW o \in WriteOutcomes(s)
  PROVE  /\ o.bytes \in Values /\ o.protected \in BOOLEAN /\ o.mark \in 0 .. 2
         /\ o.bytes \in {bytes[s], Original, gen}
         /\ saved[s] # Nothing => o.bytes = Foreign
         /\ o.mark = 0 => o.protected /\ o.bytes <= Original /\ saved[s] <= Original
         /\ o.ok \in BOOLEAN /\ (o.ok => o.mark = 1)
<1>1. /\ bytes[s] \in Values /\ Original \in Values /\ protected[s] \in BOOLEAN
      /\ mark[s] \in 0 .. 2 /\ Replacement(s) \in Values
  BY ReplacementType, SiteNumbers DEF TypeOK, Values, Original
<1>2. CASE o = Failed(s, mark[s])
  BY <1>1, <1>2 DEF Failed, Outcome, SiteSound
<1>3. CASE bytes[s] = Original /\ o = Outcome(Replacement(s), TRUE, 1, TRUE)
  BY <1>1, <1>3, ReplacementType DEF Outcome, SiteSound, Original, Foreign, Nothing
<1>4. CASE bytes[s] = Original /\ \E u \in Undone(s, TRUE) : o = [u EXCEPT !.ok = FALSE]
  BY <1>1, <1>4 DEF Undone, Outcome, SiteSound, Original, Foreign, Nothing
<1> QED
  BY <1>2, <1>3, <1>4 DEF WriteOutcomes

\* Whatever such an outcome leaves, the sites stay sound.
LEMMA SiteStep ==
  ASSUME TypeOK, SitesSound, NoDanglingBranch, live,
         NEW s \in Sites, NEW o, Apply(s, o), UNCHANGED <<gen, saved, live>>,
         o.bytes \in Values, o.protected \in BOOLEAN, o.mark \in 0 .. 2,
         o.bytes \in {bytes[s], Original, gen},
         saved[s] # Nothing => o.bytes = Foreign,
         o.mark = 0 => o.protected /\ o.bytes <= Original /\ saved[s] <= Original
  PROVE  /\ bytes' \in [Sites -> Values]
         /\ protected' \in [Sites -> BOOLEAN]
         /\ mark' \in [Sites -> 0 .. 2]
         /\ SitesSound' /\ NoDanglingBranch'
<1>1. /\ bytes' \in [Sites -> Values]
      /\ protected' \in [Sites -> BOOLEAN]
      /\ mark' \in [Sites -> 0 .. 2]
  BY DEF Apply, TypeOK
<1>2. SitesSound'
  BY DEF Apply, TypeOK, SitesSound, SiteSound
<1>3. NoDanglingBranch'
  <2>1. SUFFICES ASSUME NEW q \in Sites, NEW v \in {bytes'[q], saved'[q]}, v > 0
                 PROVE  live /\ v = gen
    BY DEF NoDanglingBranch
  <2>2. CASE q = s /\ v = bytes'[q]
    BY <2>1, <2>2 DEF Apply, TypeOK, NoDanglingBranch, Original
  <2>3. CASE q # s \/ v = saved'[q]
    BY <2>1, <2>3 DEF Apply, TypeOK, NoDanglingBranch
  <2> QED
    BY <2>1, <2>2, <2>3
<1> QED
  BY <1>1, <1>2, <1>3

-----------------------------------------------------------------------------
(* Initially.                                                              *)

\* The invariant holds at first.
LEMMA LifecycleInit == Init => LifecycleInv
<1> SUFFICES ASSUME Init PROVE LifecycleInv
  OBVIOUS
<1> USE SiteNumbers DEF Init, InitTransaction
<1>1. TypeOK
  <2>1. inside \in [Engine -> [site : 0 .. SiteCount, gen : 0 .. MaxInstalls,
                              leased : BOOLEAN]]
    BY DEF Outside
  <2>2. /\ bytes \in [Sites -> Values] /\ saved \in [Sites -> Values \cup {Nothing}]
        /\ mark \in [Sites -> 0 .. 2] /\ protected \in [Sites -> BOOLEAN]
    BY DEF Values
  <2>3. /\ gen \in 0 .. MaxInstalls /\ count \in 0 .. SiteCount
        /\ pc \in [Callers -> Places] /\ at \in [Callers -> 0 .. SiteCount + 1]
    BY DEF Places
  <2> QED
    BY <2>1, <2>2, <2>3 DEF TypeOK
<1>2. OneOperation
  BY DEF OneOperation
<1>3. WordMatches
  BY DEF WordMatches, Word
<1>4. SitesSound /\ NoDanglingBranch
  BY DEF SitesSound, SiteSound, NoDanglingBranch, Original, Nothing
<1>5. \A c \in Callers : Progress(c)
  BY DEF Progress
<1>6. AtRest
  BY DEF AtRest, Unmarked, HasUnrestored
<1> QED
  BY <1>1, <1>2, <1>3, <1>4, <1>5, <1>6 DEF LifecycleInv

-----------------------------------------------------------------------------
(* One caller works at a time.                                             *)

\* A caller at work is alone, and so is one that is just being admitted.
LEMMA Alone ==
  ASSUME LifecycleInv, NEW c \in Callers,
         pc[c] # "out" \/ lifecycle \in {"idle", "active"}
  PROVE  \A d \in Callers \ {c} : pc[d] = "out"
<1>1. CASE pc[c] # "out"
  BY <1>1 DEF LifecycleInv, OneOperation
<1>2. CASE lifecycle \in {"idle", "active"}
  <2>1. ASSUME NEW d \in Callers PROVE pc[d] = "out"
    <3>1. lifecycle \in Word(pc[d]) /\ pc[d] \in Places
      BY DEF LifecycleInv, WordMatches, TypeOK
    <3> QED
      BY <3>1, <1>2 DEF Word, Places
  <2> QED
    BY <2>1
<1> QED
  BY <1>1, <1>2

\* It is enough to look at the caller that moves.
LEMMA CallerStep ==
  ASSUME LifecycleInv, NEW c \in Callers,
         \A d \in Callers \ {c} : pc[d] = "out",
         NEW place \in Places, Goto(c, place),
         lifecycle' \in Word(place), Progress(c)'
  PROVE  /\ pc' \in [Callers -> Places] /\ pc'[c] = place
         /\ OneOperation' /\ WordMatches' /\ \A d \in Callers : Progress(d)'
<1>1. pc \in [Callers -> Places] /\ pc' = [pc EXCEPT ![c] = place]
  BY DEF LifecycleInv, TypeOK, Goto
<1>2. pc' \in [Callers -> Places] /\ pc'[c] = place
  BY <1>1
<1>3. \A d \in Callers \ {c} : pc'[d] = "out"
  BY <1>1
<1>4. OneOperation'
  BY <1>3 DEF OneOperation
<1>5. WordMatches'
  <2>1. SUFFICES ASSUME NEW d \in Callers \ {c} PROVE lifecycle' \in Word(pc'[d])
    BY <1>2 DEF WordMatches
  <2>2. lifecycle' \in {"idle", "preparing", "active", "uninstalling", "dirty",
                        "committing", "cancelling"}
    BY <1>2 DEF Word, Places
  <2> QED
    BY <1>3, <2>2 DEF Word
<1>6. ASSUME NEW d \in Callers \ {c} PROVE Progress(d)'
  BY <1>3 DEF Progress
<1> QED
  BY <1>2, <1>4, <1>5, <1>6

\* What a step that leaves the transaction alone cannot disturb.
LEMMA TransactionKept ==
  ASSUME LifecycleInv, UNCHANGED rest
  PROVE  /\ SitesSound' /\ (count > 0 => gen > 0)'
         /\ HasUnrestored' = HasUnrestored
         /\ (Unmarked => Unmarked') /\ (Installed => Installed')
         /\ (live' = live => NoDanglingBranch')
         /\ (Unmarked => NoDanglingBranch')
<1> USE DEF rest, transaction, image, patches
<1>1. SitesSound' /\ (count > 0 => gen > 0)'
  BY DEF LifecycleInv, SitesSound, SiteSound
<1>2. HasUnrestored' = HasUnrestored
  BY DEF HasUnrestored, Reappeared, Replacement
<1>3. (Unmarked => Unmarked') /\ (Installed => Installed')
  BY DEF Unmarked, Installed
<1>4. ASSUME live' = live PROVE NoDanglingBranch'
  BY <1>4 DEF LifecycleInv, NoDanglingBranch
<1>5. ASSUME Unmarked PROVE NoDanglingBranch'
  <2>1. \A s \in Sites : /\ bytes[s] \in Values /\ saved[s] \in Values \cup {Nothing}
                        /\ bytes[s] <= Original /\ saved[s] <= Original
    BY <1>5 DEF LifecycleInv, TypeOK, SitesSound, SiteSound, Unmarked
  <2> QED
    BY <2>1, SiteNumbers DEF NoDanglingBranch, Original, Values, Foreign, Nothing
<1> QED
  BY <1>1, <1>2, <1>3, <1>4, <1>5

-----------------------------------------------------------------------------
(* Steps of a caller that leave the transaction alone.                     *)

\* What such a step still has to show.
LEMMA QuietStep ==
  ASSUME LifecycleInv, UNCHANGED rest, NEW c \in Callers, NEW place \in Places,
         pc[c] # "out" \/ lifecycle \in {"idle", "active"},
         Goto(c, place), lifecycle' \in Word(place), Progress(c)', AtRest',
         lifecycle' \in {"idle", "preparing", "active", "uninstalling", "dirty",
                        "committing", "cancelling"},
         live' \in BOOLEAN, enabled' \in BOOLEAN, UNCHANGED inside,
         at' \in [Callers -> 0 .. SiteCount + 1],
         live' = live \/ Unmarked
  PROVE  LifecycleInv'
<1>1. \A d \in Callers \ {c} : pc[d] = "out"
  BY Alone
<1>2. /\ pc' \in [Callers -> Places] /\ pc'[c] = place
      /\ OneOperation' /\ WordMatches' /\ \A d \in Callers : Progress(d)'
  BY <1>1, CallerStep
<1>3. TypeOK'
  BY <1>2 DEF LifecycleInv, TypeOK, rest, transaction, image, patches
<1>4. SitesSound' /\ (count > 0 => gen > 0)' /\ NoDanglingBranch'
  BY TransactionKept
<1> QED
  BY <1>2, <1>3, <1>4 DEF LifecycleInv

\* Between the admission and the end of an operation nothing is claimed.
LEMMA Busy ==
  ASSUME lifecycle' \in {"preparing", "cancelling", "committing", "uninstalling"}
  PROVE  AtRest'
BY DEF AtRest

\* Where a caller is after it has moved.
LEMMA PlaceOf ==
  ASSUME LifecycleInv, NEW c \in Callers, NEW place, Goto(c, place)
  PROVE  pc'[c] = place
BY DEF LifecycleInv, TypeOK, Goto

\* gu_universal_prepare is admitted.
LEMMA PrepareKeeps ==
  ASSUME LifecycleInv, NEW c \in Callers, Prepare(c)
  PROVE  LifecycleInv'
<1>1. /\ Goto(c, "arguments") /\ UNCHANGED rest /\ lifecycle = "idle"
      /\ lifecycle' = "preparing" /\ gen < MaxInstalls
      /\ UNCHANGED <<live, enabled, at, inside>>
  BY DEF Prepare
<1>2. ~live /\ Unmarked
  BY <1>1 DEF LifecycleInv, AtRest
<1>3. Progress(c)'
  <2>1. gen' = gen
    BY <1>1 DEF rest
  <2> QED
    BY <1>1, <1>2, <2>1, PlaceOf, TransactionKept DEF Progress
<1>4. at' \in [Callers -> 0 .. SiteCount + 1] /\ live' \in BOOLEAN /\ enabled' \in BOOLEAN
  BY <1>1 DEF LifecycleInv, TypeOK
<1> QED
  BY <1>1, <1>3, <1>4, Busy, QuietStep DEF Word, Places

\* A step that only moves the caller on.
LEMMA MoveOn ==
  ASSUME LifecycleInv, NEW c \in Callers, UNCHANGED <<rest, live, enabled, inside>>,
         NEW place \in Places, pc[c] # "out" \/ lifecycle \in {"idle", "active"},
         Goto(c, place), at' \in [Callers -> 0 .. SiteCount + 1],
         lifecycle' \in {"preparing", "cancelling", "committing", "uninstalling"},
         lifecycle' \in Word(place), Progress(c)'
  PROVE  LifecycleInv'
<1>1. UNCHANGED rest /\ live' = live /\ UNCHANGED inside
  OBVIOUS
<1>2. live' \in BOOLEAN /\ enabled' \in BOOLEAN
  BY DEF LifecycleInv, TypeOK
<1> QED
  BY <1>1, <1>2, Busy, QuietStep

\* gu_universal_cancel_prepared is admitted.
LEMMA CancelKeeps ==
  ASSUME LifecycleInv, NEW c \in Callers, Cancel(c)
  PROVE  LifecycleInv'
<1>1. /\ Goto(c, "abort") /\ pc[c] = "prepared" /\ lifecycle' = "cancelling"
      /\ UNCHANGED <<rest, live, enabled, at, inside>>
  BY DEF Cancel
<1>2. Progress(c) /\ at \in [Callers -> 0 .. SiteCount + 1]
  BY DEF LifecycleInv, TypeOK
<1>3. Progress(c)'
  BY <1>1, <1>2, PlaceOf, TransactionKept DEF Progress
<1> QED
  BY <1>1, <1>2, <1>3, MoveOn DEF Word, Places

\* gu_universal_commit_prepared is admitted.
LEMMA CommitKeeps ==
  ASSUME LifecycleInv, NEW c \in Callers, Commit(c)
  PROVE  LifecycleInv'
<1>1. /\ Goto(c, "validate") /\ pc[c] = "prepared" /\ lifecycle' = "committing"
      /\ UNCHANGED <<rest, live, enabled, at, inside>>
  BY DEF Commit
<1>2. Progress(c) /\ at \in [Callers -> 0 .. SiteCount + 1]
  BY DEF LifecycleInv, TypeOK
<1>3. Progress(c)'
  <2>1. count' = count
    BY <1>1 DEF rest, transaction, patches
  <2> QED
    BY <1>1, <1>2, <2>1, PlaceOf, TransactionKept DEF Progress
<1> QED
  BY <1>1, <1>2, <1>3, MoveOn DEF Word, Places

\* gu_install_abort_prepared.
LEMMA AbortKeeps ==
  ASSUME LifecycleInv, NEW c \in Callers, Abort(c)
  PROVE  LifecycleInv'
<1>1. /\ Goto(c, "out") /\ pc[c] = "abort" /\ UNCHANGED <<rest, enabled, at, inside>>
      /\ \/ live' = FALSE /\ lifecycle' = "idle"
         \/ live' = live /\ lifecycle' = "dirty"
  BY DEF Abort, Finish
<1>2. Unmarked
  BY <1>1 DEF LifecycleInv, Progress
<1>3. ~HasUnrestored
  BY <1>2, UnrestoredIsMarked, SiteNumbers DEF LifecycleInv, TypeOK, Unmarked
<1>4. AtRest'
  BY <1>1, <1>2, <1>3, TransactionKept DEF AtRest
<1>5. Progress(c)'
  BY <1>1, PlaceOf DEF Progress
<1>6. /\ at' \in [Callers -> 0 .. SiteCount + 1] /\ live' \in BOOLEAN
      /\ enabled' \in BOOLEAN
  BY <1>1 DEF LifecycleInv, TypeOK
<1> QED
  BY <1>1, <1>2, <1>4, <1>5, <1>6, QuietStep DEF Word, Places

\* The sites are compared with what is expected.
LEMMA ValidateKeeps ==
  ASSUME LifecycleInv, NEW c \in Callers, Validate(c)
  PROVE  LifecycleInv'
<1>1. pc[c] = "validate" /\ UNCHANGED <<rest, lifecycle, live, enabled, inside>>
  BY DEF Validate
<1>2. /\ Progress(c) /\ at \in [Callers -> 0 .. SiteCount + 1]
      /\ lifecycle = "committing" /\ count' = count
  BY <1>1 DEF LifecycleInv, TypeOK, WordMatches, Word, rest, transaction, patches
<1>3. CASE GotoSite(c, "write", 1)
  <2>1. Goto(c, "write") /\ at' = [at EXCEPT ![c] = 1]
    BY <1>3 DEF GotoSite
  <2>2. at' \in [Callers -> 0 .. SiteCount + 1] /\ at'[c] = 1
    BY <1>2, <2>1, SiteNumbers
  <2>3. Unmarked'
    BY <1>1, <1>2, TransactionKept DEF Progress
  <2>4. WrittenUpTo(c)'
    BY <2>2, <2>3, SiteNumbers DEF WrittenUpTo, Unmarked
  <2>5. Progress(c)'
    BY <1>1, <1>2, <2>1, <2>4, PlaceOf DEF Progress
  <2> QED
    BY <1>1, <1>2, <2>1, <2>2, <2>5, MoveOn DEF Word, Places
<1>4. CASE Goto(c, "undo") /\ UNCHANGED at
  <2>1. Progress(c)'
    BY <1>1, <1>2, <1>4, PlaceOf DEF Progress
  <2> QED
    BY <1>1, <1>2, <1>4, <2>1, MoveOn DEF Word, Places
<1> QED
  BY <1>3, <1>4 DEF Validate

\* The behaviour is enabled, or found shut down.
LEMMA EnableKeeps ==
  ASSUME LifecycleInv, NEW c \in Callers, Enable(c)
  PROVE  LifecycleInv'
<1>1. pc[c] = "enable" /\ UNCHANGED <<rest, live, at, inside>>
  BY DEF Enable
<1>2. /\ Progress(c) /\ at' \in [Callers -> 0 .. SiteCount + 1]
      /\ lifecycle = "committing" /\ live' \in BOOLEAN /\ count' = count
      /\ committed' = committed
  BY <1>1 DEF LifecycleInv, TypeOK, WordMatches, Word, rest, transaction, patches
<1>3. CASE enabled' = TRUE /\ Finish(c, "active")
  <2>1. Goto(c, "out") /\ lifecycle' = "active"
    BY <1>3 DEF Finish
  <2>2. AtRest'
    BY <1>1, <1>2, <1>3, <2>1, TransactionKept DEF AtRest, Progress
  <2>3. Progress(c)'
    BY <2>1, PlaceOf DEF Progress
  <2> QED
    BY <1>1, <1>2, <1>3, <2>1, <2>2, <2>3, QuietStep DEF Word, Places
<1>4. CASE Goto(c, "undo") /\ UNCHANGED <<enabled, lifecycle>>
  <2>1. Progress(c)'
    BY <1>1, <1>2, <1>4, PlaceOf DEF Progress
  <2> QED
    BY <1>1, <1>2, <1>4, <2>1, MoveOn DEF Word, Places
<1> QED
  BY <1>3, <1>4 DEF Enable

\* gu_universal_uninstall is admitted.
LEMMA UninstallKeeps ==
  ASSUME LifecycleInv, NEW c \in Callers, Uninstall(c)
  PROVE  LifecycleInv'
<1>1. /\ Goto(c, "disable") /\ lifecycle = "active" /\ lifecycle' = "uninstalling"
      /\ UNCHANGED <<rest, live, enabled, at, inside>>
  BY DEF Uninstall
<1>2. at' \in [Callers -> 0 .. SiteCount + 1] /\ count' = count /\ committed' = committed
  BY <1>1 DEF LifecycleInv, TypeOK, rest, transaction, patches
<1>3. live /\ committed /\ count = SiteCount
  BY <1>1 DEF LifecycleInv, AtRest
<1>4. Progress(c)'
  BY <1>1, <1>2, <1>3, PlaceOf DEF Progress
<1> QED
  BY <1>1, <1>2, <1>4, MoveOn DEF Word, Places

\* gu_behavior_disable.
LEMMA DisableKeeps ==
  ASSUME LifecycleInv, NEW c \in Callers, Disable(c)
  PROVE  LifecycleInv'
<1>1. /\ pc[c] = "disable" /\ enabled' = FALSE /\ UNCHANGED <<rest, live, at, inside>>
  BY DEF Disable
<1>2. /\ Progress(c) /\ at' \in [Callers -> 0 .. SiteCount + 1]
      /\ lifecycle = "uninstalling" /\ live' \in BOOLEAN /\ count' = count
      /\ committed' = committed
  BY <1>1 DEF LifecycleInv, TypeOK, WordMatches, Word, rest, transaction, patches
<1>3. CASE Finish(c, "dirty")
  <2>1. Goto(c, "out") /\ lifecycle' = "dirty"
    BY <1>3 DEF Finish
  <2>2. AtRest'
    BY <1>1, <1>2, <2>1 DEF AtRest, Progress
  <2>3. Progress(c)'
    BY <2>1, PlaceOf DEF Progress
  <2> QED
    BY <1>1, <1>2, <2>1, <2>2, <2>3, QuietStep DEF Word, Places
<1>4. CASE Goto(c, "undo") /\ UNCHANGED lifecycle
  <2>1. Progress(c)'
    BY <1>1, <1>2, <1>4, PlaceOf DEF Progress
  <2> QED
    BY <1>1, <1>2, <1>4, <2>1, Busy, QuietStep DEF Word, Places
<1> QED
  BY <1>3, <1>4 DEF Disable

\* The banks are shut down.
LEMMA RundownKeeps ==
  ASSUME LifecycleInv, NEW c \in Callers, Rundown(c)
  PROVE  LifecycleInv'
<1>1. pc[c] = "rundown" /\ UNCHANGED <<rest, live, enabled, at, inside>>
  BY DEF Rundown
<1>2. /\ Progress(c) /\ at' \in [Callers -> 0 .. SiteCount + 1] /\ count' = count
      /\ lifecycle = "uninstalling" /\ live' \in BOOLEAN /\ enabled' \in BOOLEAN
  BY <1>1 DEF LifecycleInv, TypeOK, WordMatches, Word, rest, transaction, patches
<1>3. CASE Goto(c, "release") /\ UNCHANGED lifecycle
  <2>1. Progress(c)'
    BY <1>1, <1>2, <1>3, PlaceOf, TransactionKept DEF Progress
  <2> QED
    BY <1>1, <1>2, <1>3, <2>1, MoveOn DEF Word, Places
<1>4. CASE Finish(c, "dirty")
  <2>1. Goto(c, "out") /\ lifecycle' = "dirty"
    BY <1>4 DEF Finish
  <2>2. ~HasUnrestored
    BY <1>1, <1>2, UnrestoredIsMarked, SiteNumbers
    DEF LifecycleInv, TypeOK, Unmarked, Progress
  <2>3. AtRest'
    BY <1>1, <2>1, <2>2, TransactionKept DEF AtRest
  <2>4. Progress(c)'
    BY <2>1, PlaceOf DEF Progress
  <2> QED
    BY <1>1, <1>2, <2>1, <2>3, <2>4, QuietStep DEF Word, Places
<1> QED
  BY <1>3, <1>4 DEF Rundown

\* The stubs are freed.
LEMMA ReleaseKeeps ==
  ASSUME LifecycleInv, NEW c \in Callers, Release(c)
  PROVE  LifecycleInv'
<1>1. /\ pc[c] = "release" /\ live' = FALSE /\ UNCHANGED <<rest, enabled, at, inside>>
      /\ Goto(c, "out") /\ lifecycle' \in {"idle", "dirty"}
  BY DEF Release, Finish
<1>2. Unmarked
  BY <1>1 DEF LifecycleInv, Progress
<1>3. ~HasUnrestored
  BY <1>2, UnrestoredIsMarked, SiteNumbers DEF LifecycleInv, TypeOK, Unmarked
<1>4. AtRest'
  BY <1>1, <1>2, <1>3, TransactionKept DEF AtRest
<1>5. Progress(c)'
  BY <1>1, PlaceOf DEF Progress
<1>6. at' \in [Callers -> 0 .. SiteCount + 1] /\ enabled' \in BOOLEAN
  BY <1>1 DEF LifecycleInv, TypeOK
<1> QED
  BY <1>1, <1>2, <1>4, <1>5, <1>6, QuietStep DEF Word, Places

-----------------------------------------------------------------------------
(* Steps of a caller on the transaction.                                   *)

\* gu_universal_prepare checks its arguments.
LEMMA ArgumentsKeeps ==
  ASSUME LifecycleInv, NEW c \in Callers, Arguments(c)
  PROVE  LifecycleInv'
<1>1. pc[c] = "arguments" /\ UNCHANGED <<at, inside>>
  BY DEF Arguments
<1>2. /\ Progress(c) /\ ~live /\ Unmarked /\ gen < MaxInstalls
      /\ lifecycle = "preparing" /\ at' \in [Callers -> 0 .. SiteCount + 1]
  BY <1>1 DEF LifecycleInv, TypeOK, WordMatches, Word, Progress
<1>3. CASE Finish(c, "idle") /\ UNCHANGED <<rest, live, enabled>>
  <2>1. Goto(c, "out") /\ lifecycle' = "idle"
    BY <1>3 DEF Finish
  <2>2. ~HasUnrestored
    BY <1>2, UnrestoredIsMarked, SiteNumbers DEF LifecycleInv, TypeOK, Unmarked
  <2>3. AtRest'
    BY <1>2, <1>3, <2>1, <2>2, TransactionKept DEF AtRest
  <2>4. Progress(c)'
    BY <2>1, PlaceOf DEF Progress
  <2>5. live' \in BOOLEAN /\ enabled' \in BOOLEAN
    BY <1>3 DEF LifecycleInv, TypeOK
  <2> QED
    BY <1>1, <1>2, <1>3, <2>1, <2>3, <2>4, <2>5, QuietStep DEF Word, Places
<1>4. CASE /\ NewTransaction /\ live' = TRUE /\ enabled' = FALSE
           /\ Goto(c, "add") /\ UNCHANGED lifecycle
  <2>1. /\ gen' = gen + 1 /\ mark' = [s \in Sites |-> 0] /\ count' = 0
        /\ committed' = FALSE /\ UNCHANGED <<bytes, protected, saved>>
    BY <1>4 DEF NewTransaction, image
  <2>2. gen' \in 0 .. MaxInstalls /\ gen' > 0 /\ Unmarked'
    BY <1>2, <2>1, SiteNumbers DEF LifecycleInv, TypeOK, Unmarked
  <2>3. Progress(c)'
    BY <1>4, <2>2, PlaceOf DEF Progress
  <2>4. /\ pc' \in [Callers -> Places] /\ OneOperation' /\ WordMatches'
        /\ \A d \in Callers : Progress(d)'
    <3>1. \A d \in Callers \ {c} : pc[d] = "out"
      BY <1>1, Alone
    <3> QED
      BY <1>2, <1>4, <2>3, <3>1, CallerStep DEF Word, Places
  <2>5. TypeOK'
    <3>1. mark' \in [Sites -> 0 .. 2] /\ count' \in 0 .. SiteCount
      BY <2>1, SiteNumbers
    <3> QED
      BY <1>1, <1>2, <1>4, <2>1, <2>2, <2>4, <3>1 DEF LifecycleInv, TypeOK
  <2>6. SitesSound'
    BY <1>2, <2>1 DEF LifecycleInv, SitesSound, SiteSound, Unmarked
  <2>7. NoDanglingBranch'
    BY <1>2, <2>1 DEF LifecycleInv, NoDanglingBranch
  <2>8. AtRest'
    BY <1>2, <1>4 DEF AtRest
  <2> QED
    BY <2>1, <2>2, <2>4, <2>5, <2>6, <2>7, <2>8 DEF LifecycleInv
<1> QED
  BY <1>3, <1>4 DEF Arguments

\* A preparer adds its site.
LEMMA AddSiteKeeps ==
  ASSUME LifecycleInv, NEW c \in Callers, AddSite(c)
  PROVE  LifecycleInv'
<1>1. pc[c] = "add" /\ UNCHANGED <<lifecycle, live, enabled, at, inside>>
  BY DEF AddSite
<1>2. /\ Progress(c) /\ live /\ Unmarked /\ gen > 0
      /\ lifecycle = "preparing" /\ at' \in [Callers -> 0 .. SiteCount + 1]
  BY <1>1 DEF LifecycleInv, TypeOK, WordMatches, Word, Progress
<1>3. CASE Add /\ UNCHANGED pc
  <2>1. /\ count < SiteCount /\ count' = count + 1
        /\ UNCHANGED <<gen, bytes, protected, saved, mark, committed>>
    BY <1>3 DEF Add, image
  <2>2. count' \in 0 .. SiteCount
    BY <2>1, SiteNumbers DEF LifecycleInv, TypeOK
  <2>3. TypeOK'
    BY <1>1, <1>3, <2>1, <2>2 DEF LifecycleInv, TypeOK
  <2>4. ASSUME NEW d \in Callers PROVE Progress(d)'
    <3>1. CASE d = c
      BY <1>1, <1>2, <1>3, <2>1, <3>1 DEF Progress, Unmarked
    <3>2. CASE d # c
      <4>1. pc'[d] = "out"
        BY <1>1, <1>3, <3>2, Alone
      <4> QED
        BY <4>1 DEF Progress
    <3> QED
      BY <3>1, <3>2
  <2>5. OneOperation' /\ WordMatches' /\ SitesSound' /\ NoDanglingBranch'
    BY <1>1, <1>3, <2>1
    DEF LifecycleInv, OneOperation, WordMatches, SitesSound, SiteSound,
        NoDanglingBranch
  <2>6. AtRest'
    BY <1>1, <1>2 DEF AtRest
  <2> QED
    BY <1>2, <2>1, <2>3, <2>4, <2>5, <2>6 DEF LifecycleInv
<1>4. ASSUME NEW place \in {"prepared", "abort"}, Goto(c, place), UNCHANGED rest,
             place = "prepared" => count = SiteCount
      PROVE  LifecycleInv'
  <2>1. count' = count /\ Unmarked'
    BY <1>2, <1>4, TransactionKept DEF rest, transaction, patches
  <2>2. Progress(c)'
    BY <1>1, <1>2, <1>4, <2>1, PlaceOf DEF Progress
  <2> QED
    BY <1>1, <1>2, <1>4, <2>2, MoveOn DEF Word, Places
<1> QED
  BY <1>3, <1>4 DEF AddSite

\* A caller that has written or restored one site and goes on to the next.
LEMMA SiteKeeps ==
  ASSUME LifecycleInv, NEW c \in Callers, pc[c] \in {"write", "unwind", "rollback"},
         NEW s \in Sites, NEW o, Apply(s, o),
         o.bytes \in Values, o.protected \in BOOLEAN, o.mark \in 0 .. 2,
         o.bytes \in {bytes[s], Original, gen},
         saved[s] # Nothing => o.bytes = Foreign,
         o.mark = 0 => o.protected /\ o.bytes <= Original /\ saved[s] <= Original,
         UNCHANGED <<gen, saved, count, committed, lifecycle, live, enabled, inside>>,
         NEW place \in {"write", "unwind", "rollback"},
         NEW n \in 0 .. SiteCount + 1, GotoSite(c, place, n),
         lifecycle \in Word(place),
         place = "write" => WrittenUpTo(c)',
         place # "write" => n \in 0 .. SiteCount
  PROVE  LifecycleInv'
<1>1. /\ Progress(c) /\ live /\ count' = SiteCount
      /\ lifecycle' \in {"committing", "uninstalling"}
  BY DEF LifecycleInv, WordMatches, Word, Progress
<1>2. /\ Goto(c, place) /\ at' = [at EXCEPT ![c] = n]
      /\ at' \in [Callers -> 0 .. SiteCount + 1] /\ at'[c] = n
  BY DEF GotoSite, LifecycleInv, TypeOK
<1>3. /\ bytes' \in [Sites -> Values] /\ protected' \in [Sites -> BOOLEAN]
      /\ mark' \in [Sites -> 0 .. 2] /\ SitesSound' /\ NoDanglingBranch'
  <2>1. TypeOK /\ SitesSound /\ NoDanglingBranch
    BY DEF LifecycleInv
  <2> QED
    BY <1>1, <2>1, SiteStep
<1>4. Progress(c)'
  BY <1>1, <1>2, PlaceOf DEF Progress
<1>5. /\ pc' \in [Callers -> Places] /\ OneOperation' /\ WordMatches'
      /\ \A d \in Callers : Progress(d)'
  <2>1. place \in Places /\ lifecycle' \in Word(place)
    BY DEF Places
  <2>2. \A d \in Callers \ {c} : pc[d] = "out"
    BY Alone
  <2> QED
    BY <1>2, <1>4, <2>1, <2>2, CallerStep
<1>6. TypeOK'
  BY <1>2, <1>3, <1>5 DEF LifecycleInv, TypeOK
<1>7. AtRest'
  BY <1>1, Busy
<1>8. (count > 0 => gen > 0)'
  BY DEF LifecycleInv
<1> QED
  BY <1>3, <1>5, <1>6, <1>7, <1>8 DEF LifecycleInv

\* One site of gu_patch_transaction_commit.
LEMMA WriteSiteKeeps ==
  ASSUME LifecycleInv, NEW c \in Callers, WriteSite(c)
  PROVE  LifecycleInv'
<1> DEFINE s == at[c]
<1>1. /\ pc[c] = "write"
      /\ UNCHANGED <<gen, saved, count, lifecycle, live, enabled, inside>>
  BY DEF WriteSite
<1>2. /\ Progress(c) /\ live /\ count = SiteCount /\ lifecycle = "committing"
      /\ WrittenUpTo(c) /\ s \in 1 .. SiteCount + 1
  BY <1>1 DEF LifecycleInv, WordMatches, Word, Progress, WrittenUpTo
<1>3. CASE s > count
  <2>1. committed' = TRUE /\ Goto(c, "enable") /\ UNCHANGED <<image, mark, at>>
    BY <1>3 DEF WriteSite
  <2>2. Installed'
    BY <1>2, <1>3, <2>1, SiteNumbers DEF Installed, WrittenUpTo
  <2>3. Progress(c)'
    BY <1>1, <1>2, <2>1, <2>2, PlaceOf DEF Progress
  <2>4. /\ pc' \in [Callers -> Places] /\ OneOperation' /\ WordMatches'
        /\ \A d \in Callers : Progress(d)'
    <3>1. \A d \in Callers \ {c} : pc[d] = "out"
      BY <1>1, Alone
    <3>2. lifecycle' \in Word("enable") /\ "enable" \in Places
      BY <1>1, <1>2 DEF Word, Places
    <3> QED
      BY <2>1, <2>3, <3>1, <3>2, CallerStep
  <2>5. TypeOK'
    BY <1>1, <2>1, <2>4 DEF LifecycleInv, TypeOK, image
  <2>6. SitesSound' /\ NoDanglingBranch' /\ (count > 0 => gen > 0)'
    BY <1>1, <2>1
    DEF LifecycleInv, SitesSound, SiteSound, NoDanglingBranch, image
  <2>7. AtRest'
    BY <1>1, <1>2, Busy
  <2> QED
    BY <2>4, <2>5, <2>6, <2>7 DEF LifecycleInv
<1>4. CASE ~(s > count)
  <2>1. /\ s \in Sites /\ s + 1 \in 1 .. SiteCount + 1 /\ s - 1 \in 0 .. SiteCount
        /\ s + 1 \in 0 .. SiteCount + 1 /\ s - 1 \in 0 .. SiteCount + 1
    BY <1>2, <1>4, SiteNumbers
  <2>2. PICK o \in WriteOutcomes(s) :
          /\ Apply(s, o)
          /\ IF o.ok THEN GotoSite(c, "write", s + 1) ELSE GotoSite(c, "unwind", s - 1)
    BY <1>4 DEF WriteSite
  <2>3. committed' = committed
    BY <1>4 DEF WriteSite
  <2>4. TypeOK /\ SiteSound(s) /\ lifecycle \in Word("write") /\ lifecycle \in Word("unwind")
    BY <1>2, <2>1 DEF LifecycleInv, SitesSound, Word
  <2>5. /\ o.bytes \in Values /\ o.protected \in BOOLEAN /\ o.mark \in 0 .. 2
        /\ o.bytes \in {bytes[s], Original, gen}
        /\ saved[s] # Nothing => o.bytes = Foreign
        /\ o.mark = 0 => o.protected /\ o.bytes <= Original /\ saved[s] <= Original
        /\ o.ok \in BOOLEAN /\ (o.ok => o.mark = 1)
    BY <2>1, <2>4, WriteSound
  <2>6. CASE o.ok
    <3>1. GotoSite(c, "write", s + 1) /\ o.mark = 1
      BY <2>2, <2>5, <2>6
    <3>2. WrittenUpTo(c)'
      <4>1. at'[c] = s + 1
        BY <3>1 DEF GotoSite, LifecycleInv, TypeOK
      <4>2. mark' = [mark EXCEPT ![s] = 1]
        BY <2>2, <3>1 DEF Apply
      <4> QED
        BY <1>2, <2>1, <4>1, <4>2, SiteNumbers DEF WrittenUpTo, LifecycleInv, TypeOK
    <3> QED
      BY <1>1, <2>1, <2>2, <2>3, <2>4, <2>5, <3>1, <3>2, SiteKeeps
  <2>7. CASE ~o.ok
    <3>1. GotoSite(c, "unwind", s - 1)
      BY <2>2, <2>7
    <3> QED
      BY <1>1, <2>1, <2>2, <2>3, <2>4, <2>5, <3>1, SiteKeeps
  <2> QED
    BY <2>6, <2>7
<1> QED
  BY <1>3, <1>4

\* One site of an unwinding or of a rollback.
LEMMA RestoreKeeps ==
  ASSUME LifecycleInv, NEW c \in Callers, NEW place \in {"unwind", "rollback"},
         pc[c] = place, at[c] # 0,
         \/ \E o \in RestoreOutcomes(at[c]) : Apply(at[c], o)
         \/ UNCHANGED <<image, mark>>,
         GotoSite(c, place, at[c] - 1),
         UNCHANGED <<gen, saved, count, committed, lifecycle, live, enabled, inside>>
  PROVE  LifecycleInv'
<1> DEFINE s == at[c]
<1>1. /\ Progress(c) /\ live /\ count = SiteCount /\ s \in 0 .. SiteCount
      /\ lifecycle \in Word(place) /\ TypeOK
  BY DEF LifecycleInv, WordMatches, Progress
<1>2. s \in Sites /\ s - 1 \in 0 .. SiteCount /\ s - 1 \in 0 .. SiteCount + 1
  BY <1>1, SiteNumbers
<1>3. CASE \E o \in RestoreOutcomes(s) : Apply(s, o)
  <2>1. PICK o \in RestoreOutcomes(s) : Apply(s, o)
    BY <1>3
  <2>2. SiteSound(s)
    BY <1>2 DEF LifecycleInv, SitesSound
  <2>3. /\ o.bytes \in Values /\ o.protected \in BOOLEAN /\ o.mark \in 0 .. 2
        /\ o.bytes \in {bytes[s], Original}
        /\ saved[s] # Nothing => o.bytes = Foreign
        /\ o.mark = 0 => o.protected /\ o.bytes <= Original /\ saved[s] <= Original
    BY <1>1, <1>2, <2>1, <2>2, RestoreSound
  <2>4. o.bytes \in {bytes[s], Original, gen}
    BY <2>3
  <2>5. place \in {"write", "unwind", "rollback"} /\ place # "write"
    OBVIOUS
  <2> QED
    BY <1>1, <1>2, <2>1, <2>3, <2>4, <2>5, SiteKeeps
<1>4. CASE UNCHANGED <<image, mark>>
  <2>1. UNCHANGED <<rest, live, enabled, inside>>
    BY <1>4 DEF rest, transaction, patches
  <2>2. Goto(c, place) /\ at' = [at EXCEPT ![c] = s - 1]
    BY DEF GotoSite
  <2>3. at' \in [Callers -> 0 .. SiteCount + 1] /\ at'[c] = s - 1
    BY <1>1, <1>2, <2>2 DEF TypeOK
  <2>4. Progress(c)'
    BY <1>1, <1>2, <2>2, <2>3, PlaceOf DEF Progress
  <2>5. lifecycle' \in {"committing", "uninstalling"}
    BY <1>1 DEF Word
  <2> QED
    BY <1>1, <2>1, <2>2, <2>3, <2>4, <2>5, MoveOn DEF Places
<1> QED
  BY <1>3, <1>4

\* The end of an undoing: `ok` says that nothing is left to restore.
LEMMA UndoneKeeps ==
  ASSUME LifecycleInv, NEW c \in Callers, pc[c] \in {"unwind", "undo", "rollback"},
         UNCHANGED <<gen, saved, image, mark, count, at, live, enabled, inside>>,
         committed' \in BOOLEAN, HasUnrestored => committed',
         \/ Goto(c, "undo") /\ UNCHANGED lifecycle
         \/ \E ok \in BOOLEAN : RolledBack(c, ok) /\ (ok => ~HasUnrestored)
  PROVE  LifecycleInv'
<1>1. /\ Progress(c) /\ live /\ count = SiteCount
      /\ lifecycle \in {"committing", "uninstalling"}
      /\ at' \in [Callers -> 0 .. SiteCount + 1]
  BY DEF LifecycleInv, TypeOK, WordMatches, Word, Progress
<1>2. HasUnrestored' = HasUnrestored
  BY DEF HasUnrestored, Reappeared, Replacement, image
<1>3. ASSUME ~HasUnrestored PROVE Unmarked'
  <2>1. \A s \in Sites : mark[s] = 0
    BY <1>1, <1>3, SiteNumbers DEF HasUnrestored
  <2> QED
    BY <2>1 DEF Unmarked
<1>4. PICK place \in {"undo", "rundown", "out"} :
        /\ Goto(c, place) /\ AtRest' /\ lifecycle' \in Word(place)
        /\ lifecycle' \in {"committing", "uninstalling", "dirty"}
        /\ place = "rundown" => Unmarked'
  <2>1. CASE Goto(c, "undo") /\ UNCHANGED lifecycle
    <3>1. AtRest'
      BY <1>1, <2>1, Busy
    <3> QED
      BY <1>1, <2>1, <3>1 DEF Word
  <2>2. ASSUME NEW ok \in BOOLEAN, RolledBack(c, ok), ok => ~HasUnrestored,
               ok /\ Uninstalling
        PROVE  /\ Goto(c, "rundown") /\ AtRest' /\ lifecycle' \in Word("rundown")
               /\ lifecycle' = "uninstalling" /\ Unmarked'
    <3>1. Goto(c, "rundown") /\ lifecycle' = "uninstalling"
      BY <2>2 DEF RolledBack, Uninstalling
    <3>2. AtRest'
      BY <3>1, Busy
    <3> QED
      BY <1>3, <2>2, <3>1, <3>2 DEF Word
  <2>3. ASSUME NEW ok \in BOOLEAN, RolledBack(c, ok), ~(ok /\ Uninstalling)
        PROVE  /\ Goto(c, "out") /\ AtRest' /\ lifecycle' \in Word("out")
               /\ lifecycle' = "dirty"
    <3>1. Goto(c, "out") /\ lifecycle' = "dirty"
      BY <2>3 DEF RolledBack, Finish
    <3>2. AtRest'
      BY <1>2, <3>1 DEF AtRest
    <3> QED
      BY <3>1, <3>2 DEF Word
  <2> QED
    BY <2>1, <2>2, <2>3
<1>5. Progress(c)'
  BY <1>1, <1>4, PlaceOf DEF Progress
<1>6. /\ pc' \in [Callers -> Places] /\ OneOperation' /\ WordMatches'
      /\ \A d \in Callers : Progress(d)'
  <2>1. place \in Places
    BY <1>4 DEF Places
  <2>2. \A d \in Callers \ {c} : pc[d] = "out"
    BY Alone
  <2> QED
    BY <1>4, <1>5, <2>1, <2>2, CallerStep
<1>7. TypeOK'
  BY <1>1, <1>4, <1>6 DEF LifecycleInv, TypeOK, image
<1>8. SitesSound' /\ NoDanglingBranch' /\ (count > 0 => gen > 0)'
  BY DEF LifecycleInv, SitesSound, SiteSound, NoDanglingBranch, image
<1> QED
  BY <1>4, <1>6, <1>7, <1>8 DEF LifecycleInv

\* One site of an unwinding.
LEMMA UnwindSiteKeeps ==
  ASSUME LifecycleInv, NEW c \in Callers, UnwindSite(c)
  PROVE  LifecycleInv'
<1>1. /\ pc[c] = "unwind"
      /\ UNCHANGED <<gen, saved, count, lifecycle, live, enabled, inside>>
  BY DEF UnwindSite
<1>2. CASE at[c] = 0
  <2>1. committed' = HasUnrestored /\ Goto(c, "undo") /\ UNCHANGED <<image, mark, at>>
    BY <1>2 DEF UnwindSite
  <2>2. committed' \in BOOLEAN
    BY <2>1 DEF HasUnrestored
  <2> QED
    BY <1>1, <2>1, <2>2, UndoneKeeps
<1>3. CASE at[c] # 0
  <2>1. /\ \/ \E o \in RestoreOutcomes(at[c]) : Apply(at[c], o)
           \/ UNCHANGED <<image, mark>>
        /\ GotoSite(c, "unwind", at[c] - 1) /\ UNCHANGED committed
    BY <1>3 DEF UnwindSite
  <2> QED
    BY <1>1, <1>3, <2>1, RestoreKeeps
<1> QED
  BY <1>2, <1>3

\* One site of gu_patch_transaction_rollback.
LEMMA RollbackSiteKeeps ==
  ASSUME LifecycleInv, NEW c \in Callers, RollbackSite(c)
  PROVE  LifecycleInv'
<1>1. /\ pc[c] = "rollback"
      /\ UNCHANGED <<gen, saved, count, live, enabled, inside>>
  BY DEF RollbackSite
<1>2. CASE at[c] = 0
  <2>1. /\ committed' = HasUnrestored /\ RolledBack(c, ~HasUnrestored)
        /\ UNCHANGED <<image, mark, at>>
    BY <1>2 DEF RollbackSite
  <2>2. committed' \in BOOLEAN
    BY <2>1 DEF HasUnrestored
  <2>3. (~HasUnrestored) \in BOOLEAN
    OBVIOUS
  <2> QED
    BY <1>1, <2>1, <2>2, <2>3, UndoneKeeps
<1>3. CASE at[c] # 0
  <2>1. /\ \/ \E o \in RestoreOutcomes(at[c]) : Apply(at[c], o)
           \/ UNCHANGED <<image, mark>>
        /\ GotoSite(c, "rollback", at[c] - 1) /\ UNCHANGED <<committed, lifecycle>>
    BY <1>3 DEF RollbackSite
  <2> QED
    BY <1>1, <1>3, <2>1, RestoreKeeps
<1> QED
  BY <1>2, <1>3

\* gu_install_rollback_writes begins.
LEMMA RollbackWritesKeeps ==
  ASSUME LifecycleInv, NEW c \in Callers, RollbackWrites(c)
  PROVE  LifecycleInv'
<1>1. pc[c] = "undo" /\ UNCHANGED <<rest, live, enabled, inside>>
  BY DEF RollbackWrites
<1>2. /\ Progress(c) /\ count = SiteCount /\ count \in 0 .. SiteCount + 1
      /\ count' = count /\ lifecycle \in {"committing", "uninstalling"}
      /\ at \in [Callers -> 0 .. SiteCount + 1] /\ committed \in BOOLEAN
  BY <1>1, SiteNumbers
  DEF LifecycleInv, TypeOK, WordMatches, Word, Progress, rest, transaction, patches
<1>3. CASE committed \/ HasUnrestored
  <2>1. Goto(c, "rollback") /\ at' = [at EXCEPT ![c] = count] /\ UNCHANGED lifecycle
    BY <1>3 DEF RollbackWrites, GotoSite
  <2>2. at' \in [Callers -> 0 .. SiteCount + 1] /\ at'[c] = SiteCount
    BY <1>2, <2>1
  <2>3. Progress(c)'
    BY <1>1, <1>2, <2>1, <2>2, PlaceOf, SiteNumbers DEF Progress
  <2> QED
    BY <1>1, <1>2, <2>1, <2>2, <2>3, MoveOn DEF Word, Places
<1>4. CASE ~(committed \/ HasUnrestored)
  <2>1. RolledBack(c, TRUE) /\ UNCHANGED at
    BY <1>4 DEF RollbackWrites
  <2>2. UNCHANGED <<gen, saved, image, mark, count, committed>>
    BY <1>1 DEF rest, transaction, patches
  <2> QED
    BY <1>1, <1>2, <1>4, <2>1, <2>2, UndoneKeeps
<1> QED
  BY <1>3, <1>4

-----------------------------------------------------------------------------
(* Steps of the engine and of other mods.                                  *)

\* An engine thread branches, leases or returns.
LEMMA EngineKeeps ==
  ASSUME LifecycleInv, NEW e \in Engine, Branch(e) \/ Lease(e) \/ Exit(e)
  PROVE  LifecycleInv'
<1> DEFINE Insides == [site : 0 .. SiteCount, gen : 0 .. MaxInstalls, leased : BOOLEAN]
<1>1. UNCHANGED <<rest, lifecycle, live, enabled, pc, at>>
  BY DEF Branch, Lease, Exit
<1>2. inside' \in [Engine -> Insides]
  <2>1. inside \in [Engine -> Insides] /\ Outside \in Insides
    BY SiteNumbers DEF LifecycleInv, TypeOK, Outside
  <2>2. CASE Branch(e)
    <3>1. PICK s \in Sites :
            /\ bytes[s] > 0
            /\ inside' = [inside EXCEPT
                            ![e] = [site |-> s, gen |-> bytes[s], leased |-> FALSE]]
      BY <2>2 DEF Branch
    <3>2. bytes[s] \in Values /\ bytes[s] > 0
      BY <3>1 DEF LifecycleInv, TypeOK
    <3>3. s \in 0 .. SiteCount /\ bytes[s] \in 0 .. MaxInstalls
      BY <3>2, SiteNumbers DEF Values, Original, Foreign
    <3> QED
      BY <2>1, <3>1, <3>3
  <2>3. CASE Lease(e)
    BY <2>1, <2>3 DEF Lease
  <2>4. CASE Exit(e)
    BY <2>1, <2>4 DEF Exit
  <2> QED
    BY <2>2, <2>3, <2>4
<1>3. TypeOK'
  BY <1>1, <1>2 DEF LifecycleInv, TypeOK, rest, transaction, image, patches
<1>4. /\ SitesSound' /\ (count > 0 => gen > 0)' /\ NoDanglingBranch'
      /\ HasUnrestored' = HasUnrestored
  BY <1>1, TransactionKept
<1> QED
  BY <1>1, <1>3, <1>4
  DEF LifecycleInv, OneOperation, WordMatches, Progress, AtRest, Unmarked, Installed,
      WrittenUpTo, rest, transaction, image, patches

\* Another mod takes a site, or gives it back, as it was.
LEMMA ForeignKeeps ==
  ASSUME LifecycleInv, NEW s \in Sites, ForeignHook(s) \/ ForeignUnhook(s)
  PROVE  LifecycleInv'
<1>1. /\ UNCHANGED <<gen, protected, mark, count, committed>>
      /\ UNCHANGED <<lifecycle, live, enabled, pc, at, inside>>
  BY DEF ForeignHook, ForeignUnhook, patches
<1>2. /\ bytes \in [Sites -> Values] /\ saved \in [Sites -> Values \cup {Nothing}]
      /\ Foreign \in Values /\ mark \in [Sites -> 0 .. 2]
      /\ SitesSound /\ NoDanglingBranch
  BY DEF LifecycleInv, TypeOK, Values
<1>3. /\ bytes' \in [Sites -> Values] /\ saved' \in [Sites -> Values \cup {Nothing}]
      /\ \A q \in Sites \ {s} : bytes'[q] = bytes[q] /\ saved'[q] = saved[q]
      /\ \/ bytes'[s] = Foreign /\ saved'[s] = bytes[s]
         \/ bytes'[s] = saved[s] /\ saved'[s] = Nothing
  <2>1. CASE ForeignHook(s)
    BY <1>2, <2>1 DEF ForeignHook
  <2>2. CASE ForeignUnhook(s)
    BY <1>2, <2>2 DEF ForeignUnhook
  <2> QED
    BY <2>1, <2>2
<1>4. TypeOK'
  BY <1>1, <1>3 DEF LifecycleInv, TypeOK
<1>5. SitesSound'
  <2>1. SUFFICES ASSUME NEW q \in Sites PROVE SiteSound(q)'
    BY DEF SitesSound
  <2>2. CASE q = s
    BY <1>1, <1>2, <1>3, <2>2 DEF SitesSound, SiteSound, Original, Foreign, Nothing
  <2>3. CASE q # s
    BY <1>1, <1>2, <1>3, <2>3 DEF SitesSound, SiteSound
  <2> QED
    BY <2>2, <2>3
<1>6. NoDanglingBranch'
  <2>1. SUFFICES ASSUME NEW q \in Sites, NEW v \in {bytes'[q], saved'[q]}, v > 0
                 PROVE  live /\ v = gen
    BY <1>1 DEF NoDanglingBranch
  <2>2. v \in {bytes[q], saved[q]} \/ v = Foreign \/ v = Nothing
    BY <1>3
  <2> QED
    BY <1>2, <2>1, <2>2 DEF NoDanglingBranch, Foreign, Nothing
<1>7. (count > 0 => gen > 0)' /\ TypeOK /\ (count > 0 => gen > 0)
  BY <1>1 DEF LifecycleInv
<1>8. HasUnrestored' => HasUnrestored
  <2>1. SUFFICES ASSUME NEW q \in 1 .. count, mark[q] # 0 \/ Reappeared(q)'
                 PROVE  HasUnrestored
    BY <1>1 DEF HasUnrestored
  <2>2. q \in Sites /\ count > 0 /\ gen > 0 /\ gen \in Int
    BY <1>7, SiteNumbers DEF TypeOK
  <2>3. ~Reappeared(q)'
    <3>1. SUFFICES ASSUME mark[q] = 0, bytes'[q] = gen PROVE FALSE
      BY <1>1 DEF Reappeared, Replacement
    <3>2. bytes'[q] <= Original
      BY <1>1, <1>5, <2>2, <3>1 DEF SitesSound, SiteSound
    <3> QED
      BY <2>2, <3>1, <3>2 DEF Original
  <2>4. mark[q] # 0
    BY <2>1, <2>3
  <2> QED
    BY <2>4 DEF HasUnrestored
<1>9. AtRest' /\ \A d \in Callers : Progress(d)'
  BY <1>1, <1>8 DEF LifecycleInv, AtRest, Progress, Unmarked, Installed, WrittenUpTo
<1>10. OneOperation' /\ WordMatches'
  BY <1>1 DEF LifecycleInv, OneOperation, WordMatches
<1> QED
  BY <1>4, <1>5, <1>6, <1>7, <1>9, <1>10 DEF LifecycleInv

-----------------------------------------------------------------------------
(* The theorems.                                                           *)

\* Every step keeps the invariant.
LEMMA LifecycleNext == LifecycleInv /\ [Next]_vars => LifecycleInv'
<1> SUFFICES ASSUME LifecycleInv, [Next]_vars PROVE LifecycleInv'
  OBVIOUS
<1>1. ASSUME NEW c \in Callers, Operation(c) PROVE LifecycleInv'
  BY <1>1, PrepareKeeps, ArgumentsKeeps, AddSiteKeeps, AbortKeeps, CancelKeeps,
     CommitKeeps, ValidateKeeps, WriteSiteKeeps, UnwindSiteKeeps, EnableKeeps,
     RollbackWritesKeeps, RollbackSiteKeeps, UninstallKeeps, DisableKeeps,
     RundownKeeps, ReleaseKeeps
  DEF Operation
<1>2. ASSUME NEW e \in Engine, Branch(e) \/ Lease(e) \/ Exit(e) PROVE LifecycleInv'
  BY <1>2, EngineKeeps
<1>3. ASSUME NEW s \in Sites, ForeignHook(s) \/ ForeignUnhook(s) PROVE LifecycleInv'
  BY <1>3, ForeignKeeps
<1>4. CASE UNCHANGED vars
  <2>1. /\ UNCHANGED <<gen, saved, bytes, protected, mark, count, committed>>
        /\ UNCHANGED <<lifecycle, live, enabled, pc, at, inside>>
    BY <1>4 DEF vars, transaction, image, patches
  <2> QED
    BY <2>1
    DEF LifecycleInv, TypeOK, OneOperation, WordMatches, SitesSound, SiteSound,
        NoDanglingBranch, Progress, WrittenUpTo, Unmarked, Installed, AtRest,
        HasUnrestored, Reappeared, Replacement
<1> QED
  BY <1>1, <1>2, <1>3, <1>4 DEF Next

\* The invariant holds throughout: each place of a caller goes with a word of
\* the lifecycle and with what the transaction has done to the image so far.
THEOREM LifecycleHolds == Spec => []LifecycleInv
<1>1. Init => LifecycleInv
  BY LifecycleInit
<1>2. LifecycleInv /\ [Next]_vars => LifecycleInv'
  BY LifecycleNext
<1> QED
  BY <1>1, <1>2, PTL DEF Spec

\* One operation at a time works on the installation, and the marks by which
\* gu_patch_transaction_has_unrestored reports are true of the image, whatever
\* system calls failed and whichever mods hooked the sites in between.
THEOREM MarksReportTheImage == Spec => []InstallInv
<1>1. LifecycleInv => InstallInv
  BY DEF LifecycleInv, InstallInv, MarksAreTrue, SitesSound, SiteSound, AtRest
<1> QED
  BY <1>1, LifecycleHolds, PTL

\* gu_universal_commit_prepared reports success only with every site live, and
\* an installation that is idle again has left the image as it was.
THEOREM InstalledOrNothing == Spec => []InstalledOrUntouched
<1>1. LifecycleInv => InstalledOrUntouched
  BY DEF LifecycleInv, InstalledOrUntouched, AtRest, Installed, Unmarked, SitesSound,
         SiteSound
<1> QED
  BY <1>1, LifecycleHolds, PTL

\* No site branches into stubs that were freed, or ever will when another mod
\* puts back what it saved.
THEOREM StubsOutliveBranches == Spec => []NoDanglingBranch
<1>1. LifecycleInv => NoDanglingBranch
  BY DEF LifecycleInv
<1> QED
  BY <1>1, LifecycleHolds, PTL

-----------------------------------------------------------------------------
(* Who may be inside stubs that are freed.                                 *)

\* While stubs are being prepared no engine thread is in them: threads inside
\* older ones may be left over from an earlier installation.
Unbranched(c) == pc[c] \in {"add", "prepared", "abort"}

Unentered ==
  /\ \A e \in Engine : inside[e].gen <= gen
  /\ \A c \in Callers : Unbranched(c) => \A e \in Engine : inside[e].gen < gen

\* No thread is inside at first.
LEMMA UnenteredInit == Init => Unentered
BY DEF Init, InitTransaction, Unentered, Unbranched, Outside

\* Only a new preparation brings a caller to these places from elsewhere.
LEMMA CallersStay ==
  ASSUME LifecycleInv, NEW c \in Callers, Operation(c), ~Arguments(c)
  PROVE  /\ gen' = gen /\ inside' = inside
         /\ \A d \in Callers : Unbranched(d)' => Unbranched(d)
<1> USE DEF rest, transaction, Unbranched, Goto, GotoSite, Finish
<1>1. pc \in [Callers -> Places]
  BY DEF LifecycleInv, TypeOK
<1>2. CASE Prepare(c)
  BY <1>1, <1>2 DEF Prepare
<1>3. CASE AddSite(c)
  BY <1>1, <1>3 DEF AddSite, Add
<1>4. CASE Abort(c) \/ Cancel(c)
  BY <1>1, <1>4 DEF Abort, Cancel
<1>5. CASE Commit(c) \/ Validate(c) \/ Enable(c)
  BY <1>1, <1>5 DEF Commit, Validate, Enable
<1>6. CASE WriteSite(c)
  BY <1>1, <1>6 DEF WriteSite
<1>7. CASE UnwindSite(c)
  BY <1>1, <1>7 DEF UnwindSite
<1>8. CASE RollbackWrites(c)
  BY <1>1, <1>8 DEF RollbackWrites, RolledBack
<1>9. CASE RollbackSite(c)
  BY <1>1, <1>9 DEF RollbackSite, RolledBack
<1>10. CASE Uninstall(c) \/ Disable(c) \/ Rundown(c) \/ Release(c)
  BY <1>1, <1>10 DEF Uninstall, Disable, Rundown, Release
<1> QED
  BY <1>2, <1>3, <1>4, <1>5, <1>6, <1>7, <1>8, <1>9, <1>10 DEF Operation

\* Every step keeps it: an unmarked site holds no branch, so none can be taken.
LEMMA UnenteredNext == LifecycleInv /\ Unentered /\ [Next]_vars => Unentered'
<1> SUFFICES ASSUME LifecycleInv, Unentered, [Next]_vars PROVE Unentered'
  OBVIOUS
<1>1. /\ gen \in Nat /\ \A e \in Engine : inside[e].gen \in Nat
      /\ \A s \in Sites : bytes[s] \in Values
  BY SiteNumbers DEF LifecycleInv, TypeOK
<1>2. ASSUME NEW c \in Callers, Arguments(c) PROVE Unentered'
  <2>1. inside' = inside /\ pc[c] = "arguments"
    BY <1>2 DEF Arguments
  <2>2. CASE gen' = gen + 1
    BY <1>1, <2>1, <2>2 DEF Unentered, Unbranched
  <2>3. CASE Finish(c, "idle") /\ UNCHANGED rest
    BY <2>1, <2>3 DEF Unentered, Unbranched, Finish, Goto, rest, LifecycleInv, TypeOK
  <2> QED
    BY <1>2, <2>2, <2>3 DEF Arguments, NewTransaction
<1>3. ASSUME NEW c \in Callers, Operation(c), ~Arguments(c) PROVE Unentered'
  BY <1>3, CallersStay DEF Unentered
<1>4. ASSUME NEW e \in Engine, Branch(e) PROVE Unentered'
  <2>1. PICK s \in Sites :
          /\ bytes[s] > 0
          /\ inside' = [inside EXCEPT
                          ![e] = [site |-> s, gen |-> bytes[s], leased |-> FALSE]]
    BY <1>4 DEF Branch
  <2>2. gen' = gen /\ pc' = pc
    BY <1>4 DEF Branch, rest
  <2>3. bytes[s] > 0 /\ bytes[s] = gen /\ mark[s] # 0
    BY <1>1, <2>1, SiteNumbers
    DEF LifecycleInv, NoDanglingBranch, SitesSound, SiteSound, Values, Original, Foreign
  <2>4. ASSUME NEW c \in Callers PROVE ~Unbranched(c)
    BY <2>3 DEF LifecycleInv, Progress, Unbranched, Unmarked
  <2>5. \A f \in Engine : inside'[f].gen = IF f = e THEN gen ELSE inside[f].gen
    BY <2>1, <2>3 DEF LifecycleInv, TypeOK
  <2> QED
    BY <1>1, <2>2, <2>4, <2>5 DEF Unentered, Unbranched
<1>5. ASSUME NEW e \in Engine, Lease(e) \/ Exit(e) PROVE Unentered'
  <2>1. gen' = gen /\ pc' = pc
    BY <1>5 DEF Lease, Exit, rest
  <2>2. \A f \in Engine : inside'[f].gen \in {0, inside[f].gen}
    <3>1. inside \in [Engine -> [site : 0 .. SiteCount, gen : 0 .. MaxInstalls,
                                 leased : BOOLEAN]]
      BY DEF LifecycleInv, TypeOK
    <3>2. CASE Lease(e)
      BY <3>1, <3>2 DEF Lease
    <3>3. CASE Exit(e)
      BY <3>1, <3>3 DEF Exit, Outside
    <3> QED
      BY <1>5, <3>2, <3>3
  <2> QED
    BY <1>1, <2>1, <2>2 DEF Unentered, Unbranched
<1>6. ASSUME NEW s \in Sites, ForeignHook(s) \/ ForeignUnhook(s) PROVE Unentered'
  BY <1>6 DEF ForeignHook, ForeignUnhook, Unentered, Unbranched
<1>7. CASE UNCHANGED vars
  BY <1>7 DEF vars, Unentered, Unbranched
<1> QED
  BY <1>2, <1>3, <1>4, <1>5, <1>6, <1>7 DEF Next

\* Only two steps free the stubs.
LEMMA FreeingStep ==
  ASSUME LifecycleInv, Unentered, [Next]_vars, live, ~live', ~Uninstalling
  PROVE  \A e \in Engine : inside[e].gen # gen
<1>1. ASSUME NEW c \in Callers, Operation(c)
      PROVE  pc[c] = "abort" \/ pc[c] = "release"
  BY <1>1
  DEF Operation, Prepare, Arguments, AddSite, Abort, Cancel, Commit, Validate,
      WriteSite, UnwindSite, Enable, RollbackWrites, RollbackSite, Uninstall,
      Disable, Rundown, Release
<1>2. ASSUME NEW c \in Callers, Operation(c) PROVE pc[c] = "abort"
  <2>1. lifecycle \in Word(pc[c])
    BY DEF LifecycleInv, WordMatches
  <2>2. pc[c] # "release"
    BY <2>1 DEF Word, Uninstalling
  <2> QED
    BY <1>1, <1>2, <2>2
<1>3. PICK c \in Callers : Operation(c)
  BY DEF Next, Branch, Lease, Exit, ForeignHook, ForeignUnhook, vars
<1>4. /\ \A e \in Engine : inside[e].gen < gen
      /\ gen \in Nat /\ \A e \in Engine : inside[e].gen \in Nat
  BY <1>2, <1>3, SiteNumbers DEF Unentered, Unbranched, LifecycleInv, TypeOK
<1> QED
  BY <1>4

\* gu_install_abort_prepared frees only stubs no site ever branched to, so no
\* engine thread is in them, hooks that lease nothing included; every other
\* failure keeps them, and the uninstaller alone relies on its caller.
THEOREM FreedStubsAreUnentered == Spec => FreedStubsAreIdle
<1>1. Init => Unentered
  BY UnenteredInit
<1>2. LifecycleInv /\ Unentered /\ [Next]_vars => Unentered'
  BY UnenteredNext
<1>3. LifecycleInv /\ Unentered /\ [Next]_vars
        => [live /\ ~live' /\ ~Uninstalling =>
              \A e \in Engine : inside[e].gen # gen]_vars
  BY FreeingStep
<1> QED
  BY <1>1, <1>2, <1>3, LifecycleHolds, PTL DEF Spec, FreedStubsAreIdle
=============================================================================
