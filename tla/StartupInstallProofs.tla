------------------------ MODULE StartupInstallProofs ------------------------
(***************************************************************************)
(* Proofs about StartupInstall, for any number of threads, files, loads of *)
(* the definitions and snapshots, and any configuration.                   *)
(*                                                                         *)
(* The inductive invariant says of each place of the worker who is stopped *)
(* (GuardSound), which groups of sites are in (ImageSound), what has been  *)
(* allocated for them (StorageSound), and what a callback may find         *)
(* (CallbackSound).                                                        *)
(***************************************************************************)
EXTENDS StartupInstall, TLAPS

Early     == {"unborn", "never", "pin"} \cup Tests
Undoing   == {"undo_generator", "undo_provider", "undo_capacity", "failed"}
Applying  == {"arm", "extras"} \cup Stages
Writing   == {"seal"} \cup Applying \cup Undoing
After     == {"resume", "cancel", "log", "done"}
Unwritten == Early \cup {"enumerate", "inspect", "seal", "arm"}

Locations == {"outside", "code", "below", "heap", "loading", "called", "scaling"}

Snapshots == [passes : Nat, stable : Nat, seen : SUBSET Threads, fresh : BOOLEAN]

\* The variables whose type TypeOK leaves open, as far as it matters.
TypesToo ==
  /\ loc \in [Threads -> Locations]
  /\ callback \in {"UNARMED", "ARMED", "RUNNING", "COMPLETE", "FAILED"}
  /\ next \in {"none", "begin_failed", "prewrite_failed", "restored", "retained", "applied"}
  /\ snapshot \in Snapshots

\* Only a running thread is anywhere else than outside, and one at a time loads
\* the definitions.
ThreadsSound ==
  /\ \A t \in Threads : life[t] # "running" => loc[t] = "outside"
  /\ \A t \in Threads : loc[t] = "loading" =>
       loads < MaxLoads /\ \A u \in Threads : loc[u] = "loading" => t = u

\* Why the world is stopped: behind the closed gate nobody begins to run, so
\* those who do were all seen; and who is held does not move.
GuardSound ==
  /\ at \in Early => held = {}
  /\ at \in {"enumerate", "inspect", "resume"} \cup Writing => gate = 1
  /\ at = "enumerate" => snapshot.seen \subseteq held
  /\ at \in {"inspect"} \cup Writing =>
       \A t \in Threads : life[t] = "running" => t \in held
  /\ at \in Writing =>
       \A t \in held : Alive(t) => ~ExecutesUnsafe(t) /\ ~ReturnsUnsafe(t)

\* The stages that have been written by the time the worker is at a place, and
\* those that have been undone.
Written ==
  CASE at = "provider"  -> {"capacity"}
    [] at = "generator" -> {"capacity", "provider"}
    [] at = "universal" -> Optional
    [] at = "extras"    -> Stages
    [] OTHER            -> {}
Undone ==
  CASE at = "undo_provider" -> {"generator"}
    [] at = "undo_capacity" -> {"generator", "provider"}
    [] at = "failed"        -> Optional
    [] OTHER                -> {}

AllIntact == \A s \in Stages : Intact(s)
AllIn == \A s \in Chosen : code[s] = "new" /\ closed[s]

\* A stage that is not clean is dirty; and each place of the worker goes with
\* what is written there.
ImageSound ==
  /\ \A s \in Stages : s \notin Chosen => Intact(s) /\ ~dirty[s]
  /\ \A s \in Optional : ~dirty[s] => closed[s] /\ code[s] # "mixed"
  /\ at \in Unwritten => AllIntact /\ \A s \in Stages : ~dirty[s]
  /\ at \in Applying => \A s \in Chosen :
       closed[s] /\ ~dirty[s] /\ code[s] = IF s \in Written THEN "new" ELSE "old"
  /\ at \in Undoing =>
       /\ \A s \in Chosen : code[s] # "foreign"
       /\ next \in {"restored", "retained"}
       /\ next = "restored" => \A s \in Undone : Intact(s)
  /\ at = "resume" =>
       /\ next # "none"
       /\ next \in {"begin_failed", "prewrite_failed", "restored"} => AllIntact
       /\ next = "applied" => AllIn
  /\ at = "cancel" => AllIntact

\* What will be reported, as soon as it is known.
ReportSound ==
  /\ at \notin {"log", "done"} => status \notin {"PATCH_APPLIED", "RESUME_FAILED"}
  /\ at \notin {"unborn", "never", "pin", "identify", "log", "done"} => locked = Files
  /\ at \in {"log", "done"} =>
       /\ status = "PATCH_APPLIED" =>
            AllIn /\ word = "ACTIVE" /\ held = {} /\ locked = Files
       /\ status = "RESUME_FAILED" =>
            held # {} /\ (AllIntact \/ \A s \in Chosen : code[s] = "new")
       /\ status \notin {"PATCH_APPLIED", "RESUME_FAILED", "ROLLBACK_FAILED"} => AllIntact

\* Nothing is written whose storage is not there.
StorageSound ==
  /\ at \in {"alloc_generator", "immediate", "prepare", "list", "recheck", "enumerate",
             "inspect"} \cup Writing => wanted \cap {"provider"} \subseteq storage
  /\ at \in {"immediate", "prepare", "list", "recheck", "enumerate", "inspect"} \cup Writing
       => wanted \cap {"generator"} \subseteq storage
  /\ at \in {"list", "recheck", "enumerate", "inspect"} \cup Writing =>
       "universal" \in storage
  /\ \A s \in Stages \ {"capacity"} : code[s] \in {"new", "mixed"} => s \in storage

Calling == {t \in Threads : loc[t] = "called"}
Scaling == {t \in Threads : loc[t] = "scaling"}

\* The callback is armed by an installation that is complete, or stopped; one
\* thread at most found it armed; and while it is armed a load that was
\* finished has its thread on the way.
CallbackSound ==
  /\ at \in Unwritten => callback = "UNARMED"
  /\ at \in Writing \ {"seal", "arm"} => callback = "ARMED"
  /\ at \in Writing \ {"seal"} => loads = 0
  /\ at = "extras" \/ (at = "resume" /\ next = "applied") => word = "ACTIVE"
  /\ Calling \cup Scaling # {} => at \in After /\ code["universal"] \in {"new", "mixed"}
  /\ at \in After /\ callback \in {"ARMED", "RUNNING", "COMPLETE"} =>
       /\ word = "ACTIVE" /\ \A s \in Chosen : code[s] = "new"
       /\ at # "cancel" /\ (at = "resume" => next = "applied")
  /\ callback = "RUNNING" => Scaling # {}
  /\ \A t, u \in Scaling : t = u
  /\ Scaling # {} => callback = "RUNNING"
  /\ scaled = IF callback = "COMPLETE" THEN 1 ELSE 0
  /\ callback = "ARMED" /\ loads > 0 => Calling # {}
  /\ status = "PATCH_APPLIED" \/ (at = "resume" /\ next = "applied") => callback # "UNARMED"

SInv ==
  /\ TypeOK /\ TypesToo /\ ThreadsSound /\ GuardSound
  /\ ImageSound /\ ReportSound /\ StorageSound /\ CallbackSound

-----------------------------------------------------------------------------
(***************************************************************************)
(* Who changes what.                                                       *)
(***************************************************************************)
\* The worker's steps in groups: up to the closing of the gate, the stopping
\* of the world, the writes, their undoing, the end.
Opening ==
  \/ ProcessAttach \/ Pin \/ LockFiles \/ Configure \/ Recognise \/ Locate
  \/ DefinitionsUntouched \/ GeneratorUntouched \/ ManagerUntouched
  \/ AllocateProvider \/ AllocateGenerator \/ ImmediateIsStock
  \/ Prepare \/ ListSpans \/ Recheck
Stopping ==
  \/ (\E t \in Threads : NextThread(t)) \/ EnumerationFails \/ EndSnapshot
  \/ Inspect \/ Seal \/ Arm
Applies ==
  ApplyCapacity \/ ApplyProvider \/ ApplyGenerator \/ CommitUniversal \/ InstallExtras
Undoes == UndoGenerator \/ UndoProvider \/ UndoCapacity \/ WriteFailure
Ending == (\E t \in Threads : ResumeOne(t)) \/ ResumeEnd \/ Cancel \/ Log
Mods == (\E s \in Stages : OtherMod(s)) \/ (\E f \in Files : Alter(f))

LEMMA StepsInGroups ==
  ASSUME [Next]_vars
  PROVE  \/ Opening \/ Stopping \/ Applies \/ Undoes \/ Ending
         \/ (\E t \in Threads : Process(t)) \/ Mods
         \/ UNCHANGED vars
BY DEF Next, Worker, Opening, Stopping, Applies, Undoes, Ending, Mods

LEMMA WorkerKeepsThreads ==
  ASSUME Opening \/ Stopping \/ Applies \/ Undoes \/ Ending \/ Mods
  PROVE  UNCHANGED <<threads, loads, scaled>>
<1>1. ASSUME Opening PROVE UNCHANGED <<threads, loads, scaled>>
  BY <1>1 DEF engine, Opening, ProcessAttach, Pin, LockFiles, Configure, Recognise, Locate,
     DefinitionsUntouched, GeneratorUntouched, ManagerUntouched, AllocateProvider,
     AllocateGenerator, ImmediateIsStock, Prepare, ListSpans, Recheck, Test
<1>2. ASSUME Stopping PROVE UNCHANGED <<threads, loads, scaled>>
  BY <1>2 DEF engine, Stopping, NextThread, EnumerationFails, EndSnapshot, Inspect, Seal, Arm
<1>3. ASSUME Applies PROVE UNCHANGED <<threads, loads, scaled>>
  BY <1>3 DEF engine, Applies, ApplyCapacity, ApplyProvider, ApplyGenerator, Apply,
     CommitUniversal, InstallExtras
<1>4. ASSUME Undoes PROVE UNCHANGED <<threads, loads, scaled>>
  BY <1>4 DEF engine, Undoes, UndoGenerator, UndoProvider, UndoCapacity, Undo, WriteFailure
<1>5. ASSUME Ending PROVE UNCHANGED <<threads, loads, scaled>>
  BY <1>5 DEF engine, Ending, ResumeOne, ResumeEnd, Cancel, Log
<1>6. ASSUME Mods PROVE UNCHANGED <<threads, loads, scaled>>
  BY <1>6 DEF engine, Mods, OtherMod, Alter
<1> QED BY <1>1, <1>2, <1>3, <1>4, <1>5, <1>6

LEMMA ProcessKeeps ==
  ASSUME NEW t \in Threads, Process(t)
  PROVE  UNCHANGED <<worker, image, storage, word, guard, files>>
BY DEF Process, Create, AttachDone, Ends, Wander, Heap, Moves, BeginLoad, EndLoad,
   CallbackEnters, CallbackReturns

LEMMA ThreadsKept ==
  ASSUME SInv, [Next]_vars
  PROVE  ThreadsSound'
<1> USE DEF SInv, ThreadsSound, TypeOK, TypesToo
<1>1. CASE UNCHANGED <<threads, loads>>
  BY <1>1 DEF threads
<1>2. ASSUME NEW t \in Threads, Process(t) PROVE ThreadsSound'
  <2> USE DEF Runs, Alive
  <2>1. CASE Create(t)
    BY <2>1 DEF Create, engine
  <2>2. CASE AttachDone(t)
    BY <2>2 DEF AttachDone, engine
  <2>3. CASE Ends(t)
    BY <2>3 DEF Ends, engine
  <2>4. CASE Wander(t) \/ Heap(t) \/ BeginLoad(t)
    BY <2>4 DEF Wander, Heap, BeginLoad, Moves, engine
  <2>5. CASE EndLoad(t) \/ CallbackEnters(t) \/ CallbackReturns(t)
    BY <2>5 DEF EndLoad, CallbackEnters, CallbackReturns
  <2> QED BY <1>2, <2>1, <2>2, <2>3, <2>4, <2>5 DEF Process
<1>3. CASE UNCHANGED vars
  BY <1>1, <1>3 DEF vars, engine
<1> QED BY <1>1, <1>2, <1>3, StepsInGroups, WorkerKeepsThreads

-----------------------------------------------------------------------------
(***************************************************************************)
(* The world is stopped.                                                   *)
(***************************************************************************)
LEMMA GuardKept ==
  ASSUME SInv, [Next]_vars
  PROVE  GuardSound'
<1> USE DEF SInv, GuardSound, Early, Tests, Writing, Applying, Undoing, Stages, Optional,
        Goto, Report, Refused, Alive, ExecutesUnsafe, ReturnsUnsafe, guard, threads
<1>1. CASE Opening
  <2>1. CASE ProcessAttach \/ Pin \/ LockFiles \/ Configure \/ Recognise
    BY <2>1 DEF ProcessAttach, Pin, LockFiles, Configure, Recognise
  <2>2. CASE Locate \/ DefinitionsUntouched \/ GeneratorUntouched \/ ManagerUntouched
             \/ ImmediateIsStock
    BY <2>2 DEF Locate, DefinitionsUntouched, GeneratorUntouched, ManagerUntouched,
       ImmediateIsStock, Test
  <2>3. CASE AllocateProvider \/ AllocateGenerator \/ Prepare \/ ListSpans
    BY <2>3 DEF AllocateProvider, AllocateGenerator, Prepare, ListSpans
  <2>4. CASE Recheck
    BY <2>4 DEF Recheck, NoSnapshot
  <2> QED BY <1>1, <2>1, <2>2, <2>3, <2>4 DEF Opening
<1>2. CASE Stopping
  <2>1. ASSUME NEW t \in Threads, NextThread(t) PROVE GuardSound'
    <3>1. at = "enumerate" /\ UNCHANGED <<at, gate, life, loc>>
      BY <2>1 DEF NextThread, worker
    <3>2. snapshot'.seen \subseteq held'
      <4> USE DEF TypesToo, Snapshots
      <4>1. snapshot'.seen = snapshot.seen \cup {t} \/ snapshot'.seen = snapshot.seen
        BY <2>1 DEF NextThread, Adopt
      <4>2. t \in held' /\ held \subseteq held'
        BY <2>1 DEF NextThread, Adopt
      <4> QED BY <3>1, <4>1, <4>2
    <3> QED BY <3>1, <3>2
  <2>2. CASE EnumerationFails
    BY <2>2 DEF EnumerationFails, BeginFails, ResumeThen
  <2>3. CASE EndSnapshot
    <3>1. \A t \in Threads : life[t] = "running" => t \in held
      BY <2>3 DEF EndSnapshot
    <3>2. UNCHANGED <<gate, held, life, loc>> /\ at = "enumerate"
          /\ at' \in {"enumerate", "inspect", "resume"}
      BY <2>3 DEF EndSnapshot, BeginFails, ResumeThen
    <3>3. at' = "enumerate" => snapshot'.seen = {}
      BY <2>3 DEF EndSnapshot, BeginFails, ResumeThen, NoSnapshot
    <3> QED BY <3>1, <3>2, <3>3
  <2>4. CASE Inspect
    BY <2>4 DEF Inspect, Clear, BeginFails, ResumeThen, Unreadable, MistakenReturn
  <2>5. CASE Seal \/ Arm
    BY <2>5 DEF Seal, Arm, ResumeThen
  <2> QED BY <1>2, <2>1, <2>2, <2>3, <2>4, <2>5 DEF Stopping
<1>3. CASE Applies
  BY <1>3 DEF Applies, ApplyCapacity, ApplyProvider, ApplyGenerator, Apply,
     CommitUniversal, InstallExtras, ResumeThen
<1>4. CASE Undoes
  BY <1>4 DEF Undoes, UndoGenerator, UndoProvider, UndoCapacity, Undo, WriteFailure
<1>5. CASE Ending
  BY <1>5 DEF Ending, ResumeOne, ResumeEnd, PlaceAfter, Cancel, Log, worker
<1>6. ASSUME NEW t \in Threads, Process(t) PROVE GuardSound'
  <2>1. UNCHANGED <<at, gate, snapshot, held>>
    BY <1>6, ProcessKeeps DEF worker
  <2>2. at \in {"inspect"} \cup Writing =>
          \A u \in Threads : life'[u] = "running" => life[u] = "running"
    BY <1>6 DEF Process, Create, AttachDone, Ends, Wander, Heap, Moves, BeginLoad,
       EndLoad, CallbackEnters, CallbackReturns, TypeOK
  <2>3. \A u \in held : loc'[u] = loc[u] /\ (Alive(u)' => Alive(u) \/ loc'[u] = "outside")
    BY <1>6 DEF Process, Create, AttachDone, Ends, Wander, Heap, Moves, BeginLoad,
       EndLoad, CallbackEnters, CallbackReturns, Runs, TypeOK, TypesToo, ThreadsSound
  <2> QED BY <2>1, <2>2, <2>3
<1>7. CASE Mods \/ UNCHANGED vars
  BY <1>7 DEF Mods, OtherMod, Alter, vars, worker
<1> QED BY <1>1, <1>2, <1>3, <1>4, <1>5, <1>6, <1>7, StepsInGroups

-----------------------------------------------------------------------------
(***************************************************************************)
(* The image follows the worker.                                           *)
(***************************************************************************)
\* The fields of what a failed reversal leaves.
LEMMA RevertedSound ==
  ASSUME NEW o, o \in Reverted(TRUE) \/ \E r \in Reverted(TRUE) : o = [r EXCEPT !.ok = FALSE]
  PROVE  /\ o.code \in {"old", "mixed"}
         /\ o.dirty = FALSE => o.closed = TRUE /\ o.code = "old"
         /\ o.ok = TRUE => o.closed = TRUE /\ o.code = "old"
         /\ o.closed \in BOOLEAN /\ o.dirty \in BOOLEAN /\ o.ok \in BOOLEAN
<1>1. ASSUME NEW r \in Reverted(TRUE)
      PROVE  /\ r.code \in {"old", "mixed"}
             /\ r.dirty = FALSE => r.closed = TRUE /\ r.code = "old"
             /\ r.ok = TRUE => r.closed = TRUE /\ r.code = "old"
             /\ r.closed \in BOOLEAN /\ r.dirty \in BOOLEAN /\ r.ok \in BOOLEAN
  <2>1. CASE r = Outcome("old", TRUE, FALSE, TRUE)
    BY <2>1 DEF Outcome
  <2>2. CASE r \in [code : {"old", "mixed"}, closed : BOOLEAN, dirty : {TRUE}, ok : {FALSE}]
    BY <2>2
  <2> QED BY <2>1, <2>2 DEF Reverted
<1>2. ASSUME NEW r \in Reverted(TRUE), o = [r EXCEPT !.ok = FALSE]
      PROVE  o.code = r.code /\ o.closed = r.closed /\ o.dirty = r.dirty /\ o.ok = FALSE
  BY <1>2 DEF Reverted, Outcome
<1> QED BY <1>1, <1>2

\* What an attempt to write a stage, or to undo it, can leave.
LEMMA ApplySound ==
  ASSUME NEW s \in Optional, NEW o \in ApplyOutcomes(s),
         code[s] = "old", closed[s] = TRUE, dirty[s] = FALSE
  PROVE  /\ o.code \in {"old", "mixed", "new"}
         /\ o.closed \in BOOLEAN /\ o.dirty \in BOOLEAN /\ o.ok \in BOOLEAN
         /\ o.ok = TRUE => o.code = "new" /\ o.closed = TRUE /\ o.dirty = FALSE
         /\ o.dirty = FALSE => o.closed = TRUE /\ o.code # "mixed"
<1>1. CASE o = AsItWas(s)
  <2>1. o = Outcome("old", TRUE, FALSE, FALSE)
    BY <1>1 DEF AsItWas
  <2> QED BY <2>1 DEF Outcome
<1>2. CASE o = Outcome("new", TRUE, FALSE, TRUE)
  BY <1>2 DEF Outcome
<1>3. ASSUME NEW r \in Reverted(TRUE), o = [r EXCEPT !.ok = FALSE]
      PROVE  /\ o.code \in {"old", "mixed"} /\ o.ok = FALSE
             /\ o.dirty = FALSE => o.closed = TRUE /\ o.code = "old"
             /\ o.closed \in BOOLEAN /\ o.dirty \in BOOLEAN
  <2>1. o.ok = FALSE
    BY <1>3 DEF Reverted, Outcome
  <2> QED BY <1>3, <2>1, RevertedSound
<1> QED BY <1>1, <1>2, <1>3 DEF ApplyOutcomes

LEMMA UndoSound ==
  ASSUME NEW s \in Optional, NEW o \in UndoOutcomes(s),
         code[s] \in {"old", "new", "mixed", "foreign"},
         closed[s] \in BOOLEAN, dirty[s] \in BOOLEAN,
         dirty[s] = FALSE => closed[s] = TRUE /\ code[s] # "mixed"
  PROVE  /\ o.closed \in BOOLEAN /\ o.dirty \in BOOLEAN /\ o.ok \in BOOLEAN
         /\ o.code \in {"old", "mixed", code[s]}
         /\ o.ok = TRUE => o.code \in {"old", "foreign"} /\ o.closed = TRUE
         /\ o.dirty = FALSE => o.closed = TRUE /\ o.code # "mixed"
         /\ code[s] # "new" /\ dirty[s] = FALSE =>
              o.code = code[s] /\ o.closed = TRUE /\ o.dirty = FALSE
<1>1. CASE code[s] # "new" /\ ~dirty[s]
  <2>1. o = [AsItWas(s) EXCEPT !.ok = TRUE]
    BY <1>1 DEF UndoOutcomes
  <2>2. o = Outcome(code[s], TRUE, FALSE, TRUE)
    BY <1>1, <2>1 DEF AsItWas, Outcome
  <2>3. o.code = code[s] /\ o.closed = TRUE /\ o.dirty = FALSE /\ o.ok = TRUE
    BY <2>2 DEF Outcome
  <2> QED BY <1>1, <2>3
<1>2. CASE ~(code[s] # "new" /\ ~dirty[s])
  <2>1. o = AsItWas(s) \/ o \in Reverted(TargetProtection(s))
    BY <1>2 DEF UndoOutcomes
  <2>2. TargetProtection(s) = TRUE
    BY <1>2 DEF TargetProtection
  <2>3. CASE o = AsItWas(s)
    <3>1. o.code = code[s] /\ o.closed = closed[s] /\ o.dirty = dirty[s] /\ o.ok = FALSE
      BY <2>3 DEF AsItWas, Outcome
    <3> QED BY <1>2, <3>1
  <2>4. CASE o \in Reverted(TRUE)
    BY <1>2, <2>4, RevertedSound
  <2> QED BY <2>1, <2>2, <2>3, <2>4
<1> QED BY <1>1, <1>2

\* Every stage that can be chosen is one.
LEMMA ChosenStages ==
  ASSUME SInv
  PROVE  wanted \subseteq Optional /\ Chosen \subseteq Stages /\ "universal" \in Chosen
BY StartupAssumption DEF SInv, TypeOK, Chosen, Stages

LEMMA ImageKept ==
  ASSUME SInv, [Next]_vars
  PROVE  ImageSound'
<1> USE DEF SInv
<1>1. CASE Opening
  <2> USE DEF ImageSound, Early, Tests, Writing, Applying, Undoing, Unwritten,
          Stages, Optional, Goto, Report, Refused, AllIntact, Intact, image
  <2>1. CASE Configure
    BY <2>1 DEF Configure, Chosen
  <2>2. CASE ProcessAttach \/ Pin \/ LockFiles \/ Recognise
    BY <2>2 DEF ProcessAttach, Pin, LockFiles, Recognise, Chosen
  <2>3. CASE Locate \/ DefinitionsUntouched \/ GeneratorUntouched \/ ManagerUntouched
             \/ ImmediateIsStock
    BY <2>3 DEF Locate, DefinitionsUntouched, GeneratorUntouched, ManagerUntouched,
       ImmediateIsStock, Test, Chosen
  <2>4. CASE AllocateProvider \/ AllocateGenerator \/ Prepare \/ ListSpans \/ Recheck
    BY <2>4 DEF AllocateProvider, AllocateGenerator, Prepare, ListSpans, Recheck, Chosen
  <2> QED BY <1>1, <2>1, <2>2, <2>3, <2>4 DEF Opening
<1>2. CASE Stopping
  <2> USE DEF Early, Tests, Writing, Applying, Undoing, Unwritten, Stages, Optional,
          Goto, AllIntact, Intact, image, worker
  <2>1. ASSUME NEW t \in Threads, NextThread(t) PROVE ImageSound'
    BY <2>1 DEF NextThread, ImageSound, Chosen
  <2>2. CASE EnumerationFails \/ EndSnapshot
    BY <2>2 DEF EnumerationFails, EndSnapshot, BeginFails, ResumeThen, ImageSound, Chosen
  <2>3. CASE Inspect
    BY <2>3 DEF Inspect, BeginFails, ResumeThen, Unreadable, MistakenReturn, ImageSound, Chosen
  <2>4. CASE Seal
    <3>1. at = "seal" /\ UNCHANGED <<code, closed, dirty, wanted>>
      BY <2>4 DEF Seal, ResumeThen
    <3>2. \A s \in Stages : Intact(s) /\ ~dirty[s]
      BY <3>1 DEF ImageSound
    <3>3. CASE Unchanged /\ at' = "arm"
      <4>1. Chosen' = Chosen /\ Chosen \subseteq Stages
        BY <3>1, ChosenStages DEF Chosen
      <4>2. \A s \in Chosen : code[s] = "old"
        BY <3>3 DEF Unchanged
      <4> QED BY <3>1, <3>2, <3>3, <4>1, <4>2 DEF ImageSound, Written
    <3>4. CASE at' = "resume" /\ next' = "prewrite_failed"
      BY <3>1, <3>2, <3>4 DEF ImageSound, Chosen
    <3> QED BY <2>4, <3>3, <3>4 DEF Seal, ResumeThen
  <2>5. CASE Arm
    BY <2>5 DEF Arm, ResumeThen, ImageSound, Chosen, Written
  <2> QED BY <1>2, <2>1, <2>2, <2>3, <2>4, <2>5 DEF Stopping
<1>3. CASE Applies
  <2>1. ASSUME NEW s \in Optional, NEW then \in {"provider", "generator", "universal"},
               Apply(s, then),
               <<s, then>> \in {<<"capacity", "provider">>, <<"provider", "generator">>,
                                <<"generator", "universal">>}
        PROVE  ImageSound'
    <3> USE DEF ImageSound, Early, Tests, Writing, Applying, Undoing, Unwritten,
            Stages, Optional, Goto, Chosen, Written, Undone, AllIntact, Intact
    <3>1. CASE s \notin wanted
      BY <2>1, <3>1 DEF Apply, image
    <3>2. CASE s \in wanted
      <4>1. PICK o \in ApplyOutcomes(s) :
              /\ Take(s, o)
              /\ IF o.ok THEN Goto(then)
                 ELSE /\ at' = "undo_generator" /\ status' = "STAGE_FAILED"
                      /\ next' = "restored" /\ UNCHANGED <<worker_state, wanted>>
        BY <2>1, <3>2 DEF Apply
      <4>2. code[s] = "old" /\ closed[s] /\ ~dirty[s] /\ at = s
        BY <2>1, <3>2 DEF Apply
      <4>3. /\ o.code \in {"old", "mixed", "new"}
            /\ o.ok => o.code = "new" /\ o.closed /\ ~o.dirty
            /\ ~o.dirty => o.closed /\ o.code # "mixed"
        <5>1. code[s] = "old" /\ closed[s] = TRUE /\ dirty[s] = FALSE
          BY <4>2 DEF TypeOK
        <5> HIDE DEF ImageSound
        <5> QED BY <5>1, ApplySound
      <4>4. /\ code' = [code EXCEPT ![s] = o.code]
            /\ closed' = [closed EXCEPT ![s] = o.closed]
            /\ dirty' = [dirty EXCEPT ![s] = o.dirty]
        BY <4>1 DEF Take
      <4>5. CASE o.ok
        BY <2>1, <3>2, <4>1, <4>2, <4>3, <4>4, <4>5 DEF TypeOK
      <4>6. CASE ~o.ok
        BY <2>1, <3>2, <4>1, <4>2, <4>3, <4>4, <4>6 DEF TypeOK
      <4> QED BY <4>5, <4>6
    <3> QED BY <3>1, <3>2
  <2>2. CASE CommitUniversal
    <3> USE DEF ImageSound, Early, Tests, Writing, Applying, Undoing, Unwritten,
            Stages, Optional, Written, Undone
    <3>1. at = "universal" /\ UNCHANGED wanted /\ Chosen' = Chosen
      BY <2>2 DEF CommitUniversal, Goto, Chosen
    <3>2. \A s \in Optional : UNCHANGED <<code[s], closed[s], dirty[s]>>
      BY <2>2 DEF CommitUniversal, Take, TypeOK
    <3>3. CASE at' = "extras"
      <4>1. code'["universal"] = "new" /\ closed'["universal"] = TRUE
            /\ dirty'["universal"] = FALSE
        BY <2>2, <3>3 DEF CommitUniversal, Take, Outcome, TypeOK
      <4> QED BY <3>1, <3>2, <3>3, <4>1, ChosenStages DEF Intact
    <3>4. CASE at' = "undo_generator"
      <4>1. code'["universal"] # "foreign" /\ next' = "restored"
        BY <2>2, <3>4 DEF CommitUniversal, Take, Outcome, TypeOK, Goto
      <4> QED BY <3>1, <3>2, <3>4, <4>1, ChosenStages DEF Intact
    <3> QED BY <2>2, <3>3, <3>4 DEF CommitUniversal, Goto
  <2>3. CASE InstallExtras
    <3>1. at = "extras" /\ at' = "resume" /\ next' = "applied"
          /\ UNCHANGED <<code, closed, dirty, wanted, Chosen>>
      BY <2>3 DEF InstallExtras, ResumeThen, image, Chosen
    <3>2. Written = Stages
      BY <3>1 DEF Written
    <3>3. AllIn'
      BY <3>1, <3>2, ChosenStages DEF AllIn, ImageSound, Applying
    <3> QED BY <3>1, <3>3 DEF ImageSound, Writing, Early, Tests, Applying, Undoing, Unwritten,
              Stages, Optional, Intact
  <2> QED BY <1>3, <2>1, <2>2, <2>3
        DEF Applies, ApplyCapacity, ApplyProvider, ApplyGenerator, Optional
<1>4. CASE Undoes
  <2>1. ASSUME NEW s \in Optional, NEW place, NEW then, Undo(s, place, then),
               <<s, place, then>> \in
                 {<<"generator", "undo_generator", "undo_provider">>,
                  <<"provider", "undo_provider", "undo_capacity">>,
                  <<"capacity", "undo_capacity", "failed">>}
        PROVE  ImageSound'
    <3> USE DEF ImageSound, Early, Tests, Writing, Applying, Undoing, Unwritten,
            Stages, Optional, Chosen
    <3>1. PICK o \in UndoOutcomes(s) :
            /\ Take(s, o)
            /\ next' = IF o.ok THEN next ELSE "retained"
      BY <2>1 DEF Undo
    <3>2. at = place /\ at' = then /\ UNCHANGED wanted
      BY <2>1 DEF Undo
    <3>3. /\ o.code \in {"old", "mixed", code[s]}
          /\ o.ok => o.code \in {"old", "foreign"} /\ o.closed
          /\ ~o.dirty => o.closed /\ o.code # "mixed"
          /\ code[s] # "new" /\ ~dirty[s] => o.code = code[s] /\ o.closed /\ ~o.dirty
      <4>1. /\ code[s] \in {"old", "new", "mixed", "foreign"}
            /\ closed[s] \in BOOLEAN /\ dirty[s] \in BOOLEAN
            /\ dirty[s] = FALSE => closed[s] = TRUE /\ code[s] # "mixed"
        BY DEF TypeOK
      <4> HIDE DEF ImageSound
      <4> QED BY <4>1, UndoSound
    <3>4. /\ code' = [code EXCEPT ![s] = o.code]
          /\ closed' = [closed EXCEPT ![s] = o.closed]
          /\ dirty' = [dirty EXCEPT ![s] = o.dirty]
      BY <3>1 DEF Take
    <3>5. /\ \A r \in Stages : r \notin Chosen' => Intact(r)' /\ ~dirty'[r]
          /\ \A r \in Optional : ~dirty'[r] => closed'[r] /\ code'[r] # "mixed"
      BY <3>2, <3>3, <3>4 DEF TypeOK, Intact
    <3>6. \A r \in Chosen' : code'[r] # "foreign"
      BY <2>1, <3>2, <3>3, <3>4 DEF TypeOK
    <3>7. next' \in {"restored", "retained"}
          /\ (next' = "restored" => next = "restored" /\ o.ok)
      BY <2>1, <3>1, <3>2
    <3>8. next' = "restored" => \A r \in Undone' : Intact(r)'
      BY <2>1, <3>2, <3>3, <3>4, <3>7 DEF TypeOK, Intact, Undone
    <3> QED BY <2>1, <3>2, <3>5, <3>6, <3>7, <3>8
  <2>2. CASE WriteFailure
    BY <2>2 DEF WriteFailure, UniversalRestored, image, ImageSound, Early, Tests, Writing,
       Applying, Undoing, Unwritten, Stages, Optional, Chosen, Undone, AllIntact, Intact
  <2> QED BY <1>4, <2>1, <2>2 DEF Undoes, UndoGenerator, UndoProvider, UndoCapacity, Optional
<1>5. CASE Ending
  <2>1. UNCHANGED <<code, closed, dirty, wanted, Chosen>>
    BY <1>5 DEF Ending, ResumeOne, ResumeEnd, Cancel, Log, Goto, Report, worker, image, Chosen
  <2>2. \/ at = "resume" /\ UNCHANGED <<at, next>>
        \/ at = "resume" /\ at' = "log"
        \/ at = "resume" /\ at' = "cancel"
             /\ next \in {"begin_failed", "prewrite_failed", "restored"}
        \/ at = "cancel" /\ at' = "log"
        \/ at = "log" /\ at' = "done"
    BY <1>5 DEF Ending, ResumeOne, ResumeEnd, PlaceAfter, Cancel, Log, Goto, Report, worker
  <2> QED BY <2>1, <2>2 DEF ImageSound, Writing, Early, Tests, Applying, Undoing, Unwritten,
             Stages, Optional, AllIntact, AllIn, Intact
<1>6. ASSUME NEW t \in Threads, Process(t) PROVE ImageSound'
  <2>1. UNCHANGED <<at, next, wanted, code, closed, dirty>>
    BY <1>6, ProcessKeeps DEF worker, image
  <2> QED BY <2>1 DEF ImageSound, Chosen, Written, Undone, AllIntact, AllIn, Intact
<1>7. CASE Mods
  <2>1. ASSUME NEW s \in Stages, OtherMod(s) PROVE ImageSound'
    BY <2>1 DEF OtherMod, worker, ImageSound, Early, Tests, Writing, Applying, Undoing,
       Unwritten, Stages, Optional, Chosen, AllIntact, Intact, TypeOK
  <2>2. ASSUME NEW f \in Files, Alter(f) PROVE ImageSound'
    BY <2>2 DEF Alter, worker, image, ImageSound, Chosen, Written, Undone, AllIntact,
       AllIn, Intact
  <2> QED BY <1>7, <2>1, <2>2 DEF Mods
<1>8. CASE UNCHANGED vars
  BY <1>8 DEF vars, worker, image, ImageSound, Chosen, Written, Undone, AllIntact,
     AllIn, Intact
<1> QED BY <1>1, <1>2, <1>3, <1>4, <1>5, <1>6, <1>7, <1>8, StepsInGroups

-----------------------------------------------------------------------------
(***************************************************************************)
(* The report, and the storage.                                            *)
(***************************************************************************)
LEMMA ReportKept ==
  ASSUME SInv, [Next]_vars
  PROVE  ReportSound'
<1> USE DEF SInv
<1>1. CASE Opening
  <2>1. /\ at \in Early /\ UNCHANGED <<code, closed, held>>
        /\ status' \notin {"PATCH_APPLIED", "RESUME_FAILED"}
    <3> USE DEF ReportSound, Early, Tests, Goto, Report, Refused, image, guard
    <3>1. CASE ProcessAttach \/ Pin \/ LockFiles \/ Configure \/ Recognise
      BY <3>1 DEF ProcessAttach, Pin, LockFiles, Configure, Recognise
    <3>2. CASE Locate \/ DefinitionsUntouched \/ GeneratorUntouched \/ ManagerUntouched
               \/ ImmediateIsStock
      BY <3>2 DEF Locate, DefinitionsUntouched, GeneratorUntouched, ManagerUntouched,
         ImmediateIsStock, Test
    <3>3. CASE AllocateProvider \/ AllocateGenerator \/ Prepare \/ ListSpans \/ Recheck
      BY <3>3 DEF AllocateProvider, AllocateGenerator, Prepare, ListSpans, Recheck
    <3> QED BY <1>1, <3>1, <3>2, <3>3 DEF Opening
  <2>2. at' \notin {"unborn", "never", "pin", "identify", "log", "done"} => locked' = Files
    <3> USE DEF ReportSound, Goto, Report, Refused, files
    <3>1. CASE ProcessAttach \/ Pin \/ LockFiles \/ Configure \/ Recognise
      BY <3>1 DEF ProcessAttach, Pin, LockFiles, Configure, Recognise
    <3>2. CASE Locate \/ DefinitionsUntouched \/ GeneratorUntouched \/ ManagerUntouched
               \/ ImmediateIsStock
      BY <3>2 DEF Locate, DefinitionsUntouched, GeneratorUntouched, ManagerUntouched,
         ImmediateIsStock, Test
    <3>3. CASE AllocateProvider \/ AllocateGenerator \/ Prepare \/ ListSpans \/ Recheck
      BY <3>3 DEF AllocateProvider, AllocateGenerator, Prepare, ListSpans, Recheck
    <3> QED BY <1>1, <3>1, <3>2, <3>3 DEF Opening
  <2> QED BY <2>1, <2>2 DEF ReportSound, ImageSound, Unwritten, AllIntact, Intact
<1>2. CASE Stopping
  <2>1. at' \notin {"log", "done", "unborn", "never", "pin", "identify"}
        /\ at \in {"enumerate", "inspect", "seal", "arm"} /\ UNCHANGED locked
    BY <1>2 DEF Stopping, NextThread, EnumerationFails, EndSnapshot, Inspect, Seal, Arm,
       BeginFails, ResumeThen, Goto, Unreadable, MistakenReturn, worker, files
  <2>2. status' = status
        \/ status' \in {"QUIESCENCE_FAILED", "IN_FLIGHT", "CALLBACK_BEFORE_ACTIVATION"}
    BY <1>2 DEF Stopping, NextThread, EnumerationFails, EndSnapshot, Inspect, Seal, Arm,
       BeginFails, ResumeThen, Goto, Unreadable, MistakenReturn, worker
  <2> QED BY <2>1, <2>2 DEF ReportSound
<1>3. CASE Applies \/ Undoes
  <2>1. at \in Applying \cup Undoing /\ at' \in Applying \cup Undoing \cup {"resume"}
        /\ UNCHANGED locked
        /\ (status' = status \/ status' \in {"STAGE_FAILED", "UNIVERSAL_FAILED"})
    BY <1>3 DEF Applies, ApplyCapacity, ApplyProvider, ApplyGenerator, Apply, CommitUniversal,
       InstallExtras, Undoes, UndoGenerator, UndoProvider, UndoCapacity, Undo, WriteFailure,
       ResumeThen, Goto, files, Applying, Undoing, Stages, Optional
  <2> QED BY <2>1 DEF ReportSound, Applying, Undoing, Stages, Optional
<1>4. ASSUME NEW t \in Threads, ResumeOne(t) PROVE ReportSound'
  BY <1>4 DEF ResumeOne, ReportSound, worker, files
<1>5. CASE ResumeEnd
  <2>1. /\ at = "resume" /\ locked = Files /\ locked' = locked
        /\ UNCHANGED <<code, closed, held, word, Chosen>>
        /\ status' = StatusAfter(held = {}) /\ at' = PlaceAfter(held = {})
        /\ status \notin {"PATCH_APPLIED", "RESUME_FAILED"}
    BY <1>5 DEF ResumeEnd, ReportSound, image, files, Chosen
  <2>2. UNCHANGED <<AllIntact, AllIn>> /\ (AllIn => \A s \in Chosen : code[s] = "new")
    BY <2>1 DEF AllIntact, AllIn, Intact, Chosen
  <2>3. CASE next = "begin_failed"
    BY <2>1, <2>3 DEF ReportSound, StatusAfter, PlaceAfter
  <2>4. CASE next = "retained"
    BY <2>1, <2>4 DEF ReportSound, StatusAfter, PlaceAfter
  <2>5. CASE next = "applied"
    <3>1. AllIn /\ word = "ACTIVE"
      BY <2>1, <2>5 DEF ImageSound, CallbackSound
    <3>2. at' = "log" /\ status' = IF held = {} THEN "PATCH_APPLIED" ELSE "RESUME_FAILED"
      BY <2>1, <2>5 DEF StatusAfter, PlaceAfter
    <3> QED BY <2>1, <2>2, <3>1, <3>2 DEF ReportSound
  <2>6. CASE next \in {"prewrite_failed", "restored"}
    <3>1. AllIntact
      BY <2>1, <2>6 DEF ImageSound
    <3>2. \/ held = {} /\ at' = "cancel" /\ status' = status
          \/ held # {} /\ at' = "log" /\ status' = "RESUME_FAILED"
      BY <2>1, <2>6 DEF StatusAfter, PlaceAfter
    <3> QED BY <2>1, <2>2, <3>1, <3>2 DEF ReportSound
  <2> QED BY <2>1, <2>3, <2>4, <2>5, <2>6 DEF ImageSound, TypesToo
<1>6. CASE Cancel
  <2>1. AllIntact' /\ at' = "log"
    BY <1>6 DEF Cancel, ImageSound, AllIntact, Intact, image, Goto, Report
  <2>2. status' \notin {"PATCH_APPLIED", "RESUME_FAILED"}
    BY <1>6 DEF Cancel, ReportSound, Goto, Report
  <2> QED BY <2>1, <2>2 DEF ReportSound
<1>7. CASE Log
  BY <1>7 DEF Log, ReportSound, image, guard, AllIntact, AllIn, Intact, Chosen
<1>8. ASSUME NEW t \in Threads, Process(t) PROVE ReportSound'
  BY <1>8, ProcessKeeps DEF ReportSound, worker, image, guard, files, AllIntact, AllIn,
     Intact, Chosen
<1>9. CASE Mods \/ UNCHANGED vars
  BY <1>9 DEF Mods, OtherMod, Alter, Tests, vars, ReportSound, worker, image, guard, files,
     AllIntact, AllIn, Intact, Chosen
<1> QED BY <1>1, <1>2, <1>3, <1>4, <1>5, <1>6, <1>7, <1>8, <1>9, StepsInGroups DEF Ending

\* Nothing is written of a stage that is not wanted.
LEMMA OnlyChosen ==
  ASSUME SInv, Applies \/ Undoes, NEW s \in Stages, s \notin Chosen
  PROVE  code'[s] = code[s]
<1> USE DEF SInv
<1>1. s \in Optional /\ s \notin wanted /\ ~dirty[s] /\ code[s] # "new"
  BY DEF Chosen, Stages, ImageSound, Intact
<1>2. ASSUME NEW r \in Optional, NEW then, Apply(r, then) PROVE code'[s] = code[s]
  BY <1>1, <1>2 DEF Apply, image, Take, TypeOK
<1>3. CASE CommitUniversal \/ InstallExtras \/ WriteFailure
  BY <1>1, <1>3 DEF CommitUniversal, InstallExtras, WriteFailure, Take, image, TypeOK,
     Optional
<1>4. ASSUME NEW r \in Optional, NEW place, NEW then, Undo(r, place, then)
      PROVE  code'[s] = code[s]
  <2>1. PICK o \in UndoOutcomes(r) : Take(r, o)
    BY <1>4 DEF Undo
  <2>2. CASE r = s
    <3>1. o = [AsItWas(s) EXCEPT !.ok = TRUE]
      BY <1>1, <2>1, <2>2 DEF UndoOutcomes
    <3>2. o.code = code[s]
      BY <3>1 DEF AsItWas, Outcome
    <3> QED BY <1>1, <2>1, <2>2, <3>2 DEF Take, TypeOK, Stages
  <2>3. CASE r # s
    BY <2>1, <2>3 DEF Take, TypeOK
  <2> QED BY <2>2, <2>3
<1> QED BY <1>2, <1>3, <1>4 DEF Applies, ApplyCapacity, ApplyProvider,
           ApplyGenerator, Undoes, UndoGenerator, UndoProvider, UndoCapacity, Optional

LEMMA StorageKept ==
  ASSUME SInv, [Next]_vars
  PROVE  StorageSound'
<1> USE DEF SInv
<1>1. CASE Opening
  <2>1. (\A s \in Stages : code[s] \notin {"new", "mixed"}) /\ UNCHANGED code
    <3>1. at \in Unwritten /\ UNCHANGED code
      BY <1>1 DEF Opening, ProcessAttach, Pin, LockFiles, Configure, Recognise, Locate,
         DefinitionsUntouched, GeneratorUntouched, ManagerUntouched, AllocateProvider,
         AllocateGenerator, ImmediateIsStock, Prepare, ListSpans, Recheck, Test, image,
         Unwritten, Early, Tests
    <3> QED BY <3>1 DEF ImageSound, AllIntact, Intact
  <2> USE DEF StorageSound, Writing, Applying, Undoing, Stages, Optional, Goto, Report,
          Refused, image
  <2>2. CASE ProcessAttach \/ Pin \/ LockFiles \/ Configure \/ Recognise
    BY <2>1, <2>2 DEF ProcessAttach, Pin, LockFiles, Configure, Recognise
  <2>3. CASE Locate \/ DefinitionsUntouched \/ GeneratorUntouched \/ ManagerUntouched
             \/ ImmediateIsStock
    BY <2>1, <2>3 DEF Locate, DefinitionsUntouched, GeneratorUntouched, ManagerUntouched,
       ImmediateIsStock, Test
  <2>4. CASE AllocateProvider \/ AllocateGenerator
    BY <2>1, <2>4 DEF AllocateProvider, AllocateGenerator
  <2>5. CASE Prepare \/ ListSpans \/ Recheck
    BY <2>1, <2>5 DEF Prepare, ListSpans, Recheck
  <2> QED BY <1>1, <2>2, <2>3, <2>4, <2>5 DEF Opening
<1>2. CASE Stopping
  <2>1. /\ at \in {"enumerate", "inspect", "seal", "arm"}
        /\ at' \in {"enumerate", "inspect", "seal", "arm", "capacity", "resume"}
        /\ UNCHANGED <<wanted, storage, code>>
    BY <1>2 DEF Stopping, NextThread, EnumerationFails, EndSnapshot, Inspect, Seal, Arm,
       BeginFails, ResumeThen, Goto, Unreadable, MistakenReturn, worker, image
  <2> QED BY <2>1 DEF StorageSound, Writing, Applying, Stages, Optional
<1>3. CASE Applies \/ Undoes
  <2>1. /\ at \in Applying \cup Undoing /\ at' \in Applying \cup Undoing \cup {"resume"}
        /\ UNCHANGED <<wanted, storage>>
    BY <1>3 DEF Applies, ApplyCapacity, ApplyProvider, ApplyGenerator, Apply, CommitUniversal,
       InstallExtras, Undoes, UndoGenerator, UndoProvider, UndoCapacity, Undo, WriteFailure,
       ResumeThen, Goto, Applying, Undoing, Stages, Optional
  <2>2. Chosen \ {"capacity"} \subseteq storage
    BY <2>1, ChosenStages DEF StorageSound, Writing, Applying, Undoing, Chosen, Optional
  <2>4. \A s \in Stages \ {"capacity"} : code'[s] \in {"new", "mixed"} => s \in storage'
    BY <1>3, <2>1, <2>2, OnlyChosen DEF StorageSound
  <2> QED BY <2>1, <2>4 DEF StorageSound, Writing, Applying, Undoing, Stages, Optional
<1>4. CASE Ending
  <2>1. /\ at \in After /\ at' \in After /\ UNCHANGED code
        /\ storage' # storage => at = "cancel"
    BY <1>4 DEF Ending, ResumeOne, ResumeEnd, PlaceAfter, Cancel, Log, Goto, Report, worker,
       image, After
  <2> QED BY <2>1 DEF StorageSound, ImageSound, AllIntact, Intact, After, Writing, Applying,
             Undoing, Stages, Optional
<1>5. ASSUME NEW t \in Threads, Process(t) PROVE StorageSound'
  BY <1>5, ProcessKeeps DEF StorageSound, worker, image
<1>6. CASE Mods
  <2>1. UNCHANGED <<at, wanted, storage>>
    BY <1>6 DEF Mods, OtherMod, Alter, worker
  <2>2. \A s \in Stages : code'[s] = code[s] \/ code'[s] = "foreign"
    BY <1>6 DEF Mods, OtherMod, Alter, image, TypeOK
  <2> QED BY <2>1, <2>2 DEF StorageSound
<1>7. CASE UNCHANGED vars
  BY <1>7 DEF vars, StorageSound, worker, image
<1> QED BY <1>1, <1>2, <1>3, <1>4, <1>5, <1>6, <1>7, StepsInGroups

-----------------------------------------------------------------------------
(***************************************************************************)
(* The callback.                                                           *)
(***************************************************************************)
\* A load, a call and its return, the steps at which the handshake is at work.
LEMMA CallbackKeptByProcess ==
  ASSUME SInv, NEW t \in Threads, Process(t)
  PROVE  CallbackSound'
<1> USE DEF SInv
<1>1. /\ UNCHANGED <<at, next, status, wanted, Chosen, code, word, held>>
      /\ After \cap (Unwritten \cup Writing) = {} /\ at \in Unwritten \cup Writing \cup After
  <2>1. UNCHANGED <<at, next, status, wanted, code, word, held>>
    BY ProcessKeeps DEF worker, image, guard
  <2> QED BY <2>1 DEF Chosen, TypeOK, Places, After, Unwritten, Writing, Early, Tests, Applying,
             Undoing, Stages, Optional
<1>2. at \in Unwritten => code["universal"] \notin {"new", "mixed"}
  BY DEF ImageSound, AllIntact, Intact, Stages
<1>3. Runs(t) => at \notin {"inspect"} \cup Writing
  BY DEF Runs, GuardSound
<1>4. CASE UNCHANGED <<Calling, Scaling, engine>>
  BY <1>1, <1>4 DEF CallbackSound, engine
<1>5. CASE Create(t) \/ AttachDone(t) \/ Ends(t)
  <2>1. UNCHANGED <<loc, engine>>
    BY <1>5 DEF Create, AttachDone, Ends
  <2> QED BY <2>1, <1>4 DEF Calling, Scaling
<1>6. CASE Wander(t) \/ Heap(t) \/ BeginLoad(t)
  <2>1. UNCHANGED engine /\ \E from, to \in Locations \ {"called", "scaling"} :
          loc[t] = from /\ loc' = [loc EXCEPT ![t] = to]
    BY <1>6 DEF Wander, Heap, BeginLoad, Moves, Locations
  <2>2. UNCHANGED <<Calling, Scaling>>
    BY <2>1 DEF Calling, Scaling, TypesToo, Locations
  <2> QED BY <2>1, <2>2, <1>4
<1>7. CASE EndLoad(t)
  <2>1. Runs(t) /\ loc[t] = "loading" /\ loads' = loads + 1 /\ UNCHANGED <<callback, scaled>>
    BY <1>7 DEF EndLoad
  <2>2. PICK live \in BOOLEAN :
          /\ HookIsLive(live)
          /\ loc' = [loc EXCEPT ![t] = IF live THEN "called" ELSE "outside"]
    BY <1>7 DEF EndLoad
  <2>3. Scaling' = Scaling /\ Calling' = IF live THEN Calling \cup {t} ELSE Calling
    BY <2>1, <2>2 DEF Scaling, Calling, TypesToo
  <2>4. live => code["universal"] \in {"new", "mixed"}
    BY <2>2 DEF HookIsLive
  <2>5. code["universal"] = "new" => live
    BY <2>2 DEF HookIsLive
  <2>6. at \notin Writing
    BY <2>1, <1>3
  <2>7. live => at \in After
    BY <1>1, <1>2, <2>4, <2>6
  <2>8. callback = "ARMED" => live
    <3>1. callback = "ARMED" => at \in After
      BY <1>1, <2>6 DEF CallbackSound
    <3> QED BY <3>1, <2>5 DEF CallbackSound, Chosen
  <2>9. Calling' \cup Scaling' # {} => at \in After /\ code["universal"] \in {"new", "mixed"}
    BY <2>3, <2>4, <2>7 DEF CallbackSound
  <2>10. callback = "ARMED" => Calling' # {}
    BY <2>3, <2>8
  <2> QED BY <1>1, <2>1, <2>3, <2>6, <2>9, <2>10 DEF CallbackSound
<1>8. CASE CallbackEnters(t)
  <2>1. Runs(t) /\ loc[t] = "called" /\ UNCHANGED <<loads, scaled>> /\ t \in Calling
    BY <1>8 DEF CallbackEnters, Calling
  <2>2. at \in After /\ at \notin Unwritten \cup Writing
    BY <1>1, <2>1 DEF CallbackSound
  <2>3. CASE callback = "ARMED"
    <3>1. callback' = "RUNNING" /\ loc' = [loc EXCEPT ![t] = "scaling"]
      BY <1>8, <2>3 DEF CallbackEnters
    <3>2. Scaling = {}
      BY <2>3 DEF CallbackSound
    <3>3. Scaling' = {t} /\ Calling' \subseteq Calling
      BY <3>1, <3>2 DEF Scaling, Calling, TypesToo
    <3> QED BY <1>1, <2>1, <2>2, <2>3, <3>1, <3>3 DEF CallbackSound
  <2>4. CASE callback # "ARMED"
    <3>1. callback' = (IF callback = "UNARMED" THEN "FAILED" ELSE callback)
          /\ loc' = [loc EXCEPT ![t] = "outside"]
      BY <1>8, <2>4 DEF CallbackEnters
    <3>2. Scaling' = Scaling /\ Calling' \subseteq Calling
      BY <2>1, <3>1 DEF Scaling, Calling, TypesToo
    <3> QED BY <1>1, <2>1, <2>2, <2>4, <3>1, <3>2 DEF CallbackSound
  <2> QED BY <2>3, <2>4
<1>9. CASE CallbackReturns(t)
  <2>1. Runs(t) /\ t \in Scaling /\ UNCHANGED loads /\ loc' = [loc EXCEPT ![t] = "outside"]
    BY <1>9 DEF CallbackReturns, Scaling
  <2>2. at \in After /\ at \notin Unwritten \cup Writing /\ callback = "RUNNING" /\ scaled = 0
    BY <1>1, <2>1 DEF CallbackSound
  <2>3. Scaling' = {} /\ Calling' = Calling
    BY <2>1 DEF Scaling, Calling, CallbackSound, TypesToo
  <2>4. \/ callback' = "COMPLETE" /\ scaled' = 1
        \/ callback' = "FAILED" /\ scaled' = 0
    BY <1>9, <2>2 DEF CallbackReturns
  <2> QED BY <1>1, <2>1, <2>2, <2>3, <2>4 DEF CallbackSound
<1> QED BY <1>5, <1>6, <1>7, <1>8, <1>9 DEF Process

LEMMA CallbackKept ==
  ASSUME SInv, [Next]_vars
  PROVE  CallbackSound'
<1> USE DEF SInv
<1>1. After \cap (Unwritten \cup Writing) = {} /\ Unwritten \cap Writing = {"seal", "arm"}
  BY DEF After, Unwritten, Writing, Early, Tests, Applying, Undoing, Stages, Optional
<1>2. CASE Opening
  <2>1. UNCHANGED <<loads, scaled, code, Calling, Scaling>>
    BY <1>2, WorkerKeepsThreads DEF Opening, ProcessAttach, Pin, LockFiles, Configure, Recognise,
       Locate, DefinitionsUntouched, GeneratorUntouched, ManagerUntouched, AllocateProvider,
       AllocateGenerator, ImmediateIsStock, Prepare, ListSpans, Recheck, Test, image, engine,
       threads, Calling, Scaling
  <2>2. at \in Early /\ at' \in Early \cup {"enumerate", "log", "cancel"}
    BY <1>2 DEF Opening, ProcessAttach, Pin, LockFiles, Configure, Recognise, Locate,
       DefinitionsUntouched, GeneratorUntouched, ManagerUntouched, AllocateProvider,
       AllocateGenerator, ImmediateIsStock, Prepare, ListSpans, Recheck, Test, Goto, Report,
       Refused, Early, Tests
  <2>3. callback' = callback \/ callback' = "UNARMED"
    BY <1>2 DEF Opening, ProcessAttach, Pin, LockFiles, Configure, Recognise, Locate,
       DefinitionsUntouched, GeneratorUntouched, ManagerUntouched, AllocateProvider,
       AllocateGenerator, ImmediateIsStock, Prepare, ListSpans, Recheck, Test, engine
  <2>4. status' = status \/ status' # "PATCH_APPLIED"
    BY <1>2 DEF Opening, ProcessAttach, Pin, LockFiles, Configure, Recognise, Locate,
       DefinitionsUntouched, GeneratorUntouched, ManagerUntouched, AllocateProvider,
       AllocateGenerator, ImmediateIsStock, Prepare, ListSpans, Recheck, Test, Goto, Report,
       Refused
  <2>5. at \in Unwritten /\ at' \notin (Writing \ {"seal", "arm"}) \cup {"resume", "extras", "arm"}
    BY <2>2 DEF Unwritten, Early, Tests, Writing, Applying, Undoing, Stages, Optional
  <2>6. callback = "UNARMED" /\ callback' = "UNARMED" /\ Calling \cup Scaling = {}
    BY <1>1, <2>3, <2>5 DEF CallbackSound
  <2>7. status # "PATCH_APPLIED"
    BY <2>2 DEF ReportSound, Early, Tests
  <2> QED BY <2>1, <2>4, <2>5, <2>6, <2>7 DEF CallbackSound
<1>3. CASE Stopping
  <2>1. UNCHANGED <<loads, scaled, code, Calling, Scaling>>
    BY <1>3, WorkerKeepsThreads DEF Stopping, NextThread, EnumerationFails, EndSnapshot, Inspect,
       Seal, Arm, image, engine, threads, Calling, Scaling
  <2>2. at \in {"enumerate", "inspect", "seal", "arm"} /\ at \in Unwritten
        /\ callback = "UNARMED" /\ Calling \cup Scaling = {} /\ status # "PATCH_APPLIED"
    <3>1. at \in {"enumerate", "inspect", "seal", "arm"}
      BY <1>3 DEF Stopping, NextThread, EnumerationFails, EndSnapshot, Inspect, Seal, Arm
    <3> QED BY <1>1, <3>1 DEF Unwritten, CallbackSound, ReportSound
  <2>3. status' = status
        \/ status' \in {"QUIESCENCE_FAILED", "IN_FLIGHT", "CALLBACK_BEFORE_ACTIVATION"}
    BY <1>3 DEF Stopping, NextThread, EnumerationFails, EndSnapshot, Inspect, Seal, Arm,
       BeginFails, ResumeThen, Goto, Unreadable, MistakenReturn, worker
  <2>4. \/ at' \in {"enumerate", "inspect", "seal"} /\ UNCHANGED callback
        \/ at' = "resume" /\ next' \in {"begin_failed", "prewrite_failed"} /\ UNCHANGED callback
        \/ at' = "arm" /\ loads = 0 /\ UNCHANGED callback
        \/ at' = "capacity" /\ at = "arm" /\ callback' = "ARMED"
    BY <1>3, <2>2 DEF Stopping, NextThread, EnumerationFails, EndSnapshot, Inspect, Seal, Arm,
       BeginFails, ResumeThen, Goto, Unreadable, MistakenReturn, worker, engine, Unchanged,
       Untouched
  <2> QED BY <2>1, <2>2, <2>3, <2>4 DEF CallbackSound, Unwritten, Early, Tests, Writing, Applying,
             Undoing, Stages, Optional, After
<1>4. CASE Applies
  <2>1. UNCHANGED <<loads, scaled, callback, Calling, Scaling>>
    BY <1>4, WorkerKeepsThreads DEF Applies, ApplyCapacity, ApplyProvider, ApplyGenerator, Apply,
       CommitUniversal, InstallExtras, engine, threads, Calling, Scaling
  <2>2. /\ at \in {"extras"} \cup Stages /\ status' \in {status, "STAGE_FAILED", "UNIVERSAL_FAILED"}
        /\ \/ at' \in Stages \cup {"undo_generator"}
           \/ at' = "extras" /\ word' = "ACTIVE"
           \/ at = "extras" /\ at' = "resume" /\ next' = "applied" /\ word' = word
    BY <1>4 DEF Applies, ApplyCapacity, ApplyProvider, ApplyGenerator, Apply, CommitUniversal,
       InstallExtras, ResumeThen, Goto, Stages, Optional
  <2>3. at \in Writing \ {"seal", "arm"} /\ at \notin After /\ status # "PATCH_APPLIED"
    BY <2>2 DEF Writing, Applying, After, Stages, Optional, ReportSound
  <2>4. callback = "ARMED" /\ loads = 0 /\ Calling \cup Scaling = {}
    BY <2>3 DEF CallbackSound
  <2>5. at' = "resume" => \A s \in Chosen' : code'[s] = "new"
    BY <2>2, ImageKept DEF ImageSound, AllIn, Stages, Optional
  <2>6. at' \notin Unwritten /\ at' \notin {"log", "cancel", "done"}
    BY <2>2 DEF Unwritten, Early, Tests, Stages, Optional
  <2>7. at = "extras" => word = "ACTIVE"
    BY DEF CallbackSound
  <2> QED BY <2>1, <2>2, <2>3, <2>4, <2>5, <2>6, <2>7 DEF CallbackSound, After, Stages, Optional
<1>5. CASE Undoes
  <2>1. UNCHANGED <<loads, scaled, status, word, Calling, Scaling>>
    BY <1>5, WorkerKeepsThreads DEF Undoes, UndoGenerator, UndoProvider, UndoCapacity, Undo,
       WriteFailure, engine, threads, Calling, Scaling
  <2>2. at \in Undoing /\ \/ at' \in Undoing /\ UNCHANGED callback
                          \/ at' = "resume" /\ callback' = "FAILED" /\ next' # "applied"
    BY <1>5 DEF Undoes, UndoGenerator, UndoProvider, UndoCapacity, Undo, WriteFailure, Undoing,
       engine, ImageSound
  <2>3. at \in Writing \ {"seal", "arm"} /\ at \notin After /\ status # "PATCH_APPLIED"
    BY <2>2 DEF Writing, Undoing, After, ReportSound
  <2>4. callback = "ARMED" /\ loads = 0 /\ Calling \cup Scaling = {} /\ scaled = 0
    BY <2>3 DEF CallbackSound
  <2> QED BY <2>1, <2>2, <2>3, <2>4 DEF CallbackSound, Writing, Applying, Undoing, After,
             Unwritten, Early, Tests, Stages, Optional
<1>6. CASE Ending
  <2>1. UNCHANGED <<loads, scaled, callback, code, Chosen, Calling, Scaling>>
    BY <1>6, WorkerKeepsThreads DEF Ending, ResumeOne, ResumeEnd, Cancel, Log, Goto, Report,
       worker, image, engine, threads, Calling, Scaling, Chosen
  <2>2. at \in After /\ at' \in After /\ at' \notin Unwritten \cup Writing
    BY <1>6 DEF Ending, ResumeOne, ResumeEnd, PlaceAfter, Cancel, Log, Goto, Report, worker,
       After, Unwritten, Writing, Early, Tests, Applying, Undoing, Stages, Optional
  <2>3. CASE \E t \in Threads : ResumeOne(t)
    BY <2>1, <2>2, <2>3 DEF ResumeOne, worker, CallbackSound
  <2>4. CASE ResumeEnd
    <3>1. at = "resume" /\ at' \in {"log", "cancel"} /\ UNCHANGED word
          /\ (next = "applied" => at' = "log")
          /\ (status' = "PATCH_APPLIED" => status = "PATCH_APPLIED" \/ next = "applied")
      BY <2>4 DEF ResumeEnd, StatusAfter, PlaceAfter
    <3> QED BY <2>1, <2>2, <3>1 DEF CallbackSound
  <2>5. CASE Cancel
    <3>1. at = "cancel" /\ at' = "log" /\ status' \in {status, "ROLLBACK_FAILED"}
      BY <2>5 DEF Cancel, Goto, Report
    <3>2. callback \notin {"ARMED", "RUNNING", "COMPLETE"}
      BY <2>2, <3>1 DEF CallbackSound
    <3> QED BY <2>1, <2>2, <3>1, <3>2 DEF CallbackSound
  <2>6. CASE Log
    <3>1. at = "log" /\ at' = "done" /\ UNCHANGED <<word, status>>
      BY <2>6 DEF Log
    <3> QED BY <2>1, <2>2, <3>1 DEF CallbackSound
  <2> QED BY <1>6, <2>3, <2>4, <2>5, <2>6 DEF Ending
<1>7. CASE Mods
  <2>1. UNCHANGED <<at, next, status, word, wanted, loads, scaled, callback, Calling, Scaling>>
    BY <1>7, WorkerKeepsThreads DEF Mods, OtherMod, Alter, worker, engine, threads, Calling,
       Scaling
  <2>2. UNCHANGED code \/ at \in Unwritten
    BY <1>7 DEF Mods, OtherMod, Alter, image, Unwritten, Early
  <2>3. at \in Unwritten => at \notin After
    BY <1>1
  <2> QED BY <2>1, <2>2, <2>3 DEF CallbackSound, Chosen
<1>8. CASE UNCHANGED vars
  BY <1>8 DEF vars, CallbackSound, worker, image, threads, engine, Calling, Scaling, Chosen
<1> QED BY <1>2, <1>3, <1>4, <1>5, <1>6, <1>7, <1>8, StepsInGroups, CallbackKeptByProcess

-----------------------------------------------------------------------------
(***************************************************************************)
(* Types, and the theorems.                                                *)
(***************************************************************************)
\* The three ways in which the enumeration's record is written.
LEMMA SnapshotReset ==
  NoSnapshot \in Snapshots /\ NoSnapshot.passes = 0 /\ NoSnapshot.seen = {}
BY DEF NoSnapshot, Snapshots

LEMMA SnapshotPassed ==
  ASSUME NEW p \in Nat, NEW s \in Nat, NEW r,
         r = [NoSnapshot EXCEPT !.passes = p, !.stable = s]
  PROVE  r \in Snapshots /\ r.passes = p /\ r.seen = {}
<1> DEFINE q == [NoSnapshot EXCEPT !.passes = p]
<1>1. q \in Snapshots /\ q.passes = p /\ q.seen = {}
  BY SnapshotReset DEF Snapshots
<1>2. r = [q EXCEPT !.stable = s]
  OBVIOUS
<1> HIDE DEF q
<1> QED BY <1>1, <1>2 DEF Snapshots

LEMMA SnapshotSeen ==
  ASSUME NEW q \in Snapshots, NEW t \in Threads, NEW r,
         \/ r = [q EXCEPT !.seen = @ \cup {t}]
         \/ r = [q EXCEPT !.seen = @ \cup {t}, !.fresh = TRUE]
  PROVE  r \in Snapshots /\ r.passes = q.passes
<1> DEFINE one == [q EXCEPT !.seen = @ \cup {t}]
<1>1. one \in Snapshots /\ one.passes = q.passes
  BY DEF Snapshots
<1>2. r = one \/ r = [one EXCEPT !.fresh = TRUE]
  OBVIOUS
<1> HIDE DEF one
<1> QED BY <1>1, <1>2 DEF Snapshots

LEMMA TypesKept ==
  ASSUME SInv, [Next]_vars
  PROVE  TypeOK' /\ TypesToo'
<1> USE DEF SInv
<1>1. CASE Opening
  <2> USE DEF TypeOK, TypesToo, Places, Tests, Stages, Optional, Goto, Report, Refused, Locations
  <2>1. CASE ProcessAttach \/ Pin \/ LockFiles \/ Configure \/ Recognise
    <3>1. CASE ProcessAttach
      BY <3>1 DEF ProcessAttach, image, guard, threads, engine, files
    <3>2. CASE Pin
      BY <3>2 DEF Pin, image, guard, threads, engine, files
    <3>3. CASE LockFiles
      BY <3>3 DEF LockFiles, image, guard, threads, engine
    <3>4. CASE Configure
      BY <3>4 DEF Configure, image, guard, threads, engine, files
    <3>5. CASE Recognise
      BY <3>5 DEF Recognise, image, guard, threads, files
    <3> QED BY <2>1, <3>1, <3>2, <3>3, <3>4, <3>5
  <2>2. CASE Locate \/ DefinitionsUntouched \/ GeneratorUntouched \/ ManagerUntouched
             \/ ImmediateIsStock
    BY <2>2 DEF Locate, DefinitionsUntouched, GeneratorUntouched, ManagerUntouched,
       ImmediateIsStock, Test, image, guard, threads, engine, files
  <2>3. CASE AllocateProvider \/ AllocateGenerator
    BY <2>3 DEF AllocateProvider, AllocateGenerator, image, guard, threads, engine, files
  <2>4. CASE Prepare \/ ListSpans
    BY <2>4 DEF Prepare, ListSpans, image, guard, threads, engine, files
  <2>5. CASE Recheck
    <3>1. /\ snapshot' \in Snapshots /\ snapshot'.passes \in 0 .. MaxSnapshots
          /\ snapshot'.seen \subseteq Threads
      BY <2>5, SnapshotReset, StartupAssumption DEF Recheck, guard
    <3> QED BY <2>5, <3>1 DEF Recheck, image, guard, threads, engine, files
  <2> QED BY <1>1, <2>1, <2>2, <2>3, <2>4, <2>5 DEF Opening
<1>2. CASE Stopping
  <2> USE DEF TypeOK, TypesToo, Places, Tests, Stages, Optional, Goto
  <2>1. ASSUME NEW t \in Threads, NextThread(t) PROVE TypeOK' /\ TypesToo'
    <3>1. snapshot' \in Snapshots /\ snapshot'.passes = snapshot.passes
      BY <2>1, SnapshotSeen DEF NextThread, Adopt
    <3>2. snapshot'.seen \subseteq Threads
      BY <3>1 DEF Snapshots
    <3>3. held' \subseteq Threads /\ stuck' \subseteq held'
      BY <2>1 DEF NextThread, Adopt
    <3> QED BY <2>1, <3>1, <3>2, <3>3 DEF NextThread, worker, image, threads, engine, files
  <2>2. CASE EnumerationFails
    BY <2>2, SnapshotReset, StartupAssumption DEF EnumerationFails, BeginFails, ResumeThen, image,
       threads, engine, files
  <2>3. CASE EndSnapshot
    <3>1. snapshot' = NoSnapshot
          \/ \E p \in 0 .. MaxSnapshots, s \in Nat :
               snapshot' = [NoSnapshot EXCEPT !.passes = p, !.stable = s]
      <4>1. StableAfter(snapshot) \in Nat
        BY DEF StableAfter, Snapshots
      <4>2. snapshot.passes + 1 < MaxSnapshots => snapshot.passes + 1 \in 0 .. MaxSnapshots
        BY StartupAssumption
      <4> QED BY <2>3, <4>1, <4>2 DEF EndSnapshot
    <3>2. /\ snapshot' \in Snapshots /\ snapshot'.passes \in 0 .. MaxSnapshots
          /\ snapshot'.seen \subseteq Threads
      <4>1. CASE snapshot' = NoSnapshot
        BY <4>1, SnapshotReset, StartupAssumption
      <4>2. ASSUME NEW p \in 0 .. MaxSnapshots, NEW s \in Nat,
                   snapshot' = [NoSnapshot EXCEPT !.passes = p, !.stable = s]
            PROVE  /\ snapshot' \in Snapshots /\ snapshot'.passes \in 0 .. MaxSnapshots
                   /\ snapshot'.seen \subseteq Threads
        <5>1. p \in Nat
          BY StartupAssumption
        <5>2. snapshot' \in Snapshots /\ snapshot'.passes = p /\ snapshot'.seen = {}
          BY <4>2, <5>1, SnapshotPassed
        <5> QED BY <5>2
      <4> QED BY <3>1, <4>1, <4>2
    <3>3. at' \in {"inspect", "enumerate", "resume"} /\ next' \in {next, "begin_failed"}
          /\ UNCHANGED <<worker_state, wanted>>
      BY <2>3 DEF EndSnapshot, BeginFails, ResumeThen
    <3> QED BY <2>3, <3>2, <3>3 DEF EndSnapshot, image, threads, engine, files
  <2>4. CASE Inspect
    BY <2>4 DEF Inspect, BeginFails, ResumeThen, Unreadable, MistakenReturn, image, guard,
       threads, engine, files
  <2>5. CASE Seal \/ Arm
    BY <2>5 DEF Seal, Arm, ResumeThen, image, guard, threads, engine, files
  <2> QED BY <1>2, <2>1, <2>2, <2>3, <2>4, <2>5 DEF Stopping
<1>3. CASE Applies \/ Undoes
  <2>1. /\ code' \in [Stages -> {"old", "new", "mixed", "foreign"}]
        /\ closed' \in [Stages -> BOOLEAN] /\ dirty' \in [Stages -> BOOLEAN]
    <3>1. CASE UNCHANGED image
      BY <3>1 DEF image, TypeOK
    <3>2. ASSUME NEW s \in Stages, NEW o, Take(s, o),
                 o.code \in {"old", "new", "mixed", "foreign"},
                 o.closed \in BOOLEAN, o.dirty \in BOOLEAN
          PROVE  /\ code' \in [Stages -> {"old", "new", "mixed", "foreign"}]
                 /\ closed' \in [Stages -> BOOLEAN] /\ dirty' \in [Stages -> BOOLEAN]
      BY <3>2 DEF Take, TypeOK
    <3>3. ASSUME NEW s \in Optional, NEW then, Apply(s, then)
          PROVE  /\ code' \in [Stages -> {"old", "new", "mixed", "foreign"}]
                 /\ closed' \in [Stages -> BOOLEAN] /\ dirty' \in [Stages -> BOOLEAN]
      <4>1. CASE s \notin wanted
        BY <3>1, <3>3, <4>1 DEF Apply
      <4>2. CASE s \in wanted
        <5>1. code[s] = "old" /\ closed[s] = TRUE /\ dirty[s] = FALSE /\ s \in Stages
          BY <3>3, <4>2 DEF Apply, ImageSound, Applying, Stages, Optional, Written, Chosen, TypeOK
        <5>2. PICK o \in ApplyOutcomes(s) : Take(s, o)
          BY <3>3, <4>2 DEF Apply
        <5> HIDE DEF SInv
        <5> QED BY <5>1, <5>2, <3>2, ApplySound
      <4> QED BY <4>1, <4>2
    <3>4. ASSUME NEW s \in Optional, NEW place, NEW then, Undo(s, place, then)
          PROVE  /\ code' \in [Stages -> {"old", "new", "mixed", "foreign"}]
                 /\ closed' \in [Stages -> BOOLEAN] /\ dirty' \in [Stages -> BOOLEAN]
      <4>1. PICK o \in UndoOutcomes(s) : Take(s, o)
        BY <3>4 DEF Undo
      <4>2. /\ s \in Stages /\ code[s] \in {"old", "new", "mixed", "foreign"}
            /\ closed[s] \in BOOLEAN /\ dirty[s] \in BOOLEAN
            /\ dirty[s] = FALSE => closed[s] = TRUE /\ code[s] # "mixed"
        BY DEF TypeOK, ImageSound, Stages
      <4> HIDE DEF SInv
      <4> QED BY <4>1, <4>2, <3>2, UndoSound
    <3>5. CASE CommitUniversal
      <4>1. PICK c \in {"old", "mixed", "new"}, p \in BOOLEAN, ok \in BOOLEAN :
              Take("universal", Outcome(c, p, FALSE, ok))
        BY <3>5 DEF CommitUniversal
      <4>2. /\ Outcome(c, p, FALSE, ok).code = c /\ Outcome(c, p, FALSE, ok).closed = p
            /\ Outcome(c, p, FALSE, ok).dirty = FALSE
        BY DEF Outcome
      <4> QED BY <4>1, <4>2, <3>2 DEF Stages
    <3> QED BY <1>3, <3>1, <3>3, <3>4, <3>5 DEF Applies, ApplyCapacity, ApplyProvider,
               ApplyGenerator, InstallExtras, Undoes, UndoGenerator, UndoProvider, UndoCapacity,
               WriteFailure, Optional
  <2>2. /\ at' \in Applying \cup Undoing \cup {"resume"} /\ UNCHANGED <<worker_state, wanted>>
        /\ UNCHANGED <<storage, guard, threads, loads, scaled, files>>
        /\ callback' \in {callback, "FAILED"}
    BY <1>3 DEF Applies, ApplyCapacity, ApplyProvider, ApplyGenerator, Apply, CommitUniversal,
       InstallExtras, Undoes, UndoGenerator, UndoProvider, UndoCapacity, Undo, WriteFailure,
       ResumeThen, Goto, Applying, Undoing, Stages, Optional, engine
  <2>3. next' \in {next, "restored", "retained", "applied"}
    BY <1>3 DEF Applies, ApplyCapacity, ApplyProvider, ApplyGenerator, Apply, CommitUniversal,
       InstallExtras, Undoes, UndoGenerator, UndoProvider, UndoCapacity, Undo, WriteFailure,
       ResumeThen, Goto
  <2> QED BY <2>1, <2>2, <2>3 DEF TypeOK, TypesToo, guard, threads, files, Places, Applying,
             Undoing, Stages, Optional
<1>4. CASE Ending
  <2> USE DEF TypeOK, TypesToo, Places, Goto, Report
  <2>1. ASSUME NEW t \in Threads, ResumeOne(t) PROVE TypeOK' /\ TypesToo'
    BY <2>1 DEF ResumeOne, worker, image, threads, engine, files
  <2>2. CASE ResumeEnd
    BY <2>2 DEF ResumeEnd, PlaceAfter, image, threads, engine, files
  <2>3. CASE Cancel
    BY <2>3 DEF Cancel, image, guard, threads, engine, files
  <2>4. CASE Log
    BY <2>4 DEF Log, image, guard, threads, engine
  <2> QED BY <1>4, <2>1, <2>2, <2>3, <2>4 DEF Ending
<1>5. ASSUME NEW t \in Threads, Process(t) PROVE TypeOK' /\ TypesToo'
  <2>1. UNCHANGED <<worker, image, storage, guard, files>>
    BY <1>5, ProcessKeeps
  <2>2. /\ life' \in [Threads -> {"unborn", "attaching", "running", "gone"}]
        /\ loc' \in [Threads -> Locations]
    BY <1>5 DEF Process, Create, AttachDone, Ends, Wander, Heap, Moves, BeginLoad, EndLoad,
       CallbackEnters, CallbackReturns, TypeOK, TypesToo, Locations
  <2>3. /\ callback' \in {"UNARMED", "ARMED", "RUNNING", "COMPLETE", "FAILED"}
        /\ scaled' \in Nat
    BY <1>5 DEF Process, Create, AttachDone, Ends, Wander, Heap, Moves, BeginLoad, EndLoad,
       CallbackEnters, CallbackReturns, TypeOK, TypesToo, engine
  <2>4. loads' \in 0 .. MaxLoads
    <3>1. CASE EndLoad(t)
      <4>1. loads' = loads + 1 /\ loads < MaxLoads
        BY <3>1 DEF EndLoad, ThreadsSound
      <4> QED BY <4>1, StartupAssumption DEF TypeOK
    <3>2. CASE UNCHANGED loads
      BY <3>2 DEF TypeOK
    <3> QED BY <1>5, <3>1, <3>2 DEF Process, Create, AttachDone, Ends, Wander, Heap, Moves,
               BeginLoad, CallbackEnters, CallbackReturns, engine
  <2> QED BY <2>1, <2>2, <2>3, <2>4 DEF worker, image, guard, files, TypeOK, TypesToo
<1>6. CASE Mods
  <2>1. ASSUME NEW s \in Stages, OtherMod(s) PROVE TypeOK' /\ TypesToo'
    BY <2>1 DEF OtherMod, TypeOK, TypesToo, worker, guard, threads, engine, files
  <2>2. ASSUME NEW f \in Files, Alter(f) PROVE TypeOK' /\ TypesToo'
    BY <2>2 DEF Alter, TypeOK, TypesToo, worker, image, guard, threads, engine
  <2> QED BY <1>6, <2>1, <2>2 DEF Mods
<1>7. CASE UNCHANGED vars
  BY <1>7 DEF vars, TypeOK, TypesToo, worker, image, guard, threads, engine, files
<1> QED BY <1>1, <1>2, <1>3, <1>4, <1>5, <1>6, <1>7, StepsInGroups

LEMMA InitSound ==
  ASSUME Init
  PROVE  SInv
<1> USE DEF Init, Stages, Optional
<1>1. TypeOK /\ TypesToo
  <2>1. snapshot \in Snapshots /\ snapshot.passes \in 0 .. MaxSnapshots
        /\ snapshot.seen \subseteq Threads
    BY SnapshotReset, StartupAssumption
  <2> QED BY <2>1, StartupAssumption DEF TypeOK, TypesToo, Places, Locations
<1>2. ThreadsSound /\ GuardSound
  BY DEF ThreadsSound, GuardSound, Writing, Applying, Undoing
<1>3. ImageSound
  BY DEF ImageSound, AllIntact, Intact, Writing, Applying, Undoing
<1>4. ReportSound /\ StorageSound
  BY DEF ReportSound, StorageSound, Writing, Applying, Undoing
<1>5. CallbackSound
  <2>1. Calling = {} /\ Scaling = {}
    BY DEF Calling, Scaling
  <2> QED BY <2>1 DEF CallbackSound, Writing, Applying, Undoing, After
<1> QED BY <1>1, <1>2, <1>3, <1>4, <1>5 DEF SInv

\* The inductive invariant: what run_patch and startup_quiescence_begin rely on
\* at every one of their places, whatever failed before.
THEOREM StartupSound == Spec => []SInv
<1>1. SInv /\ [Next]_vars => SInv'
  BY TypesKept, ThreadsKept, GuardKept, ImageKept, ReportKept, StorageKept, CallbackKept
  DEF SInv
<1> QED BY <1>1, InitSound, PTL DEF Spec

\* No code site leads to storage or to stubs that were freed, and no thread is
\* in a stub that was: releases follow a rollback that was complete, and the
\* engine reaches the hooks only once the worker has let it go.
THEOREM NothingFreed == Spec => []StartupInv
<1>1. SInv => StartupInv
  <2> SUFFICES ASSUME SInv PROVE StartupInv
    OBVIOUS
  <2>1. (\E t \in Threads : loc[t] \in {"called", "scaling"}) => Calling \cup Scaling # {}
    BY DEF Calling, Scaling
  <2> QED BY <2>1 DEF SInv, StartupInv, NothingFreedIsReached, StorageSound, CallbackSound, Stages
<1> QED BY <1>1, StartupSound, PTL

\* The published status tells what the image shows.
THEOREM StatusHonest == Spec => []StatusIsHonest
<1>1. SInv => StatusIsHonest
  BY DEF SInv, StatusIsHonest, ReportSound, AllIntact, AllIn
<1> QED BY <1>1, StartupSound, PTL

\* The definitions are scaled at most once, by an installation that is whole.
THEOREM ScaledOnce == Spec => []ScaledByWholeInstall
<1>1. SInv => ScaledByWholeInstall
  <2> SUFFICES ASSUME SInv PROVE ScaledByWholeInstall
    OBVIOUS
  <2>1. scaled <= 1 /\ (scaled = 1 => callback = "COMPLETE")
    BY DEF SInv, CallbackSound
  <2>2. callback = "COMPLETE" => at \in After
    BY DEF SInv, CallbackSound, TypeOK, Places, After, Unwritten, Early, Tests, Writing, Applying,
       Undoing, Stages, Optional
  <2>3. scaled = 1 => word = "ACTIVE" /\ \A s \in Chosen : code[s] = "new"
    BY <2>1, <2>2 DEF SInv, CallbackSound
  <2>4. ASSUME status = "PATCH_APPLIED", loads > 0,
               \A t \in Threads : loc[t] \notin {"called", "scaling"}
        PROVE  callback \in {"COMPLETE", "FAILED"}
    <3>1. Calling = {} /\ Scaling = {}
      BY <2>4 DEF Calling, Scaling
    <3>2. callback \notin {"UNARMED", "ARMED", "RUNNING"}
      BY <2>4, <3>1 DEF SInv, CallbackSound
    <3> QED BY <3>2 DEF SInv, TypesToo
  <2> QED BY <2>1, <2>3, <2>4 DEF ScaledByWholeInstall
<1> QED BY <1>1, StartupSound, PTL

\* Code is written, and written back, only while every other thread is stopped
\* outside of it, and never over what another mod put there: the guard is what
\* the closed gate and the stable snapshots have shown.
THEOREM WrittenAlone == Spec => WritesAlone
<1> DEFINE Alone == \A s \in Stages : code'[s] # code[s] /\ code'[s] # "foreign" =>
                      WorldStopped /\ code[s] # "foreign"
<1>1. ASSUME SInv, [Next]_vars PROVE Alone
  <2> USE <1>1 DEF SInv
  <2>1. at \in Writing => WorldStopped
    <3> SUFFICES ASSUME at \in Writing, NEW t \in Threads
                 PROVE  /\ life[t] = "running" => t \in held
                        /\ Alive(t) => ~ExecutesUnsafe(t) /\ ~ReturnsUnsafe(t)
      BY DEF WorldStopped
    <3>1. life[t] = "running" => t \in held
      BY DEF GuardSound
    <3>2. t \in held /\ Alive(t) => ~ExecutesUnsafe(t) /\ ~ReturnsUnsafe(t)
      BY DEF GuardSound
    <3>3. life[t] # "running" => ~ExecutesUnsafe(t) /\ ~ReturnsUnsafe(t)
      BY DEF ThreadsSound, ExecutesUnsafe, ReturnsUnsafe
    <3> QED BY <3>1, <3>2, <3>3
  <2>2. CASE Applies \/ Undoes
    <3>1. at \in Writing
      BY <2>2 DEF Applies, ApplyCapacity, ApplyProvider, ApplyGenerator, Apply, CommitUniversal,
         InstallExtras, Undoes, UndoGenerator, UndoProvider, UndoCapacity, Undo, WriteFailure,
         Writing, Applying, Undoing, Stages, Optional
    <3>2. at \in Applying \cup Undoing
      BY <3>1, <2>2 DEF Writing, Applies, Undoes, ApplyCapacity, ApplyProvider, ApplyGenerator,
         Apply, CommitUniversal, InstallExtras, UndoGenerator, UndoProvider, UndoCapacity, Undo,
         WriteFailure
    <3>3. \A s \in Chosen : code[s] # "foreign"
      BY <3>2 DEF ImageSound
    <3> QED BY <2>1, <2>2, <3>1, <3>3, OnlyChosen
  <2>3. CASE Mods
    <3>1. ASSUME NEW f \in Files, Alter(f) PROVE Alone
      BY <3>1 DEF Alter, image
    <3>2. ASSUME NEW r \in Stages, OtherMod(r) PROVE Alone
      BY <3>2 DEF OtherMod, TypeOK
    <3> QED BY <2>3, <3>1, <3>2 DEF Mods
  <2>4. CASE Opening \/ Stopping \/ Ending
    <3>1. UNCHANGED code
      BY <2>4 DEF Opening, ProcessAttach, Pin, LockFiles, Configure, Recognise, Locate,
         DefinitionsUntouched, GeneratorUntouched, ManagerUntouched, AllocateProvider,
         AllocateGenerator, ImmediateIsStock, Prepare, ListSpans, Recheck, Test, Stopping,
         NextThread, EnumerationFails, EndSnapshot, Inspect, Seal, Arm, Ending, ResumeOne,
         ResumeEnd, Cancel, Log, image
    <3> QED BY <3>1
  <2>5. CASE UNCHANGED vars \/ \E t \in Threads : Process(t)
    <3>1. UNCHANGED code
      BY <2>5, ProcessKeeps DEF vars, image
    <3> QED BY <3>1
  <2> QED BY <1>1, <2>2, <2>3, <2>4, <2>5, StepsInGroups
<1>2. SInv /\ [Next]_vars => [Alone]_vars
  BY <1>1
<1> QED BY <1>2, StartupSound, PTL DEF Spec, WritesAlone

=============================================================================
