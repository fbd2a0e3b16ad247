--------------------------- MODULE StartupInstall ---------------------------
(***************************************************************************)
(* The installation at startup: the worker thread that DllMain starts      *)
(* validates the executable, allocates, stops every other thread of the    *)
(* process, proves that none of them is inside what it will change, writes *)
(* four groups of code sites, lets the threads go, or undoes all of it.    *)
(* The game's threads come and go meanwhile, load definitions and run into *)
(* the hooks once those are there; another mod may patch the same sites.   *)
(*                                                                         *)
(* One attempt to write or to restore a group of sites is a step; what its *)
(* system calls may leave is a set of outcomes.  Nobody else runs between  *)
(* two system calls of such an attempt: the world is stopped, which is     *)
(* what WritesAlone is about.                                              *)
(***************************************************************************)
EXTENDS Integers, FiniteSets, TLC

CONSTANTS
  Threads,         \* the other threads of the process, born or not
  FirstThreads,    \* those that are there when the library is loaded
  Files,           \* the library, its settings, the executable
  Requests,        \* the sets of optional stages a configuration may ask for
  StableSnapshots, \* GU_STARTUP_STABLE_SNAPSHOTS
  MaxSnapshots,    \* GU_STARTUP_MAX_SNAPSHOT_PASSES
  MaxLoads         \* bound: how often the engine loads the definitions

\* The places at which run_patch tests and allocates.
Tests ==
  {"identify", "configure", "recognise", "locate", "unloaded", "records", "manager",
   "alloc_provider", "alloc_generator", "immediate", "prepare", "list", "recheck"}

Optional == {"capacity", "provider", "generator"}
Stages == Optional \cup {"universal"}

ASSUME StartupAssumption ==
  /\ FirstThreads \subseteq Threads
  /\ Requests \subseteq SUBSET Optional
  /\ StableSnapshots \in Nat \ {0}
  /\ MaxSnapshots \in Nat /\ MaxSnapshots >= StableSnapshots
  /\ MaxLoads \in Nat

VARIABLES
  at,          \* where the worker is
  next,        \* what it does once the threads are resumed
  status,      \* g_report.status
  worker_state,\* g_startup_worker_state
  wanted,      \* the optional stages this configuration needs
  code,        \* per stage: old, new, mixed, or another mod's (foreign)
  closed,      \* per stage: its pages have their own protection
  dirty,       \* per stage: g_..._patch_transaction_dirty
  storage,     \* stages whose storage or stubs are allocated
  word,        \* g_gu_install_lifecycle_state
  gate,        \* g_startup_patch_thread_attach_gate
  snapshot,    \* the enumeration: passes, stable passes, seen, anything new
  held,        \* startup_guard: the threads it suspended
  stuck,       \* those of them that could not be resumed
  life,        \* per thread: unborn, attaching, running, gone
  loc,         \* per thread: where it executes
  loads,       \* how often the definitions were loaded
  callback,    \* g_definition_callback_state
  scaled,      \* how often the definitions were scaled
  locked,      \* files whose identity is held: opened for shared reading only
  altered      \* files that are no longer what was hashed, or where it was

worker  == <<at, next, status, worker_state, wanted>>
image   == <<code, closed, dirty>>
guard   == <<gate, snapshot, held, stuck>>
threads == <<life, loc>>
engine  == <<loads, callback, scaled>>
files   == <<locked, altered>>
vars == <<worker, image, storage, word, guard, threads, engine, files>>

Chosen == wanted \cup {"universal"}
Alive(t) == life[t] \in {"attaching", "running"}
Runs(t) == life[t] = "running" /\ t \notin held

\* Executing in a span, or in the loader that is a guarded interval; or in a
\* call made from a span, with the return address on the stack.
ExecutesUnsafe(t) == loc[t] \in {"code", "loading"}
ReturnsUnsafe(t) == loc[t] = "below"

NoSnapshot == [passes |-> 0, stable |-> 0, seen |-> {}, fresh |-> FALSE]

Init ==
  /\ at = "unborn" /\ next = "none" /\ status = "NONE" /\ worker_state = 0
  /\ wanted = {}
  /\ code = [s \in Stages |-> "old"]
  /\ closed = [s \in Stages |-> TRUE]
  /\ dirty = [s \in Stages |-> FALSE]
  /\ storage = {} /\ word = "IDLE"
  /\ gate = 0 /\ snapshot = NoSnapshot /\ held = {} /\ stuck = {}
  /\ life = [t \in Threads |-> IF t \in FirstThreads THEN "running" ELSE "unborn"]
  /\ loc = [t \in Threads |-> "outside"]
  /\ loads = 0 /\ callback = "UNARMED" /\ scaled = 0
  /\ locked = {} /\ altered = {}

Goto(place) == at' = place /\ UNCHANGED <<next, status, worker_state, wanted>>
Report(place, s) ==
  /\ at' = place /\ status' = s
  /\ UNCHANGED <<next, worker_state, wanted>>

-----------------------------------------------------------------------------
(***************************************************************************)
(* The worker, up to the point where it stops the others.                  *)
(***************************************************************************)
\* DllMain, DLL_PROCESS_ATTACH
ProcessAttach ==
  /\ at = "unborn"
  /\ \/ at' = "pin" /\ worker_state' = 1
     \/ at' = "never" /\ worker_state' = 0     \* CreateThread failed
  /\ UNCHANGED <<next, status, wanted, image, storage, word, guard, threads,
                 engine, files>>

\* startup_worker_main: the module is pinned before anything is patched.
Pin ==
  /\ at = "pin"
  /\ worker_state' = 2
  /\ \/ at' = "identify" /\ UNCHANGED status
     \/ at' = "log" /\ status' = "WORKER_PIN_FAILED"
  /\ UNCHANGED <<next, wanted, image, storage, word, guard, threads, engine, files>>

\* One of run_patch's tests, or a run of them with one thing in common: the
\* first that does not hold ends the installation with a status of its own.
Refused == Report("log", "REFUSED")
Test(place, then, condition) ==
  /\ at = place
  /\ \/ condition /\ Goto(then)
     \/ Refused
  /\ UNCHANGED <<image, storage, word, guard, threads, engine, files>>

\* acquire_locked_file_identity for each: opened so that nobody else may write
\* it or take its name away, and hashed between two equal snapshots.
LockFiles ==
  /\ at = "identify"
  /\ \/ Goto("configure") /\ locked' = Files
     \/ Refused /\ locked' \in SUBSET Files
  /\ UNCHANGED <<image, storage, word, guard, threads, engine, altered>>

\* Every setting must parse and be in range; automatic capacities follow from
\* the multipliers; what differs from the game's own is wanted.
Configure ==
  /\ at = "configure"
  /\ \/ /\ wanted' \in Requests
        /\ at' = "recognise" /\ UNCHANGED <<next, status, worker_state>>
     \/ Refused
  /\ UNCHANGED <<image, storage, word, guard, threads, engine, files>>

\* The loaded image is the registered executable with its call contract; the
\* handshake starts anew.
Recognise ==
  /\ at = "recognise"
  /\ \/ callback' = "UNARMED" /\ Goto("locate")
     \/ callback' \in {callback, "UNARMED"} /\ Refused
  /\ UNCHANGED <<image, storage, word, guard, threads, loads, scaled, files>>

\* The signature is there once, and what is to be read later lies in the image.
Locate == Test("locate", "unloaded", TRUE)

\* startup_bytes_are_zero, definition_catalog_is_unloaded
Untouched == loads = 0

\* The definition manager is zero, its catalogue unloaded.
DefinitionsUntouched == Test("unloaded", "records", Untouched)

\* All the generator's sites are looked at, wanted or not; its manager is zero.
GeneratorUntouched == Test("records", "manager", code["generator"] = "old")

\* No buffer of the surface manager is there, nor anything else in it.
ManagerUntouched == Test("manager", "alloc_provider", Untouched)

\* Mutant of AllocateProvider: whether the storage is there is not looked at.
AllocateProviderUnseen ==
  /\ at = "alloc_provider"
  /\ Goto("alloc_generator")
  /\ storage' \in {storage, storage \cup (wanted \cap {"provider"})}
  /\ UNCHANGED <<image, word, guard, threads, engine, files>>

\* Storage, then the stub, then a look at the sites: the storage is given back
\* when one of the latter fails, and kept when it does not verify.
AllocateProvider ==
  /\ at = "alloc_provider"
  /\ \/ /\ "provider" \notin wanted
        /\ Goto("alloc_generator") /\ UNCHANGED storage
     \/ /\ "provider" \in wanted /\ code["provider"] = "old"
        /\ Goto("alloc_generator") /\ storage' = storage \cup {"provider"}
     \/ /\ "provider" \in wanted
        /\ Refused /\ storage' \in {storage, storage \cup {"provider"}}
  /\ UNCHANGED <<image, word, guard, threads, engine, files>>

\* A refusal leaves the provider's storage where it is.
AllocateGenerator ==
  /\ at = "alloc_generator"
  /\ \/ Goto("immediate") /\ storage' = storage \cup (wanted \cap {"generator"})
     \/ "generator" \in wanted /\ Refused /\ UNCHANGED storage
  /\ UNCHANGED <<image, word, guard, threads, engine, files>>

\* The immediate of the capacity is the game's own, wanted or not.
ImmediateIsStock == Test("immediate", "prepare", code["capacity"] = "old")

\* gu_universal_prepare compares the bytes of all its sites; when it fails the
\* allocations above are released.
Prepare ==
  /\ at = "prepare"
  /\ \/ /\ code["universal"] = "old" /\ Goto("list")
        /\ word' = "PREPARING" /\ storage' = storage \cup {"universal"}
     \/ /\ word' = "IDLE" /\ storage' = {} /\ Report("log", "UNIVERSAL_FAILED")
     \/ /\ word' = "FAILED_DIRTY" /\ storage' = {"universal"}
        /\ Report("log", "ROLLBACK_FAILED")
  /\ UNCHANGED <<image, guard, threads, engine, files>>

\* The spans of the wanted groups, at most so many, disjoint, in the image.
ListSpans ==
  /\ at = "list"
  /\ Goto("recheck") \/ Report("cancel", "QUIESCENCE_FAILED")
  /\ UNCHANGED <<image, storage, word, guard, threads, engine, files>>

\* revalidate_startup_file_identities: handle, contents and the file that is
\* now found under the path are those that were locked.
Revalidated == locked = Files /\ altered = {}

\* The files once more, the catalogue once more; the attach gate is closed.
Recheck ==
  /\ at = "recheck"
  /\ \/ Report("cancel", "REFUSED") /\ UNCHANGED guard
     \/ /\ Revalidated /\ Untouched
        /\ Goto("enumerate")
        /\ gate' = 1 /\ snapshot' = NoSnapshot /\ UNCHANGED <<held, stuck>>
  /\ UNCHANGED <<image, storage, word, threads, engine, files>>

-----------------------------------------------------------------------------
(***************************************************************************)
(* startup_quiescence_begin: snapshots of the process's threads until two  *)
(* in a row show nobody new; each thread is suspended when first seen.     *)
(***************************************************************************)
ResumeThen(what) == at' = "resume" /\ next' = what /\ UNCHANGED <<worker_state, wanted>>
BeginFails(statuses) == ResumeThen("begin_failed") /\ status' \in statuses

\* A thread whose id is not yet held is suspended and its handle kept.
Adopt(t) ==
  /\ held' = held \cup {t}
  /\ snapshot' = [snapshot EXCEPT !.seen = @ \cup {t}, !.fresh = TRUE]

NextThread(t) ==
  /\ at = "enumerate"
  /\ Alive(t) /\ t \notin snapshot.seen
  /\ IF t \in held
       THEN snapshot' = [snapshot EXCEPT !.seen = @ \cup {t}] /\ UNCHANGED held
       ELSE Adopt(t)
  /\ UNCHANGED <<worker, image, storage, word, gate, stuck, threads, engine, files>>

\* A query, a wait or a suspension fails, or the handles do not suffice.
EnumerationFails ==
  /\ at = "enumerate"
  /\ BeginFails({"QUIESCENCE_FAILED"}) /\ snapshot' = NoSnapshot
  /\ UNCHANGED <<image, storage, word, gate, held, stuck, threads, engine, files>>

StableAfter(s) == IF s.fresh THEN 0 ELSE s.stable + 1

\* NtGetNextThread has no more entries.
EndSnapshot ==
  /\ at = "enumerate"
  /\ \A t \in Threads : Alive(t) => t \in snapshot.seen
  /\ LET stable == StableAfter(snapshot)
         passes == snapshot.passes + 1
     IN \/ /\ stable >= StableSnapshots
           /\ Goto("inspect") /\ snapshot' = NoSnapshot
        \/ /\ stable < StableSnapshots /\ passes < MaxSnapshots
           /\ Goto("enumerate")
           /\ snapshot' = [NoSnapshot EXCEPT !.passes = passes, !.stable = stable]
        \/ /\ stable < StableSnapshots /\ passes = MaxSnapshots
           /\ BeginFails({"QUIESCENCE_FAILED"}) /\ snapshot' = NoSnapshot
  /\ UNCHANGED <<image, storage, word, gate, held, stuck, threads, engine, files>>

\* Mutant of Clear: the stacks are not scanned.
ClearEip == \A t \in held : Alive(t) => ~ExecutesUnsafe(t)

\* No suspended thread executes in a span or a guarded interval, or has a return
\* address into one on its stack; a thread that ended is skipped.
Clear == \A t \in held : Alive(t) => ~ExecutesUnsafe(t) /\ ~ReturnsUnsafe(t)

\* A guarded interval differs, or a context or a stack cannot be read.
Unreadable == BeginFails({"QUIESCENCE_FAILED", "IN_FLIGHT"})

\* A word on a stack counts as a return address when the bytes in front of that
\* address decode as a call into a span, whatever the word really is.
MistakenReturn == (\E t \in held : Alive(t)) /\ BeginFails({"IN_FLIGHT"})

Inspect ==
  /\ at = "inspect"
  /\ \/ Clear /\ Goto("seal")
     \/ ~Clear /\ BeginFails({"IN_FLIGHT"})
     \/ Unreadable \/ MistakenReturn
  /\ UNCHANGED <<image, storage, word, guard, threads, engine, files>>

\* Every span still has the bytes it was validated with, the managers are
\* still zero, nothing is loaded.
Unchanged == Untouched /\ \A s \in Chosen : code[s] = "old"

Seal ==
  /\ at = "seal"
  /\ \/ Unchanged /\ Goto("arm")
     \/ ResumeThen("prewrite_failed") /\ status' \in {"QUIESCENCE_FAILED", "IN_FLIGHT"}
  /\ UNCHANGED <<image, storage, word, guard, threads, engine, files>>

Arm ==
  /\ at = "arm"
  /\ IF callback = "UNARMED"
       THEN callback' = "ARMED" /\ Goto("capacity")
       ELSE /\ ResumeThen("prewrite_failed") /\ status' = "CALLBACK_BEFORE_ACTIVATION"
            /\ UNCHANGED callback
  /\ UNCHANGED <<image, storage, word, guard, threads, loads, scaled, files>>

-----------------------------------------------------------------------------
(***************************************************************************)
(* Writing.  VirtualProtect, the write, the read back, the flush of the    *)
(* instruction cache and the return of the protection may each fail.       *)
(***************************************************************************)
Outcome(c, p, d, ok) == [code |-> c, closed |-> p, dirty |-> d, ok |-> ok]
AsItWas(s) == Outcome(code[s], closed[s], dirty[s], FALSE)

\* rollback_..._transaction_writable with the protection it is to restore
Reverted(protection) ==
  {Outcome("old", protection, FALSE, TRUE)}
  \cup [code : {"old", "mixed"}, closed : BOOLEAN, dirty : {TRUE}, ok : {FALSE}]

\* One call opens the span of the whole group, and when it fails nothing is
\* written; after that the group is new and closed, or reverted.
ApplyOutcomes(s) ==
  {AsItWas(s), Outcome("new", TRUE, FALSE, TRUE)}
  \cup {[o EXCEPT !.ok = FALSE] : o \in Reverted(TRUE)}

\* Mutant of TargetProtection: whatever the page has at the moment.
ObservedProtection(s) == closed[s]

\* A dirty transaction remembers the protection its pages had.
TargetProtection(s) == IF dirty[s] THEN TRUE ELSE closed[s]

\* rollback_..._after_downstream_failure
UndoOutcomes(s) ==
  IF code[s] # "new" /\ ~dirty[s] THEN {[AsItWas(s) EXCEPT !.ok = TRUE]}
  ELSE {AsItWas(s)} \cup Reverted(TargetProtection(s))

Take(s, o) ==
  /\ code' = [code EXCEPT ![s] = o.code]
  /\ closed' = [closed EXCEPT ![s] = o.closed]
  /\ dirty' = [dirty EXCEPT ![s] = o.dirty]

Apply(s, then) ==
  /\ at = s
  /\ IF s \notin wanted THEN Goto(then) /\ UNCHANGED image
     ELSE \E o \in ApplyOutcomes(s) :
            /\ Take(s, o)
            /\ IF o.ok THEN Goto(then)
               ELSE /\ at' = "undo_generator" /\ status' = "STAGE_FAILED"
                    /\ next' = "restored" /\ UNCHANGED <<worker_state, wanted>>
  /\ UNCHANGED <<storage, word, guard, threads, engine, files>>

ApplyCapacity == Apply("capacity", "provider")
ApplyProvider == Apply("provider", "generator")
ApplyGenerator == Apply("generator", "universal")

\* gu_universal_commit_prepared, as InstallLifecycle has it: when it fails the
\* transaction was rolled back or is reported as unrestored.
CommitUniversal ==
  /\ at = "universal"
  /\ \/ /\ Take("universal", Outcome("new", TRUE, FALSE, TRUE))
        /\ word' = "ACTIVE" /\ Goto("extras")
     \/ /\ \E c \in {"old", "mixed", "new"}, p \in BOOLEAN :
             Take("universal", Outcome(c, p, FALSE, FALSE))
        /\ word' = "FAILED_DIRTY"
        /\ at' = "undo_generator" /\ status' = "UNIVERSAL_FAILED"
        /\ next' = "restored" /\ UNCHANGED <<worker_state, wanted>>
  /\ UNCHANGED <<storage, guard, threads, engine, files>>

\* GetPrivateProfileStringA needs the process heap: it waits while a stopped
\* thread is inside a heap call.
HeapIsFree == \A t \in Threads : loc[t] = "heap" => t \notin held
Starved == at = "extras" /\ ~HeapIsFree

\* install_extras: every key is read, then each feature is installed as in
\* ExtrasPatch; no outcome of theirs fails the installation.
InstallExtras ==
  /\ at = "extras" /\ HeapIsFree
  /\ ResumeThen("applied") /\ UNCHANGED status
  /\ UNCHANGED <<image, storage, word, guard, threads, engine, files>>

-----------------------------------------------------------------------------
(***************************************************************************)
(* rollback_prior_features_after_universal_failure: in reverse, each group *)
(* tried whatever became of the others.                                    *)
(***************************************************************************)
Undo(s, place, then) ==
  /\ at = place /\ at' = then
  /\ \E o \in UndoOutcomes(s) :
       /\ Take(s, o)
       /\ next' = IF o.ok THEN next ELSE "retained"
  /\ UNCHANGED <<status, worker_state, wanted, storage, word, guard, threads,
                 engine, files>>

UndoGenerator == Undo("generator", "undo_generator", "undo_provider")
UndoProvider  == Undo("provider", "undo_provider", "undo_capacity")
UndoCapacity  == Undo("capacity", "undo_capacity", "failed")

\* gu_patch_transaction_has_unrestored
UniversalRestored == code["universal"] \in {"old", "foreign"} /\ closed["universal"]

\* Mutant of WriteFailure: the callback stays armed.
WriteFailureArmed ==
  /\ at = "failed"
  /\ at' = "resume"
  /\ next' = IF UniversalRestored THEN next ELSE "retained"
  /\ UNCHANGED <<status, worker_state, wanted, image, storage, word, guard,
                 threads, engine, files>>

\* The callback is disabled before anybody can run into a hook that stayed.
WriteFailure ==
  /\ at = "failed"
  /\ callback' = "FAILED"
  /\ at' = "resume"
  /\ next' = IF UniversalRestored THEN next ELSE "retained"
  /\ UNCHANGED <<status, worker_state, wanted, image, storage, word, guard,
                 threads, loads, scaled, files>>

\* startup_quiescence_resume_all, one handle: four attempts, after which a
\* live thread stays suspended and its handle is kept.
ResumeOne(t) ==
  /\ at = "resume" /\ t \in held \ stuck
  /\ \/ held' = held \ {t} /\ UNCHANGED stuck
     \/ Alive(t) /\ stuck' = stuck \cup {t} /\ UNCHANGED held
  /\ UNCHANGED <<worker, image, storage, word, gate, snapshot, threads, engine, files>>

\* That a rollback failed outranks that a resume did; a failure before anything
\* was sealed has written its status already.
StatusAfter(ok) ==
  IF next = "begin_failed" THEN status
  ELSE IF next = "retained" THEN "ROLLBACK_FAILED"
  ELSE IF ~ok THEN "RESUME_FAILED"
  ELSE IF next = "applied" THEN "PATCH_APPLIED" ELSE status

PlaceAfter(ok) ==
  IF next = "begin_failed" \/ (ok /\ next \in {"prewrite_failed", "restored"})
    THEN "cancel" ELSE "log"

\* Mutant of ResumeEnd: after a failure the gate stays closed.
ResumeEndClosed ==
  /\ at = "resume" /\ held \subseteq stuck
  /\ gate' = IF held = {} THEN 0 ELSE 1
  /\ status' = StatusAfter(held = {}) /\ at' = PlaceAfter(held = {})
  /\ UNCHANGED <<next, worker_state, wanted, image, storage, word, snapshot,
                 held, stuck, threads, engine, files>>

\* The gate is opened whether or not every thread could be resumed.
ResumeEnd ==
  /\ at = "resume" /\ held \subseteq stuck
  /\ gate' = 0
  /\ status' = StatusAfter(held = {}) /\ at' = PlaceAfter(held = {})
  /\ UNCHANGED <<next, worker_state, wanted, image, storage, word, snapshot,
                 held, stuck, threads, engine, files>>

\* release_unpublished_prior_feature_allocations, unless something was written
Released == IF next = "restored" THEN {} ELSE {"provider", "generator"}

\* gu_universal_cancel_prepared, if it was prepared and not yet committed
Cancel ==
  /\ at = "cancel"
  /\ IF word # "PREPARING"
       THEN Goto("log") /\ storage' = storage \ Released /\ UNCHANGED word
       ELSE \/ /\ word' = "IDLE" /\ Goto("log")
               /\ storage' = storage \ (Released \cup {"universal"})
            \/ /\ word' = "FAILED_DIRTY" /\ Report("log", "ROLLBACK_FAILED")
               /\ storage' = storage \ Released
  /\ UNCHANGED <<image, guard, threads, engine, files>>

\* startup_worker_main after run_patch: the watchdog is started, or the files
\* are given free; then the log, and only then the published state.
Log ==
  /\ at = "log"
  /\ at' = "done" /\ worker_state' = 3 /\ next' = "none"
  /\ locked' = IF status = "PATCH_APPLIED" THEN locked ELSE {}
  /\ UNCHANGED <<status, wanted, image, storage, word, guard, threads,
                 engine, altered>>

Worker ==
  \/ Pin \/ LockFiles \/ Configure \/ Recognise \/ Locate
  \/ DefinitionsUntouched \/ GeneratorUntouched \/ ManagerUntouched
  \/ AllocateProvider \/ AllocateGenerator \/ ImmediateIsStock
  \/ Prepare \/ ListSpans \/ Recheck
  \/ (\E t \in Threads : NextThread(t)) \/ EnumerationFails \/ EndSnapshot
  \/ Inspect \/ Seal \/ Arm
  \/ ApplyCapacity \/ ApplyProvider \/ ApplyGenerator \/ CommitUniversal
  \/ InstallExtras
  \/ UndoGenerator \/ UndoProvider \/ UndoCapacity \/ WriteFailure
  \/ (\E t \in Threads : ResumeOne(t)) \/ ResumeEnd \/ Cancel \/ Log

-----------------------------------------------------------------------------
(***************************************************************************)
(* The process around it.                                                  *)
(***************************************************************************)
\* Bound: threads are born, end and move about outside the hooks and the loader
\* only until the worker resumes them: it writes nothing after that.
Followed == at \notin {"resume", "cancel", "log", "done"}

\* A running thread, or somebody outside the process, creates a thread.
Create(t) ==
  /\ life[t] = "unborn" /\ Followed
  /\ life' = [life EXCEPT ![t] = "attaching"]
  /\ UNCHANGED <<worker, image, storage, word, guard, loc, engine, files>>

\* DllMain, DLL_THREAD_ATTACH: the new thread waits at the gate.
AttachDone(t) ==
  /\ life[t] = "attaching" /\ t \notin held /\ gate = 0
  /\ life' = [life EXCEPT ![t] = "running"]
  /\ UNCHANGED <<worker, image, storage, word, guard, loc, engine, files>>

\* A thread ends; one that was on its way out ends even though suspended.
Ends(t) ==
  /\ Alive(t) /\ loc[t] = "outside" /\ Followed
  /\ life' = [life EXCEPT ![t] = "gone"]
  /\ UNCHANGED <<worker, image, storage, word, guard, loc, engine, files>>

Moves(t, from, to) ==
  /\ Runs(t) /\ loc[t] = from
  /\ loc' = [loc EXCEPT ![t] = to]
  /\ UNCHANGED <<worker, image, storage, word, guard, life, engine, files>>

\* In and out of code that is going to be patched, or of a call made there.
Wander(t) ==
  \/ Followed /\ Moves(t, "outside", "code")
  \/ Moves(t, "code", "outside")
  \/ Followed /\ Moves(t, "code", "below")
  \/ Moves(t, "below", "code")

\* One thread at a time is inside a heap call.
Heap(t) ==
  \/ Followed /\ (\A u \in Threads : loc[u] # "heap") /\ Moves(t, "outside", "heap")
  \/ Moves(t, "heap", "outside")

BeginLoad(t) ==
  /\ loads < MaxLoads /\ \A u \in Threads : loc[u] # "loading"
  /\ Moves(t, "outside", "loading")

\* The hook at the end of the loader: a mixed group may or may not contain it.
HookIsLive(live) ==
  CASE code["universal"] = "new"   -> live = TRUE
    [] code["universal"] = "mixed" -> live \in BOOLEAN
    [] OTHER                       -> live = FALSE

EndLoad(t) ==
  /\ Runs(t) /\ loc[t] = "loading"
  /\ loads' = loads + 1
  /\ \E live \in BOOLEAN :
       /\ HookIsLive(live)
       /\ loc' = [loc EXCEPT ![t] = IF live THEN "called" ELSE "outside"]
  /\ UNCHANGED <<worker, image, storage, word, guard, life, callback, scaled, files>>

\* definition_loaded_engine_callback: the loop of exchanges has one effect.
CallbackEnters(t) ==
  /\ Runs(t) /\ loc[t] = "called"
  /\ callback' = CASE callback = "UNARMED" -> "FAILED"
                   [] callback = "ARMED"   -> "RUNNING"
                   [] OTHER                -> callback
  /\ loc' = [loc EXCEPT ![t] = IF callback = "ARMED" THEN "scaling" ELSE "outside"]
  /\ UNCHANGED <<worker, image, storage, word, guard, life, loads, scaled, files>>

\* scale_loaded_definitions, in detail in DefinitionScaling
CallbackReturns(t) ==
  /\ Runs(t) /\ loc[t] = "scaling"
  /\ \/ callback' = "COMPLETE" /\ scaled' = scaled + 1
     \/ callback' = "FAILED" /\ UNCHANGED scaled
  /\ loc' = [loc EXCEPT ![t] = "outside"]
  /\ UNCHANGED <<worker, image, storage, word, guard, life, loads, files>>

\* Another mod's thread patches a site before this one does.
OtherMod(s) ==
  /\ \E t \in Threads : Runs(t)
  /\ code[s] = "old" /\ at \in Tests \cup {"enumerate"}
  /\ code' = [code EXCEPT ![s] = "foreign"]
  /\ UNCHANGED <<worker, closed, dirty, storage, word, guard, threads, engine, files>>

\* A locked file is written through an older mapping, or a directory of its
\* path comes to lead elsewhere.  Bound: just before the last validation; in
\* the time between the two nobody looks.
Alter(f) ==
  /\ f \in locked \ altered /\ at = "recheck"
  /\ altered' = altered \cup {f}
  /\ UNCHANGED <<worker, image, storage, word, guard, threads, engine, locked>>

Process(t) ==
  \/ Create(t) \/ AttachDone(t) \/ Ends(t) \/ Wander(t) \/ Heap(t)
  \/ BeginLoad(t) \/ EndLoad(t) \/ CallbackEnters(t) \/ CallbackReturns(t)

Next ==
  \/ ProcessAttach \/ Worker
  \/ \E t \in Threads : Process(t)
  \/ \E s \in Stages : OtherMod(s)
  \/ \E f \in Files : Alter(f)

\* The worker is an ordinary thread that nobody suspends.
Spec == Init /\ [][Next]_vars /\ WF_vars(Worker)
-----------------------------------------------------------------------------
(***************************************************************************)
(* Properties.                                                             *)
(***************************************************************************)
Places ==
  {"unborn", "never", "pin", "enumerate", "inspect", "seal", "arm", "extras",
   "undo_generator", "undo_provider", "undo_capacity", "failed",
   "resume", "cancel", "log", "done"} \cup Tests \cup Stages

TypeOK ==
  /\ at \in Places /\ worker_state \in 0 .. 3 /\ wanted \in Requests \cup {{}}
  /\ code \in [Stages -> {"old", "new", "mixed", "foreign"}]
  /\ closed \in [Stages -> BOOLEAN] /\ dirty \in [Stages -> BOOLEAN]
  /\ storage \subseteq Stages /\ gate \in 0 .. 1
  /\ held \subseteq Threads /\ stuck \subseteq held
  /\ snapshot.passes \in 0 .. MaxSnapshots /\ snapshot.seen \subseteq Threads
  /\ life \in [Threads -> {"unborn", "attaching", "running", "gone"}]
  /\ loads \in 0 .. MaxLoads /\ scaled \in Nat
  /\ locked \subseteq Files /\ altered \subseteq Files

\* Everyone but the worker is suspended, at the gate, or gone, and nobody is
\* inside what will be written.
WorldStopped ==
  \A t \in Threads :
    /\ life[t] = "running" => t \in held
    /\ Alive(t) => ~ExecutesUnsafe(t) /\ ~ReturnsUnsafe(t)

\* Code bytes are written, and written back, only while the world is stopped,
\* and never over another mod's patch: neither a thread created behind the
\* enumeration nor one that returns into a span later can meet half a write.
WritesAlone ==
  [][\A s \in Stages : code'[s] # code[s] /\ code'[s] # "foreign" =>
       WorldStopped /\ code[s] # "foreign"]_vars

Intact(s) == code[s] \in {"old", "foreign"} /\ closed[s]

\* What the worker reports is what the image shows: after PATCH_APPLIED every
\* stage is in, no thread is held back; after a refusal nothing of any stage
\* is left, not even an open page.  Statuses that say that a rollback or a
\* resume failed promise less; and a refused stage is never left half.
StatusIsHonest ==
  at = "done" =>
    /\ status = "PATCH_APPLIED" =>
         /\ \A s \in Chosen : code[s] = "new" /\ closed[s]
         /\ word = "ACTIVE" /\ held = {} /\ locked = Files
    /\ status = "RESUME_FAILED" =>
         held # {} /\ ((\A s \in Stages : Intact(s)) \/ \A s \in Chosen : code[s] = "new")
    /\ status \notin {"PATCH_APPLIED", "RESUME_FAILED", "ROLLBACK_FAILED"} =>
         \A s \in Stages : Intact(s)

\* The definitions are scaled once, and only by an installation that is
\* complete: a hook that a failed rollback left behind does nothing.  And when
\* the installation reports success before the definitions were loaded, every
\* load that follows finds the callback.
ScaledByWholeInstall ==
  /\ scaled <= 1
  /\ scaled = 1 => word = "ACTIVE" /\ \A s \in Chosen : code[s] = "new"
  /\ status = "PATCH_APPLIED" /\ loads > 0
       /\ (\A t \in Threads : loc[t] \notin {"called", "scaling"})
       => callback \in {"COMPLETE", "FAILED"}

\* No code leads to storage or stubs that were freed; no thread is in a stub
\* that was.
NothingFreedIsReached ==
  /\ \A s \in Stages \ {"capacity"} : code[s] \in {"new", "mixed"} => s \in storage
  /\ (\E t \in Threads : loc[t] \in {"called", "scaling"}) => "universal" \in storage

\* Whatever fails at whatever place of the installation, nothing that was
\* freed can be reached by the engine.
StartupInv == TypeOK /\ NothingFreedIsReached

\* The worker ends and has opened the gate, unless it waits for the heap that
\* a thread it stopped holds.
WorkerEnds == (at = "pin") ~> ((at = "done" /\ gate = 0) \/ Starved)

\* "guarantees gate release on every recoverable exit", says DllMain of the
\* stopped-world writer; "all allocations ... are already complete", says
\* run_patch before it stops the world.
GateReleased == (gate = 1) ~> (gate = 0)
=============================================================================
