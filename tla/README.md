# Verification of the GTA IV procedural fixes plugin

The plugin is a 32-bit library loaded into a running game. It patches the
game's code so that generated grass and objects reach further, moves the
engine's fixed arrays into larger ones, remembers every distance it changed,
and gives everything back on shutdown. It runs on the game's own threads,
inside its callbacks, next to other mods, without the game's cooperation. What
is hard is therefore not the arithmetic but the order of things: who may touch
a slot, a bank, a distance or a call site at which moment, and what is left
behind when a step fails or a thread is late.

## Inventory

| part | code | state | operations | other parts it meets |
|---|---|---|---|---|
| ownership table | `universal_pipeline.c` 180-683 | records by wrapper, index by entity, token counter, active count | insert, remove, take, find by wrapper, find by entity | called by the hooks under `ownership_lock`; find by entity is also called without it by the extras |
| event ring | `universal_pipeline.c` 60-178 | slots with sequence numbers, two 32-bit positions, loss counters | emit, consume, drain, enable, disable | emitted into by every hook |
| manager scaling | `universal_behavior.c` 257-705 | remembered and scaled pairs, generation, worker token, rundown event | post-scale hook, pre-build hook, schedule, drain, wait, claim, restore | the engine's setter, the uninstaller |
| entity distances | `universal_behavior.c` 715-1087 | applied count, flags, the ownership table | commit hook, release hook, restore all | the engine, other mods, the uninstaller |
| plant banks | `universal_plant_bank.c` 444-931 | four banks, sixteen contexts, frame stacks, selector | initialise, set and clear selector, enter, leave, resolve, count, shut down | the wrapped generation call, the installer |
| source banks | `universal_source_bank.c` 739-1260 | four banks leased by thread, depth packed in a TLS word | initialise, configure, enter, leave, fall back, append, read, shut down | the scanner call, the installer |
| preparers and stubs | `universal_install.c` 133-303, `universal_plant_bank.c` 1254-1468, `universal_source_bank.c` 1734-2079, `universal_behavior_hooks.c` 119-409 | stubs under construction, the common transaction | look at sites, allocate, assemble, add a patch, take back | the install lifecycle |
| patch transaction | `universal_hooks.c` 100-383 | list of patches, installed marks | add, truncate, commit, roll back, has unrestored | every preparer, the installer |
| install lifecycle | `universal_install.c` | one state word, prepared stubs | prepare, commit, cancel, uninstall | all of the above |
| startup installer | `GTAIVProceduralPool.c` 12498-14247, 14486-14550 | attach gate, status, suspended threads, the rollback marks of each stage | identify, refuse, allocate, stop the world, write stages, roll back, let go | every thread of the process, the loader, the install lifecycle |
| definition handshake and scaling | `GTAIVProceduralPool.c` 8273-8796, 14050-14066, 14184-14188 | callback state, originals of the scaled fields | arm, disarm, run, verify, roll back | the engine's loader, the installer |
| provider rebuild | `GTAIVProceduralPool.c` 3784-3918 | provider table, 16-bit links, quarantine | rebuild hook, verification, withdrawal | the engine's free list |
| generator records | `GTAIVProceduralPool.c` 3223-3262, 4246-4288 | issue counter of the extra records | pop hook | the engine's list, threads that pop |
| extras | `gu_extras.c` | park list, carried count, five features with patches | install, before queue, after queue, reset, fault | the engine's spawn queue, its matrix pool and reflection list |
| watchdog and crash handler | `GTAIVProceduralPool.c` 11733-12497, 14423-14437 | once-only flags, probe counter, dump files | set up, probe, dump, log a first-chance exception | the game's window, faulting threads |
| the rest | | | logging, report records, hashing, ini parsing, contracts, catalogues, governor | |

The full list, with the status of each part, is `components` in
`PROJECT.json`; the hazards, at their lines, are `hazards` there.

## How the modules fit together

- `OwnershipTable` shows that under the lock the table is a function from
  wrappers to records; `OwnedDistance` and `SetterWorker` use it as such.
- `EventRing` implements `EventQueue` (refinement `IsQueue`).
- `DefinitionScaling` implements `ScalesOnce` (refinement `ScalesAsPromised`);
  `StartupInstall` uses the handshake with that promise as the body.
- `InstallLifecycle` extends `PatchTransaction`; `Preparation` is its prepare
  step in detail; `PlantBank` and `SourceBank` are driven by the lifecycle's
  installer; `StartupInstall` calls its commit and cancel as one step each.
- `Parts` composes the five modules that share no state with the others.

## The modules and what their runs show

### OwnershipTable (run `ownership`)

One action per memory access of the five operations. A thread's place and its
locals are in the record `th`; slots of the two hash tables are records of key,
payload and token. Reserved keys (empty, claimed, tombstone, reclaiming) are the
code's. Merged into one step: the look and the exchange of `gu_claim_key` (the
exchange compares with what was seen), and the token loop, which may also fail,
as in the code, by losing all its retries. Counters that nothing reads, except
the active count, are left out.

A behaviour is either bare or serialised. In the bare ones two threads call the
three operations that write, a plain insert among them, with no lock: a slot has
one user (`SlotExclusive`), what can be claimed is clear (`ReusableIsClear`),
every published record can be found by probing (`PublishedReachable`), nobody
changes a published record (`PublishedFrozen`). In the serialised ones commit, remove,
take and the lookup by wrapper run under `ownership_lock`, as in the hooks, a
commit with its lookups of both keys before the insert, and the lookup by
entity runs beside them without the lock, as in the extras. There no lookup by
entity returns a record torn from two lives of a slot, no lookup by wrapper
misses (both in `LookupsSound`; the latter does not compare the key inside its
copy), and between calls records, index and active count agree (`OwnersAgree`).

Bounds: capacity 2 (65536 in the code), 2 probes (32), 2 retries (64), tokens up
to 5 in both kinds of behaviour (2^32; the first three numbers are reserved). Two
slots in each table and two wrappers that hash to the same chain are enough for
every conflict between two threads; the token limit is reached, so exhaustion is
exercised. The proofs below do not need the bounds.

### EventQueue and EventRing (run `event_ring`)

`EventRing` has one action per access of emit and consume; `EventQueue` is the
promise: a bounded first-in-first-out queue whose producers may lose an event
only by being refused because the queue is disabled, full, or contended, and
which counts each. The run checks the implementation by refinement (`IsQueue`),
with the positions starting two below the wrap of a modular counter (16 for
2^32); one user per slot, whole copies and complete counts are part of
`RingInv`. In this commit `start_telemetry` (10157), whose thread would drain, is
never called, so nothing is claimed to be delivered. What must hold is that the
hooks, which emit on the game's threads, never wait: `EmitNeverWaits` says that an
emission ends as long as its own thread runs, though another producer may have
stopped for good between taking a position and publishing it, and nobody need ever
drain. The condition (weak fairness of that one producer's steps) is part of the
property; the specification has no fairness.

Every call of `gu_event_drain` (8137, 9996, 10148) is in that one thread, and it
takes one consumer to call the ring a queue: of two, one may still be reading the
oldest slot while the other has released all those behind it, and a producer then
drops as "full" what a nearly empty ring could hold (`IsQueue` fails with
`Consumers = {c1, c2}`; `RingInv` does not).

Left out: the event's payload, but for the number of the call that emitted it;
event types, but for the kinds of loss. Assumptions: at least two slots (with one,
the numbers of a free and of a filled slot would be the same), and no producer
sleeps inside emit while 2^31 events pass (`MaxEmits + Capacity` stays below half
the wrap).

### SetterWorker (run `setter_worker`)

Each section under `ownership_lock` is one step. `far` stands for the far,
query and squared fields, which the engine writes together. The callers run
the hooks in any order, recompute the far distance, hand the newest pair to the
engine's setter outside the lock, wait, claim the token from a worker that
stopped at its bound, and give up after `Attempts` rounds.

Two callers show that there is one worker, that what it reports as applied was
given to the engine, and that at rest the engine knows what the manager holds
(`WorkerInv`); that generations only advance (`GenerationsAdvance`); that after
a successful disable no worker is in the setter, whichever side of the timeout
it was on (`DisableDrains`); that what was remembered is the engine's own and
the restore gives back exactly that (`RestoreGivesBack`); and that the newest
pair reaches the engine unless a failure was recorded and the worker ends once
the feature is off (`WaitersAnswered`). `MaxGeneration` stands for 0xFFFFFFFF
and is reached.

Left out: a failing `SetEvent` or `ResetEvent`, a null setter, a second manager
object. Assumption: an engine value never equals a scaled value. A waiter that
timed out before the worker handed over loses its generation; the code counts
this as a failure, and the properties exempt it.

### OwnedDistance (run `owned_distance`)

The table is a function here. The engine creates, commits, releases and frees
wrappers with recycled pointers; another mod writes distances whenever it
likes. `modded` is an observer: the entities whose present distance the plugin
wrote. Such an entity has a record saying what to give back, the applied count is
exact, and records do not outlive entities while the hooks are in
(`DistanceInv`); a clean shutdown leaves nothing (`CleanShutdown`); no distance
is scaled twice, and none after disable (`ExtendedOnce`). Two threads, two
wrappers and two entities suffice for every pair of commit, release, reuse and
restore.

### PlantBank (run `plant_bank`)

The registry of contexts, the leases and the frame stacks, with each exchange a
step of its own, and the installer that prepares, aborts, commits, rolls back,
blocks entry, scans for idle cells one by one, and destroys the banks. `nest` is
the engine's own view: the generations under way, what each was given on entry,
what its addresses resolved to, how much it emitted.

With one bank, two contexts, frame stacks of two and three nested generations,
everything runs out. Until somebody uninstalls, no bank is shared, leases
balance, and a generation keeps to one storage even after inner ones fell back
(`PlantInv`); and whoever had a context when entry was blocked has given it back
before the storage goes (`OldEntriesKeepStorage`). What the last property does
not say: an entry that has passed the ready check (615) but not yet claimed a
context is neither blocked nor seen by the scan, and leases a bank of a runtime
without storage, in spite of the comment "Block new wrapper entries before
proving that no old entry is live" (555). No code path of the library itself
calls the uninstaller, so this needs an outside caller of the exported function.

### SourceBank (run `source_bank`)

The scanner's frames, and the TLS word that describes them: a sequence of banks
and a count of fallback frames, where the code packs both into 32 bits. A scan
that takes the engine's lock enters and leaves through the patched sites, a
scan that does not take it does neither; the lock admits one thread. Each exchange on
a lease, each TLS store and the frame counter are steps of their own, and the
shutdown runs between them.

With two banks and three nested scans: a bank on a frame stack is leased to that
thread alone, the word of every thread describes its scans one by one, whatever
failed at entry, and a scan writes to one storage and stays inside it
(`SourceInv`). The slot is not freed under a bank (`SlotOutlivesFrames`): the
counter alone would not do, for a frame is stored before it is counted, but its
lease stops the shutdown.

Assumptions: a TLS store fails only while the thread's expansion slots are not
allocated; scans with and without the lock do not nest in each other; the
fallback count does not reach 2^20, for which the stack is too small. There is
one installation: an entry that is held up across an uninstall and a new
installation is outside the run.

### PatchTransaction and InstallLifecycle (run `install_lifecycle`)

`PatchTransaction` has the sites, their bytes and page protections, and what
one attempt to write or restore a site can leave, as a set of outcomes: each of
the three system calls may fail on its own. `InstallLifecycle` takes the sites
one by one through prepare, commit, the undoing of a failed commit, rollback
and uninstall. Engine threads run into whatever branch they find and stay as
long as they like; another mod may hook a site over the plugin and later put
back what it found.

With three sites (one replaced by its own bytes, one whose stub is tracked) and
two installations: the marks tell the truth about the image and one operation
runs at a time (`InstallInv`), success means every site is live and idleness
means no branch, no open page, no stub is left (`InstalledOrUntouched`), freed
stubs are referenced neither by a site nor by what another mod will put back
(`NoDanglingBranch`), and stubs are freed with no engine thread inside
(`FreedStubsAreIdle`). The uninstaller is exempt from the last: it proves the
banks idle, not the other hooks, and `universal_source_bank.h` 147 leaves engine
quiescence to whoever calls it.

One site is written in one step: the engine may run between two sites, and sees
each whole. The answers of the banks' shutdown and of `gu_behavior_disable` are
taken from `SourceBank`, `PlantBank` and `SetterWorker`: yes only when idle.
Assumption: the caller whose prepare returned is the one who commits or cancels,
as `gu_universal_install` does; the state word alone does not say so.

### ExtrasQueue (runs `extras_queue`, `extras_fault`)

The two queue hooks of the extras, around the generator's update: `BeforeQueue`
is the whole hook before (drop what was removed, park and bring back, hold),
`Make` the generator, `AfterQueue` the hook after. Between updates the generator
queues requests, removes providers, or is reset. The order of the arrays is
kept, because the scan of the park depends on it: the swap removal, the cursor,
the scan window and the candidate limit are the code's: `Unparked` removes what
came back with the highest index first (808-815), `Refilled` what was removed with
the lowest first (`park_drop_removed`), each hole filled by the last entry. Both hooks run on the
generator's thread, so each is a step; what can happen within one is a memory
fault, after which the code switches the features off. `BeforeFault` leaves the
buffer as far as it had been moved, under the count that was never written.

A frame of the camera is any set of requests the cone may reach, so the geometry
(`in_cone`, `make_frame`, the turn prediction) is abstracted to every answer it
can give, "no camera" and "a cut" among them. Distances are constant: the camera
turns but does not travel. The weight the spawn limit gives the direction is
left out. The generator is external: it makes everything in its queue before it
serves its removals, never queues beyond its capacity, and what it queues for a
provider after removing it is meant; the randomized tests assume the same.

The arrays keep their limits, every request is in one place and is given up only
for a reason, and nothing is made for a provider that went while the request
waited (`ExtrasInv`); no request waits for ever while the cone reaches it
(`WaitersReturn`, with weak fairness of the generator's update, which the game
calls every frame). Bounds: four requests, queue and park of three, a scan of
two, one release and one prop per update, which fills every array and makes every
limit bind; requests are finite, so the last property says nothing of a game
that queues nearer ones without end.

`extras_fault` (`WholeQueueOnFault`) shows a disagreement: a test says that after
a fault "the game still gets the whole queue"; with ConeBack on, an entry parked
before the fault is lost and another is doubled. Left out: a queue capacity of
exactly 65536, which the hook admits and whose full count it would write as 0,
and the states in which the hook returns at once because there is no queue.

### StartupInstall (runs `startup`, `startup_gate`)

The startup worker, from the attach to the published state, is one actor whose
place is `at`: pin the module, lock and identify the files, read the settings,
recognise the executable, refuse when anything is not stock, allocate, prepare,
list the threads, suspend them snapshot by snapshot until two in a row bring
nothing new, look at instruction pointers and return addresses, seal, arm the
definition callback, write the four groups of sites (capacity, provider,
generator, universal), install the extras, or undo in reverse; then resume,
cancel what was prepared, log, open the gate. Every look, allocation and write may
fail. The game's threads are created (also behind the enumeration, and then they
wait at the attach gate), end, wander through the code that will be written,
enter and leave the heap, load the definitions and run into the hooks once those
are there; another mod may take a site first; a locked file may be altered.

`WritesAlone`: code bytes are written and written back only while every other
thread is suspended, at the gate, or gone, and outside of the code to be
written, and never over another mod's patch. `StatusIsHonest`: after success every
stage is in and nobody is held back; after a refusal nothing of any stage is
left; the statuses that say that a rollback or a resumption failed promise less.
`ScaledByWholeInstall`: the definitions are scaled once at most, and only by a
complete installation: the callback of a hook that a failed rollback left behind
does nothing. `StartupInv`: nothing that was freed can be reached. `WorkerEnds`:
the worker ends and has opened the gate, unless it waits for the heap lock of a
thread it stopped.

`startup_gate` (`GateReleased`) is about that exception. `install_extras` reads
the settings file with `GetPrivateProfileStringA` (12822-12835) while the world
is stopped (14163), in spite of the comments at 13980, 14002-14004 and 14515,
which say that nothing allocates or calls the loader by then and that the gate
is released on every recoverable exit. That the function takes the process
heap's lock is external knowledge, not in the repository.

Bounds: a thread that is there at the start and one that appears later (one more
of either kind adds no new order of creation, suspension and write); two stable
snapshots as in the code, four passes at most (16); one file for the three,
which are treated alike; the configuration asks for capacity and provider or for
the generator, so that every pair of neighbours in the order of undoing is
there; two loads of the definitions. An attempt at a whole group of sites is one
step with a set of outcomes; `WritesAlone` is what justifies this. A return address
into any span counts as seen (`ReturnsUnsafe`); the stack scan (2010-2118) finds the
returns that are in the catalogue of the build and the calls that overlap or lead
into a guard interval (1739-1784, 1910-2007), so the model relies on the generated
data covering the spans. `OtherMod`
acts only before the world is stopped, `Alter` only just before the last
validation of the files, because nobody looks in between. After the last write
the threads make no new moves through the patched code or the heap (`Followed`);
they still load definitions and run into the hooks. The attach of other
threads waits at the gate for a bounded time in `InitializeASI` (14458-14486);
that wait changes no state and is left out, as is a fault injection that only test
builds compile (13860).

### Preparation

`gu_universal_prepare` with its seven preparers, in their order. Each looks at
its sites, allocates stubs and adds a patch per site to the common transaction;
each look, allocation and addition may fail, and another mod may change a site
between any two. `local` are the stubs of the preparer at work, `published` what
has been handed to the installation. `PreparationInv`: while a commit would be
admitted no patch leads to a freed stub and no site is patched twice; between
two preparers, and after one that failed, transaction and installation hold
exactly what the finished ones added; prepared means all of it, idle none.
Stubs, sites and the limit of 64 patches have their real numbers.

What it does not say: after a failed preparation the transaction keeps stale
patches whose stubs are gone. The word is idle by then and the next prepare
zeroes them first (207-216), so no commit can reach them.

### ExtrasPatch

`install_core` of the extras: the five features in their order, each with its
own transaction, each refused when a site is not the game's own, each write and
each restoration of a site failing on its own. `ExtrasWhole`: a feature is in as
a whole or not at all, no site leads to a freed buffer, the engine's heap never
gets memory that is not its own, a hook that stayed behind does not act,
another mod's bytes are never written over. The exception is in the property:
`tx_restore` skips a site whose page it cannot open, after which the buffer is
freed all the same and the pool's two halves may disagree; `gu_extras.h` 11-14
promises "all-or-nothing" without this case.

### ScalesOnce and DefinitionScaling

`ScalesOnce` is what the installer and the report may rely on: the definitions
are scaled at most once, by the callback that found the state armed, all of them
or none, and the report says which. `DefinitionScaling` is the callback: the two
exchanges of the handshake, the choice of the stock catalogue (which may be
refused), the computation, the writes, their verification, the rollback and its
verification, with another mod writing any field between any two phases and
the engine loading the definitions again. `DefinitionsInv` relates state, status
and fields; `ScalesAsPromised` is the refinement. A second load of the
definitions is not scaled while the report still says APPLIED, and a rollback
overwrites what another mod wrote to a field of a mutated definition; both are
what the code does, and the promise is stated so that it allows them.

### RecordPools

The provider table: the hook after the engine rebuilt its manager looks whether it
is the known one, reads both heads, exchanges them for 0, looks whether a record
still belongs to somebody, links all records and publishes the head, reads heads
and links back, or withdraws the list; each is a step of its own. Engine threads
take a provider wherever a head is visible: before the hook (another mod may have
put back the store of the head that 3700-3717 patches), between the read of the
heads and their exchange (3851-3852), and as soon as the head is published. A
manager the hook does not know keeps its heads, and the hook only counts the
failure. The links are laid while the head is 0, so they are one step with its
publication.

The generator's records: the engine's list first, then the issue counter of the
extra records, read and exchanged as in the code by two threads. A call with
another manager (3223-3228) gets no record and sets the flag of exhaustion although
records may be left.

`PoolsInv`: from the exchange on, the list ends and holds no provider that belongs
to somebody, whoever takes one meanwhile; after a verified rebuild none is lost;
what the hook could not help is counted as failed. A generator record has one
holder, every extra one issued is somewhere, and exhaustion is reported only when
all were issued or a call came with another manager. Nothing is claimed of the list
of an unknown manager, which is not the hook's. External: the engine pops and
pushes whole, and frees no provider while it rebuilds the manager.

### Watchdog

After a successful installation the worker finds the dump writer, installs the
crash handler and the first-chance logger, starts the watchdog, writes the log
and lets the background threads go. The watchdog probes the game's window and
dumps when enough probes went unanswered; threads that fault enter the crash
handler. Each dump may fail and has a smaller one to fall back on; writing it, with
flush and close, and appending the report (11954, 12362) are steps of their own, and
the process may end between any two. `WatchdogInv`: one report of each kind at most,
and none speaks of a dump that is not whole; a whole dump lacks its report only while
its writer is about to make it, or where the process ended first; a half written dump
exists only while somebody is at it or where the process ended; a hang is only seen
after that many misses without an answer in between; nothing is probed before the
log is complete. `HangIsReported`: a window that hangs for good gets its report, with
weak fairness of the worker's and the watchdog's steps. The flag
`g_hang_watchdog_stop` is set on detach, which is the end of the process.

### Parts (run `parts`)

The five modules above, from Preparation on, share no state with each other nor
with the rest, so any interleaving of them is, for each, a behaviour of its own
with stuttering. `followed` picks the one a behaviour is about; the run thus
checks all five without their useless product. Bounds: the real numbers of
stubs, sites and patches; two preparations; the features of the extras in two
lots; a grid definition, a random one and one that is not selected; four providers
where the engine knows two; one generator record of the engine and three extra
ones for two threads; three rebuilds; two threads that fault; a hang after two
missed probes. Deadlock is not checked here and in `startup` and `plant_bank`:
the worker ends, the process may end.

## Fairness

| where | what | why |
|---|---|---|
| `EventRing` | none; `EmitNeverWaits` supposes that the one producer it speaks of runs | a thread inside a hook is not suspended by the mod; nothing is supposed of the others, nor of a drain |
| `SetterWorker` | each caller keeps running while it is worker, waiter or in a hook | nobody suspends a thread there; nothing obliges the engine to call a hook, nor the uninstaller to act |
| `ExtrasQueue` | the generator's update | the game calls it every frame |
| `StartupInstall` | the worker | a thread nobody suspends; the other threads get no fairness |
| `Parts` | the setup's and the watchdog's steps | threads of the library; the rest need not act |

All are weak.

## What is proved

The theorems hold for every value of the constants that meets the assumptions
of the modules, which TLC evaluates in the runs:

| assumption | what it asks |
|---|---|
| `KeyAssumption`, `SizeAssumption`, `HashAssumption`, `OperationAssumption` | keys are addresses above the reserved ones, at least one slot, probe and retry, the hash maps into the table; under the lock nobody calls the plain insert (`universal_behavior.c` 820-846 looks both keys up first) |
| `PlantAssumption`, `SourceAssumption` | at least one bank of each kind, context and frame, a source bank larger than the engine's array, finitely many threads that scan |
| `ExtrasAssumption` | distances are natural numbers, no two of them equal; no array, scan or budget is empty |
| `TransactionAssumption`, `LifecycleAssumption` | at least one site; the sites whose replacement equals the original and those that lease are among them |
| `StartupAssumption` | the threads of the start are threads; at least one stable snapshot, and as many passes as snapshots |
| `DefinitionAssumption`, `PoolAssumption`, `AskedAssumption`, `WatchdogAssumption`, `PreparationAssumption` | the grid is among the definitions; the plugin's table is larger than the engine's; what is asked are features; at least one missed probe; at least one stub of each bank |
| `SetterAssumption` | the multiplier is not 0 or 1, and no distance of the engine equals a scaled one (the code tells them apart by comparing) |
| `RingAssumption` | at least two slots, a number of positions that the capacity divides twice, and fewer events than half of it; finitely many threads |
| `DistanceAssumption` | finitely many wrappers, a multiplier other than 0 and 1, a name for "nobody" |

The theorems about the banks have one hypothesis more, `OneRuntime`
(`MaxRuntimes <= 1`) and `OneInstall` (`MaxInstalls <= 1`): the runtime is set up
once. That is how the code uses it: `gu_universal_prepare` is called by `run_patch`
(`GTAIVProceduralPool.c` 13874), which runs once, and by `gu_universal_install`;
nothing calls that one or the uninstaller. Without it the plant banks would not be sound: a
thread that has passed the ready check may claim a context while an uninstall is
scanning, and after another installation, which starts with an empty registry, its
generation goes on with a context that no longer is its own. With two installations
TLC finds `PlantInv` violated by that.

The environment is the model's: memory accesses are atomic and sequentially
consistent, one site is written in one step. All invariants below are of one
form: an inductive invariant that says of each place in the program what was
done by then, of which the checked property is a consequence.

`OwnershipTableProofs`, for any number of threads, keys, slots, probes, retries
and tokens:

- `TypeCorrect`: the type invariant, from an inductive strengthening that says
  of each place in the program what its locals are (`Sane`);
- `SlotsAreExclusive`: one user per slot, from the invariant that a thread at a
  holding place holds exactly the slot its locals name and the key there is
  the claimed or reclaiming mark;
- `FreeSlotsAreClear`: an empty or tombstone slot carries no payload, which
  needs to know what a reclaiming thread has cleared so far (`ClearedAt`);
- `PublishedRecordsAreFrozen`: no step changes a record under a published key.

The argument is by frames: `QuietStep` for the steps that touch no slot,
`HolderStep` for those of a holder, and one lemma per kind of transition.

The second half, about reading, in the same module:

- `KeysStayReachable` (`PublishedReachable`), with the lock and without: `Paths`
  says of every prober that the slots it has passed were not empty, and a slot
  that was used once never becomes empty again, so this still holds when it
  publishes.
- `OwnersAgreeAtRest` (`OwnersAgree`) and `LookupsAreSound` (`LookupsSound`), with
  the lock. The invariant (`Ledger`) has four parts. `Books` is what the two tables
  promise at any moment, inside a critical section too: one record per wrapper and
  entity, every published record whole and in the index, every index entry with
  its record, and `active_count` off by the one in hand. `Duty` is what the thread
  under the lock has found out (no such key) or done (filled, stamped, indexed,
  claimed) so far. `TokensPast` says that a token in a table belongs to an insertion
  that has left the place where tokens are written, so no slot is stamped with it
  again. `Reading` is about the reader without the lock: when its four comparisons
  have agreed, either its copy is the record of that token, or the token has been
  dropped from the index for good, and then the last comparison fails.
  `LookupsSound` needs the index for this: the copy alone may be of a record that
  is being cleared, and it is the order of removal (the index entry first, then the
  payload) that lets the reader notice.

`InstallLifecycleProofs`, for any number of callers, engine threads, sites and
installations, and any failure of a system call:

- `LifecycleHolds`: the inductive invariant `LifecycleInv`;
- `MarksReportTheImage` (`InstallInv`), `InstalledOrNothing`
  (`InstalledOrUntouched`), `StubsOutliveBranches` (`NoDanglingBranch`): each
  follows from it at once;
- `FreedStubsAreUnentered` (`FreedStubsAreIdle`): needs one invariant more
  (`Unentered`), that no thread is inside stubs which are still being prepared.

None of the four properties is inductive. "Active means every mark is 1" is
known only at the end of a commit, so `Progress` says of each place of a caller
what has been done by then: at `write` the marks up to the site in hand are 1
and the rest 0, at `rundown` nothing is marked. `WordMatches` ties the places to
the lifecycle word, so that a caller who moves knows the others are out
(`Alone`). `SiteSound` is about one site: a mark of 0 means the image, and what
another mod saved of it, are the engine's own; and a site someone saved shows
that mod's branch, so the transaction cannot write over it. This is why
unhooking in any order brings no branch back. `WriteSound` and `RestoreSound`
show that every outcome of the two site operations is of that form, and
`SiteKeeps`, `QuietStep` and `UndoneKeeps` lift this to the steps.

`StartupInstallProofs`, for any number of threads, definitions, snapshots and
passes: `StartupSound` is the inductive invariant, from which follow
`NothingFreed` (`StartupInv`), `StatusHonest` (`StatusIsHonest`), `ScaledOnce`
(`ScaledByWholeInstall`) and `WrittenAlone` (`WritesAlone`). `GuardSound` says
when the world stands still: the gate is closed from the first snapshot on, and
at the writing places every thread that runs is held, outside of what is
written. `ImageSound` ties each group of sites to the worker's place, so that
undoing in reverse leaves what the status says (`ReportSound`); `StorageSound`
says that what is freed is behind no site; `CallbackSound` that what finds the
callback armed finds a whole installation.

`BankProofs`, for any number of threads, banks, contexts, frames and nested calls,
whatever store or lease fails:

- `SourceBanksSound` (`SourceInv`) and `SlotOutlivesItsFrames` (`SlotOutlivesFrames`),
  from `SourceSound`. A bank is leased by an exchange, stored in the TLS word, then
  written to the frame, then counted, and given up in the other order; at each of
  these places one more of them agrees. So the invariant says of a thread at a given
  place that the lease it holds is in its hand or in its word and nowhere else
  (`StackLeased`, `Uses`), that its word describes its frames, but for the one that is
  about to be or no longer is on it (`Agrees`, `Settled`), and that the counter is the
  number of the frames of all threads that have been counted (`Counted`).
  `HoldersAhead` says why the shutdown is safe: whoever had a bank when it began
  still has the lease of its first bank, and the scan has not passed it.
- `PlantBanksSound` (`PlantInv`) and `OldEntriesAreDone` (`OldEntriesKeepStorage`), from
  `PlantSound`. `Placed` and `OneContext`: a thread at a claiming place has no context,
  one at a later place has just the one in its hand. `ContextSound`: the frames of a
  context are the generations of its thread, after those from before it had a
  context and before those that overflowed (`Mirrors`); each remembers the bank of the
  one below (`Chained`), so leaving restores what was there before; and what a frame
  has leased is leased to that context, once (`FramesLease`). `EldersAhead`: an entry
  that had a context when entry was blocked is ahead of the installer's scan or has
  given it back.

TLC has checked both invariants on the instances of the two runs.

`PartsProofs` has the five modules of `Parts`, each on its own (`EachOnItsOwn`: a
step of one leaves the variables of the others alone), and the queue hooks:

- `DefinitionsAgree` and `ScalesOnceAndReports`: the handshake's state goes with
  the callback's place, and `DefinitionScaling` implements `ScalesOnce`: initial
  states map to initial states, every step to a step or a stutter.
- `PoolsSound`, from `RecordsIssuedOnce` (the generator's records) and
  `ProvidersNeverLost`: the free list of providers is a path without repetition
  that covers what nobody owns (`IsFreeList`); taking and giving shortens and
  lengthens it, and the rebuild hook lays a new one, from which others may take before
  it is verified. That the walk
  over the links (`Walk`) finds this path is an induction over its length.
- `ExtrasStayWhole`: each feature's turn leaves it whole, absent or skipped.
- `DumpsAndReports`: what is on the disk, and whether it was reported, goes with the
  place of whoever writes it.
- `PreparedInOrder`: the transaction is the sites of the finished preparers in
  their order, then a part of those of the one at work.
- `RequestsAccounted` (`ExtrasInv`), for any number of requests and any sizes. The
  lemmas before it are about the operators: every array the hooks build takes its
  entries from given positions of another, one by one (`DrawnCount`), be it by
  compaction (`PickCount`), by filling holes from the end, the lowest first
  (`RefilledCount`) or the highest first (`UnparkedCount`), or in the order of distance, which is a permutation as long as no two are equal
  (`SortedByBijection`). So a step of the cone and one of the spawn limit keep the
  number of times a request is somewhere (`ComeBackConserves`, `ConeStepConserves`,
  `SpawnStepConserves`). The invariant (`QueueSound`) adds to this what is known of
  removals: what waits for a removed provider is stale (`RemovalsSound`), and all that
  is stale waits where the next update looks for it (`StaleSound`); without the
  latter an update might miss one and make it. TLC has checked `QueueSound` on the
  instance of the run, also with one feature off.

`SetterWorkerProofs`, for any number of callers, generations, attempts and
distances: `SetterSound` is the inductive invariant, `OneWorker` (`WorkerInv`),
`NoneAfterDisable` (`DisableDrains`), `EngineValuesReturn` (`RestoreGivesBack`) and
`NewerAndNewer` (`GenerationsAdvance`) follow. `WToken`: one worker, with the token.
`WGens`: requested, given and applied generations differ only while the worker is
at it. `WServed`: without a failure on record, the newest generation has somebody
who will not leave before it was given. `WStock`: what is remembered is the
engine's.

`OwnedDistanceProofs`, for any number of threads, wrappers, entities and
distances: `DistanceSound` is the inductive invariant, `NoDistanceLost`
(`DistanceInv`), `AllGivenBack` (`CleanShutdown`) and `NeverExtendedTwice`
(`ExtendedOnce`) follow. The lock goes with the place of its owner, a wrapper is in
one hook at a time, and a distance of the mod's making is covered by a record in
the table or in the frame of the thread that is giving it back (`CoverInv`). The
counter is the size of a set (`Owed`) that a step changes by one member at most, so
it is exact with a hook in the middle, too.

`EventRingProofs`, for any number of producers, any capacity, and any number of
positions and start of them:

- `RingKeepsItsWord` (`RingInv`), for any number of consumers. The positions wrap,
  so the invariant (`RingSound`) speaks of `Off(x)`, the distance of a position from
  the start, and the lemmas at the top say when the signed difference of the code
  compares distances (`DifferenceOff`) and that two positions of one slot are a
  capacity apart (`SlotApart`). `SlotSound`: the sequence number of a slot says that
  it is open for a position, or filled with it. `ProducerSound` and `ConsumerSound`:
  who is between its CAS and its publication (its release) has the slot of its
  position to itself, since a position is taken once (`TakenOnce`).
- `RingIsQueue` (`IsQueue`), for one consumer (`OneConsumer`): the CAS of a producer
  appends to the mapped queue, that of the consumer takes its head, the release ends
  the reading, and every other step stutters or loses an event. A loss as "full" needs
  one invariant more (`OneReader`): the only slot that is consumed and not yet
  released is the one being read.

Only model-checked:

- what needs fairness, which is beyond the prover, as is ENABLED: `WorkerEnds`,
  `HangIsReported`, `WaitersAnswered`, `EmitNeverWaits`, `WaitersReturn`;
- the two properties that the code does not have, `WholeQueueOnFault` and
  `GateReleased`.

Induction over data with an operator as parameter is beyond the installed
provers; the one that a proof needs (that the walk along a list exists up to any
length and finds the list) is done over a set of numbers that has a least
member outside it, by well-foundedness (`LeastOf`, `Upwards`).

## Disagreements

Two runs are expected to fail, one property each: `extras_fault` and
`startup_gate`, described above and under `findings` in `PROJECT.json`.
Met on the way, without a run of their own:

- `gu_ownership_find_entity` (`universal_pipeline.c` 482-568) re-reads both tokens and
  both keys around its copy, as if it were safe next to any mutator. Next to bare
  inserts, which nothing in the plugin calls, it is not: two inserts of one entity
  can leave a second index entry, a removal then meets the wrong one (`RxCheck`
  fails, which the code only counts), the record is cleared under the entry that
  remains, and a reader may return the cleared payload with agreeing tokens. It
  takes two threads, three slots, four tokens and a hundred steps, beyond the bounds
  of the run. Under `ownership_lock` a commit looks both keys up first
  (`universal_behavior.c` 820-831), which excludes it; `LookupsSound` is stated,
  checked and proved there.
- `GTAIVProceduralPool.c` 14405-14408 ("terminates synchronously inside
  run_patch. Every non-success that returns here is therefore inert") and
  12791-12796 ("Every failure on this path terminates the process immediately")
  are not what happens: the code's own comment at 14192 says "The host process is
  never terminated", and a failed rollback or resumption returns. `StatusIsHonest`
  says what is left in each case.
- When the beginning of the quiescence fails and the resumption after it fails
  too, the first status overwrites the second (13993-13997).
- The extras' own test of whether a thread is inside a site (12843-12858) looks at
  the instruction pointer only; the worker's test looks at return addresses too,
  but is about the worker's own sites.
- The extras read their settings by path after the identity of the file was
  verified and locked.
- The message box of the watchdog says that a dump was written whatever the
  result (12415-12424).
- The plant banks' late entry and the two skipped restorations, under their modules.

## Not modelled

- Tuning governor (9347-9520), telemetry thread and
  `verify_definition_scaling_live`: dead code in this commit, since
  `start_telemetry` (10157) is never called.
- The distance stage of the installer: `LEGACY_DISTANCE_OPERAND_PATCH_ENABLED`
  is 0. `gu_detour_*` and `gu_source_array_*`: nothing installs them.
- Logging, the report's text, SHA-256, the ini parser: input and output; each
  outcome is a refusal or a set of requested stages in `StartupInstall`.
- Build profiles, contracts, generated catalogues, the bytes of the stubs:
  constant data and machine code. The models know sites, and whether a site shows
  the expected bytes.
- The plant density catalogue: a lookup without state; `PlantBank` takes its
  answer as a constant.
- The geometry of the extras' cone: every answer it can give is possible.
- What dbghelp does when the watchdog and the crash handler write at once
  (11931, 12331).

