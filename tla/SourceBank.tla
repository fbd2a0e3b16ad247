----------------------------- MODULE SourceBank -----------------------------
(***************************************************************************)
(* The runtime of universal_source_bank.c.  The engine's scanner collects  *)
(* candidates in an array on its own stack, between entering and leaving   *)
(* an engine lock.  Five sites of it are patched: after the lock is        *)
(* entered a bank is leased to the thread and pushed on a frame stack held *)
(* in one TLS word; writer, reader and limit ask that word for the storage *)
(* to use; before the lock is left the frame is popped.  A frame that gets *)
(* no bank is counted in the same word and uses the stock array.           *)
(*                                                                         *)
(* Each CAS on a lease, each TlsSetValue, the check of                     *)
(* g_gu_source_bank_init_state at entry, the frame counter and each cell   *)
(* the shutdown looks at are steps of their own.  A thread's TLS word is   *)
(* its own: reading it belongs to the step before.                         *)
(***************************************************************************)
EXTENDS Integers, SequencesExt, FiniteSets

CONSTANTS
  Scanners,         \* engine threads that run the scanner
  SourceBankCount,  \* GU_SOURCE_BANK_COUNT
  StockCapacity,    \* GU_SOURCE_BANK_STOCK_CAPACITY
  SourceCapacity,   \* the configured capacity, above the stock one
  MaxScans,         \* bound: how deep the scanner nests
  MaxRuntimes,      \* bound: how often the runtime is initialised
  Unleased          \* lease 0

ASSUME SourceAssumption ==
  /\ {SourceBankCount, StockCapacity} \subseteq Nat \ {0}
  /\ SourceCapacity \in Nat /\ SourceCapacity > StockCapacity
  /\ MaxScans \in Nat /\ MaxRuntimes \in Nat
  /\ Unleased \notin Scanners /\ IsFiniteSet(Scanners)

SourceBanks == 1 .. SourceBankCount
StockArray == 0    \* the array on the scanner's stack
Unused == -1       \* the frame has not asked for its storage yet
Unrecorded == -2   \* the frame is not in the TLS word

VARIABLES
  init_state,     \* 0 absent, 2 ready, 3 shutting down
  tls,            \* g_gu_source_bank_tls is a slot
  word,           \* thread -> frames in its TLS word
  allotted,       \* threads for which TlsSetValue cannot fail any more
  leases,         \* g_gu_source_bank_leases
  active_frames,  \* g_gu_source_active_frames
  place, hand,    \* per thread: place, and bank in hand
  scans,          \* per thread: the scanner's frames, outermost first
  progress,       \* of the installer
  lease,          \* which its shutdown looks at
  patched,        \* the sites lead to the stubs
  runtimes,       \* how often the runtime was initialised
  holders         \* threads with a bank when the shutdown began (observer)

readiness == <<init_state, tls>>
records == <<word, allotted, leases, active_frames>>
places == <<place, hand>>
installing == <<progress, lease, patched, runtimes, holders>>
source_vars == <<readiness, records, places, scans, installing>>

\* The TLS word: the banks of the frames, outermost first, then the number of
\* frames inside them that use the stock array.
NoFrames == [banks |-> <<>>, fallback |-> 0]

SourceInit ==
  /\ init_state = 0 /\ tls = FALSE
  /\ word = [t \in Scanners |-> NoFrames]
  /\ allotted = {}
  /\ leases = [b \in SourceBanks |-> Unleased]
  /\ active_frames = 0
  /\ place = [t \in Scanners |-> "engine"]
  /\ hand = [t \in Scanners |-> 1]
  /\ scans = [t \in Scanners |-> <<>>]
  /\ progress = "idle" /\ lease = 0 /\ patched = FALSE /\ runtimes = 0
  /\ holders = {}

Move(t, to) == place' = [place EXCEPT ![t] = to]

\* gu_source_tls_set_raw.  The system allocates the slots above 64 of a thread
\* at its first store there; only that store can run out of memory.
Store(t, frames) ==
  /\ tls
  /\ word' = [word EXCEPT ![t] = frames]
  /\ allotted' = allotted \cup {t}
StoreFails(t) ==
  /\ ~tls \/ t \notin allotted
  /\ UNCHANGED <<word, allotted>>

-----------------------------------------------------------------------------
(* The scanner enters.  A call that finds the engine's guard at zero takes *)
(* no lock and never leaves through the patched site.                      *)

Locked(t) == \E i \in 1 .. Len(scans[t]) : scans[t][i].locked

Frame(locked) == [locked |-> locked, bank |-> Unrecorded,
                  storage |-> Unused, count |-> 0]

CallScanner(t, locked) ==
  /\ place[t] = "engine" /\ Len(scans[t]) < MaxScans
  /\ locked => \A u \in Scanners \ {t} : ~Locked(u)
  /\ ~locked => ~Locked(t)
  /\ scans' = [scans EXCEPT ![t] = Append(@, Frame(locked))]
  /\ IF patched THEN Move(t, "enter") ELSE UNCHANGED place
  /\ UNCHANGED <<readiness, records, hand, installing>>

Recorded(t, bank) ==
  scans' = [scans EXCEPT ![t][Len(scans[t])].bank = bank]

Resume(t) == Move(t, "engine") /\ hand' = [hand EXCEPT ![t] = 1]

EnterReady(t) ==
  /\ place[t] = "enter"
  /\ IF init_state = 2 /\ tls /\ Last(scans[t]).locked
       THEN /\ Move(t, IF word[t].fallback # 0 \/ Len(word[t].banks) >= SourceBankCount
                         THEN "push" ELSE "lease")
            /\ UNCHANGED hand
       ELSE Resume(t)
  /\ UNCHANGED <<readiness, records, scans, installing>>

EnterLease(t) ==
  LET b == hand[t] IN
  /\ place[t] = "lease"
  /\ \/ /\ leases[b] = Unleased
        /\ leases' = [leases EXCEPT ![b] = t]
        /\ Move(t, "store")
        /\ UNCHANGED hand
     \/ /\ leases[b] # Unleased
        /\ IF b < SourceBankCount
             THEN hand' = [hand EXCEPT ![t] = b + 1] /\ UNCHANGED place
             ELSE Move(t, "push") /\ UNCHANGED hand
        /\ UNCHANGED leases
  /\ UNCHANGED <<readiness, word, allotted, active_frames, scans, installing>>

EnterStore(t) ==
  /\ place[t] = "store"
  /\ \/ /\ Store(t, [word[t] EXCEPT !.banks = Append(@, hand[t])])
        /\ Recorded(t, hand[t])
        /\ Move(t, "count")
     \/ StoreFails(t) /\ Move(t, "unlease") /\ UNCHANGED scans
  /\ UNCHANGED <<readiness, leases, active_frames, hand, installing>>

\* A frame whose store failed gives its lease back and tries to be counted.
EnterUnlease(t) ==
  /\ place[t] = "unlease"
  /\ leases' = [leases EXCEPT ![hand[t]] = IF @ = t THEN Unleased ELSE @]
  /\ Move(t, "push")
  /\ UNCHANGED <<readiness, word, allotted, active_frames, hand, scans, installing>>

\* gu_source_push_fallback
EnterPush(t) ==
  /\ place[t] = "push"
  /\ \/ /\ Store(t, [word[t] EXCEPT !.fallback = @ + 1])
        /\ Recorded(t, StockArray)
        /\ Move(t, "count") /\ UNCHANGED hand
     \/ StoreFails(t) /\ Resume(t) /\ UNCHANGED scans
  /\ UNCHANGED <<readiness, leases, active_frames, installing>>

EnterCount(t) ==
  /\ place[t] = "count"
  /\ active_frames' = active_frames + 1
  /\ Resume(t)
  /\ UNCHANGED <<readiness, word, allotted, leases, scans, installing>>

-----------------------------------------------------------------------------
(* The scanner works on its innermost frame.                               *)

ActiveStorageOuter(t) ==   \* mutant: fallback frames are not looked at
  IF /\ init_state = 2 /\ tls
     /\ word[t].banks # <<>>
     /\ leases[Last(word[t].banks)] = t
    THEN Last(word[t].banks) ELSE StockArray

\* gu_source_bank_active_buffer
ActiveStorage(t) ==
  IF /\ init_state = 2 /\ tls
     /\ word[t].fallback = 0 /\ word[t].banks # <<>>
     /\ leases[Last(word[t].banks)] = t
    THEN Last(word[t].banks) ELSE StockArray

\* gu_source_bank_active_capacity
Limit(storage) == IF storage = StockArray THEN StockCapacity ELSE SourceCapacity

\* gu_source_bank_append at the index the scanner has reached; an entry that
\* does not fit is refused and the scanner keeps its count.
Write(t) ==
  LET storage == ActiveStorage(t)
      frame == Last(scans[t])
  IN
  /\ place[t] = "engine" /\ scans[t] # <<>> /\ patched
  /\ frame.count < Limit(storage)
  /\ scans' = [scans EXCEPT ![t][Len(scans[t])] =
                [frame EXCEPT !.count = @ + 1,
                   !.storage = IF @ \in {Unused, storage} THEN storage ELSE Unrecorded]]
  /\ UNCHANGED <<readiness, records, places, installing>>

-----------------------------------------------------------------------------
(* The scanner leaves.                                                     *)

ReturnScanner(t) ==
  /\ place[t] = "engine" /\ scans[t] # <<>>
  /\ IF patched /\ Last(scans[t]).locked
       THEN Move(t, "leave") /\ UNCHANGED scans
       ELSE scans' = [scans EXCEPT ![t] = Front(@)] /\ UNCHANGED place
  /\ UNCHANGED <<readiness, records, hand, installing>>

ScanLeft(t) == Resume(t) /\ scans' = [scans EXCEPT ![t] = Front(@)]

\* The refusals of gu_source_bank_leave_frame: no runtime, or no frame.
LeaveRefused(t) ==
  /\ place[t] = "leave"
  /\ init_state # 2 \/ ~tls \/ word[t] = NoFrames
  /\ ScanLeft(t)
  /\ UNCHANGED <<readiness, records, installing>>

LeaveFallback(t) ==
  /\ place[t] = "leave" /\ init_state = 2 /\ word[t].fallback # 0
  /\ Store(t, [word[t] EXCEPT !.fallback = @ - 1])
  /\ Move(t, "uncount")
  /\ UNCHANGED <<readiness, leases, active_frames, hand, scans, installing>>

LeaveBank(t) ==
  /\ place[t] = "leave" /\ init_state = 2
  /\ word[t].fallback = 0 /\ word[t].banks # <<>>
  /\ Store(t, [word[t] EXCEPT !.banks = Front(@)])
  /\ hand' = [hand EXCEPT ![t] = Last(word[t].banks)]
  /\ Move(t, "uncount_bank")
  /\ UNCHANGED <<readiness, leases, active_frames, scans, installing>>

LeaveCount(t) ==
  /\ place[t] \in {"uncount", "uncount_bank"}
  /\ active_frames' = active_frames - 1
  /\ IF place[t] = "uncount_bank"
       THEN Move(t, "release") /\ UNCHANGED <<hand, scans>>
       ELSE ScanLeft(t)
  /\ UNCHANGED <<readiness, word, allotted, leases, installing>>

LeaveUnlease(t) ==
  /\ place[t] = "release"
  /\ leases' = [leases EXCEPT ![hand[t]] = IF @ = t THEN Unleased ELSE @]
  /\ ScanLeft(t)
  /\ UNCHANGED <<readiness, word, allotted, active_frames, installing>>

-----------------------------------------------------------------------------
(* The installer: initialise and configure while preparing, write the      *)
(* hooks, and shut down, either to cancel or to uninstall.                 *)

Stage(to) == progress' = to

\* gu_source_bank_initialize; TlsAlloc may fail.
SourceInitialize ==
  /\ progress = "idle" /\ init_state = 0 /\ runtimes < MaxRuntimes
  /\ init_state' = 2 /\ tls' = TRUE
  /\ word' = [t \in Scanners |-> NoFrames]
  /\ leases' = [b \in SourceBanks |-> Unleased]
  /\ active_frames' = 0
  /\ runtimes' = runtimes + 1
  /\ Stage("initialized")
  /\ UNCHANGED <<allotted, places, scans, lease, patched, holders>>

\* gu_source_bank_configure, and the rest of the preparation.
Configure ==
  /\ progress = "initialized"
  /\ Stage(IF \A b \in SourceBanks : leases[b] = Unleased THEN "prepared" ELSE "shutdown")
  /\ UNCHANGED <<readiness, records, places, scans, lease, patched, runtimes, holders>>

Commit ==
  /\ progress = "prepared"
  /\ patched' = TRUE /\ Stage("active")
  /\ UNCHANGED <<readiness, records, places, scans, lease, runtimes, holders>>

\* A transaction that fails is rolled back and everything is retained.
CommitUndone ==
  /\ progress = "active" /\ patched' = FALSE /\ Stage("dirty")
  /\ UNCHANGED <<readiness, records, places, scans, lease, runtimes, holders>>

Cancel ==
  /\ progress = "prepared" /\ Stage("shutdown")
  /\ UNCHANGED <<readiness, records, places, scans, lease, patched, runtimes, holders>>

Unhook ==
  /\ progress = "active"
  /\ patched' = FALSE /\ Stage("shutdown")
  /\ UNCHANGED <<readiness, records, places, scans, lease, runtimes, holders>>

\* gu_source_bank_shutdown
BlockScans ==
  /\ progress = "shutdown"
  /\ init_state' = 3 /\ Stage("frames")
  /\ holders' = {t \in Scanners : word[t].banks # <<>>}
  /\ UNCHANGED <<tls, records, places, scans, lease, patched, runtimes>>

Refuse ==                  \* ready again; the installer gives up
  /\ init_state' = 2 /\ Stage("dirty") /\ lease' = 0
  /\ UNCHANGED <<tls, records, places, scans, patched, runtimes, holders>>

CheckFrames ==
  /\ progress = "frames"
  /\ \/ active_frames # 0 /\ Refuse
     \/ /\ active_frames = 0
        /\ Stage("scan") /\ lease' = 1
        /\ UNCHANGED <<readiness, records, places, scans, patched, runtimes, holders>>

ScanLeaseTrusting ==       \* mutant: the frame counter alone is believed
  /\ progress = "scan" /\ lease <= SourceBankCount
  /\ lease' = lease + 1
  /\ UNCHANGED <<readiness, records, places, scans, progress, patched, runtimes, holders>>

ScanLease ==
  /\ progress = "scan" /\ lease <= SourceBankCount
  /\ \/ leases[lease] # Unleased /\ Refuse
     \/ /\ leases[lease] = Unleased
        /\ lease' = lease + 1
        /\ UNCHANGED <<readiness, records, places, scans, progress, patched, runtimes, holders>>

\* TlsFree clears the slot of every thread.
Free ==
  /\ progress = "scan" /\ lease > SourceBankCount
  /\ tls' = FALSE /\ Stage("close")
  /\ word' = [t \in Scanners |-> NoFrames]
  /\ scans' = [t \in Scanners |->
                [i \in 1 .. Len(scans[t]) |-> [scans[t][i] EXCEPT !.bank = Unrecorded]]]
  /\ lease' = 0
  /\ UNCHANGED <<init_state, allotted, leases, active_frames, places, patched,
                 runtimes, holders>>

Close ==
  /\ progress = "close"
  /\ init_state' = 0 /\ Stage("idle")
  /\ UNCHANGED <<tls, records, places, scans, lease, patched, runtimes, holders>>

-----------------------------------------------------------------------------
Enter(t) ==
  \/ EnterReady(t) \/ EnterLease(t) \/ EnterStore(t) \/ EnterUnlease(t)
  \/ EnterPush(t) \/ EnterCount(t)
Leave(t) ==
  \/ LeaveRefused(t) \/ LeaveFallback(t) \/ LeaveBank(t) \/ LeaveCount(t)
  \/ LeaveUnlease(t)
Engine(t) ==
  \/ \E locked \in BOOLEAN : CallScanner(t, locked)
  \/ Write(t) \/ ReturnScanner(t)
Installer ==
  \/ SourceInitialize \/ Configure \/ Commit \/ CommitUndone \/ Cancel \/ Unhook
  \/ BlockScans \/ CheckFrames \/ ScanLease \/ Free \/ Close

SourceNext == Installer \/ \E t \in Scanners : Engine(t) \/ Enter(t) \/ Leave(t)

SourceSpec == SourceInit /\ [][SourceNext]_source_vars

-----------------------------------------------------------------------------
(* Properties.                                                             *)

ScanPlaces == {"engine", "enter", "lease", "store", "unlease", "push", "count",
           "leave", "uncount", "uncount_bank", "release"}

\* Every variable has its type.
SourceTypeOK ==
  /\ init_state \in {0, 2, 3} /\ tls \in BOOLEAN
  /\ word \in [Scanners -> [banks : Seq(SourceBanks), fallback : Nat]]
  /\ allotted \subseteq Scanners
  /\ leases \in [SourceBanks -> Scanners \cup {Unleased}]
  /\ active_frames \in Int
  /\ place \in [Scanners -> ScanPlaces] /\ hand \in [Scanners -> SourceBanks]
  /\ scans \in [Scanners ->
       Seq([locked : BOOLEAN, bank : SourceBanks \cup {StockArray, Unrecorded},
            storage : SourceBanks \cup {StockArray, Unused, Unrecorded}, count : Nat])]
  /\ patched \in BOOLEAN /\ runtimes \in 0 .. MaxRuntimes
  /\ lease \in 0 .. SourceBankCount + 1 /\ holders \subseteq Scanners

\* A bank on a frame stack is leased to that thread and on no other stack, nor
\* twice on the same one.
FramesAreLeased ==
  tls => \A t \in Scanners : \A i \in 1 .. Len(word[t].banks) :
    /\ leases[word[t].banks[i]] = t
    /\ \A j \in 1 .. i - 1 : word[t].banks[i] # word[t].banks[j]

\* The n outermost frames of a scanner's thread are those of its TLS word: first
\* frames the word does not hold, then the ones with a bank, in order, then the
\* ones that were counted.
Describes(t, n) ==
  LET held == Len(word[t].banks)
      outside == n - held - word[t].fallback
  IN  /\ outside >= 0
      /\ \A i \in 1 .. n : scans[t][i].bank =
           IF i <= outside THEN Unrecorded
           ELSE IF i <= outside + held THEN word[t].banks[i - outside]
           ELSE StockArray

\* While the hooks are in, the TLS word of a thread describes the frames of its
\* scanner one by one.  A frame the word does not hold is outside all those it
\* holds, so each leave finds its own frame on top, whatever failed at entry;
\* and nothing stays counted or leased when every frame has been left.
FramesBalance ==
  patched =>
    /\ \A t \in Scanners : place[t] = "engine" => Describes(t, Len(scans[t]))
    /\ (\A t \in Scanners : place[t] = "engine" /\ scans[t] = <<>>) =>
         active_frames = 0 /\ \A b \in SourceBanks : leases[b] = Unleased

\* While the hooks are in, a scan writes to one storage from its first entry to
\* its last, the one it was given when it entered, however many scans it
\* encloses, and never past its end.
OneStoragePerScan ==
  patched => \A t \in Scanners : \A i \in 1 .. Len(scans[t]) :
    LET frame == scans[t][i] IN
    frame.storage # Unused =>
      /\ frame.storage = IF frame.bank \in SourceBanks THEN frame.bank ELSE StockArray
      /\ frame.count <= Limit(frame.storage)

\* Every frame holds its lease, is the scan's own from entry to leave, and
\* stays in one storage.
SourceInv == SourceTypeOK /\ FramesAreLeased /\ FramesBalance /\ OneStoragePerScan

\* The slot is never freed under a frame that had a bank when the shutdown began,
\* whether or not the frame had been counted by then.  (A frame on the stock
\* array that is recorded but not yet counted may lose the slot; it has nothing
\* to lose with it.)
SlotOutlivesFrames == [][tls /\ ~tls' => holders = {}]_source_vars
=============================================================================
