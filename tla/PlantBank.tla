------------------------------ MODULE PlantBank ------------------------------
(***************************************************************************)
(* The runtime of universal_plant_bank.c.  Each generation of plants, a    *)
(* call of the engine that may nest, is wrapped: it leases one of a few    *)
(* enlarged banks for its candidates and outputs, or uses the engine's     *)
(* stock arrays when none is free.  Threads find their frames through a    *)
(* small registry of contexts keyed by thread id.  The installer creates   *)
(* and destroys the banks, and blocks entry through initialize_state.      *)
(*                                                                         *)
(* Each CAS on a context or a bank, each cell the installer scans, and the *)
(* check of initialize_state at entry are steps of their own.  A thread's  *)
(* accesses to its own context are private and belong to the step before.  *)
(***************************************************************************)
EXTENDS Integers, SequencesExt, FiniteSets

CONSTANTS
  Threads,       \* engine threads that generate plants
  BankCount,     \* GU_PLANT_BANK_COUNT
  ContextCount,  \* GU_PLANT_THREAD_CONTEXTS
  FrameDepth,    \* GU_PLANT_FRAME_DEPTH
  Capacity,      \* GU_PLANT_BANK_CAPACITY
  Authored,      \* plant counts the engine asks for
  Multiplier,    \* what the density selector answers, when it is set
  MaxNest,       \* bound: how deep the engine nests generations
  MaxInstalls,   \* bound: how often the banks are created
  Nobody         \* owner_thread_id 0

ASSUME PlantAssumption ==
  /\ {BankCount, ContextCount, FrameDepth, Capacity, Multiplier} \subseteq Nat \ {0}
  /\ MaxNest \in Nat /\ MaxInstalls \in Nat
  /\ Authored \subseteq Nat
  /\ Nobody \notin Threads

Banks == 1 .. BankCount
Contexts == 1 .. ContextCount
Stock == 0         \* GU_PLANT_SELECTOR_DISABLED: the engine's own arrays
Unresolved == -1   \* the frame has not asked for an address yet

VARIABLES
  initialize_state,  \* 0 absent, 1 blocked, 2 ready
  storage,           \* 0: NULL, else the number of the installation
  selector,          \* a density selector is set
  bank_owner,        \* bank -> context that leases it, or 0
  contexts,          \* the registry
  pc, at, mine,      \* per thread: place, probe index, context in hand
  nest,              \* per thread: the engine's generations, outermost first
  stage, cell,       \* the installer: place, and cell of its idle scan
  hooked,            \* the call sites lead to the stubs
  installs,          \* how often the banks were created
  elders             \* contexts and owners when entry was blocked (observer)

registry == <<bank_owner, contexts>>
runtime == <<initialize_state, storage, selector>>
locals == <<pc, at, mine>>
installer == <<stage, cell, hooked, installs, elders>>
vars == <<runtime, registry, locals, nest, installer>>

NoContext == [owner |-> Nobody, frames |-> <<>>, active |-> Stock,
              overflow |-> 0, before |-> Stock]
Own(t) == {c \in Contexts : contexts[c].owner = t}

Init ==
  /\ initialize_state = 0 /\ storage = 0 /\ selector = FALSE
  /\ bank_owner = [b \in Banks |-> 0]
  /\ contexts = [c \in Contexts |-> NoContext]
  /\ pc = [t \in Threads |-> "engine"]
  /\ at = [t \in Threads |-> 1]
  /\ mine = [t \in Threads |-> 0]
  /\ nest = [t \in Threads |-> <<>>]
  /\ stage = "idle" /\ cell = 0 /\ hooked = FALSE /\ installs = 0
  /\ elders = {}

Goto(t, label) == pc' = [pc EXCEPT ![t] = label]
SetContext(c, context) == contexts' = [contexts EXCEPT ![c] = context]

-----------------------------------------------------------------------------
(* The wrapped generation call: enter, generate, leave.                    *)

CallWrapper(t) ==
  /\ pc[t] = "engine" /\ hooked /\ Len(nest[t]) < MaxNest
  /\ Goto(t, "enter")
  /\ UNCHANGED <<runtime, registry, at, mine, nest, installer>>

Entered(t, bank) ==        \* the engine's generation starts
  /\ nest' = [nest EXCEPT ![t] =
                Append(@, [bank |-> bank, source |-> Unresolved, total |-> 0])]
  /\ Goto(t, "engine")
  /\ at' = [at EXCEPT ![t] = 1]
  /\ mine' = [mine EXCEPT ![t] = 0]

EnterCheck(t) ==
  /\ pc[t] = "enter"
  /\ IF initialize_state = 2
       THEN Goto(t, "lookup") /\ UNCHANGED <<at, mine, nest>>
       ELSE Entered(t, Stock)
  /\ UNCHANGED <<runtime, registry, installer>>

EnterLookup(t) ==
  /\ pc[t] = "lookup"
  /\ IF Own(t) = {}
       THEN Goto(t, "claim") /\ UNCHANGED mine
       ELSE Goto(t, "bank") /\ \E c \in Own(t) : mine' = [mine EXCEPT ![t] = c]
  /\ UNCHANGED <<runtime, registry, at, nest, installer>>

EnterClaim(t) ==
  LET c == at[t] IN
  /\ pc[t] = "claim"
  /\ \/ /\ contexts[c].owner = Nobody
        /\ SetContext(c, [NoContext EXCEPT !.owner = t])
        /\ mine' = [mine EXCEPT ![t] = c]
        /\ at' = [at EXCEPT ![t] = 1]
        /\ Goto(t, "bank")
        /\ UNCHANGED nest
     \/ /\ contexts[c].owner # Nobody /\ c < ContextCount
        /\ at' = [at EXCEPT ![t] = c + 1]
        /\ UNCHANGED <<contexts, pc, mine, nest>>
     \/ /\ contexts[c].owner # Nobody /\ c = ContextCount
        /\ Entered(t, Stock)
        /\ UNCHANGED contexts
  /\ UNCHANGED <<runtime, bank_owner, installer>>

Push(t, bank) ==
  LET k == contexts[mine[t]] IN
  /\ SetContext(mine[t],
       [k EXCEPT !.frames = Append(@, [previous |-> k.active, leased |-> bank]),
                 !.active = bank])
  /\ Entered(t, bank)

TooDeep(t) == Len(contexts[mine[t]].frames) >= FrameDepth

Overflow(t) ==
  LET k == contexts[mine[t]] IN
  /\ SetContext(mine[t],
       [k EXCEPT !.overflow = @ + 1,
                 !.active = Stock,
                 !.before = IF k.overflow = 0 THEN k.active ELSE @])
  /\ Entered(t, Stock)

EnterBank(t) ==
  LET b == at[t] IN
  /\ pc[t] = "bank"
  /\ \/ TooDeep(t) /\ Overflow(t) /\ UNCHANGED bank_owner
     \/ /\ ~TooDeep(t) /\ bank_owner[b] = 0
        /\ bank_owner' = [bank_owner EXCEPT ![b] = mine[t]]
        /\ Push(t, b)
     \/ /\ ~TooDeep(t) /\ bank_owner[b] # 0 /\ b < BankCount
        /\ at' = [at EXCEPT ![t] = b + 1]
        /\ UNCHANGED <<registry, pc, mine, nest>>
     \/ /\ ~TooDeep(t) /\ bank_owner[b] # 0 /\ b = BankCount
        /\ Push(t, Stock)
        /\ UNCHANGED bank_owner
  /\ UNCHANGED <<runtime, installer>>

-----------------------------------------------------------------------------
(* Inside a generation: gu_active_selector, the addresses, the counts.     *)

ActiveSelector(t) ==
  IF initialize_state = 2 /\ Own(t) # {}
    THEN LET c == CHOOSE x \in Own(t) : TRUE
             b == contexts[c].active
         IN  IF b \in Banks /\ bank_owner[b] = c THEN b ELSE Stock
    ELSE Stock

Generating(t) == pc[t] = "engine" /\ hooked /\ nest[t] # <<>>
SetTop(t, e) == nest' = [nest EXCEPT ![t] = Append(Front(@), e)]

Resolve(t) ==               \* gu_resolve_active_address
  /\ Generating(t)
  /\ SetTop(t, [Last(nest[t]) EXCEPT !.source = ActiveSelector(t)])
  /\ UNCHANGED <<runtime, registry, locals, installer>>

Emitted(t, asked) ==        \* none outside a bank, never beyond its end
  LET left == Capacity - Last(nest[t]).total
  IN  IF ActiveSelector(t) = Stock THEN 0
      ELSE IF asked < left THEN asked ELSE left

Count(t, a) ==              \* gu_plant_bank_compute_selected_count
  /\ Generating(t)
  /\ \E m \in {1} \cup (IF selector THEN {Multiplier} ELSE {}) :
       SetTop(t, [Last(nest[t]) EXCEPT !.total = @ + Emitted(t, a * m)])
  /\ UNCHANGED <<runtime, registry, locals, installer>>

-----------------------------------------------------------------------------
Return(t) ==
  /\ pc[t] = "engine" /\ nest[t] # <<>>
  /\ nest' = [nest EXCEPT ![t] = Front(@)]
  /\ Goto(t, "leave")
  /\ UNCHANGED <<runtime, registry, at, mine, installer>>

Left(t) == Goto(t, "engine") /\ mine' = [mine EXCEPT ![t] = 0]

LeaveLookup(t) ==
  /\ pc[t] = "leave"
  /\ IF initialize_state = 2 /\ Own(t) # {}
       THEN /\ \E c \in Own(t) : mine' = [mine EXCEPT ![t] = c]
            /\ Goto(t, "pop")
       ELSE Left(t)
  /\ UNCHANGED <<runtime, registry, at, nest, installer>>

\* The code's branch for a context without frames is unreachable (LeaseBalanced).
LeaveOverflow(t) ==
  LET k == contexts[mine[t]] IN
  /\ pc[t] = "pop" /\ k.overflow > 0
  /\ SetContext(mine[t], [k EXCEPT !.overflow = @ - 1,
                                   !.active = IF k.overflow = 1 THEN k.before ELSE @])
  /\ Left(t)
  /\ UNCHANGED <<runtime, bank_owner, at, nest, installer>>

LeavePopForgetful(t) ==     \* mutant: the outer frame's bank is not restored
  LET c == mine[t]
      f == Last(contexts[c].frames)
  IN
  /\ pc[t] = "pop" /\ contexts[c].overflow = 0 /\ contexts[c].frames # <<>>
  /\ bank_owner' = IF f.leased # Stock /\ bank_owner[f.leased] = c
                     THEN [bank_owner EXCEPT ![f.leased] = 0] ELSE bank_owner
  /\ SetContext(c, [contexts[c] EXCEPT !.frames = Front(@), !.active = Stock])
  /\ IF Len(contexts[c].frames) = 1
       THEN Goto(t, "release") /\ UNCHANGED mine
       ELSE Left(t)
  /\ UNCHANGED <<runtime, at, nest, installer>>

LeavePop(t) ==
  LET c == mine[t]
      f == Last(contexts[c].frames)
      held == f.leased = Stock \/ bank_owner[f.leased] = c
  IN
  /\ pc[t] = "pop" /\ contexts[c].overflow = 0 /\ contexts[c].frames # <<>>
  /\ bank_owner' = IF f.leased # Stock /\ held
                     THEN [bank_owner EXCEPT ![f.leased] = 0] ELSE bank_owner
  /\ SetContext(c, [contexts[c] EXCEPT !.frames = Front(@),
                                       !.active = IF held THEN f.previous ELSE Stock])
  /\ IF Len(contexts[c].frames) = 1
       THEN Goto(t, "release") /\ UNCHANGED mine
       ELSE Left(t)
  /\ UNCHANGED <<runtime, at, nest, installer>>

LeaveRelease(t) ==          \* gu_release_idle_thread_context
  /\ pc[t] = "release"
  /\ SetContext(mine[t], NoContext)
  /\ Left(t)
  /\ UNCHANGED <<runtime, bank_owner, at, nest, installer>>

-----------------------------------------------------------------------------
(***************************************************************************)
(* The installer, one thread.  Preparing creates the banks and sets the    *)
(* selector before any hook is written; a prepare that fails later clears  *)
(* it and destroys the banks.  Uninstalling takes the hooks out first.     *)
(***************************************************************************)
Others == <<registry, locals, nest>>

Initialize ==
  /\ stage = "idle" /\ installs < MaxInstalls
  /\ initialize_state = 0
  /\ initialize_state' = 1
  /\ stage' = "initializing"
  /\ UNCHANGED <<storage, selector, cell, hooked, installs, elders, Others>>

InitializeFails ==          \* no memory
  /\ stage = "initializing"
  /\ initialize_state' = 0
  /\ stage' = "idle"
  /\ UNCHANGED <<storage, selector, cell, hooked, installs, elders, Others>>

InitializeDone ==
  /\ stage = "initializing"
  /\ storage' = installs + 1
  /\ installs' = installs + 1
  /\ contexts' = [c \in Contexts |-> NoContext]
  /\ bank_owner' = [b \in Banks |-> 0]
  /\ selector' = FALSE
  /\ initialize_state' = 2
  /\ stage' = "set"
  /\ UNCHANGED <<cell, hooked, elders, locals, nest>>

\* gu_plant_bank_set_selector, _clear_selector and _shutdown begin alike.
Block ==
  /\ stage \in {"set", "clear", "shutdown"} /\ cell = 0
  /\ initialize_state = 2
  /\ initialize_state' = 1
  /\ cell' = 1
  /\ elders' = {<<c, contexts[c].owner>> : c \in {x \in Contexts : contexts[x].owner # Nobody}}
  /\ UNCHANGED <<storage, selector, stage, hooked, installs, Others>>

CellBusy ==                 \* gu_runtime_is_idle: banks first, then contexts
  IF cell \in Banks THEN bank_owner[cell] # 0
  ELSE contexts[cell - BankCount].owner # Nobody

Scanned == cell = BankCount + ContextCount + 1

ScanOn ==
  /\ cell # 0 /\ ~Scanned /\ ~CellBusy
  /\ cell' = cell + 1
  /\ UNCHANGED <<runtime, stage, hooked, installs, elders, Others>>

ScanBusyIgnored ==          \* mutant: an entry that uses no bank is no user
  /\ cell # 0 /\ ~Scanned /\ CellBusy
  /\ IF cell \in Banks
       THEN /\ initialize_state' = 2
            /\ cell' = 0
            /\ stage' = CASE stage = "set" -> "clear"
                          [] stage = "clear" -> "shutdown"
                          [] stage = "shutdown" -> "dirty"
       ELSE cell' = cell + 1 /\ UNCHANGED <<initialize_state, stage>>
  /\ UNCHANGED <<storage, selector, hooked, installs, elders, Others>>

ScanBusy ==                 \* refused: entry is open again
  /\ cell # 0 /\ ~Scanned /\ CellBusy
  /\ initialize_state' = 2
  /\ cell' = 0
  /\ stage' = CASE stage = "set" -> "clear"
                [] stage = "clear" -> "shutdown"
                [] stage = "shutdown" -> "dirty"
  /\ UNCHANGED <<storage, selector, hooked, installs, elders, Others>>

SetSelector ==
  /\ stage = "set" /\ Scanned
  /\ selector' = TRUE
  /\ initialize_state' = 2
  /\ cell' = 0
  /\ stage' = "prepared"
  /\ UNCHANGED <<storage, hooked, installs, elders, Others>>

ClearSelector ==
  /\ stage = "clear" /\ Scanned
  /\ selector' = FALSE
  /\ initialize_state' = 2
  /\ cell' = 0
  /\ stage' = "shutdown"
  /\ UNCHANGED <<storage, hooked, installs, elders, Others>>

Shutdown ==
  /\ stage = "shutdown" /\ Scanned
  /\ storage' = 0
  /\ selector' = FALSE
  /\ initialize_state' = 0
  /\ cell' = 0
  /\ stage' = "idle"
  /\ UNCHANGED <<hooked, installs, elders, Others>>

SourceBankBusy ==           \* gu_source_bank_shutdown refuses first
  /\ stage = "shutdown" /\ cell = 0
  /\ stage' = "dirty"
  /\ UNCHANGED <<runtime, cell, hooked, installs, elders, Others>>

CommitPrepared ==
  /\ stage = "prepared"
  /\ hooked' = TRUE
  /\ stage' \in {"active", "failing"}   \* a later write may fail
  /\ UNCHANGED <<runtime, cell, installs, elders, Others>>

AbortPrepared ==            \* a later preparation failed, or cancel
  /\ stage = "prepared"
  /\ stage' = "clear"
  /\ UNCHANGED <<runtime, cell, hooked, installs, elders, Others>>

RollbackFailedCommit ==     \* the banks are retained for ever
  /\ stage = "failing"
  /\ hooked' = FALSE
  /\ stage' = "retained"
  /\ UNCHANGED <<runtime, cell, installs, elders, Others>>

Uninstall ==
  /\ stage = "active"
  /\ hooked' = FALSE
  /\ stage' = "clear"
  /\ UNCHANGED <<runtime, cell, installs, elders, Others>>

-----------------------------------------------------------------------------
Install ==
  \/ Initialize \/ InitializeFails \/ InitializeDone
  \/ Block \/ ScanOn \/ ScanBusy \/ SetSelector \/ ClearSelector \/ Shutdown
  \/ SourceBankBusy \/ CommitPrepared \/ AbortPrepared \/ RollbackFailedCommit
  \/ Uninstall

Next ==
  \/ \E t \in Threads :
       \/ CallWrapper(t) \/ EnterCheck(t) \/ EnterLookup(t) \/ EnterClaim(t)
       \/ EnterBank(t) \/ Resolve(t) \/ Return(t)
       \/ LeaveLookup(t) \/ LeaveOverflow(t) \/ LeavePop(t) \/ LeaveRelease(t)
       \/ \E a \in Authored : Count(t, a)
  \/ Install

Spec == Init /\ [][Next]_vars

-----------------------------------------------------------------------------
Places == {"engine", "enter", "lookup", "claim", "bank", "leave", "pop", "release"}
Stages == {"idle", "initializing", "set", "clear", "shutdown", "prepared",
           "active", "failing", "retained", "dirty"}
Sources == Banks \cup {Stock}
IsContext(c) ==
  /\ c.owner \in Threads \cup {Nobody}
  /\ Len(c.frames) <= FrameDepth
  /\ \A i \in 1 .. Len(c.frames) :
       c.frames[i] \in [previous : Sources, leased : Sources]
  /\ c.active \in Sources /\ c.before \in Sources /\ c.overflow \in Nat

\* Every variable has its type; no context holds more frames than it has room
\* for.
TypeOK ==
  /\ initialize_state \in 0 .. 2
  /\ storage \in 0 .. MaxInstalls /\ installs \in 0 .. MaxInstalls
  /\ selector \in BOOLEAN /\ hooked \in BOOLEAN
  /\ bank_owner \in [Banks -> Contexts \cup {0}]
  /\ \A c \in Contexts : IsContext(contexts[c])
  /\ pc \in [Threads -> Places]
  /\ at \in [Threads -> 1 .. BankCount + ContextCount]
  /\ mine \in [Threads -> Contexts \cup {0}]
  /\ \A t \in Threads : \A i \in 1 .. Len(nest[t]) :
       nest[t][i] \in [bank : Sources, source : Sources \cup {Unresolved}, total : Nat]
  /\ stage \in Stages
  /\ cell \in 0 .. BankCount + ContextCount + 1
  /\ elders \subseteq Contexts \X Threads

Generations == {g \in Threads \X (1 .. MaxNest) : g[2] <= Len(nest[g[1]])}
BankOf(g) == nest[g[1]][g[2]].bank

\* The banks are in use and nobody has begun to uninstall them.
InUse == stage \in {"prepared", "active", "failing", "retained"}

\* Two generations under way, of two threads or one inside the other, never
\* share a bank.
NoSharedBank == InUse =>
  \A g, h \in Generations : g # h /\ BankOf(g) # Stock => BankOf(g) # BankOf(h)

\* Until somebody uninstalls, a thread outside all generations has given
\* everything back: it owns no context, each leased bank belongs to somebody's
\* generation or to one that is just being left, and a leave that finds its
\* context finds its frame in it.
LeaseBalanced == InUse =>
  /\ \A t \in Threads : pc[t] = "pop" =>
       contexts[mine[t]].overflow > 0 \/ contexts[mine[t]].frames # <<>>
  /\ \A t \in Threads : pc[t] = "engine" /\ nest[t] = <<>> => Own(t) = {}
  /\ \A b \in Banks : bank_owner[b] # 0 =>
       LET t == contexts[bank_owner[b]].owner
       IN  \/ t # Nobody /\ pc[t] \in {"leave", "pop"}
           \/ \E g \in Generations : BankOf(g) = b /\ g[1] = t

\* Every address a generation asks for comes from the storage it was given on
\* entry, also after the generations inside it ended.
OneStoragePerGeneration ==
  \A g \in Generations : nest[g[1]][g[2]].source \in {Unresolved, BankOf(g)}

\* No generation emits more plants than its storage holds, and none at all when
\* it fell back to the stock arrays.
CountFitsStorage ==
  \A g \in Generations :
    nest[g[1]][g[2]].total <= IF BankOf(g) = Stock THEN 0 ELSE Capacity

\* Until somebody uninstalls, every generation works in one storage and inside
\* its limit.
GenerationSound == InUse => OneStoragePerGeneration /\ CountFitsStorage

\* No bank has two users, none stays leased without one, and generations are
\* sound.
PlantInv == TypeOK /\ NoSharedBank /\ LeaseBalanced /\ GenerationSound

\* Whoever had a context when entry was blocked has given it back before the
\* storage goes: the shutdown never pulls a bank from under an old entry.
OldEntriesKeepStorage ==
  [][storage # 0 /\ storage' = 0 =>
       \A e \in elders : contexts[e[1]].owner # e[2]]_vars
=============================================================================
