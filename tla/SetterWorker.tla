---------------------------- MODULE SetterWorker ----------------------------
(***************************************************************************)
(* The manager half of universal_behavior.c: engine callbacks scale the    *)
(* near/far distances of the procedural-object manager, hand the newest    *)
(* pair to an engine function (the PLANT setter) that must not be called   *)
(* under the lock nor by two threads at once, and the uninstaller shuts    *)
(* the whole thing down and gives the engine its own values back.          *)
(*                                                                         *)
(* Every section under g_gu_behavior.ownership_lock is one step; the       *)
(* unlocked reads of the waiting loop, the setter call and the event wait  *)
(* are steps of their own.  `far` stands for the three fields the engine   *)
(* recomputes together (far, query, far squared).                          *)
(***************************************************************************)
EXTENDS Integers

CONSTANTS
  Callers,        \* threads of the engine that run the two manager hooks
  MaxGeneration,  \* 0xFFFFFFFF: the last generation the code hands out
  MaxCalls,       \* GU_MANAGER_SETTER_MAX_CALLS_PER_CALLBACK
  Attempts,       \* rounds of gu_manager_wait_setter's loop (500)
  StockNear,      \* the near distance the engine keeps in the manager
  EngineFars,     \* far distances the engine may compute
  Multiplier,     \* distance_multiplier
  FarLimit        \* gu_make_distance_plan's 10000.0f

ASSUME SetterAssumption ==
  /\ MaxGeneration \in Nat \ {0}
  /\ MaxCalls \in Nat \ {0}
  /\ Attempts \in Nat \ {0}
  /\ StockNear \in Nat
  /\ EngineFars \subseteq Nat /\ EngineFars # {}
  /\ Multiplier \in Nat \ {0, 1}
  /\ FarLimit \in Nat
  \* an engine value is never mistaken for one of the scaled values
  /\ \A f, g \in EngineFars : f * Multiplier # g

VARIABLES
  enabled, shutdown_terminal,     \* feature flags
  worker_active, idle_event,      \* the worker token and the rundown event
  generation, applied_generation, \* newest scheduled, newest known applied
  desired,                        \* pair of that newest generation
  manager_key,                    \* TRUE once a scaled manager is remembered
  original, scaled,               \* remembered pairs
  manager,                        \* the live fields of the engine's manager
  failed,                         \* manager_failures or restore_mismatches > 0
  pc, required,                   \* per caller: place, generation it must see
  job,                            \* per caller: generation read for the call
  mine, calls,                    \* per caller: applied_generation, calls_drained
  attempt,                        \* per caller: round of the waiting loop
  lifecycle,                      \* place of the installing/uninstalling thread
  engine, given,                  \* what the setter was last told, and of which
                                  \* generation (observers, never read)
  engineFar                       \* the far value the engine last computed
                                  \* (observer, never read)

flags == <<enabled, shutdown_terminal>>
token == <<worker_active, idle_event>>
queue == <<generation, desired>>
record == <<manager_key, original, scaled>>
drainer == <<job, mine, calls>>
waiter == <<required, attempt>>
told == <<engine, given>>
vars == <<flags, token, queue, applied_generation, record, manager, failed,
          pc, waiter, drainer, lifecycle, told, engineFar>>

Pair(n, f) == [near |-> n, far |-> f]
NoPair == Pair(0, 0)

(***************************************************************************)
(* gu_make_distance_plan keeps the width of the fade band: near moves out  *)
(* by as much as far does.  A plan whose far leaves the engine's range, or *)
(* an inverted band, is refused.                                           *)
(***************************************************************************)
Plan(p) == Pair(p.far * Multiplier - (p.far - p.near), p.far * Multiplier)
PlanAccepts(p) == p.near < p.far /\ p.far * Multiplier <= FarLimit

Init ==
  /\ enabled = FALSE /\ shutdown_terminal = FALSE
  /\ worker_active = FALSE /\ idle_event = TRUE
  /\ generation = 0 /\ applied_generation = 0 /\ desired = NoPair
  /\ manager_key = FALSE /\ original = NoPair /\ scaled = NoPair
  /\ \E f \in EngineFars : manager = Pair(StockNear, f) /\ engineFar = f
  /\ failed = FALSE
  /\ pc = [c \in Callers |-> "idle"]
  /\ required = [c \in Callers |-> 0]
  /\ job = [c \in Callers |-> [gen |-> 0, pair |-> NoPair]]
  /\ mine = [c \in Callers |-> 0]
  /\ calls = [c \in Callers |-> 0]
  /\ attempt = [c \in Callers |-> 0]
  /\ lifecycle = "install"
  /\ engine = NoPair /\ given = 0

-----------------------------------------------------------------------------
(* Leaving the hook.  Locals that die with the call are cleared.           *)

Leave(c, ok) ==
  /\ pc' = [pc EXCEPT ![c] = "idle"]
  /\ failed' = (failed \/ ~ok)
  /\ required' = [required EXCEPT ![c] = 0]
  /\ job' = [job EXCEPT ![c] = [gen |-> 0, pair |-> NoPair]]
  /\ mine' = [mine EXCEPT ![c] = 0]
  /\ calls' = [calls EXCEPT ![c] = 0]
  /\ attempt' = [attempt EXCEPT ![c] = 0]

ReleaseToken == worker_active' = FALSE /\ idle_event' = TRUE
TakeToken == worker_active' = TRUE /\ idle_event' = FALSE

(***************************************************************************)
(* gu_manager_schedule_setter_locked: publish the pair as a new generation *)
(* and take the worker token if it is free; otherwise wait for its owner.  *)
(***************************************************************************)
Schedulable == generation < MaxGeneration

Schedule(c, pair) ==
  /\ desired' = pair
  /\ generation' = generation + 1
  /\ required' = [required EXCEPT ![c] = generation + 1]
  /\ IF worker_active
       THEN UNCHANGED token /\ pc' = [pc EXCEPT ![c] = "look"]
       ELSE TakeToken /\ pc' = [pc EXCEPT ![c] = "drain"]
  /\ UNCHANGED <<failed, drainer, attempt>>

(***************************************************************************)
(* gu_manager_scale.  The engine calls it at the end of its own            *)
(* recomputation ("postscale", which also tells the setter) and before     *)
(* each rebuild ("prebuild", which does not).                              *)
(***************************************************************************)
Rewrite(c, f) ==            \* the engine recomputes, then reaches the hook
  /\ pc[c] = "idle"
  /\ manager' = [manager EXCEPT !.far = f]
  /\ engineFar' = f
  /\ pc' = [pc EXCEPT ![c] = "postscale"]
  /\ UNCHANGED <<flags, token, queue, applied_generation, record, failed,
                 waiter, drainer, lifecycle, told>>

Rebuild(c) ==               \* the engine rebuilds what it already computed
  /\ pc[c] = "idle"
  /\ pc' = [pc EXCEPT ![c] = "prebuild"]
  /\ UNCHANGED <<flags, token, queue, applied_generation, record, manager,
                 failed, waiter, drainer, lifecycle, told, engineFar>>

InHook(c) == pc[c] \in {"postscale", "prebuild"}
AlreadyScaled == manager_key /\ manager = scaled

\* near is the code's own product once the manager is known, so the
\* remembered one is scaled again; far is fresh from the engine
Original ==
  Pair(IF manager_key THEN original.near ELSE manager.near, manager.far)

ScaleRefused(c) ==
  /\ InHook(c)
  /\ \/ ~enabled
     \/ ~AlreadyScaled /\ ~PlanAccepts(Original)
     \/ pc[c] = "postscale" /\ ~Schedulable
  /\ Leave(c, FALSE)
  /\ UNCHANGED <<flags, token, queue, applied_generation, record, manager,
                 lifecycle, told, engineFar>>

ScaleKept(c) ==
  /\ InHook(c) /\ enabled /\ AlreadyScaled
  /\ IF pc[c] = "postscale"
       THEN Schedulable /\ Schedule(c, scaled)
       ELSE Leave(c, TRUE) /\ UNCHANGED <<token, queue>>
  /\ UNCHANGED <<flags, applied_generation, record, manager, lifecycle, told,
                 engineFar>>

ScaleWrite(c) ==
  /\ InHook(c) /\ enabled /\ ~AlreadyScaled /\ PlanAccepts(Original)
  /\ IF pc[c] = "postscale"
       THEN Schedulable /\ Schedule(c, Plan(Original))
       ELSE Leave(c, TRUE) /\ UNCHANGED <<token, queue>>
  /\ original' = Original
  /\ scaled' = Plan(Original)
  /\ manager' = Plan(Original)
  /\ manager_key' = TRUE
  /\ UNCHANGED <<flags, applied_generation, lifecycle, told, engineFar>>

-----------------------------------------------------------------------------
(***************************************************************************)
(* gu_manager_drain_setter.  One locked look at the queue, then the setter *)
(* outside the lock, then the next look.                                   *)
(***************************************************************************)
PublishedApplied(c) == IF mine[c] # 0 THEN mine[c] ELSE applied_generation

Drained(c) == ~enabled \/ generation = mine[c] \/ calls[c] >= MaxCalls

DrainStop(c) ==             \* idle, shut down, or hand over what came since
  /\ pc[c] = "drain" /\ worker_active /\ Drained(c)
  /\ applied_generation' = PublishedApplied(c)
  /\ ReleaseToken
  /\ Leave(c, mine[c] >= required[c])
  /\ UNCHANGED <<flags, queue, record, manager, lifecycle, told, engineFar>>

DrainNext(c) ==
  /\ pc[c] = "drain" /\ worker_active /\ ~Drained(c)
  /\ applied_generation' = PublishedApplied(c)
  /\ job' = [job EXCEPT ![c] = [gen |-> generation, pair |-> desired]]
  /\ pc' = [pc EXCEPT ![c] = "set"]
  /\ UNCHANGED <<flags, token, queue, record, manager, failed, waiter, mine,
                 calls, lifecycle, told, engineFar>>

SetterReturns(c) ==         \* the engine's setter has run with this pair
  /\ pc[c] = "set"
  /\ engine' = job[c].pair
  /\ given' = job[c].gen
  /\ mine' = [mine EXCEPT ![c] = job[c].gen]
  /\ calls' = [calls EXCEPT ![c] = @ + 1]
  /\ pc' = [pc EXCEPT ![c] = "drain"]
  /\ UNCHANGED <<flags, token, queue, applied_generation, record, manager,
                 failed, waiter, job, lifecycle, engineFar>>

(***************************************************************************)
(* gu_manager_wait_setter: poll the applied generation, claim the token    *)
(* when its owner left without reaching ours, sleep on the event at most   *)
(* 10 ms (so the sleep may end at any time), give up after Attempts.       *)
(***************************************************************************)
Reached(c) == applied_generation >= required[c]

WaitDoneTrusting(c) ==      \* mutant: the event means our generation is done
  /\ pc[c] \in {"look", "sleep"}
  /\ Reached(c) \/ idle_event
  /\ Leave(c, TRUE)
  /\ UNCHANGED <<flags, token, queue, applied_generation, record, manager,
                 lifecycle, told, engineFar>>

WaitDone(c) ==
  /\ pc[c] \in {"look", "sleep"}
  /\ Reached(c)
  /\ Leave(c, TRUE)
  /\ UNCHANGED <<flags, token, queue, applied_generation, record, manager,
                 lifecycle, told, engineFar>>

WaitLook(c) ==
  /\ pc[c] = "look" /\ ~Reached(c)
  /\ pc' = [pc EXCEPT ![c] = "token"]
  /\ UNCHANGED <<flags, token, queue, applied_generation, record, manager,
                 failed, waiter, drainer, lifecycle, told, engineFar>>

WaitToken(c) ==
  /\ pc[c] = "token"
  /\ pc' = [pc EXCEPT ![c] = IF worker_active THEN "sleep" ELSE "claim"]
  /\ UNCHANGED <<flags, token, queue, applied_generation, record, manager,
                 failed, waiter, drainer, lifecycle, told, engineFar>>

ClaimBlind(c) ==            \* mutant: trusts the unlocked look at the token
  /\ pc[c] = "claim"
  /\ \/ Reached(c) /\ Leave(c, TRUE) /\ UNCHANGED token
     \/ /\ ~Reached(c) /\ enabled
        /\ TakeToken
        /\ pc' = [pc EXCEPT ![c] = "drain"]
        /\ UNCHANGED <<failed, waiter, drainer>>
     \/ ~Reached(c) /\ ~enabled /\ Leave(c, FALSE) /\ UNCHANGED token
  /\ UNCHANGED <<flags, queue, applied_generation, record, manager, lifecycle,
                 told, engineFar>>

ClaimUnchecked(c) ==        \* mutant: the generation is not looked at again
  /\ pc[c] = "claim"
  /\ \/ /\ enabled /\ ~worker_active
        /\ TakeToken
        /\ pc' = [pc EXCEPT ![c] = "drain"]
        /\ UNCHANGED <<failed, waiter, drainer>>
     \/ /\ worker_active
        /\ pc' = [pc EXCEPT ![c] = "sleep"]
        /\ UNCHANGED <<failed, waiter, drainer, token>>
     \/ ~worker_active /\ ~enabled /\ Leave(c, FALSE) /\ UNCHANGED token
  /\ UNCHANGED <<flags, queue, applied_generation, record, manager, lifecycle,
                 told, engineFar>>

Claim(c) ==                 \* gu_manager_claim_pending_worker
  /\ pc[c] = "claim"
  /\ \/ Reached(c) /\ Leave(c, TRUE) /\ UNCHANGED token
     \/ /\ ~Reached(c) /\ enabled /\ ~worker_active
        /\ TakeToken
        /\ pc' = [pc EXCEPT ![c] = "drain"]
        /\ UNCHANGED <<failed, waiter, drainer>>
     \/ /\ ~Reached(c) /\ worker_active
        /\ pc' = [pc EXCEPT ![c] = "sleep"]
        /\ UNCHANGED <<failed, waiter, drainer, token>>
     \/ /\ ~Reached(c) /\ ~worker_active /\ ~enabled
        /\ Leave(c, FALSE) /\ UNCHANGED token
  /\ UNCHANGED <<flags, queue, applied_generation, record, manager, lifecycle,
                 told, engineFar>>

WaitAgain(c) ==
  /\ pc[c] = "sleep" /\ ~Reached(c)
  /\ IF attempt[c] + 1 < Attempts
       THEN /\ attempt' = [attempt EXCEPT ![c] = @ + 1]
            /\ pc' = [pc EXCEPT ![c] = "look"]
            /\ UNCHANGED <<failed, required, drainer>>
       ELSE Leave(c, FALSE)
  /\ UNCHANGED <<flags, token, queue, applied_generation, record, manager,
                 lifecycle, told, engineFar>>

-----------------------------------------------------------------------------
(***************************************************************************)
(* The installing thread: enable once the hooks are written, and at        *)
(* uninstall disable, wait for the worker at most 5 s, restore.            *)
(***************************************************************************)
Others == <<pc, waiter, drainer, engineFar>>

Enable ==
  /\ lifecycle = "install"
  /\ enabled' = TRUE
  /\ lifecycle' = "running"
  /\ UNCHANGED <<shutdown_terminal, token, queue, applied_generation, record,
                 manager, failed, told, Others>>

DisableDeaf ==              \* mutant: does not wait for the worker
  /\ lifecycle = "running"
  /\ enabled' = FALSE
  /\ shutdown_terminal' = TRUE
  /\ lifecycle' = "quiet"
  /\ UNCHANGED <<token, queue, applied_generation, record, manager, failed,
                 told, Others>>

Disable ==
  /\ lifecycle = "running"
  /\ enabled' = FALSE
  /\ shutdown_terminal' = TRUE
  /\ lifecycle' = IF worker_active THEN "rundown" ELSE "quiet"
  /\ UNCHANGED <<token, queue, applied_generation, record, manager, failed,
                 told, Others>>

RundownSignalled ==
  /\ lifecycle = "rundown" /\ idle_event
  /\ lifecycle' = "quiet"
  /\ UNCHANGED <<flags, token, queue, applied_generation, record, manager,
                 failed, told, Others>>

RundownTimeout ==           \* the setter outlasted the 5 s: dirty install
  /\ lifecycle = "rundown"
  /\ lifecycle' = "dirty"
  /\ UNCHANGED <<flags, token, queue, applied_generation, record, manager,
                 failed, told, Others>>

MayRestore == ~enabled /\ shutdown_terminal /\ ~worker_active

RestoreTrusting ==          \* mutant: writes back without comparing
  /\ lifecycle = "quiet" /\ MayRestore
  /\ IF manager_key
       THEN /\ manager' = original
            /\ manager_key' = FALSE
            /\ lifecycle' = "resetting"
            /\ UNCHANGED <<original, scaled, failed>>
       ELSE /\ lifecycle' = "restored"
            /\ UNCHANGED <<manager, record, failed>>
  /\ UNCHANGED <<flags, token, queue, applied_generation, told, Others>>

Restore ==                  \* the locked part of gu_behavior_restore_manager
  /\ lifecycle = "quiet" /\ MayRestore
  /\ IF manager_key /\ manager = scaled
       THEN /\ manager' = original
            /\ manager_key' = FALSE
            /\ lifecycle' = "resetting"
            /\ UNCHANGED <<original, scaled, failed>>
       ELSE /\ lifecycle' = IF manager_key THEN "dirty" ELSE "restored"
            /\ failed' = (failed \/ manager_key)
            /\ UNCHANGED <<manager, record>>
  /\ UNCHANGED <<flags, token, queue, applied_generation, told, Others>>

RestoreSetterReturns ==
  /\ lifecycle = "resetting"
  /\ engine' = original
  /\ lifecycle' = "restored"
  /\ UNCHANGED <<flags, token, queue, applied_generation, record, manager,
                 failed, given, Others>>

-----------------------------------------------------------------------------
Worker(c) == DrainStop(c) \/ DrainNext(c) \/ SetterReturns(c)
Waiter(c) == WaitDone(c) \/ WaitLook(c) \/ WaitToken(c) \/ Claim(c)
               \/ WaitAgain(c)
Hook(c) == ScaleRefused(c) \/ ScaleKept(c) \/ ScaleWrite(c)

Next ==
  \/ \E c \in Callers :
       \/ \E f \in EngineFars : Rewrite(c, f)
       \/ Rebuild(c)
       \/ ScaleRefused(c) \/ ScaleKept(c) \/ ScaleWrite(c)
       \/ DrainStop(c) \/ DrainNext(c) \/ SetterReturns(c)
       \/ WaitDone(c) \/ WaitLook(c) \/ WaitToken(c) \/ Claim(c)
       \/ WaitAgain(c)
  \/ Enable \/ Disable \/ RundownSignalled \/ RundownTimeout
  \/ Restore \/ RestoreSetterReturns

Spec == Init /\ [][Next]_vars

(***************************************************************************)
(* A thread inside the hook is not stopped for ever: its code has no loop  *)
(* without a bound, critical sections are short and hold no engine call,   *)
(* and the engine's setter returns.  Nothing obliges the engine to call a  *)
(* hook or the user to uninstall.                                          *)
(***************************************************************************)
FairSpec ==
  Spec /\ \A c \in Callers : WF_vars(Worker(c) \/ Waiter(c) \/ Hook(c))

-----------------------------------------------------------------------------
Gens == 0 .. MaxGeneration
Fars == EngineFars \cup {f * Multiplier : f \in EngineFars} \cup {0}
Nears == 0 .. FarLimit \cup {StockNear}
Pairs == [near : Nears, far : Fars]

\* Every variable holds a value of the C type it stands for.
TypeOK ==
  /\ enabled \in BOOLEAN /\ shutdown_terminal \in BOOLEAN
  /\ worker_active \in BOOLEAN /\ idle_event \in BOOLEAN
  /\ generation \in Gens /\ applied_generation \in Gens
  /\ desired \in Pairs /\ original \in Pairs /\ scaled \in Pairs
  /\ manager \in Pairs /\ engine \in Pairs
  /\ manager_key \in BOOLEAN /\ failed \in BOOLEAN
  /\ pc \in [Callers -> {"idle", "postscale", "prebuild", "drain", "set",
                         "look", "token", "claim", "sleep"}]
  /\ required \in [Callers -> Gens]
  /\ job \in [Callers -> [gen : Gens, pair : Pairs]]
  /\ mine \in [Callers -> Gens]
  /\ calls \in [Callers -> 0 .. MaxCalls]
  /\ attempt \in [Callers -> 0 .. Attempts - 1]
  /\ lifecycle \in {"install", "running", "rundown", "quiet", "resetting",
                    "restored", "dirty"}
  /\ given \in Gens
  /\ engineFar \in EngineFars

InSetter(c) == pc[c] \in {"drain", "set"}

\* At most one thread is ever on its way into the engine's setter, it is the
\* one that holds the worker token, and the uninstaller makes its own call only
\* when there is none: the setter is a plain engine leaf with no lock.
SingleWorker ==
  /\ \A c, d \in Callers : InSetter(c) /\ InSetter(d) => c = d
  /\ worker_active <=> \E c \in Callers : InSetter(c)
  /\ idle_event <=> ~worker_active
  /\ lifecycle = "resetting" => ~ \E c \in Callers : InSetter(c)

\* A generation is reported applied only after the setter returned from it, or
\* from a newer one: a waiter that leaves content has been served.
AppliedIsHonest ==
  /\ applied_generation <= given
  /\ given <= generation

\* When disable has returned success no worker is left inside the setter, and
\* none will enter it: what the uninstaller restores next is not overwritten.
DisableDrains ==
  lifecycle \in {"quiet", "resetting", "restored"} =>
    \A c \in Callers : ~InSetter(c)

\* With nothing under way, the hooks enabled and no failure reported, what the
\* engine was told is what the manager holds, whatever was coalesced.
ManagerMatchesEngine ==
  (enabled /\ ~failed /\ generation > 0 /\ \A c \in Callers : pc[c] = "idle")
    => engine = manager /\ given = generation

\* One worker at a time; what it reports as applied was given to the engine;
\* and at rest the engine knows what the manager holds.
WorkerInv == TypeOK /\ SingleWorker /\ AppliedIsHonest /\ ManagerMatchesEngine

\* The near distance is scaled from the engine's own value however often the
\* hooks run: no scaled value is ever remembered as an original.
OriginalsAreStock ==
  manager_key => original.near = StockNear /\ original.far \in EngineFars

\* A restore that reports success leaves the engine's own near distance and the
\* far distance it last computed; until then, what was remembered to restore
\* is the engine's.
RestoreGivesBack ==
  /\ OriginalsAreStock
  /\ lifecycle \in {"resetting", "restored"} => manager = Pair(StockNear, engineFar)

\* The engine is never told an older generation after a newer one, nor the
\* same one twice.
GenerationsAdvance ==
  [][\A c \in Callers :
       pc[c] = "set" /\ pc'[c] # "set" => job[c].gen > given]_vars

\* Once the hooks are enabled every scheduled generation reaches the engine (or
\* is overtaken by one that does) unless a waiter gave up or the hooks are shut
\* down.
EventuallyApplied ==
  \A g \in 1 .. MaxGeneration :
    generation = g ~> applied_generation >= g \/ failed \/ ~enabled

\* A worker that is running when the hooks are shut down returns its token: the
\* uninstaller's wait can be answered.
WorkerRunsDown == shutdown_terminal ~> ~worker_active

\* Whoever waits for a generation, or for the worker to run down, is answered.
WaitersAnswered == EventuallyApplied /\ WorkerRunsDown
=============================================================================
