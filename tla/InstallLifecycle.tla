-------------------------- MODULE InstallLifecycle --------------------------
(***************************************************************************)
(* The life of the installation, universal_install.c: prepare the stubs    *)
(* and the transaction, commit it or cancel, uninstall.  One word,         *)
(* g_gu_install_lifecycle_state, admits one operation at a time.  Engine   *)
(* threads run into the stubs through whatever branch they find at a site, *)
(* and may stay there for as long as they like.                            *)
(*                                                                         *)
(* A call that is not admitted only counts a rejection and is left out.    *)
(* Commit and cancel are called by the caller whose prepare succeeded.     *)
(***************************************************************************)
EXTENDS PatchTransaction

CONSTANTS
  Callers,      \* threads that call the exported operations
  Engine,       \* engine threads
  Tracked       \* sites whose stubs lease a bank, the others are hooks

ASSUME LifecycleAssumption == Tracked \subseteq Sites

VARIABLES
  lifecycle,   \* g_gu_install_lifecycle_state
  live,        \* the stubs of preparation gen are allocated
  enabled,     \* g_gu_behavior.enabled
  pc, at,      \* per caller: place, and site in hand
  inside       \* engine thread -> [site, gen, leased] or Outside

vars == <<gen, saved, transaction, lifecycle, live, enabled, pc, at, inside>>
rest == <<gen, saved, transaction>>

Outside == [site |-> 0, gen |-> 0, leased |-> FALSE]

Init ==
  /\ InitTransaction
  /\ lifecycle = "idle" /\ live = FALSE /\ enabled = FALSE
  /\ pc = [c \in Callers |-> "out"]
  /\ at = [c \in Callers |-> 0]
  /\ inside = [e \in Engine |-> Outside]

Goto(c, place) == pc' = [pc EXCEPT ![c] = place]
GotoSite(c, place, s) == Goto(c, place) /\ at' = [at EXCEPT ![c] = s]
Finish(c, state) == Goto(c, "out") /\ lifecycle' = state

-----------------------------------------------------------------------------
(* gu_universal_prepare                                                    *)

\* Admitted, and refused for its arguments or admitted for good.
Prepare(c) ==
  /\ pc[c] = "out" /\ lifecycle = "idle" /\ gen < MaxInstalls
  /\ lifecycle' = "preparing" /\ Goto(c, "arguments")
  /\ UNCHANGED <<rest, live, enabled, at, inside>>

Arguments(c) ==
  /\ pc[c] = "arguments"
  /\ \/ Finish(c, "idle") /\ UNCHANGED <<rest, live, enabled>>
     \/ /\ NewTransaction
        /\ live' = TRUE /\ enabled' = FALSE
        /\ Goto(c, "add")
        /\ UNCHANGED lifecycle
  /\ UNCHANGED <<at, inside>>

\* Each preparer builds its stubs and adds its sites; each may fail.
AddSite(c) ==
  /\ pc[c] = "add"
  /\ \/ Add /\ UNCHANGED pc
     \/ count < SiteCount /\ Goto(c, "abort") /\ UNCHANGED rest
     \/ /\ count = SiteCount
        /\ \E place \in {"prepared", "abort"} : Goto(c, place)    \* module pin
        /\ UNCHANGED rest
  /\ UNCHANGED <<lifecycle, live, enabled, at, inside>>

\* gu_source_bank_shutdown and gu_plant_bank_shutdown prove the banks idle.
BanksIdle == \A e \in Engine : ~inside[e].leased

\* gu_install_abort_prepared
Abort(c) ==
  /\ pc[c] = "abort"
  /\ \/ /\ BanksIdle
        /\ live' = FALSE
        /\ Finish(c, "idle")
     \/ Finish(c, "dirty") /\ UNCHANGED live
  /\ UNCHANGED <<rest, enabled, at, inside>>

\* gu_universal_cancel_prepared
Cancel(c) ==
  /\ pc[c] = "prepared" /\ lifecycle = "preparing"
  /\ lifecycle' = "cancelling" /\ Goto(c, "abort")
  /\ UNCHANGED <<rest, live, enabled, at, inside>>

-----------------------------------------------------------------------------
(* gu_universal_commit_prepared                                            *)

Commit(c) ==
  /\ pc[c] = "prepared" /\ lifecycle = "preparing"
  /\ lifecycle' = "committing" /\ Goto(c, "validate")
  /\ UNCHANGED <<rest, live, enabled, at, inside>>

\* gu_patch_transaction_commit
Validate(c) ==
  /\ pc[c] = "validate"
  /\ IF ~committed /\ Unaltered THEN GotoSite(c, "write", 1)
                                ELSE Goto(c, "undo") /\ UNCHANGED at
  /\ UNCHANGED <<rest, lifecycle, live, enabled, inside>>

WriteSite(c) ==
  LET s == at[c] IN
  /\ pc[c] = "write"
  /\ IF s > count
       THEN committed' = TRUE /\ Goto(c, "enable") /\ UNCHANGED <<image, mark, at>>
       ELSE /\ \E o \in WriteOutcomes(s) :
                 /\ Apply(s, o)
                 /\ IF o.ok THEN GotoSite(c, "write", s + 1) ELSE GotoSite(c, "unwind", s - 1)
            /\ UNCHANGED committed
  /\ UNCHANGED <<gen, saved, count, lifecycle, live, enabled, inside>>

\* The sites written before the one that failed, in reverse.
UnwindSite(c) ==
  LET s == at[c] IN
  /\ pc[c] = "unwind"
  /\ IF s = 0
       THEN committed' = HasUnrestored /\ Goto(c, "undo") /\ UNCHANGED <<image, mark, at>>
       ELSE /\ IF mark[s] # 0 THEN \E o \in RestoreOutcomes(s) : Apply(s, o)
                              ELSE UNCHANGED <<image, mark>>
            /\ GotoSite(c, "unwind", s - 1)
            /\ UNCHANGED committed
  /\ UNCHANGED <<gen, saved, count, lifecycle, live, enabled, inside>>

\* gu_behavior_enable may find the behaviour shut down.
Enable(c) ==
  /\ pc[c] = "enable"
  /\ \/ enabled' = TRUE /\ Finish(c, "active")
     \/ Goto(c, "undo") /\ UNCHANGED <<enabled, lifecycle>>
  /\ UNCHANGED <<rest, live, at, inside>>

-----------------------------------------------------------------------------
(* gu_install_rollback_writes: undone completely or not, a transaction     *)
(* that was begun leaves its stubs allocated, unless it is uninstalled.    *)

Uninstalling == lifecycle = "uninstalling"

\* Mutant of RolledBack: a failed commit that was undone frees its stubs.
RolledBackFrees(c, ok) ==
  IF ok THEN Goto(c, "rundown") /\ UNCHANGED lifecycle ELSE Finish(c, "dirty")

RolledBack(c, ok) ==
  IF ok /\ Uninstalling THEN Goto(c, "rundown") /\ UNCHANGED lifecycle
                        ELSE Finish(c, "dirty")

RollbackWrites(c) ==
  /\ pc[c] = "undo"
  /\ IF committed \/ HasUnrestored
       THEN GotoSite(c, "rollback", count) /\ UNCHANGED lifecycle
       ELSE RolledBack(c, TRUE) /\ UNCHANGED at
  /\ UNCHANGED <<rest, live, enabled, inside>>

\* gu_patch_transaction_rollback
RollbackSite(c) ==
  LET s == at[c] IN
  /\ pc[c] = "rollback"
  /\ IF s = 0
       THEN /\ committed' = HasUnrestored
            /\ RolledBack(c, ~HasUnrestored)
            /\ UNCHANGED <<image, mark, at>>
       ELSE /\ IF mark[s] # 0 \/ Reappeared(s)
                 THEN \E o \in RestoreOutcomes(s) : Apply(s, o)
                 ELSE UNCHANGED <<image, mark>>
            /\ GotoSite(c, "rollback", s - 1)
            /\ UNCHANGED <<committed, lifecycle>>
  /\ UNCHANGED <<gen, saved, count, live, enabled, inside>>

-----------------------------------------------------------------------------
(* gu_universal_uninstall                                                  *)

\* gu_behavior_disable may give up waiting for the setter's worker.
Uninstall(c) ==
  /\ pc[c] = "out" /\ lifecycle = "active"
  /\ lifecycle' = "uninstalling" /\ Goto(c, "disable")
  /\ UNCHANGED <<rest, live, enabled, at, inside>>

Disable(c) ==
  /\ pc[c] = "disable"
  /\ enabled' = FALSE
  /\ \/ Goto(c, "undo") /\ UNCHANGED lifecycle
     \/ Finish(c, "dirty")
  /\ UNCHANGED <<rest, live, at, inside>>

Rundown(c) ==
  /\ pc[c] = "rundown"
  /\ \/ BanksIdle /\ Goto(c, "release") /\ UNCHANGED lifecycle
     \/ Finish(c, "dirty")
  /\ UNCHANGED <<rest, live, enabled, at, inside>>

\* Entities and manager are restored first; their failure is reported after.
Release(c) ==
  /\ pc[c] = "release"
  /\ live' = FALSE
  /\ \E state \in {"idle", "dirty"} : Finish(c, state)
  /\ UNCHANGED <<rest, enabled, at, inside>>

-----------------------------------------------------------------------------
(* The engine, and other mods.                                             *)

Branch(e) ==
  /\ inside[e] = Outside
  /\ \E s \in Sites :
       /\ bytes[s] > 0
       /\ inside' = [inside EXCEPT ![e] = [site |-> s, gen |-> bytes[s], leased |-> FALSE]]
  /\ UNCHANGED <<rest, lifecycle, live, enabled, pc, at>>

Lease(e) ==
  /\ inside[e].site \in Tracked /\ ~inside[e].leased
  /\ inside' = [inside EXCEPT ![e].leased = TRUE]
  /\ UNCHANGED <<rest, lifecycle, live, enabled, pc, at>>

Exit(e) ==
  /\ inside[e] # Outside
  /\ inside' = [inside EXCEPT ![e] = Outside]
  /\ UNCHANGED <<rest, lifecycle, live, enabled, pc, at>>

ForeignHook(s) ==
  /\ saved[s] = Nothing
  /\ saved' = [saved EXCEPT ![s] = bytes[s]]
  /\ bytes' = [bytes EXCEPT ![s] = Foreign]
  /\ UNCHANGED <<gen, protected, patches, lifecycle, live, enabled, pc, at, inside>>

ForeignUnhook(s) ==
  /\ saved[s] # Nothing
  /\ bytes' = [bytes EXCEPT ![s] = saved[s]]
  /\ saved' = [saved EXCEPT ![s] = Nothing]
  /\ UNCHANGED <<gen, protected, patches, lifecycle, live, enabled, pc, at, inside>>

-----------------------------------------------------------------------------
Operation(c) ==
  \/ Prepare(c) \/ Arguments(c) \/ AddSite(c) \/ Abort(c) \/ Cancel(c)
  \/ Commit(c) \/ Validate(c) \/ WriteSite(c) \/ UnwindSite(c) \/ Enable(c)
  \/ RollbackWrites(c) \/ RollbackSite(c)
  \/ Uninstall(c) \/ Disable(c) \/ Rundown(c) \/ Release(c)

Next ==
  \/ \E c \in Callers : Operation(c)
  \/ \E e \in Engine : Branch(e) \/ Lease(e) \/ Exit(e)
  \/ \E s \in Sites : ForeignHook(s) \/ ForeignUnhook(s)

Spec == Init /\ [][Next]_vars

-----------------------------------------------------------------------------
(* Properties.                                                             *)

Values == {Original, Foreign} \cup 1 .. MaxInstalls
Places == {"out", "arguments", "add", "prepared", "abort", "validate", "write",
           "unwind", "enable", "undo", "rollback", "disable", "rundown", "release"}

\* Every variable has its type.
TypeOK ==
  /\ gen \in 0 .. MaxInstalls
  /\ bytes \in [Sites -> Values] /\ saved \in [Sites -> Values \cup {Nothing}]
  /\ protected \in [Sites -> BOOLEAN] /\ mark \in [Sites -> 0 .. 2]
  /\ count \in 0 .. SiteCount /\ committed \in BOOLEAN
  /\ lifecycle \in {"idle", "preparing", "active", "uninstalling", "dirty",
                    "committing", "cancelling"}
  /\ live \in BOOLEAN /\ enabled \in BOOLEAN
  /\ pc \in [Callers -> Places] /\ at \in [Callers -> 0 .. SiteCount + 1]
  /\ inside \in [Engine -> [site : 0 .. SiteCount, gen : 0 .. MaxInstalls,
                            leased : BOOLEAN]]

\* One caller at a time works on the installation.
OneOperation ==
  \A c, d \in Callers : pc[c] # "out" /\ pc[d] # "out" => c = d

\* What is reported of the transaction is true of the image: a site that holds
\* the mod's branch, or whose page was left open, is marked; and a transaction
\* with a mark left, outside its own operations, is a committed one.
MarksAreTrue ==
  /\ \A s \in Sites :
       mark[s] = 0 => protected[s] /\ bytes[s] <= Original
  /\ lifecycle \in {"active", "dirty", "idle"} =>
       (HasUnrestored => committed)

\* What every step keeps.
InstallInv == TypeOK /\ OneOperation /\ MarksAreTrue

\* Installed or untouched: an installation that reports success has every site
\* of its own marked live; one that is idle again, for whatever reason, has
\* left no branch, no open page and no stub.
InstalledOrUntouched ==
  /\ lifecycle = "active" =>
       live /\ enabled /\ count = SiteCount /\ \A s \in Sites : mark[s] = 1
  /\ lifecycle = "idle" =>
       ~live /\ \A s \in Sites : bytes[s] <= Original /\ protected[s]

\* "A failed application is not allowed to return while a replacement may still
\* branch into mod-owned memory": stubs are freed only when no site holds a
\* branch to them, and no other mod will put one back.
NoDanglingBranch ==
  \A s \in Sites : \A v \in {bytes[s], saved[s]} :
    v > 0 => live /\ v = gen

\* Stubs are freed only with no engine thread inside, whatever became of the
\* commit: the code retains them "rather than claiming callback quiescence and
\* freeing possibly executing code".  The uninstaller alone is exempt, whose
\* caller must have stopped the engine threads.
FreedStubsAreIdle ==
  [][live /\ ~live' /\ ~Uninstalling =>
       \A e \in Engine : inside[e].gen # gen]_vars
=============================================================================
