---------------------------- MODULE Preparation ----------------------------
(***************************************************************************)
(* gu_universal_prepare and its seven preparers.  Each looks at its sites, *)
(* allocates stubs and adds one patch per site to the common transaction;  *)
(* nothing is written yet.  Any look, allocation or addition may fail: the *)
(* preparer takes its own patches and stubs back, and the installation     *)
(* those of the preparers before it.  InstallLifecycle sees all of this as *)
(* sites that are added.                                                   *)
(***************************************************************************)
EXTENDS Naturals, Sequences, FiniteSets

CONSTANTS
  source_stubs,   \* stubs, and sites with a stub, of the source banks
  radius_sites,   \* sites of theirs that get a number instead of a branch
  plant_stubs,    \* stubs and sites of the plant banks
  max_patches,    \* GU_TRANSACTION_MAX_PATCHES
  Preparations    \* bound: how often the installation is prepared

ASSUME PreparationAssumption ==
  /\ source_stubs \in Nat \ {0} /\ plant_stubs \in Nat \ {0}
  /\ radius_sites \in Nat /\ max_patches \in Nat /\ Preparations \in Nat

Preparers ==
  <<"definition", "source", "plant", "terminal", "prebuild", "commit", "release">>

StubCount(p) ==
  CASE p = "source" -> source_stubs [] p = "plant" -> plant_stubs [] OTHER -> 1
SiteCount(p) == IF p = "source" THEN source_stubs + radius_sites ELSE StubCount(p)

\* A stub goes by the name of its site; the radius sites have none.
StubsOf(p) == {<<p, i>> : i \in 1 .. StubCount(p)}
PatchesOf(p) == {<<p, i>> : i \in 1 .. SiteCount(p)}
AllPatches == UNION {PatchesOf(Preparers[k]) : k \in DOMAIN Preparers}
RebuildEntry == <<"rebuild entry", 1>>   \* looked at by the prebuild preparer only

VARIABLES
  word,        \* g_gu_install_lifecycle_state
  turn,        \* the preparer that runs, by its place in Preparers
  phase,       \* idle, look, build, add, finish, failed, pin, prepared
  local,       \* stubs of the running preparer
  published,   \* stubs in g_gu_install
  transaction, \* the sites it has patches for, in order
  runtime,     \* the bank runtimes that are initialised
  selector,    \* the plant banks have a selector
  altered,     \* sites whose bytes another mod has changed
  prepared     \* how often it was tried

around == <<word, runtime, selector, altered, prepared>>
preparation ==
  <<around, turn, phase, local, published, transaction>>

InitPreparation ==
  /\ word = "IDLE" /\ turn = 0 /\ phase = "idle"
  /\ local = {} /\ published = {} /\ transaction = <<>>
  /\ runtime = {} /\ selector = FALSE /\ altered = {} /\ prepared = 0

Runs(p, ph) == phase = ph /\ turn \in DOMAIN Preparers /\ Preparers[turn] = p

\* gu_patch_contract_validate of each
StockSites(sites) == sites \cap altered = {}

\* How many patches the preparers before the k-th have added.
Before[k \in 1 .. Len(Preparers) + 1] ==
  IF k = 1 THEN 0 ELSE Before[k - 1] + SiteCount(Preparers[k - 1])
Added == Len(transaction) - Before[turn]

-----------------------------------------------------------------------------
(***************************************************************************)
(* What the preparers have in common.                                      *)
(***************************************************************************)
\* Mutant of Discard: the patches of the preparer stay in the transaction.
DiscardNothing == UNCHANGED transaction

\* gu_source_discard_transaction_tail, gu_transaction_truncate
Discard == transaction' = SubSeq(transaction, 1, Before[turn])

\* It returns 0, with nothing of its own left.
GivesUp ==
  phase' = "failed" /\ local' = {} /\ Discard /\ UNCHANGED <<turn, published>>

Continues(ph) == phase' = ph /\ UNCHANGED <<turn, published>>

\* It returns 1: its stubs are handed to the installation.
Hands ==
  /\ published' = published \cup local /\ local' = {}
  /\ turn' = turn + 1
  /\ phase' = IF turn < Len(Preparers) THEN "look" ELSE "pin"

\* gu_patch_transaction_add, gu_..._add_jump, gu_..._add_call: room, no
\* overlap, and the bytes are the expected ones at this moment.
AddNext(p) ==
  LET site == <<p, Added + 1>>
  IN /\ Len(transaction) < max_patches /\ StockSites({site})
     /\ transaction' = Append(transaction, site)

\* A preparer of one stub and one site, and what it looks at beforehand.
LookFirst(p, sites) ==
  /\ Runs(p, "look")
  /\ \/ StockSites(sites) /\ local' = StubsOf(p) /\ Continues("add") /\ UNCHANGED transaction
     \/ GivesUp
Patch(p) ==
  /\ Runs(p, "add")
  /\ \/ AddNext(p) /\ Hands
     \/ GivesUp
One(p, sites) ==
  /\ LookFirst(p, sites) \/ Patch(p)
  /\ UNCHANGED around

\* One stub more; or those that are there are released.
Build(p) ==
  /\ Runs(p, "build")
  /\ \/ /\ local' = local \cup {<<p, Cardinality(local) + 1>>}
        /\ Continues(IF Cardinality(local) + 1 = StubCount(p) THEN "add" ELSE "build")
        /\ UNCHANGED transaction
     \/ GivesUp
  /\ UNCHANGED around

Add(p) ==
  /\ Runs(p, "add")
  /\ \/ /\ AddNext(p) /\ UNCHANGED local
        /\ Continues(IF Added + 1 = SiteCount(p) THEN "finish" ELSE "add")
     \/ GivesUp
  /\ UNCHANGED around

\* All sites, and room for all of them.  The source banks' runtime is
\* initialised before these checks and stays so when they fail.
Admit(p) ==
  /\ Runs(p, "look")
  /\ \/ /\ StockSites(PatchesOf(p)) /\ Len(transaction) + SiteCount(p) <= max_patches
        /\ runtime' = runtime \cup {p} /\ Continues("build")
        /\ UNCHANGED <<transaction, local>>
     \/ /\ GivesUp
        /\ \/ UNCHANGED runtime
           \/ p = "source" /\ runtime' = runtime \cup {p}
  /\ UNCHANGED <<word, selector, altered, prepared>>

-----------------------------------------------------------------------------
(***************************************************************************)
(* The preparers.                                                          *)
(***************************************************************************)
PrepareDefinition == One("definition", PatchesOf("definition"))
PrepareTerminal == One("terminal", {})
PreparePrebuild == One("prebuild", {RebuildEntry})
PrepareCommit   == One("commit", {})
PrepareRelease  == One("release", PatchesOf("release"))

AdmitSource == Admit("source")
BuildSource == Build("source")
AddSource   == Add("source")

\* gu_source_bank_configure may refuse.
FinishSource ==
  /\ Runs("source", "finish")
  /\ \/ Hands /\ UNCHANGED transaction
     \/ GivesUp
  /\ UNCHANGED around

AdmitPlant == Admit("plant")
BuildPlant == Build("plant")
AddPlant   == Add("plant")

\* The runtime must be idle; the selector, if there is one, is set by the
\* installation after the preparer has returned.
FinishPlant ==
  /\ Runs("plant", "finish")
  /\ \/ Hands /\ selector' \in BOOLEAN /\ UNCHANGED transaction
     \/ GivesUp /\ UNCHANGED selector
     \/ /\ published' = published \cup local /\ local' = {}
        /\ phase' = "failed" /\ turn' = turn + 1
        /\ UNCHANGED <<transaction, selector>>
  /\ UNCHANGED <<word, runtime, altered, prepared>>

-----------------------------------------------------------------------------
(***************************************************************************)
(* gu_universal_prepare                                                    *)
(***************************************************************************)
\* Admission, arguments, and a first look at the sites of commit and release;
\* the record of the installation is zeroed.
Begin ==
  /\ word = "IDLE" /\ prepared < Preparations /\ prepared' = prepared + 1
  /\ \/ /\ StockSites(PatchesOf("commit") \cup PatchesOf("release"))
        /\ word' = "PREPARING" /\ transaction' = <<>> /\ published' = {}
        /\ turn' = 1 /\ phase' \in {"look", "failed"}
     \/ UNCHANGED <<word, transaction, published, turn, phase>>
  /\ UNCHANGED <<local, runtime, selector, altered>>

\* gu_install_release_prepared
ReleasePrepared == published' = {}

\* gu_install_fail_prepared: the banks are shut down, or everything is kept.
Abort ==
  /\ selector' = FALSE /\ turn' = 0 /\ phase' = "idle"
  /\ \/ runtime' = {} /\ ReleasePrepared /\ word' = "IDLE"
     \/ /\ runtime' \in SUBSET runtime /\ UNCHANGED published
        /\ word' = "FAILED_DIRTY"
  /\ UNCHANGED <<local, transaction, altered, prepared>>

FailPrepared == phase = "failed" /\ Abort

\* The module is pinned, or everything is aborted.
PinModule ==
  /\ phase = "pin" /\ phase' \in {"prepared", "failed"}
  /\ UNCHANGED <<around, turn, local, published, transaction>>

\* gu_universal_cancel_prepared
CancelPrepared == phase = "prepared" /\ Abort

\* A site is changed by another mod, or changed back.
AlterSite ==
  /\ phase \notin {"idle", "prepared"}
  /\ \E s \in AllPatches \cup {RebuildEntry} :
       altered' = IF altered = {} THEN {s} ELSE {}
  /\ UNCHANGED <<word, runtime, selector, prepared>>
  /\ UNCHANGED <<turn, phase, local, published, transaction>>

NextPreparation ==
  \/ Begin \/ PrepareDefinition
  \/ AdmitSource \/ BuildSource \/ AddSource \/ FinishSource
  \/ AdmitPlant \/ BuildPlant \/ AddPlant \/ FinishPlant
  \/ PrepareTerminal \/ PreparePrebuild \/ PrepareCommit \/ PrepareRelease
  \/ PinModule \/ FailPrepared \/ CancelPrepared \/ AlterSite

-----------------------------------------------------------------------------
(***************************************************************************)
(* Properties.                                                             *)
(***************************************************************************)
HasStub(site) == site[2] <= StubCount(site[1])
Finished == IF turn = 0 THEN {} ELSE {Preparers[k] : k \in 1 .. turn - 1}
Handed == UNION {StubsOf(p) : p \in Finished}

\* While a commit would be admitted, no patch leads to a stub that was freed,
\* and no site is patched twice.  Between two preparers, and after one that
\* failed, the transaction and the installation hold exactly what the
\* finished ones added; prepared means all of it, idle none of the stubs, no
\* selector and no runtime.
PreparationInv ==
  /\ word = "PREPARING" =>
       /\ \A i \in DOMAIN transaction :
            HasStub(transaction[i]) => transaction[i] \in local \cup published
       /\ \A i, j \in DOMAIN transaction : transaction[i] = transaction[j] => i = j
       /\ published = Handed
       /\ phase \in {"look", "failed", "pin", "prepared"} =>
            local = {} /\ Len(transaction) = Before[turn]
  /\ phase = "prepared" =>
       /\ {transaction[i] : i \in DOMAIN transaction} = AllPatches
       /\ runtime = {"source", "plant"}
  /\ word = "IDLE" =>
       local = {} /\ published = {} /\ runtime = {} /\ ~selector
=============================================================================
