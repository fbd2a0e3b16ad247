------------------------------- MODULE Parts -------------------------------
(***************************************************************************)
(* The parts that share no state with each other, nor with the large ones: *)
(* the preparers before the installation, the extras' patches in it, and   *)
(* what acts later in the engine's threads: definitions scaled, provider   *)
(* table rebuilt, generator records issued, hangs and crashes seen.  In    *)
(* any interleaving each of them sees a behaviour of its own with          *)
(* stuttering steps; one is followed at a time.                            *)
(***************************************************************************)
EXTENDS Preparation, ExtrasPatch, DefinitionScaling, RecordPools, Watchdog

VARIABLE followed   \* bound: the one part this behaviour is about

All == {"preparation", "extras", "definitions", "providers", "generator", "watchdog"}

vars == <<preparation, extras, definitions, pools, diagnostics, followed>>

Init ==
  /\ InitPreparation /\ InitExtras /\ InitDefinitions /\ InitPools /\ InitWatchdog
  /\ followed \in All
  /\ followed # "extras" => xtodo = {} /\ xmods = {} /\ xpool = "none"
  /\ followed # "definitions" => selected = {}

Follows(part) == followed = part /\ UNCHANGED followed

AloneInWatchdog ==
  Follows("watchdog") /\ UNCHANGED <<preparation, extras, definitions, pools>>

Next ==
  \/ /\ Follows("preparation") /\ NextPreparation
     /\ UNCHANGED <<extras, definitions, pools, diagnostics>>
  \/ /\ Follows("extras") /\ NextExtras
     /\ UNCHANGED <<preparation, definitions, pools, diagnostics>>
  \/ /\ Follows("definitions") /\ NextDefinitions
     /\ UNCHANGED <<preparation, extras, pools, diagnostics>>
  \/ /\ Follows("providers") /\ NextProviders
     /\ UNCHANGED <<preparation, extras, definitions, diagnostics>>
  \/ /\ Follows("generator") /\ NextGenerator
     /\ UNCHANGED <<preparation, extras, definitions, diagnostics>>
  \/ AloneInWatchdog /\ NextWatchdog

\* The startup worker and the watchdog thread are scheduled; the engine's
\* threads, the user who closes a box and the other mods need not act.
Spec ==
  /\ Init /\ [][Next]_vars
  /\ WF_vars(AloneInWatchdog /\ SetupStep)
  /\ WF_vars(AloneInWatchdog /\ WatchdogStep)
=============================================================================
