-------------------------- MODULE DefinitionScaling --------------------------
(***************************************************************************)
(* The callback at the end of the engine's definition loader: the          *)
(* handshake with the installer, the choice of the catalogue, the scaling  *)
(* of spacing and density of the selected object definitions, its check    *)
(* and its rollback.  The installer arms and may disarm; another mod may   *)
(* write any field at any time.                                            *)
(*                                                                         *)
(* Every field is written once in a phase and read once in the next; the   *)
(* writes, and the reads, of one phase are a step.                         *)
(***************************************************************************)
EXTENDS Integers

CONSTANTS
  Definitions,   \* object definitions of the catalogue
  Grid,          \* those with usegrid: their spacing changes too
  Selections,    \* the sets of definitions a configuration may select
  DefinitionLoads \* bound: how often the engine loads the definitions

ASSUME DefinitionAssumption ==
  /\ Grid \subseteq Definitions
  /\ Selections \subseteq SUBSET Definitions
  /\ DefinitionLoads \in Nat

VARIABLES
  callback,    \* g_definition_callback_state
  scaling,     \* g_report.definition_scaling_status
  selected,    \* classes in the mask, with a multiplier other than 1
  mutated,     \* g_definition_proc_mutated
  value,       \* the engine's fields, per definition
  original,    \* g_definition_original_proc_spacing, _inverse
  step,        \* where the callback is
  prior,       \* prior_state
  loaded,      \* how often the engine loaded the definitions
  returned     \* callbacks that returned

definitions ==
  <<callback, scaling, selected, mutated, value, original, step, prior, loaded, returned>>

Fields == {"spacing", "inverse"}
Stock == [f \in Fields |-> "stock"]
Terminal == {"COMPLETE", "FAILED"}

InitDefinitions ==
  /\ callback = "UNARMED" /\ scaling = "NOT_RUN"
  /\ selected \in Selections /\ mutated = {}
  /\ value = [d \in Definitions |-> Stock]
  /\ original = [d \in Definitions |-> Stock]
  /\ step = "none" /\ prior = "none" /\ loaded = 0 /\ returned = 0

-----------------------------------------------------------------------------
(***************************************************************************)
(* The installer, the engine, other mods.                                  *)
(***************************************************************************)
Arm ==
  /\ callback = "UNARMED" /\ callback' = "ARMED"
  /\ UNCHANGED <<scaling, selected, mutated, value, original, step, prior, loaded, returned>>

\* startup_write_failure
Disarm ==
  /\ callback = "ARMED" /\ callback' = "FAILED"
  /\ UNCHANGED <<scaling, selected, mutated, value, original, step, prior, loaded, returned>>

\* The engine's loader, up to the hook at its end.
LoadDefinitions ==
  /\ step = "none" /\ loaded < DefinitionLoads
  /\ loaded' = loaded + 1 /\ step' = "look"
  /\ value' = [d \in Definitions |-> Stock]
  /\ UNCHANGED <<callback, scaling, selected, mutated, original, prior, returned>>

AnotherModWrites ==
  \E d \in Definitions, f \in Fields :
    /\ loaded > 0 /\ value[d][f] # "foreign"
    /\ value' = [value EXCEPT ![d][f] = "foreign"]
    /\ UNCHANGED <<callback, scaling, selected, mutated, original, step, prior>>
    /\ UNCHANGED <<loaded, returned>>

-----------------------------------------------------------------------------
(***************************************************************************)
(* definition_loaded_engine_callback                                       *)
(***************************************************************************)
LeaveWith(s) ==
  /\ scaling' = s /\ step' = "none" /\ returned' = returned + 1 /\ prior' = "none"

Look ==
  /\ step = "look"
  /\ IF callback \in {"UNARMED", "ARMED"}
       THEN prior' = callback /\ step' = "swap" /\ UNCHANGED <<scaling, returned>>
       ELSE LeaveWith(scaling)
  /\ UNCHANGED <<callback, selected, mutated, value, original, loaded>>

\* Mutant of Swap: a callback whose exchange fails returns.
SwapOnce ==
  /\ step = "swap"
  /\ \/ /\ callback # prior
        /\ LeaveWith("CALLBACK_BEFORE_ACTIVATION") /\ UNCHANGED callback
     \/ /\ callback = prior /\ prior = "UNARMED" /\ callback' = "FAILED"
        /\ LeaveWith("CALLBACK_BEFORE_ACTIVATION")
     \/ /\ callback = prior /\ prior = "ARMED" /\ callback' = "RUNNING"
        /\ step' = "select" /\ UNCHANGED <<scaling, prior, returned>>
  /\ UNCHANGED <<selected, mutated, value, original, loaded>>

\* The exchange of what was seen; it is repeated when it fails.
Swap ==
  /\ step = "swap"
  /\ \/ /\ callback # prior
        /\ step' = "look" /\ UNCHANGED <<callback, scaling, prior, returned>>
     \/ /\ callback = prior /\ prior = "UNARMED" /\ callback' = "FAILED"
        /\ LeaveWith("CALLBACK_BEFORE_ACTIVATION")
     \/ /\ callback = prior /\ prior = "ARMED" /\ callback' = "RUNNING"
        /\ step' = "select" /\ UNCHANGED <<scaling, prior, returned>>
  /\ UNCHANGED <<selected, mutated, value, original, loaded>>

\* The final exchange: RUNNING gives way to the result.
Settle(result, s) ==
  /\ callback' = IF callback = "RUNNING" THEN result ELSE callback
  /\ LeaveWith(s)

\* scale_loaded_definitions: the tracking is reset; a manager that cannot be
\* read, counts or values out of range, or a catalogue that is not the stock
\* one are refused.
Select ==
  /\ step = "select" /\ mutated' = {}
  /\ original' = [d \in Definitions |-> Stock]
  /\ \/ /\ \A d \in Definitions : value[d] = Stock
        /\ step' = "compute" /\ UNCHANGED <<callback, scaling, prior, returned>>
     \/ \E s \in {"BAD_MANAGER", "BAD_COUNTS", "BAD_FLOAT", "FINGERPRINT_REFUSED"} :
          Settle("FAILED", s)
  /\ UNCHANGED <<selected, value, loaded>>

\* The first loop of scale_loaded_definitions_for_catalog: nothing is written
\* before every new value is known to be in range.
Compute ==
  /\ step = "compute"
  /\ \/ \E some \in SUBSET selected :
          mutated' = some /\ UNCHANGED original /\ Settle("FAILED", "BAD_FLOAT")
     \/ /\ mutated' = selected /\ original' = value
        /\ IF selected = {} THEN Settle("COMPLETE", "NO_CHANGE")
           ELSE step' = "write" /\ UNCHANGED <<callback, scaling, prior, returned>>
  /\ UNCHANGED <<selected, value, loaded>>

FieldsOf(d) == IF d \in Grid THEN Fields ELSE {"inverse"}
Put(d, v) == [f \in Fields |-> IF f \in FieldsOf(d) THEN v[f] ELSE value[d][f]]
Shows(d, v) == \A f \in FieldsOf(d) : value[d][f] = v[f]

Scaled == [f \in Fields |-> "scaled"]

Write ==
  /\ step = "write" /\ step' = "verify"
  /\ value' = [d \in Definitions |-> IF d \in mutated THEN Put(d, Scaled) ELSE value[d]]
  /\ UNCHANGED <<callback, scaling, selected, mutated, original, prior, loaded, returned>>

\* restore_loaded_definitions_to_original acts only on APPLIED.
Verify ==
  /\ step = "verify"
  /\ IF \A d \in mutated : Shows(d, Scaled)
       THEN Settle("COMPLETE", "APPLIED")
       ELSE /\ scaling' = "APPLIED" /\ step' = "restore"
            /\ UNCHANGED <<callback, prior, returned>>
  /\ UNCHANGED <<selected, mutated, value, original, loaded>>

\* The manager may have become unreadable.
Restore ==
  /\ step = "restore"
  /\ \/ Settle("FAILED", "ROLLBACK_FAILED") /\ UNCHANGED value
     \/ /\ value' = [d \in Definitions |->
                       IF d \in mutated THEN Put(d, original[d]) ELSE value[d]]
        /\ step' = "reverify" /\ UNCHANGED <<callback, scaling, prior, returned>>
  /\ UNCHANGED <<selected, mutated, original, loaded>>

\* Mutant of Reverify: the result of the comparison is not looked at.
ReverifyTrusting ==
  /\ step = "reverify"
  /\ Settle("COMPLETE", "APPLIED")
  /\ UNCHANGED <<selected, mutated, value, original, loaded>>

Reverify ==
  /\ step = "reverify"
  /\ IF \A d \in mutated : Shows(d, original[d])
       THEN Settle("FAILED", "WRITE_VERIFY_FAILED")
       ELSE Settle("FAILED", "ROLLBACK_FAILED")
  /\ UNCHANGED <<selected, mutated, value, original, loaded>>

Callback ==
  Look \/ Swap \/ Select \/ Compute \/ Write \/ Verify \/ Restore \/ Reverify

NextDefinitions ==
  Arm \/ Disarm \/ LoadDefinitions \/ AnotherModWrites \/ Callback

-----------------------------------------------------------------------------
(***************************************************************************)
(* Properties.                                                             *)
(***************************************************************************)
\* The fields scaling acts on, and those of them that show its value.
Own == {x \in Definitions \X Fields : x[1] \in mutated /\ x[2] \in FieldsOf(x[1])}
ShowingScaled == {x \in Definitions \X Fields : value[x[1]][x[2]] = "scaled"}

\* An arming never escapes: once a callback has returned, none can be armed.
\* The states, the status and the fields agree: a failure leaves nothing
\* scaled unless it says so; success leaves nothing of the first load's stock
\* values in a selected field; the grid's spacing moves only with its density.
DefinitionsInv ==
  /\ returned > 0 => callback \in Terminal
  /\ callback = "RUNNING" <=>
       step \in {"select", "compute", "write", "verify", "restore", "reverify"}
  /\ callback = "COMPLETE" => scaling \in {"APPLIED", "NO_CHANGE"}
  /\ callback = "FAILED" /\ scaling # "ROLLBACK_FAILED" => ShowingScaled = {}
  /\ callback = "COMPLETE" /\ scaling = "APPLIED" /\ loaded = 1 =>
       \A x \in Own : value[x[1]][x[2]] # "stock"
  /\ ShowingScaled \subseteq Own

Image ==
  IF callback = "RUNNING" \/ ShowingScaled = {} THEN "stock"
  ELSE IF \A x \in Own : value[x[1]][x[2]] # "stock" THEN "scaled" ELSE "part"

Reported ==
  IF callback \notin Terminal THEN "none"
  ELSE CASE scaling = "APPLIED"         -> "applied"
         [] scaling = "ROLLBACK_FAILED" -> "dirty"
         [] scaling \in {"NOT_RUN", "CALLBACK_BEFORE_ACTIVATION"} -> "none"
         [] OTHER                       -> "untouched"

Promise == INSTANCE ScalesOnce WITH state <- callback, report <- Reported, image <- Image

\* The callback implements the abstract handshake: scaled once, whole or not
\* at all, and reported as it is.
ScalesAsPromised == Promise!Spec
=============================================================================
