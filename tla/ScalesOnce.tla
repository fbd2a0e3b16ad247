----------------------------- MODULE ScalesOnce -----------------------------
(***************************************************************************)
(* What the installer and the telemetry may rely on: the definitions are   *)
(* scaled at most once, by the callback that found the state ARMED, all of *)
(* them or none, and the report says which.  A rollback that failed is     *)
(* reported as such and promises nothing.                                  *)
(***************************************************************************)
VARIABLES
  state,    \* UNARMED, ARMED, RUNNING, COMPLETE, FAILED
  report,   \* none, untouched, applied, dirty
  image     \* stock, scaled, or part of each

vars == <<state, report, image>>

Init == state = "UNARMED" /\ report = "none" /\ image = "stock"

Arm    == state = "UNARMED" /\ state' = "ARMED" /\ UNCHANGED <<report, image>>
Disarm == state = "ARMED" /\ state' = "FAILED" /\ UNCHANGED <<report, image>>

\* The callback comes too early: nothing will ever be scaled.
Miss  == state = "UNARMED" /\ state' = "FAILED" /\ UNCHANGED <<report, image>>
Begin == state = "ARMED" /\ state' = "RUNNING" /\ UNCHANGED <<report, image>>

Return ==
  /\ state = "RUNNING"
  /\ \/ state' = "COMPLETE" /\ report' = "applied" /\ image' = "scaled"
     \/ state' \in {"COMPLETE", "FAILED"} /\ report' = "untouched" /\ image' = "stock"
     \/ state' = "FAILED" /\ report' = "dirty" /\ image' \in {"stock", "scaled", "part"}

\* The engine loads the definitions anew, or another mod writes over them.
Replaced ==
  /\ state # "RUNNING"
  /\ \/ image' = "stock"
     \/ report = "dirty" /\ image' = "scaled"
  /\ UNCHANGED <<state, report>>

Next == Arm \/ Disarm \/ Miss \/ Begin \/ Return \/ Replaced
Spec == Init /\ [][Next]_vars
=============================================================================
