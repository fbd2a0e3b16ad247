---------------------------- MODULE MCSetterWorker ----------------------------
(***************************************************************************)
(* SetterWorker with callers as model values; interchangeable.             *)
(***************************************************************************)
EXTENDS SetterWorker, TLC

Interchangeable == Permutations(Callers)
=============================================================================
