----------------------------- MODULE MCProvider -----------------------------
(***************************************************************************)
(* Model-checking instance of Provider: every input of Inputs.             *)
(***************************************************************************)
EXTENDS Provider
=============================================================================
