----------------------------- MODULE MCSmarsNode -----------------------------
(* One node; the cfg files choose what the environment may do. *)
EXTENDS SmarsNode
=============================================================================
