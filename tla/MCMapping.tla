----------------------------- MODULE MCMapping -----------------------------
(* Instances of Mapping for TLC. *)
EXTENDS Mapping
=============================================================================
