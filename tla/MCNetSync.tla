----------------------------- MODULE MCNetSync -----------------------------
(***************************************************************************)
(* One validator makes blocks and another, connected to it alone, follows. *)
(***************************************************************************)
EXTENDS NetSync

CONSTANTS a, b
=============================================================================
