------------------------------ MODULE MCWrapper ------------------------------
(***************************************************************************)
(* Wrapper for TLC: one call, one transfer and two environments, so that   *)
(* each meets an import of keys, a second loop and the other.  The codes   *)
(* are those that some callbacks accept (200, 201) and one that several    *)
(* look at apart (404); the proofs are for all.                            *)
(***************************************************************************)
EXTENDS Wrapper
=============================================================================
