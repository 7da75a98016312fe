----------------------------- MODULE MCFecTables -----------------------------
(***************************************************************************)
(* FecTables for TLC.  The fields are smaller than GF(2^8): the loops are  *)
(* the same, and a full product table of 65536 entries in every state is   *)
(* not needed to see them go wrong.                                        *)
(***************************************************************************)
EXTENDS FecTables

CONSTANTS encoder, recoverer

=============================================================================
