------------------------------- MODULE MCWire --------------------------------
(***************************************************************************)
(* Values of Wire's constants for TLC: texts of no bytes, of the longest   *)
(* length that Proposal::valid accepts, and longer than the account holds. *)
(***************************************************************************)
EXTENDS Wire

Uris == {0, 255, 257}
=============================================================================
