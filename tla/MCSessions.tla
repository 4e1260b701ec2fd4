------------------------------ MODULE MCSessions ------------------------------
(***************************************************************************)
(* Sessions for TLC: two tabs over one cookie, two rotations.              *)
(***************************************************************************)
EXTENDS Sessions
=============================================================================
