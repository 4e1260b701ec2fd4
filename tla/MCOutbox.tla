------------------------------- MODULE MCOutbox -------------------------------
(***************************************************************************)
(* Outbox for TLC: two accounts, two readings of one chapter.              *)
(***************************************************************************)
EXTENDS Outbox
=============================================================================
