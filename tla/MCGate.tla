------------------------------- MODULE MCGate -------------------------------
(* Callers of one key, at the downloader's two slots.                        *)
EXTENDS Gate
=============================================================================
