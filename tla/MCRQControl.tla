----------------------------- MODULE MCRQControl -----------------------------
(* Small instances of RQControl for TLC. *)
EXTENDS RQControl, TLC
=============================================================================
