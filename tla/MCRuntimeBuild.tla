--------------------------- MODULE MCRuntimeBuild ---------------------------
(* Small instances of RuntimeBuild for TLC. *)
EXTENDS RuntimeBuild, TLC

=============================================================================
