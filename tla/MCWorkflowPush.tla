---------------------------- MODULE MCWorkflowPush ----------------------------
(* Small instances of WorkflowPush for TLC. *)
EXTENDS WorkflowPush, TLC

\* Commands, wfids, aliases and workflows are interchangeable: every property
\* treats them alike.
Symmetry == Permutations(Cmd) \cup Permutations(Id)
              \cup Permutations(Alias) \cup Permutations(Def)
=============================================================================
