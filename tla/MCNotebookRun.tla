-------------------------- MODULE MCNotebookRun --------------------------
(* Model-checking instance of NotebookRun: execution ids and workflows are
   interchangeable. *)
EXTENDS NotebookRun, TLC

IdSymmetry == Permutations(Exec) \cup Permutations(Workflow)
=============================================================================
