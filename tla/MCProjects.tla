----------------------------- MODULE MCProjects -----------------------------
(* Small instances of Projects for TLC. *)
EXTENDS Projects, TLC

(* One person works in every folder. *)
MCUserOf == [f \in Folder |-> CHOOSE u \in User : TRUE]

(* Folders, requests, names, ids and agents are interchangeable. *)
Symmetry == Permutations(Folder) \cup Permutations(Req) \cup Permutations(Name)
              \cup Permutations(Id) \cup Permutations(Agent)
=============================================================================
