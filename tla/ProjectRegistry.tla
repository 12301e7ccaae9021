-------------------------- MODULE ProjectRegistry --------------------------
(***************************************************************************)
(* What the projects table promises to everything that refers to a project *)
(* by its id: a project appears whole and at once, under an id and a name  *)
(* that no other project has, and then neither goes away nor changes.      *)
(***************************************************************************)
CONSTANTS Id, Name

VARIABLE registry   \* registry[p]: the name and the key of project p

Registry == UNION {[S -> [name : Name, key : Id]] : S \in SUBSET Id}

Init == registry = [p \in {} |-> {}]

Create(p, n, k) ==
  /\ p \notin DOMAIN registry
  /\ \A q \in DOMAIN registry : registry[q].name # n
  /\ registry' = [q \in DOMAIN registry \cup {p} |->
                    IF q = p THEN [name |-> n, key |-> k] ELSE registry[q]]

Next == \E p, k \in Id, n \in Name : Create(p, n, k)

Spec == Init /\ [][Next]_registry
=============================================================================
