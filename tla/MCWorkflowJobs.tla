--------------------------- MODULE MCWorkflowJobs ---------------------------
(***************************************************************************)
(* Instance of WorkflowJobs for TLC: the definitions clients may send.     *)
(***************************************************************************)
EXTENDS WorkflowJobs

CONSTANTS a1, a2, a3, t1, t2, p1, w1, w2

Def(a, t, s, e) == [alias |-> a, task |-> t, sched |-> s, enabled |-> e]

(* Three aliases and two tasks, one of them disabled, and one definition
   without a schedule. *)
Mixed == {Def(a1, t1, TRUE, TRUE), Def(a2, t2, TRUE, FALSE), Def(a3, t1, FALSE, TRUE)}

(* The two workflows there are belong to one project; a request may name it
   or another one.  They are interchangeable: every pair of definitions is
   tried once. *)
MCInit ==
  /\ Init
  /\ db[w1].prj = p1 /\ db[w1].def.alias # a3
  /\ db[w2].prj = p1 /\ db[w2].def.alias # a1
MCSpec == MCInit /\ [][Next]_vars /\ Fairness
=============================================================================
