---------------------- MODULE ClusterMachines_proofs ----------------------
(***************************************************************************)
(* Proofs about ClusterMachines, for every set of jobs, clusters and names *)
(* and every combination of faults.  The inductive invariant follows the   *)
(* debts: who has touched a machine and not told the registry (Owed), and  *)
(* that a name with a random part belongs to the job that drew it until    *)
(* that job has registered it (DrawnOnce).                                 *)
(***************************************************************************)
EXTENDS ClusterMachines, TLAPS

(* Job j has touched machine n, or may still do so in the attempt it is in
   or through a thread it left behind, and the registry does not know. *)
Pending(j, n) == \/ n \in owes[j]
                 \/ [job |-> j, name |-> n] \in stray
                 \/ pc[j] \in {"calling", "writing"} /\ on[j] = n

(* Where a job stands and what it is about. *)
Placed ==
  \A j \in Job :
    /\ pc[j] = "none" => owes[j] = {} /\ req[j] = NoReq /\ on[j] = NoName
    /\ pc[j] = "writing" => on[j] \in owes[j]
    /\ pc[j] = "done" => on[j] \in Name
    /\ pc[j] \in {"calling", "writing"} => ~IsA(j, "deploy")
    /\ \A s \in stray : s.job = j => pc[j] # "none"

(* A destroy is about one machine in all its attempts; a create asks for a
   fixed name or for none. *)
Aimed ==
  \A j \in Job :
    /\ IsA(j, "destroy") =>
         /\ req[j].name \in Name
         /\ on[j] \in {NoName, req[j].name}
         /\ \A n \in Name : Pending(j, n) => on[j] = n
    /\ IsA(j, "create") => req[j].name \in Aliased \cup {NoName}
    /\ IsA(j, "deploy") => \A n \in Name : ~Pending(j, n)

(* A machine touched by one job only is as that job left it. *)
Owed ==
  \A j \in Job : \A n \in owes[j] \ crossed :
    /\ (n \in cloud) <=> IsA(j, "create")
    /\ \A k \in Job \ {j} : n \notin owes[k]

(* Names in use are in names. *)
NamesKnown ==
  /\ Aliased \subseteq names
  /\ keys \subseteq names
  /\ \A j \in Job : /\ on[j] \in names \cup {NoName}
                    /\ req[j] # NoReq => req[j].name \in names \cup {NoName}
                    /\ \A n \in Name : Pending(j, n) => n \in names

(* A drawn name is the drawer's alone until it is registered. *)
DrawnOnce ==
  \A j \in Job, n \in Drawn :
    IsA(j, "create") /\ Pending(j, n) =>
      /\ n \notin keys
      /\ \A k \in Job \ {j} : ~Pending(k, n) /\ ~(IsA(k, "destroy") /\ req[k].name = n)
      /\ on[j] = n /\ pc[j] \in {"calling", "writing"} => [job |-> j, name |-> n] \notin stray

IInv == TypeOK /\ Placed /\ Aimed /\ Owed /\ NamesKnown /\ DrawnOnce
Safe == /\ RegistryMatchesCloud /\ KeyIsListed /\ StaleNameHasCause
        /\ CreatedIsListed /\ DrawnCrossedByDestroys

-----------------------------------------------------------------------------
(* Lemmas about the operators. *)

(* A request differs from none. *)
LEMMA ReqSet ==
  ASSUME NEW r \in Req
  PROVE  /\ r # NoReq /\ r.kind \in Kind /\ r.cluster \in Cluster
         /\ r.name \in Name \cup {NoName} /\ r.agent \in BOOLEAN
<1>1. NoReq.kind = "none"
  BY DEF NoReq
<1> QED
  BY <1>1 DEF Req, Kind

(* A request is a new job, of a destroy only for a machine with a key. *)
LEMMA RequestMoves ==
  ASSUME TypeOK, NamesKnown, NEW j \in Job, Request(j)
  PROVE  /\ pc[j] = "none" /\ pc' = [pc EXCEPT ![j] = "queued"]
         /\ \E r \in Req : /\ req' = [req EXCEPT ![j] = r]
                           /\ r.kind = "destroy" => r.name \in keys
                           /\ r.kind = "create" => r.name \in Aliased \cup {NoName}
                           /\ r.name \in names \cup {NoName}
         /\ UNCHANGED <<cloud, keys, lists, on, tries, stray, owes,
                        crossed, names>>
<1> USE DEF Enqueue, Goto, registry, history
<1>1. CASE RequestCreate(j)
  <2> PICK c \in Cluster, n \in Aliased \cup {NoName}, agent \in BOOLEAN :
        Enqueue(j, "create", c, n, agent)
    BY <1>1 DEF RequestCreate
  <2> DEFINE r == [kind |-> "create", cluster |-> c, name |-> n, agent |-> agent]
  <2>1. r \in Req /\ req' = [req EXCEPT ![j] = r] /\ n \in names \cup {NoName}
    BY DEF Req, Kind, Name, NamesKnown
  <2> QED
    BY <2>1
<1>2. CASE RequestDestroy(j)
  <2> PICK c \in Cluster, n \in keys : Enqueue(j, "destroy", c, n, FALSE)
    BY <1>2 DEF RequestDestroy
  <2> DEFINE r == [kind |-> "destroy", cluster |-> c, name |-> n, agent |-> FALSE]
  <2>1. r \in Req /\ req' = [req EXCEPT ![j] = r] /\ n \in names
    BY DEF Req, Kind, NamesKnown, TypeOK
  <2> QED
    BY <2>1
<1>3. CASE RequestDeploy(j)
  <2> PICK c \in Cluster, n \in names : Enqueue(j, "deploy", c, n, TRUE)
    BY <1>3 DEF RequestDeploy
  <2> DEFINE r == [kind |-> "deploy", cluster |-> c, name |-> n, agent |-> TRUE]
  <2>1. r \in Req /\ req' = [req EXCEPT ![j] = r]
    BY DEF Req, Kind, TypeOK
  <2> QED
    BY <2>1
<1> QED
  BY <1>1, <1>2, <1>3 DEF Request

(* A job that raised is queued again or has failed. *)
LEMMA RaiseMoves ==
  ASSUME TypeOK, NEW j \in Job, req[j] \in Req, Raise(j)
  PROVE  /\ \E l \in {"queued", "failed"} : pc' = [pc EXCEPT ![j] = l]
         /\ tries' \in [Job -> 0..3]
<1>1. MaxRetry(req[j].kind) \in {1, 3}
  BY DEF MaxRetry
<1> QED
  BY <1>1 DEF TypeOK, Raise, Goto

(* What the provider's call may do to the machines and the debts. *)
LEMMA TouchMoves ==
  ASSUME TypeOK, NEW j \in Job, NEW n \in Name, Touch(j, n)
  PROVE  /\ cloud' \in SUBSET Name
         /\ owes' \in [Job -> SUBSET Name] /\ crossed' \in SUBSET Name
         /\ crossed \subseteq crossed'
         /\ crossed' \subseteq crossed \cup {n}
         /\ (\E k \in Job \ {j} : n \in owes[k]) => n \in crossed'
         /\ n \notin crossed /\ n \in crossed' => \E k \in Job \ {j} : n \in owes[k]
         /\ owes' = [owes EXCEPT ![j] = @ \cup {n}]
         /\ n \in cloud' <=> req[j].kind = "create"
         /\ \A m \in Name \ {n} : m \in cloud' <=> m \in cloud
  BY DEF Touch, TypeOK

(* What the pipelines do to the registry and the debts. *)
LEMMA WriteMoves ==
  ASSUME TypeOK, NEW j \in Job, req[j] \in Req, on[j] \in Name, Write(j)
  PROVE  /\ keys' \in SUBSET Name /\ lists' \in [Cluster -> SUBSET Name]
         /\ owes' = [owes EXCEPT ![j] = @ \ {on[j]}]
         /\ owes' \in [Job -> SUBSET Name]
         /\ on[j] \in keys' <=> IsA(j, "create")
         /\ \A m \in Name \ {on[j]} : /\ m \in keys' <=> m \in keys
                                      /\ \A c \in Cluster : m \in lists'[c] <=> m \in lists[c]
         /\ \A c \in Cluster \ {req[j].cluster} : lists'[c] = lists[c]
         /\ on[j] \in lists'[req[j].cluster] <=> IsA(j, "create")
<1>1. req[j] # NoReq /\ req[j].cluster \in Cluster
  BY ReqSet
<1> QED
  BY <1>1 DEF Write, TypeOK, IsA

-----------------------------------------------------------------------------
(* Every part of the invariant holds at the start ... *)

LEMMA InitInv == Init => IInv /\ Safe
<1> SUFFICES ASSUME Init PROVE IInv /\ Safe
  OBVIOUS
<1>1. TypeOK
  BY DEF Init, TypeOK, Name, PC, Running
<1>2. Placed /\ Aimed /\ Owed /\ NamesKnown /\ DrawnOnce
  BY DEF Init, Placed, Aimed, Owed, NamesKnown, DrawnOnce, Pending, IsA, Name
<1>3. Safe
  BY DEF Init, Safe, RegistryMatchesCloud, KeyIsListed, StaleNameHasCause,
         CreatedIsListed, DrawnCrossedByDestroys
<1> QED
  BY <1>1, <1>2, <1>3 DEF IInv

(* ... and is kept by every step.  A job that has started was asked for. *)
LEMMA Asked ==
  ASSUME TypeOK, Placed, NEW j \in Job, pc[j] # "none"
  PROVE  /\ req[j] \in Req /\ req[j] # NoReq
         /\ pc[j] \in Running => on[j] \in Name
  BY ReqSet DEF TypeOK, Placed

LEMMA TypeStep == TypeOK /\ Placed /\ NamesKnown /\ [Next]_vars => TypeOK'
<1> SUFFICES ASSUME TypeOK, Placed, NamesKnown, [Next]_vars PROVE TypeOK'
  OBVIOUS
<1> USE DEF TypeOK, PC, Running
<1>1. ASSUME NEW j \in Job, Request(j) PROVE TypeOK'
  <2>1. pc[j] = "none" /\ pc' = [pc EXCEPT ![j] = "queued"]
    BY <1>1, RequestMoves
  <2>2. PICK r \in Req : req' = [req EXCEPT ![j] = r]
    BY <1>1, RequestMoves
  <2>3. UNCHANGED <<cloud, keys, lists, on, tries, stray, owes,
                    crossed, names>>
    BY <1>1, RequestMoves
  <2> QED
    BY <2>1, <2>2, <2>3
<1>2. ASSUME NEW j \in Job, Start(j) PROVE TypeOK'
  BY <1>2 DEF Start, Goto, registry, history
<1>3. ASSUME NEW j \in Job, LoadInstance(j) PROVE TypeOK'
  <2>1. req[j] \in Req
    BY <1>3, Asked DEF LoadInstance
  <2>2. CASE req[j].name \in keys
    BY <1>3, <2>1, <2>2 DEF LoadInstance, Goto, registry, history
  <2>3. CASE req[j].name \notin keys
    BY <1>3, <2>1, <2>3, RaiseMoves DEF LoadInstance, registry, history
  <2> QED
    BY <2>2, <2>3
<1>4. ASSUME NEW j \in Job, CallProvider(j) PROVE TypeOK'
  <2>1. req[j] \in Req /\ on[j] \in Name
    BY <1>4, Asked DEF CallProvider
  <2>2. Touch(j, on[j]) \/ NoTouch
    BY <1>4 DEF CallProvider
  <2>3. /\ cloud' \in SUBSET Name
        /\ owes' \in [Job -> SUBSET Name] /\ crossed' \in SUBSET Name
    BY <2>1, <2>2, TouchMoves DEF NoTouch
  <2>4. /\ \E l \in {"writing", "queued", "failed"} : pc' = [pc EXCEPT ![j] = l]
        /\ tries' \in [Job -> 0..3]
    BY <1>4, <2>1, RaiseMoves DEF CallProvider, Goto
  <2> QED
    BY <1>4, <2>1, <2>3, <2>4 DEF CallProvider, registry
<1>5. ASSUME NEW j \in Job, WriteRegistry(j) PROVE TypeOK'
  <2>1. req[j] \in Req /\ on[j] \in Name
    BY <1>5, Asked DEF WriteRegistry
  <2>2. Write(j) \/ UNCHANGED <<registry, owes>>
    BY <1>5 DEF WriteRegistry
  <2>3. /\ keys' \in SUBSET Name /\ lists' \in [Cluster -> SUBSET Name]
        /\ owes' \in [Job -> SUBSET Name]
    BY <2>1, <2>2, WriteMoves DEF registry
  <2>4. /\ \E l \in {"ssh", "done", "queued", "failed"} : pc' = [pc EXCEPT ![j] = l]
        /\ tries' \in [Job -> 0..3]
    BY <1>5, <2>1, RaiseMoves DEF WriteRegistry, Goto
  <2>5. UNCHANGED <<cloud, req, on, stray, crossed, names>>
    BY <1>5 DEF WriteRegistry
  <2> QED
    BY <2>1, <2>3, <2>4, <2>5
<1>6. ASSUME NEW j \in Job, DeployAgent(j) PROVE TypeOK'
  <2>1. req[j] \in Req /\ on[j] \in Name
    BY <1>6, Asked DEF DeployAgent
  <2>2. /\ \E l \in {"done", "queued", "failed"} : pc' = [pc EXCEPT ![j] = l]
        /\ tries' \in [Job -> 0..3]
    BY <1>6, <2>1, RaiseMoves DEF DeployAgent, Goto
  <2> QED
    BY <1>6, <2>1, <2>2 DEF DeployAgent, registry, history
<1>7. ASSUME NEW j \in Job, CutOff(j) PROVE TypeOK'
  <2>1. req[j] \in Req /\ on[j] \in Name
    BY <1>7, Asked DEF CutOff
  <2>2. stray' \in SUBSET Call
    BY <1>7, <2>1 DEF CutOff, Call
  <2>3. /\ \E l \in {"queued", "failed"} : pc' = [pc EXCEPT ![j] = l]
        /\ tries' \in [Job -> 0..3]
    BY <1>7, <2>1, RaiseMoves DEF CutOff
  <2> QED
    BY <1>7, <2>1, <2>2, <2>3 DEF CutOff, registry, history
<1>8. ASSUME NEW s \in stray, StrayCall(s) PROVE TypeOK'
  <2>1. s.job \in Job /\ s.name \in Name
    BY DEF Call
  <2>2. Touch(s.job, s.name) \/ NoTouch
    BY <1>8 DEF StrayCall
  <2>3. /\ cloud' \in SUBSET Name
        /\ owes' \in [Job -> SUBSET Name] /\ crossed' \in SUBSET Name
    BY <2>1, <2>2, TouchMoves DEF NoTouch
  <2> QED
    BY <1>8, <2>3 DEF StrayCall, registry
<1>9. CASE UNCHANGED vars
  BY <1>9 DEF vars, registry, history
<1> QED
  BY <1>1, <1>2, <1>3, <1>4, <1>5, <1>6, <1>7, <1>8, <1>9 DEF Next, Work

-----------------------------------------------------------------------------
(* Steps that touch neither the machines nor the registry: a job moves on,
   fails or is cut off, a thread it left behind ends without effect. *)
Quiet(j) ==
  /\ UNCHANGED <<cloud, keys, lists, req, owes, crossed, names>>
  /\ pc[j] # "none"
  /\ \E l \in {"ssh", "done", "queued", "failed"} :
       /\ pc' = pc \/ pc' = [pc EXCEPT ![j] = l]
       /\ l = "ssh" => IsA(j, "deploy") \/ pc[j] = "ssh"
       /\ l = "done" => pc[j] = "ssh"
  /\ \/ on' = on
     \/ IsA(j, "deploy") /\ on' = [on EXCEPT ![j] = req[j].name] /\ req[j].name \in keys
  /\ \/ stray' \subseteq stray
     \/ pc[j] = "calling" /\ pc'[j] # "calling"
        /\ stray' = stray \cup {[job |-> j, name |-> on[j]]}

LEMMA QuietStep ==
  ASSUME IInv, Safe, TypeOK', NEW j \in Job, Quiet(j)
  PROVE  IInv' /\ Safe'
<1> USE DEF IInv, Safe, Quiet
<1> PICK l \in {"ssh", "done", "queued", "failed"} :
      /\ pc' = pc \/ pc' = [pc EXCEPT ![j] = l]
      /\ l = "ssh" => IsA(j, "deploy") \/ pc[j] = "ssh"
      /\ l = "done" => pc[j] = "ssh"
  OBVIOUS
<1>1. \A k \in Job, kind \in Kind : IsA(k, kind)' <=> IsA(k, kind)
  BY DEF IsA
<1>2. \A k \in Job : /\ pc'[k] = "writing" => pc[k] = "writing"
                     /\ pc'[k] = "calling" => pc[k] = "calling"
                     /\ pc'[k] = "none" <=> pc[k] = "none"
                     /\ pc'[k] = "done" => pc[k] = "done" \/ pc[k] = "ssh"
                     /\ pc'[k] \in {"calling", "writing"} => pc'[k] = pc[k]
  BY DEF TypeOK
<1>3. \A k \in Job : on'[k] = on[k] \/ (k = j /\ IsA(j, "deploy") /\ on'[j] = req[j].name)
  BY DEF TypeOK
<1>4. \A k \in Job, n \in Name : Pending(k, n)' => Pending(k, n)
  <2> SUFFICES ASSUME NEW k \in Job, NEW n \in Name, Pending(k, n)' PROVE Pending(k, n)
    OBVIOUS
  <2>1. CASE n \in owes'[k]
    BY <2>1 DEF Pending
  <2>2. CASE [job |-> k, name |-> n] \in stray'
    <3>1. \A s \in stray' : s \in stray \/ (pc[j] = "calling" /\ s = [job |-> j, name |-> on[j]])
      OBVIOUS
    <3>2. [job |-> k, name |-> n] = [job |-> j, name |-> on[j]] => k = j /\ n = on[j]
      OBVIOUS
    <3> QED
      BY <2>2, <3>1, <3>2 DEF Pending
  <2>3. CASE pc'[k] \in {"calling", "writing"} /\ on'[k] = n
    BY <2>3, <1>2, <1>3 DEF Pending, Placed
  <2> QED
    BY <2>1, <2>2, <2>3 DEF Pending
<1>5. Placed'
  <2>1. \A k \in Job : pc[k] \in {"done", "ssh"} => on[k] \in Name
    BY DEF Placed, TypeOK, Running
  <2>2. IsA(j, "deploy") => req[j].name \in Name \/ on' = on
    BY DEF TypeOK
  <2>3. \A s \in stray' : s \in stray \/ s.job = j
    OBVIOUS
  <2>4. \A k \in Job : pc[k] \in {"calling", "writing"} => ~IsA(k, "deploy")
    BY DEF Placed
  <2> QED
    BY <1>1, <1>2, <1>3, <2>1, <2>2, <2>3, <2>4 DEF Placed, TypeOK, Kind
<1>6. Aimed'
  BY <1>1, <1>4, <1>3 DEF Aimed, Kind, IsA
<1>7. Owed'
  BY <1>1 DEF Owed, Kind
<1>8. NamesKnown'
  BY <1>1, <1>4, <1>3 DEF NamesKnown, TypeOK, Name
<1>9. DrawnOnce'
  <2> SUFFICES ASSUME NEW k \in Job, NEW n \in Drawn,
                      IsA(k, "create"), Pending(k, n)'
               PROVE  /\ n \notin keys
                      /\ \A i \in Job \ {k} :
                           ~Pending(i, n)' /\ ~(IsA(i, "destroy") /\ req[i].name = n)
                      /\ on'[k] = n /\ pc'[k] \in {"calling", "writing"} =>
                           [job |-> k, name |-> n] \notin stray'
    BY <1>1 DEF DrawnOnce, Kind, IsA
  <2>1. Pending(k, n) /\ n \in Name
    BY <1>4 DEF Name
  <2>2. on'[k] = n /\ pc'[k] \in {"calling", "writing"} =>
          on[k] = n /\ pc[k] \in {"calling", "writing"}
    BY <1>2, <1>3 DEF IsA
  <2>3. pc'[k] \in {"calling", "writing"} => stray' \subseteq stray \/ k # j
    BY <1>2
  <2> QED
    BY <1>4, <2>1, <2>2, <2>3 DEF DrawnOnce
<1>10. RegistryMatchesCloud' /\ KeyIsListed'
  BY DEF RegistryMatchesCloud, KeyIsListed
<1>11. StaleNameHasCause'
  BY <1>1, <1>3 DEF StaleNameHasCause, IsA
<1>12. CreatedIsListed'
  BY <1>1, <1>3 DEF CreatedIsListed, IsA, TypeOK
<1>13. DrawnCrossedByDestroys'
  BY <1>1, <1>3 DEF DrawnCrossedByDestroys, IsA
<1> QED
  BY <1>5, <1>6, <1>7, <1>8, <1>9, <1>10, <1>11, <1>12, <1>13

-----------------------------------------------------------------------------
(* A call to the provider that takes effect, in its job's attempt or after. *)
Touching(j, n) ==
  /\ Touch(j, n) /\ Pending(j, n) /\ pc[j] # "none"
  /\ UNCHANGED <<keys, lists, req, on, names>>
  /\ stray' \subseteq stray
  /\ \/ pc' = pc
     \/ \E l \in {"writing", "queued", "failed"} :
          /\ pc' = [pc EXCEPT ![j] = l]
          /\ pc[j] = "calling" /\ on[j] = n

LEMMA TouchStep ==
  ASSUME IInv, Safe, TypeOK', NEW j \in Job, NEW n \in Name, Touching(j, n)
  PROVE  IInv' /\ Safe'
<1> USE DEF IInv, Safe, Touching
<1>1. /\ crossed \subseteq crossed'
      /\ crossed' \subseteq crossed \cup {n}
      /\ (\E k \in Job \ {j} : n \in owes[k]) => n \in crossed'
      /\ n \notin crossed /\ n \in crossed' => \E k \in Job \ {j} : n \in owes[k]
      /\ owes' = [owes EXCEPT ![j] = @ \cup {n}]
      /\ n \in cloud' <=> req[j].kind = "create"
      /\ \A m \in Name \ {n} : m \in cloud' <=> m \in cloud
  BY TouchMoves
<1>2. \A k \in Job, kind \in Kind : IsA(k, kind)' <=> IsA(k, kind)
  BY DEF IsA
<1>3. \A k \in Job : /\ pc'[k] \in {"calling", "writing"} => pc[k] \in {"calling", "writing"}
                     /\ pc'[k] = "writing" => pc[k] = "writing" \/ (k = j /\ on[j] = n)
                     /\ pc'[k] = "none" <=> pc[k] = "none"
                     /\ pc'[k] \in {"done", "ssh"} => pc[k] = pc'[k]
  BY DEF TypeOK
<1>4. /\ \A k \in Job : /\ k # j => owes'[k] = owes[k]
                        /\ owes[k] \subseteq owes'[k]
                        /\ owes'[k] \subseteq owes[k] \cup {n}
      /\ n \in owes'[j]
  BY <1>1 DEF TypeOK
<1>5. \A k \in Job, m \in Name : Pending(k, m)' => Pending(k, m)
  BY <1>3, <1>4 DEF Pending
<1>6. req[j].kind = "create" <=> IsA(j, "create")
  BY Asked DEF IsA
<1>7. Placed'
  BY <1>2, <1>3, <1>4 DEF Placed, Kind
<1>8. Aimed'
  BY <1>2, <1>5 DEF Aimed, Kind
<1>9. Owed'
  BY <1>1, <1>2, <1>4, <1>6 DEF Owed, Kind, TypeOK
<1>10. NamesKnown'
  BY <1>2, <1>5 DEF NamesKnown
<1>11. DrawnOnce'
  BY <1>2, <1>3, <1>5 DEF DrawnOnce, Kind, Name
<1>12. RegistryMatchesCloud'
  BY <1>1, <1>4 DEF RegistryMatchesCloud
<1>13. KeyIsListed' /\ StaleNameHasCause' /\ CreatedIsListed'
  BY <1>2, <1>3 DEF KeyIsListed, StaleNameHasCause, CreatedIsListed, Kind
<1>14. DrawnCrossedByDestroys'
  <2> SUFFICES ASSUME n \in Drawn, n \notin crossed, n \in crossed'
               PROVE  \E i, k \in Job : /\ i # k /\ on[i] = n /\ on[k] = n
                                        /\ IsA(i, "destroy") /\ IsA(k, "destroy")
    BY <1>1, <1>2 DEF DrawnCrossedByDestroys, Kind
  <2>1. PICK k \in Job \ {j} : n \in owes[k]
    BY <1>1
  <2>2. Pending(k, n) /\ Pending(j, n)
    BY <2>1 DEF Pending
  <2>3. ~IsA(j, "create") /\ ~IsA(k, "create")
    BY <2>2 DEF DrawnOnce
  <2>4. ~IsA(j, "deploy") /\ ~IsA(k, "deploy")
    BY <2>2 DEF Aimed
  <2>5. pc[k] # "none"
    BY <2>1 DEF Placed
  <2>6. \A i \in {j, k} : req[i] # NoReq /\ req[i].kind \in Kind
    BY <2>5, Asked, ReqSet
  <2>7. IsA(j, "destroy") /\ IsA(k, "destroy")
    BY <2>3, <2>4, <2>6 DEF IsA, Kind
  <2> QED
    BY <2>2, <2>7 DEF Aimed
<1> QED
  BY <1>7, <1>8, <1>9, <1>10, <1>11, <1>12, <1>13, <1>14

-----------------------------------------------------------------------------
(* A write to the registry that takes effect, whether or not it is answered. *)
Writing(j) ==
  /\ pc[j] = "writing" /\ Write(j)
  /\ \E l \in {"ssh", "done", "queued", "failed"} : pc' = [pc EXCEPT ![j] = l]
  /\ UNCHANGED <<cloud, req, on, stray, crossed, names>>

LEMMA WriteStep ==
  ASSUME IInv, Safe, TypeOK', NEW j \in Job, Writing(j)
  PROVE  IInv' /\ Safe'
<1> DEFINE n == on[j]
           c == req[j].cluster
<1> USE DEF IInv, Safe, Writing
<1>1. n \in Name /\ req[j] \in Req /\ c \in Cluster
  BY Asked, ReqSet DEF Running
<1>2. /\ owes' = [owes EXCEPT ![j] = @ \ {n}]
      /\ n \in keys' <=> IsA(j, "create")
      /\ \A m \in Name \ {n} : /\ m \in keys' <=> m \in keys
                               /\ \A d \in Cluster : m \in lists'[d] <=> m \in lists[d]
      /\ \A d \in Cluster \ {c} : lists'[d] = lists[d]
      /\ n \in lists'[c] <=> IsA(j, "create")
  BY <1>1, WriteMoves
<1>3. /\ n \in owes[j] /\ n \notin owes'[j]
      /\ \A k \in Job : owes'[k] \subseteq owes[k] /\ (k # j => owes'[k] = owes[k])
      /\ \A k \in Job, m \in Name : m # n \/ k # j => (m \in owes'[k] <=> m \in owes[k])
  BY <1>2 DEF Placed, TypeOK
<1>4. \A k \in Job, kind \in Kind : IsA(k, kind)' <=> IsA(k, kind)
  BY DEF IsA
<1>5. /\ \A k \in Job : /\ pc'[k] \in {"calling", "writing"} => pc'[k] = pc[k]
                        /\ k # j => pc'[k] = pc[k]
      /\ pc'[j] \notin {"none", "calling", "writing"}
  BY DEF TypeOK
<1>6. \A k \in Job, m \in Name : Pending(k, m)' => Pending(k, m)
  BY <1>3, <1>5 DEF Pending
<1>7. IsA(j, "create") \/ IsA(j, "destroy")
  BY <1>1, Asked, ReqSet DEF IsA, Placed, Kind
<1>8. Placed'
  BY <1>1, <1>3, <1>4, <1>5 DEF Placed, Kind
<1>9. Aimed'
  BY <1>4, <1>6 DEF Aimed, Kind
<1>10. Owed'
  BY <1>3, <1>4 DEF Owed, Kind
<1>11. NamesKnown'
  <2>1. n \in names
    BY <1>1, <1>3 DEF NamesKnown, Pending
  <2>2. keys' \subseteq names
    BY <1>1, <1>2, <2>1 DEF NamesKnown, TypeOK
  <2> QED
    BY <1>6, <2>2 DEF NamesKnown
<1>12. DrawnOnce'
  <2> SUFFICES ASSUME NEW k \in Job, NEW m \in Drawn, IsA(k, "create"), Pending(k, m)'
               PROVE  /\ m \notin keys'
                      /\ \A i \in Job \ {k} :
                           ~Pending(i, m)' /\ ~(IsA(i, "destroy") /\ req[i].name = m)
                      /\ on[k] = m /\ pc'[k] \in {"calling", "writing"} =>
                           [job |-> k, name |-> m] \notin stray
    BY <1>4 DEF DrawnOnce, Kind, IsA
  <2>1. m \in Name /\ Pending(k, m) /\ Pending(j, n)
    BY <1>3, <1>6 DEF Name, Pending
  <2>2. k # j \/ m # n
    BY <1>3, <1>5, <2>1 DEF DrawnOnce, Pending
  <2>3. m # n
    BY <2>1, <2>2 DEF DrawnOnce
  <2> QED
    BY <1>2, <1>5, <1>6, <2>1, <2>3 DEF DrawnOnce
<1>13. RegistryMatchesCloud'
  <2> SUFFICES ASSUME NEW m \in Name, m \notin crossed, \A k \in Job : m \notin owes'[k]
               PROVE  m \in keys' <=> m \in cloud
    BY DEF RegistryMatchesCloud
  <2>1. CASE m = n
    BY <1>2, <1>3, <2>1 DEF Owed
  <2>2. CASE m # n
    BY <1>2, <1>3, <2>2 DEF RegistryMatchesCloud
  <2> QED
    BY <2>1, <2>2
<1>14. KeyIsListed'
  BY <1>1, <1>2 DEF KeyIsListed, TypeOK
<1>15. StaleNameHasCause'
  <2> SUFFICES ASSUME NEW d \in Cluster, NEW m \in Name, m \in lists'[d], m \notin keys'
               PROVE  \E k \in Job : IsA(k, "destroy") /\ on[k] = m /\ req[k].cluster # d
    BY <1>4 DEF StaleNameHasCause, Kind, TypeOK
  <2>1. CASE m = n
    BY <1>2, <1>7, <2>1
  <2>2. CASE m # n
    BY <1>2, <2>2 DEF StaleNameHasCause
  <2> QED
    BY <2>1, <2>2
<1>16. CreatedIsListed'
  <2> SUFFICES ASSUME NEW k \in Job, IsA(k, "create"), pc'[k] \in {"ssh", "done"},
                      on[k] \notin lists'[req[k].cluster]
               PROVE  \E i \in Job : /\ IsA(i, "destroy") /\ on[i] = on[k]
                                     /\ req[i].cluster = req[k].cluster
    BY <1>4 DEF CreatedIsListed, Kind, IsA
  <2>1. k # j
    BY <1>2
  <2>2. pc[k] \in {"ssh", "done"} /\ on[k] \in Name /\ req[k].cluster \in Cluster
    BY <1>5, <2>1, Asked, ReqSet DEF Placed, Running
  <2>3. CASE on[k] \in lists[req[k].cluster]
    BY <1>2, <1>7, <2>2, <2>3
  <2>4. CASE on[k] \notin lists[req[k].cluster]
    BY <2>2, <2>4 DEF CreatedIsListed
  <2> QED
    BY <2>3, <2>4
<1>17. DrawnCrossedByDestroys'
  BY <1>4 DEF DrawnCrossedByDestroys, Kind
<1> QED
  BY <1>8, <1>9, <1>10, <1>11, <1>12, <1>13, <1>14, <1>15, <1>16, <1>17

-----------------------------------------------------------------------------
(* A worker takes a job. *)
LEMMA StartStep ==
  ASSUME IInv, Safe, TypeOK', NEW j \in Job, Start(j)
  PROVE  IInv' /\ Safe'
<1> USE DEF IInv, Safe
<1>1. PICK n \in Name :
        /\ IF req[j].name = NoName THEN n \in Drawn \ names ELSE n = req[j].name
        /\ on' = [on EXCEPT ![j] = n] /\ names' = names \cup {n}
  BY DEF Start
<1>2. /\ pc[j] = "queued" /\ pc' = [pc EXCEPT ![j] = "calling"]
      /\ req[j].kind # "deploy"
      /\ UNCHANGED <<cloud, keys, lists, req, stray, owes, crossed>>
  BY DEF Start, Goto, registry, history
<1>3. req[j] \in Req /\ (IsA(j, "create") \/ IsA(j, "destroy")) /\ ~IsA(j, "deploy")
  BY <1>2, Asked, ReqSet DEF IsA, Kind
<1>4. /\ on'[j] = n /\ pc'[j] = "calling"
      /\ \A k \in Job \ {j} : on'[k] = on[k] /\ pc'[k] = pc[k]
  BY <1>1, <1>2 DEF TypeOK
<1>5. \A k \in Job, kind \in Kind : IsA(k, kind)' <=> IsA(k, kind)
  BY <1>2 DEF IsA
<1>6. \A k \in Job, m \in Name : Pending(k, m)' => Pending(k, m) \/ (k = j /\ m = n)
  BY <1>2, <1>4 DEF Pending
<1>7. IsA(j, "destroy") => n = req[j].name
  BY <1>1, ClusterAssumption DEF Aimed
<1>8. \A k \in Job : IsA(k, "destroy") /\ on[k] \in Name => on'[k] = on[k]
  BY <1>4, <1>7, ClusterAssumption DEF Aimed
<1>9. n \in Drawn /\ IsA(j, "create") =>
        /\ n \notin keys
        /\ \A k \in Job : ~Pending(k, n) /\ ~(IsA(k, "destroy") /\ req[k].name = n)
  BY <1>1, ClusterAssumption DEF NamesKnown, Aimed, IsA, Name
<1>10. Placed'
  BY <1>2, <1>3, <1>4, <1>5 DEF Placed, Kind
<1>11. Aimed'
  <2>1. ASSUME NEW k \in Job, NEW m \in Name, IsA(k, "destroy"), Pending(k, m)'
        PROVE  on'[k] = m
    <3>1. CASE Pending(k, m)
      BY <2>1, <3>1, <1>8 DEF Aimed
    <3>2. CASE k = j /\ m = n
      BY <3>2, <1>4
    <3> QED
      BY <2>1, <3>1, <3>2, <1>6
  <2>2. \A k \in Job : IsA(k, "destroy") => on'[k] \in {NoName, req[k].name}
    BY <1>4, <1>7 DEF Aimed
  <2>3. \A k \in Job, m \in Name : IsA(k, "deploy") => ~Pending(k, m)'
    BY <1>3, <1>6 DEF Aimed
  <2> QED
    BY <1>2, <1>5, <2>1, <2>2, <2>3 DEF Aimed, Kind
<1>12. Owed'
  BY <1>2, <1>5 DEF Owed, Kind
<1>13. NamesKnown'
  BY <1>1, <1>2, <1>4, <1>6 DEF NamesKnown
<1>14. DrawnOnce'
  <2> SUFFICES ASSUME NEW k \in Job, NEW m \in Drawn, IsA(k, "create"), Pending(k, m)'
               PROVE  /\ m \notin keys
                      /\ \A i \in Job \ {k} :
                           ~Pending(i, m)' /\ ~(IsA(i, "destroy") /\ req[i].name = m)
                      /\ on'[k] = m /\ pc'[k] \in {"calling", "writing"} =>
                           [job |-> k, name |-> m] \notin stray
    BY <1>2, <1>5 DEF DrawnOnce, Kind, IsA
  <2>1. m \in Name
    BY DEF Name
  <2>2. CASE k = j /\ m = n
    BY <1>6, <1>9, <2>1, <2>2 DEF Pending
  <2>3. CASE ~(k = j /\ m = n)
    <3>1. Pending(k, m)
      BY <1>6, <2>1, <2>3
    <3>2. m # n
      BY <1>3, <1>7, <1>9, <2>3, <3>1 DEF DrawnOnce
    <3> QED
      BY <1>4, <1>6, <2>1, <3>1, <3>2 DEF DrawnOnce
  <2> QED
    BY <2>2, <2>3
<1>15. RegistryMatchesCloud' /\ KeyIsListed'
  BY <1>2 DEF RegistryMatchesCloud, KeyIsListed
<1>16. StaleNameHasCause'
  BY <1>2, <1>5, <1>8 DEF StaleNameHasCause, Kind, TypeOK
<1>17. CreatedIsListed'
  <2> SUFFICES ASSUME NEW k \in Job, IsA(k, "create"), pc'[k] \in {"ssh", "done"},
                      on'[k] \notin lists[req[k].cluster]
               PROVE  \E i \in Job : /\ IsA(i, "destroy") /\ on'[i] = on'[k]
                                     /\ req[i].cluster = req[k].cluster
    BY <1>2, <1>5 DEF CreatedIsListed, Kind, IsA
  <2>1. k # j /\ pc[k] \in {"ssh", "done"} /\ on'[k] = on[k]
    BY <1>4
  <2>2. on[k] \in Name
    BY <2>1, Asked DEF Placed, Running
  <2> QED
    BY <1>8, <2>1, <2>2 DEF CreatedIsListed
<1>18. DrawnCrossedByDestroys'
  BY <1>2, <1>5, <1>8 DEF DrawnCrossedByDestroys, Kind, Name
<1> QED
  BY <1>10, <1>11, <1>12, <1>13, <1>14, <1>15, <1>16, <1>17, <1>18

(* A request is queued. *)
LEMMA RequestStep ==
  ASSUME IInv, Safe, TypeOK', NEW j \in Job, Request(j)
  PROVE  IInv' /\ Safe'
<1> USE DEF IInv, Safe
<1>1. /\ pc[j] = "none" /\ pc' = [pc EXCEPT ![j] = "queued"]
      /\ UNCHANGED <<cloud, keys, lists, on, tries, stray, owes,
                     crossed, names>>
  BY RequestMoves
<1>2. PICK r \in Req : /\ req' = [req EXCEPT ![j] = r]
                       /\ r.kind = "destroy" => r.name \in keys
                       /\ r.kind = "create" => r.name \in Aliased \cup {NoName}
                       /\ r.name \in names \cup {NoName}
  BY RequestMoves
<1>3. req'[j] = r /\ req[j] = NoReq /\ owes[j] = {} /\ on[j] = NoName
  BY <1>1, <1>2 DEF Placed, TypeOK
<1>4. /\ \A k \in Job \ {j} : req'[k] = req[k] /\ pc'[k] = pc[k]
      /\ pc'[j] = "queued"
  BY <1>1, <1>2 DEF TypeOK
<1>5. \A kind \in Kind : ~IsA(j, kind)
  BY <1>3 DEF IsA
<1>6. \A k \in Job \ {j}, kind \in Kind : IsA(k, kind)' <=> IsA(k, kind)
  BY <1>4 DEF IsA
<1>7. \A k \in Job, m \in Name : Pending(k, m)' <=> Pending(k, m)
  BY <1>1, <1>4 DEF Pending
<1>8. \A m \in Name : ~Pending(j, m)
  BY <1>1, <1>3 DEF Pending, Placed
<1>9. \A kind \in Kind : IsA(j, kind)' <=> r.kind = kind
  BY <1>3, ReqSet DEF IsA
<1>10. Placed'
  <2> SUFFICES ASSUME NEW k \in Job
               PROVE  /\ pc'[k] = "none" => owes[k] = {} /\ req'[k] = NoReq /\ on[k] = NoName
                      /\ pc'[k] = "writing" => on[k] \in owes[k]
                      /\ pc'[k] = "done" => on[k] \in Name
                      /\ pc'[k] \in {"calling", "writing"} => ~IsA(k, "deploy")'
                      /\ \A s \in stray : s.job = k => pc'[k] # "none"
    BY <1>1 DEF Placed
  <2>1. CASE k = j
    BY <1>4, <2>1
  <2>2. CASE k # j
    BY <1>4, <1>6, <2>2 DEF Placed, Kind
  <2> QED
    BY <2>1, <2>2
<1>11. Aimed'
  BY <1>1, <1>2, <1>3, <1>4, <1>6, <1>7, <1>8, <1>9 DEF Aimed, Kind, TypeOK
<1>12. Owed'
  BY <1>1, <1>3, <1>6 DEF Owed, Kind
<1>13. NamesKnown'
  BY <1>1, <1>2, <1>3, <1>4, <1>7 DEF NamesKnown
<1>14. DrawnOnce'
  BY <1>1, <1>2, <1>3, <1>4, <1>6, <1>7, <1>8, <1>9 DEF DrawnOnce, Kind, Name
<1>15. RegistryMatchesCloud' /\ KeyIsListed'
  BY <1>1 DEF RegistryMatchesCloud, KeyIsListed
<1>16. StaleNameHasCause'
  BY <1>1, <1>4, <1>5, <1>6 DEF StaleNameHasCause, Kind
<1>17. CreatedIsListed'
  BY <1>1, <1>4, <1>5, <1>6 DEF CreatedIsListed, Kind
<1>18. DrawnCrossedByDestroys'
  BY <1>1, <1>4, <1>5, <1>6 DEF DrawnCrossedByDestroys, Kind
<1> QED
  BY <1>10, <1>11, <1>12, <1>13, <1>14, <1>15, <1>16, <1>17, <1>18

-----------------------------------------------------------------------------
LEMMA InvStep == IInv /\ Safe /\ [Next]_vars => (IInv /\ Safe)'
<1> SUFFICES ASSUME IInv, Safe, [Next]_vars PROVE (IInv /\ Safe)'
  OBVIOUS
<1>1. TypeOK'
  BY TypeStep DEF IInv
<1> USE DEF registry, history
<1>2. ASSUME NEW j \in Job, Request(j) PROVE (IInv /\ Safe)'
  BY <1>1, <1>2, RequestStep
<1>3. ASSUME NEW j \in Job, Start(j) PROVE (IInv /\ Safe)'
  BY <1>1, <1>3, StartStep
<1>4. ASSUME NEW j \in Job, LoadInstance(j) PROVE (IInv /\ Safe)'
  <2>1. req[j] \in Req /\ pc[j] = "queued" /\ IsA(j, "deploy")
    BY <1>4, Asked DEF LoadInstance, IInv
  <2>2. Quiet(j)
    BY <1>4, <2>1, RaiseMoves DEF LoadInstance, Quiet, Goto, IInv
  <2> QED
    BY <1>1, <2>2, QuietStep
<1>5. ASSUME NEW j \in Job, CallProvider(j) PROVE (IInv /\ Safe)'
  <2>1. req[j] \in Req /\ on[j] \in Name /\ pc[j] = "calling" /\ Pending(j, on[j])
    BY <1>5, Asked DEF CallProvider, IInv, Running, Pending
  <2>2. UNCHANGED <<keys, lists, req, on, stray, names>>
    BY <1>5 DEF CallProvider
  <2>3. CASE Touch(j, on[j])
    <3>1. \E l \in {"writing", "queued", "failed"} : pc' = [pc EXCEPT ![j] = l]
      BY <1>5, <2>1, RaiseMoves DEF CallProvider, Goto, IInv
    <3>2. Touching(j, on[j])
      BY <2>1, <2>2, <2>3, <3>1 DEF Touching
    <3> QED
      BY <1>1, <2>1, <3>2, TouchStep
  <2>4. CASE ~Touch(j, on[j])
    <3>1. NoTouch /\ \E l \in {"queued", "failed"} : pc' = [pc EXCEPT ![j] = l]
      BY <1>5, <2>1, <2>4, RaiseMoves DEF CallProvider, IInv
    <3>2. Quiet(j)
      BY <2>1, <2>2, <3>1 DEF Quiet, NoTouch
    <3> QED
      BY <1>1, <3>2, QuietStep
  <2> QED
    BY <2>3, <2>4
<1>6. ASSUME NEW j \in Job, WriteRegistry(j) PROVE (IInv /\ Safe)'
  <2>1. req[j] \in Req /\ pc[j] = "writing"
    BY <1>6, Asked DEF WriteRegistry, IInv
  <2>2. UNCHANGED <<cloud, req, on, stray, crossed, names>>
    BY <1>6 DEF WriteRegistry
  <2>3. CASE Write(j)
    <3>1. \E l \in {"ssh", "done", "queued", "failed"} : pc' = [pc EXCEPT ![j] = l]
      BY <1>6, <2>1, RaiseMoves DEF WriteRegistry, Goto, IInv
    <3>2. Writing(j)
      BY <2>1, <2>2, <2>3, <3>1 DEF Writing
    <3> QED
      BY <1>1, <3>2, WriteStep
  <2>4. CASE ~Write(j)
    <3>1. /\ UNCHANGED <<keys, lists, owes>>
          /\ \E l \in {"queued", "failed"} : pc' = [pc EXCEPT ![j] = l]
      BY <1>6, <2>1, <2>4, RaiseMoves DEF WriteRegistry, IInv
    <3>2. Quiet(j)
      BY <2>1, <2>2, <3>1 DEF Quiet
    <3> QED
      BY <1>1, <3>2, QuietStep
  <2> QED
    BY <2>3, <2>4
<1>7. ASSUME NEW j \in Job, DeployAgent(j) PROVE (IInv /\ Safe)'
  <2>1. req[j] \in Req /\ pc[j] = "ssh"
    BY <1>7, Asked DEF DeployAgent, IInv
  <2>2. pc' = pc \/ \E l \in {"done", "queued", "failed"} : pc' = [pc EXCEPT ![j] = l]
    BY <1>7, <2>1, RaiseMoves DEF DeployAgent, Goto, IInv
  <2>3. Quiet(j)
    BY <1>7, <2>1, <2>2 DEF DeployAgent, Quiet
  <2> QED
    BY <1>1, <2>3, QuietStep
<1>8. ASSUME NEW j \in Job, CutOff(j) PROVE (IInv /\ Safe)'
  <2>1. req[j] \in Req /\ pc[j] # "none"
    BY <1>8, Asked DEF CutOff, IInv, Running
  <2>2. \E l \in {"queued", "failed"} : pc' = [pc EXCEPT ![j] = l]
    BY <1>8, <2>1, RaiseMoves DEF CutOff, IInv
  <2>3. pc'[j] # "calling"
    BY <2>2 DEF IInv, TypeOK
  <2>4. Quiet(j)
    BY <1>8, <2>1, <2>2, <2>3 DEF CutOff, Quiet
  <2> QED
    BY <1>1, <2>4, QuietStep
<1>9. ASSUME NEW s \in stray, StrayCall(s) PROVE (IInv /\ Safe)'
  <2>1. /\ s.job \in Job /\ s.name \in Name /\ pc[s.job] # "none"
        /\ s = [job |-> s.job, name |-> s.name]
    BY DEF IInv, TypeOK, Call, Placed
  <2>2. Pending(s.job, s.name)
    BY <2>1 DEF Pending
  <2>3. /\ UNCHANGED <<keys, lists, req, on, names, pc>> /\ stray' \subseteq stray
        /\ Touch(s.job, s.name) \/ NoTouch
    BY <1>9 DEF StrayCall
  <2>4. CASE Touch(s.job, s.name)
    <3>1. Touching(s.job, s.name)
      BY <2>1, <2>2, <2>3, <2>4 DEF Touching
    <3> QED
      BY <1>1, <2>1, <3>1, TouchStep
  <2>5. CASE NoTouch
    <3>1. Quiet(s.job)
      BY <2>1, <2>3, <2>5 DEF Quiet, NoTouch
    <3> QED
      BY <1>1, <2>1, <3>1, QuietStep
  <2> QED
    BY <2>3, <2>4, <2>5
<1>10. CASE UNCHANGED vars
  BY <1>10 DEF vars, IInv, Safe, TypeOK, Placed, Aimed, Owed, NamesKnown, DrawnOnce,
     Pending, IsA, RegistryMatchesCloud, KeyIsListed, StaleNameHasCause,
     CreatedIsListed, DrawnCrossedByDestroys
<1> QED
  BY <1>2, <1>3, <1>4, <1>5, <1>6, <1>7, <1>8, <1>9, <1>10 DEF Next, Work

-----------------------------------------------------------------------------
(* The theorems. *)

LEMMA Inductive == Spec => [](IInv /\ Safe)
<1>1. Init => IInv /\ Safe
  BY InitInv
<1>2. IInv /\ Safe /\ [Next]_vars => (IInv /\ Safe)'
  BY InvStep
<1> QED
  BY <1>1, <1>2, PTL DEF Spec

(* The types of cluster/control.py's registry, of the tasks of
   control/tasks.py and of the queue's retries, which never exceed their
   max_retry. *)
THEOREM TypeCorrect == Spec => []TypeOK
<1>1. IInv /\ Safe => TypeOK
  BY DEF IInv
<1> QED
  BY <1>1, Inductive, PTL

(* Whatever raises or is cut off between the provider's call and the write
   to Redis (tasks.py:105-106, 143-144), the registry is wrong about a
   machine only while a job owes it the news, or since two jobs crossed. *)
THEOREM RegistryIsRight == Spec => []RegistryMatchesCloud
<1>1. IInv /\ Safe => RegistryMatchesCloud
  BY DEF Safe
<1> QED
  BY <1>1, Inductive, PTL

(* register_instance and unregister_instance (control.py:151-168) never leave
   a machine with a key that no cluster lists. *)
THEOREM KeysAreListed == Spec => []KeyIsListed
<1>1. IInv /\ Safe => KeyIsListed
  BY DEF Safe
<1> QED
  BY <1>1, Inductive, PTL

(* A listed name without a key was left by a destroy that named another
   cluster, which unregister_instance (control.py:167) does not notice. *)
THEOREM StaleNamesExplained == Spec => []StaleNameHasCause
<1>1. IInv /\ Safe => StaleNameHasCause
  BY DEF Safe
<1> QED
  BY <1>1, Inductive, PTL

(* A create_instance (tasks.py:84) that got past the registration has its
   machine in its cluster's list until a destroy takes it out. *)
THEOREM CreatedAreListed == Spec => []CreatedIsListed
<1>1. IInv /\ Safe => CreatedIsListed
  BY DEF Safe
<1> QED
  BY <1>1, Inductive, PTL

(* Names drawn by _create_machine_req (control.py:107) keep retries and
   threads left behind by a timeout apart: only two destroys can cross on
   such a machine. *)
THEOREM DrawnNamesApart == Spec => []DrawnCrossedByDestroys
<1>1. IInv /\ Safe => DrawnCrossedByDestroys
  BY DEF Safe
<1> QED
  BY <1>1, Inductive, PTL
=============================================================================
