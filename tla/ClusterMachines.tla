-------------------------- MODULE ClusterMachines --------------------------
(***************************************************************************)
(* The machines of the clusters.  The server queues three kinds of tasks   *)
(* for the control plane: create a machine (and deploy an agent into it),  *)
(* destroy one, deploy an agent into an existing one.  Each task calls the *)
(* cloud provider in a thread and then writes the result to the registry   *)
(* in Redis: a key for the machine, its name in the list of its cluster.   *)
(* The call and the write are two steps; tasks fail between them, time     *)
(* out while the thread goes on, are tried again, and cross each other.    *)
(***************************************************************************)
EXTENDS Integers

CONSTANTS
  Job,       \* the tasks that are queued, each at most once
  Cluster,
  Aliased,   \* machine names a request can ask for (machine.name-alias)
  Drawn,     \* machine names with a random part
  Overwrites,\* does creating a machine whose name exists succeed (local)?
  Faults,    \* what may fail, a subset of FaultNames
  NoName

(* "provider", "redis", "ssh": a call raises, with or without its effect;
   "timeout": a job is cut off by its timeout or the loss of its worker. *)
FaultNames == {"provider", "redis", "ssh", "timeout"}

Name == Aliased \cup Drawn

ASSUME ClusterAssumption ==
  /\ Overwrites \in BOOLEAN
  /\ Faults \subseteq FaultNames
  /\ Aliased \cap Drawn = {}
  /\ NoName \notin Name

VARIABLES
  cloud,    \* the machines that exist at the provider
  keys,     \* the machines with a key in the registry
  lists,    \* lists[c]: the names in the list of cluster c
  req,      \* req[j]: what the job was asked for
  pc,       \* pc[j]: where the job stands
  on,       \* on[j]: the machine its current attempt is about
  tries,    \* tries[j]: how often it was tried again
  stray,    \* calls to the provider that outlive their job's attempt
  owes,     \* history: owes[j]: machines it touched and has not told Redis of
  crossed,  \* history: machines touched while another job owed them
  names     \* the names that were drawn or are fixed

vars == <<cloud, keys, lists, req, pc, on, tries, stray, owes,
          crossed, names>>
registry == <<keys, lists>>
history  == <<owes, crossed>>

Kind == {"create", "destroy", "deploy"}
Req  == [kind : Kind, cluster : Cluster, name : Name \cup {NoName}, agent : BOOLEAN]
NoReq == [kind |-> "none"]
Running == {"calling", "writing", "ssh"}
PC   == {"none", "queued", "done", "failed"} \cup Running
Call == [job : Job, name : Name]

TypeOK ==
  /\ cloud \in SUBSET Name /\ keys \in SUBSET Name
  /\ lists \in [Cluster -> SUBSET Name]
  /\ req \in [Job -> Req \cup {NoReq}]
  /\ pc \in [Job -> PC]
  /\ on \in [Job -> Name \cup {NoName}]
  /\ tries \in [Job -> 0..3]
  /\ stray \in SUBSET Call
  /\ owes \in [Job -> SUBSET Name] /\ crossed \in SUBSET Name
  /\ names \in SUBSET Name
  /\ \A j \in Job : /\ pc[j] # "none" => req[j] \in Req
                    /\ pc[j] \in Running => on[j] \in Name

-----------------------------------------------------------------------------
(* Helpers.  A definition called Operator_Something right before Operator
   is a fault: the operator with one plausible mistake.  No specification
   uses it; it shows that a property can fail. *)

IsA(j, kind) == req[j] # NoReq /\ req[j].kind = kind

(* max_retry of the three enqueue_* methods. *)
MaxRetry(kind) == IF kind = "create" THEN 1 ELSE 3

Goto(j, l) == pc' = [pc EXCEPT ![j] = l]

(* The attempt has raised or was cut off: the queue may try the job again. *)
Raise_Always(j) ==
  /\ Goto(j, "queued") /\ UNCHANGED tries
Raise(j) ==
  \/ tries[j] < MaxRetry(req[j].kind) /\ Goto(j, "queued")
     /\ tries' = [tries EXCEPT ![j] = @ + 1]
  \/ Goto(j, "failed") /\ UNCHANGED tries

(* The provider's call of job j on machine n takes effect. *)
Touch(j, n) ==
  /\ cloud' = IF req[j].kind = "create" THEN cloud \cup {n} ELSE cloud \ {n}
  /\ owes' = [owes EXCEPT ![j] = @ \cup {n}]
  /\ crossed' = IF \E k \in Job \ {j} : n \in owes[k] THEN crossed \cup {n} ELSE crossed
NoTouch == UNCHANGED <<cloud, owes, crossed>>

(* May it?  A create finds its name taken, a destroy its machine gone. *)
Possible(j, n) ==
  IF req[j].kind = "create" THEN n \notin cloud \/ Overwrites ELSE n \in cloud

(* The pipelines of register_instance and unregister_instance. *)
Write_KeyOnly(j) ==
  /\ keys' = (IF IsA(j, "create") THEN keys \cup {on[j]} ELSE keys \ {on[j]})
  /\ lists' = [lists EXCEPT ![req[j].cluster] = @ \cup {on[j]}]
  /\ owes' = [owes EXCEPT ![j] = @ \ {on[j]}]
Write(j) ==
  LET n == on[j]
      c == req[j].cluster
  IN /\ IF req[j].kind = "create"
          THEN keys' = keys \cup {n} /\ lists' = [lists EXCEPT ![c] = @ \cup {n}]
          ELSE keys' = keys \ {n} /\ lists' = [lists EXCEPT ![c] = @ \ {n}]
     /\ owes' = [owes EXCEPT ![j] = @ \ {n}]

-----------------------------------------------------------------------------
Init ==
  /\ cloud = {} /\ keys = {}
  /\ lists = [c \in Cluster |-> {}]
  /\ req = [j \in Job |-> NoReq]
  /\ pc = [j \in Job |-> "none"]
  /\ on = [j \in Job |-> NoName]
  /\ tries = [j \in Job |-> 0]
  /\ stray = {}
  /\ owes = [j \in Job |-> {}] /\ crossed = {}
  /\ names = Aliased

Enqueue(j, kind, c, n, agent) ==
  /\ pc[j] = "none" /\ Goto(j, "queued")
  /\ req' = [req EXCEPT ![j] = [kind |-> kind, cluster |-> c, name |-> n, agent |-> agent]]
  /\ UNCHANGED <<cloud, registry, on, tries, stray, history, names>>

RequestCreate(j) ==
  \E c \in Cluster, n \in Aliased \cup {NoName}, agent \in BOOLEAN :
    Enqueue(j, "create", c, n, agent)

(* Only a machine with a key is destroyed; nobody looks whether it is the
   cluster's. *)
RequestDestroy(j) ==
  \E c \in Cluster, n \in keys : Enqueue(j, "destroy", c, n, FALSE)

RequestDeploy(j) ==
  \E c \in Cluster, n \in names : Enqueue(j, "deploy", c, n, TRUE)

-----------------------------------------------------------------------------
(* A worker takes the job: the name of a new machine is chosen and the
   provider is called in a thread. *)
Start_AnyName(j) ==
  /\ pc[j] = "queued" /\ req[j].kind # "deploy"
  /\ Goto(j, "calling")
  /\ \E n \in Name :
       /\ IF req[j].name = NoName THEN n \in Drawn ELSE n = req[j].name
       /\ on' = [on EXCEPT ![j] = n] /\ names' = names \cup {n}
  /\ UNCHANGED <<cloud, registry, req, tries, stray, history>>
Start(j) ==
  /\ pc[j] = "queued" /\ req[j].kind # "deploy"
  /\ Goto(j, "calling")
  /\ \E n \in Name :
       /\ IF req[j].name = NoName THEN n \in Drawn \ names ELSE n = req[j].name
       /\ on' = [on EXCEPT ![j] = n] /\ names' = names \cup {n}
  /\ UNCHANGED <<cloud, registry, req, tries, stray, history>>

(* deploy_agent reads the machine's key; without one it raises. *)
LoadInstance(j) ==
  /\ pc[j] = "queued" /\ IsA(j, "deploy")
  /\ IF req[j].name \in keys
       THEN /\ Goto(j, "ssh") /\ on' = [on EXCEPT ![j] = req[j].name]
            /\ UNCHANGED tries
       ELSE Raise(j) /\ UNCHANGED on
  /\ UNCHANGED <<cloud, registry, req, stray, history, names>>

(* create_machine or destroy_machine of the provider returns or raises. *)
CallProvider_Swallows(j) ==
  /\ pc[j] = "calling" /\ Goto(j, "writing")
  /\ \/ Possible(j, on[j]) /\ Touch(j, on[j])
     \/ ~Possible(j, on[j]) /\ NoTouch
     \/ "provider" \in Faults /\ NoTouch
  /\ UNCHANGED <<registry, req, on, tries, stray, names>>
CallProvider(j) ==
  /\ pc[j] = "calling"
  /\ \/ Possible(j, on[j]) /\ Touch(j, on[j]) /\ Goto(j, "writing") /\ UNCHANGED tries
     \/ ~Possible(j, on[j]) /\ NoTouch /\ Raise(j)
     \/ /\ "provider" \in Faults /\ Possible(j, on[j])
        /\ Touch(j, on[j]) \/ NoTouch
        /\ Raise(j)
  /\ UNCHANGED <<registry, req, on, stray, names>>

(* A call whose job was cut off takes effect all the same, or fails. *)
StrayCall(s) ==
  /\ s \in stray /\ stray' = stray \ {s}
  /\ \/ Possible(s.job, s.name) /\ Touch(s.job, s.name)
     \/ NoTouch
  /\ UNCHANGED <<registry, req, pc, on, tries, names>>

(* register_instance or unregister_instance. *)
WriteRegistry(j) ==
  /\ pc[j] = "writing"
  /\ \/ /\ Write(j) /\ UNCHANGED tries
        /\ Goto(j, IF IsA(j, "create") /\ req[j].agent THEN "ssh" ELSE "done")
     \/ /\ "redis" \in Faults /\ Raise(j)
        /\ Write(j) \/ UNCHANGED <<registry, owes>>
  /\ UNCHANGED <<cloud, req, on, stray, crossed, names>>

(* _deploy_agent: copies a file to the machine and starts a container there.
   When it raises it is called again, up to three times, which nobody but the
   machine sees: the attempt ends with the last of these calls.  A command
   that ends with another code than 0 does not raise. *)
DeployAgent(j) ==
  /\ pc[j] = "ssh"
  /\ \/ /\ on[j] \in cloud \/ "ssh" \in Faults
        /\ Goto(j, "done") /\ UNCHANGED tries
     \/ /\ on[j] \notin cloud \/ "ssh" \in Faults
        /\ Raise(j)
  /\ UNCHANGED <<cloud, registry, req, on, stray, history, names>>

(* The job's timeout, or the death of its worker: the thread that calls the
   provider is not stopped by the first and may be by the second. *)
CutOff(j) ==
  /\ "timeout" \in Faults /\ pc[j] \in Running
  /\ Raise(j)
  /\ \/ UNCHANGED stray
     \/ pc[j] = "calling" /\ stray' = stray \cup {[job |-> j, name |-> on[j]]}
  /\ UNCHANGED <<cloud, registry, req, on, history, names>>

-----------------------------------------------------------------------------
Request(j) == RequestCreate(j) \/ RequestDestroy(j) \/ RequestDeploy(j)
Work(j) == \/ Start(j) \/ LoadInstance(j) \/ CallProvider(j)
           \/ WriteRegistry(j) \/ DeployAgent(j)

Next == \/ \E j \in Job : Request(j) \/ Work(j) \/ CutOff(j)
        \/ \E s \in stray : StrayCall(s)

Spec == Init /\ [][Next]_vars

(* The control plane's worker goes on with the jobs it has taken. *)
FairSpec == Spec /\ \A j \in Job : WF_vars(Work(j))

-----------------------------------------------------------------------------
(* Properties. *)

(* The registry is wrong about a machine only while a job that touched the
   machine has not told the registry (it is about to, or it was cut off and
   never will), or since two jobs touched it before either had written. *)
RegistryMatchesCloud ==
  \A n \in Name :
    (n \in keys) # (n \in cloud) => n \in crossed \/ \E j \in Job : n \in owes[j]

(* A machine whose name has a random part is never crossed by two jobs unless
   somebody asked twice for its destruction: a retry of its creation draws a
   name of its own. *)
DrawnCrossedByDestroys ==
  \A n \in Drawn \cap crossed :
    \E j, k \in Job : j # k /\ on[j] = n /\ on[k] = n /\ IsA(j, "destroy") /\ IsA(k, "destroy")

(* A machine with a key is in the list of a cluster: the key never outlives
   the last list that names it, whichever cluster the destroy went through. *)
KeyIsListed == \A n \in keys : \E c \in Cluster : n \in lists[c]

(* A name stays in a list without its key only when the machine was destroyed
   through another cluster. *)
StaleNameHasCause ==
  \A c \in Cluster : \A n \in lists[c] \ keys :
    \E j \in Job : IsA(j, "destroy") /\ on[j] = n /\ req[j].cluster # c

(* The end of a creation that went well: its machine is in the list of its
   cluster until somebody destroys a machine of that name. *)
CreatedIsListed ==
  \A j \in Job :
    IsA(j, "create") /\ pc[j] \in {"ssh", "done"} =>
      \/ on[j] \in lists[req[j].cluster]
      \/ \E k \in Job : IsA(k, "destroy") /\ on[k] = on[j] /\ req[k].cluster = req[j].cluster

(* Every task that was queued ends, whatever raises: the retries are bounded. *)
EveryJobEnds == \A j \in Job : pc[j] = "queued" ~> pc[j] \in {"done", "failed"}
=============================================================================
