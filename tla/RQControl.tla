------------------------------ MODULE RQControl ------------------------------
(***************************************************************************)
(* The control plane on RQ: agents that register themselves, show a        *)
(* heartbeat and start workers, the operators that watch and stop them,    *)
(* and the scheduler that turns workflows into calls for the control queue *)
(* and notebooks for the workers.  Time advances in minutes.               *)
(***************************************************************************)
EXTENDS Integers, FiniteSets

CONSTANTS
  Agent,    \* names of agents
  Slot,     \* workers of an agent are numbered: the first is slot 0
  Workflow, \* workflow ids
  Exec,     \* executions: each is dispatched once
  Ttl,      \* AGENT_HEARTBEAT_TTL, 80 * 3 seconds
  Check,    \* AGENT_HEARTBEAT_CHECK, 60 * 5 seconds
  Prefixed, \* the workflows whose machine is written with its cluster, as queues are
  Faults,   \* "agent": its process may be killed; "redis": its heartbeat may fail
  NoFlow

ASSUME RQAssumption ==
  /\ Ttl \in Nat \ {0} /\ Check \in Nat \ {0} /\ Slot \subseteq Nat /\ 0 \in Slot
  /\ NoFlow \notin Workflow /\ Prefixed \subseteq Workflow /\ Faults \subseteq {"agent", "redis"}
  /\ "off" \notin Exec /\ "idle" \notin Exec

VARIABLES
  size,     \* size[a]: the slots a starts workers in (workers_n)
  main,     \* main[a]: where the agent's main function stands
  thread,   \* thread[a]: where its heartbeat thread stands
  timer,    \* timer[a]: minutes the thread still sleeps
  flag,     \* flag[a]: its shutdown_flag
  heart,    \* heart[a]: minutes its heartbeat key still lives, 0 when it is gone
  silent,   \* silent[a]: minutes since the thread ended, up to Ttl
  nodes,    \* the agents with a key and a place in AGENT_LIST
  cluster,  \* the agents in the set of their cluster
  removed,  \* the agents an operator has removed since they registered
  work,     \* work[<<a, s>>]: what the worker does
  told,     \* the busy workers that were told to shut down
  row,      \* row[w]: the workflow in the database; an id is used once
  sched,    \* the workflows rq-scheduler repeats
  gone,     \* workflows whose deletion has cancelled the job and not the row yet
  crossed,  \* workflows scheduled after their deletion had begun
  call,     \* call[e]: where an execution stands
  of        \* of[e]: the workflow it is about

agentVars == <<size, main, thread, timer, flag, heart, silent, nodes, cluster, removed>>
flowVars  == <<row, sched, gone, crossed>>
vars      == <<agentVars, work, told, flowVars, call, of>>

Worker == Agent \X Slot

(* The agent's states follow its main function; the thread's its loop. *)
MainState   == {"off", "beating", "listed", "serving", "ending", "unlisted", "unbeaten", "waiting"}
ThreadState == {"off", "check", "set", "sleep"}
CallState   == {"new", "control", "failed", "queued", "running", "done", "lost"}

TypeOK ==
  /\ size \in [Agent -> SUBSET Slot] /\ main \in [Agent -> MainState]
  /\ thread \in [Agent -> ThreadState] /\ timer \in [Agent -> 0..Check]
  /\ flag \in [Agent -> BOOLEAN] /\ heart \in [Agent -> Nat] /\ silent \in [Agent -> 0..Ttl]
  /\ nodes \subseteq Agent /\ cluster \subseteq Agent /\ removed \subseteq Agent
  /\ work \in [Worker -> {"off", "idle"} \cup Exec]
  /\ told \subseteq Worker /\ row \in [Workflow -> {"none", "on", "off", "deleted"}]
  /\ sched \subseteq Workflow /\ gone \subseteq Workflow /\ crossed \subseteq Workflow
  /\ call \in [Exec -> CallState] /\ of \in [Exec -> Workflow \cup {NoFlow}]

-----------------------------------------------------------------------------
(* Helpers.  A definition called Operator_Something right before Operator is
   a fault: the operator with one plausible mistake. *)

Goto(a, s) == main' = [main EXCEPT ![a] = s]
Multi(a)   == size[a] # {0}
Up(a)      == {s \in size[a] : work[<<a, s>>] # "off"}

Init ==
  /\ size \in [Agent -> {{0}, Slot}]
  /\ main = [a \in Agent |-> "off"] /\ thread = [a \in Agent |-> "off"]
  /\ timer = [a \in Agent |-> 0] /\ flag = [a \in Agent |-> FALSE]
  /\ heart = [a \in Agent |-> 0] /\ silent = [a \in Agent |-> Ttl]
  /\ nodes = {} /\ cluster = {} /\ removed = {}
  /\ work = [w \in Worker |-> "off"] /\ told = {}
  /\ row = [w \in Workflow |-> "none"] /\ sched = {} /\ gone = {} /\ crossed = {}
  /\ call = [e \in Exec |-> "new"] /\ of = [e \in Exec |-> NoFlow]

-----------------------------------------------------------------------------
(* The agent: the heartbeat's thread first, then the register, then the
   workers; with more than one worker it does not wait for them. *)
StartHeart(a) ==
  /\ main[a] = "off" /\ thread[a] = "off" /\ Up(a) = {}
  /\ Goto(a, "beating") /\ thread' = [thread EXCEPT ![a] = "check"]
  /\ flag' = [flag EXCEPT ![a] = FALSE]
  /\ UNCHANGED <<size, timer, heart, silent, nodes, cluster, removed, work, told, flowVars, call, of>>

Register(a) ==
  /\ main[a] = "beating" /\ Goto(a, "listed")
  /\ nodes' = nodes \cup {a} /\ cluster' = cluster \cup {a} /\ removed' = removed \ {a}
  /\ UNCHANGED <<size, thread, timer, flag, heart, silent, work, told, flowVars, call, of>>

StartWorkers(a) ==
  /\ main[a] = "listed" /\ Goto(a, IF Multi(a) THEN "ending" ELSE "serving")
  /\ work' = [w \in Worker |-> IF w[1] = a /\ w[2] \in size[a] THEN "idle" ELSE work[w]]
  /\ UNCHANGED <<size, thread, timer, flag, heart, silent, nodes, cluster, removed,
                 told, flowVars, call, of>>

WorkersEnd_Early(a) ==
  /\ main[a] = "serving" /\ Goto(a, "ending")
  /\ UNCHANGED <<size, thread, timer, flag, heart, silent, nodes, cluster, removed,
                 work, told, flowVars, call, of>>
WorkersEnd(a) ==
  /\ main[a] = "serving" /\ Up(a) = {} /\ Goto(a, "ending")
  /\ UNCHANGED <<size, thread, timer, flag, heart, silent, nodes, cluster, removed,
                 work, told, flowVars, call, of>>

Unregister(a) ==
  /\ main[a] = "ending" /\ Goto(a, "unlisted")
  /\ nodes' = nodes \ {a} /\ cluster' = cluster \ {a} /\ removed' = removed \ {a}
  /\ UNCHANGED <<size, thread, timer, flag, heart, silent, work, told, flowVars, call, of>>

(* HeartbeatThread.unregister: the key, then the flag. *)
DeleteHeart(a) ==
  /\ main[a] = "unlisted" /\ Goto(a, "unbeaten") /\ heart' = [heart EXCEPT ![a] = 0]
  /\ UNCHANGED <<size, thread, timer, flag, silent, nodes, cluster, removed, work, told, flowVars, call, of>>

SetFlag(a) ==
  /\ main[a] = "unbeaten" /\ Goto(a, "waiting") /\ flag' = [flag EXCEPT ![a] = TRUE]
  /\ UNCHANGED <<size, thread, timer, heart, silent, nodes, cluster, removed, work, told, flowVars, call, of>>

(* The process ends with its last worker, and takes the daemon thread along. *)
Ended(a) ==
  /\ Goto(a, "off") /\ thread' = [thread EXCEPT ![a] = "off"] /\ timer' = [timer EXCEPT ![a] = 0]
  /\ silent' = [silent EXCEPT ![a] = IF thread[a] = "off" THEN silent[a] ELSE 0]

Exit(a) ==
  /\ main[a] = "waiting" /\ Up(a) = {} /\ Ended(a)
  /\ UNCHANGED <<size, flag, heart, nodes, cluster, removed, work, told, flowVars, call, of>>

(* The process is killed with its workers: what it wrote to redis stays. *)
Crash(a) ==
  /\ "agent" \in Faults /\ main[a] # "off" /\ Ended(a)
  /\ work' = [w \in Worker |-> IF w[1] = a THEN "off" ELSE work[w]]
  /\ told' = {w \in told : w[1] # a}
  /\ call' = [e \in Exec |-> IF \E s \in Slot : work[<<a, s>>] = e THEN "lost" ELSE call[e]]
  /\ UNCHANGED <<size, flag, heart, nodes, cluster, removed, flowVars, of>>

(* The thread's loop: it looks at the flag, sets the key, sleeps. *)
LookAtFlag(a) ==
  /\ thread[a] = "check"
  /\ thread' = [thread EXCEPT ![a] = IF flag[a] THEN "off" ELSE "set"]
  /\ silent' = [silent EXCEPT ![a] = IF flag[a] THEN 0 ELSE silent[a]]
  /\ UNCHANGED <<size, main, timer, flag, heart, nodes, cluster, removed, work, told, flowVars, call, of>>

SetHeart_NoTtl(a) ==
  /\ thread[a] = "set" /\ thread' = [thread EXCEPT ![a] = "sleep"]
  /\ timer' = [timer EXCEPT ![a] = Check]
  /\ heart' = [heart EXCEPT ![a] = Check]
  /\ UNCHANGED <<size, main, flag, silent, nodes, cluster, removed, work, told, flowVars, call, of>>
SetHeart(a) ==
  /\ thread[a] = "set" /\ thread' = [thread EXCEPT ![a] = "sleep"]
  /\ timer' = [timer EXCEPT ![a] = Check]
  /\ heart' = [heart EXCEPT ![a] = Ttl]
  /\ UNCHANGED <<size, main, flag, silent, nodes, cluster, removed, work, told, flowVars, call, of>>

(* A set that raises ends the thread for good, whether redis has the key or
   not, and the agent serves on without it. *)
SetFails(a) ==
  /\ "redis" \in Faults /\ thread[a] = "set" /\ thread' = [thread EXCEPT ![a] = "off"]
  /\ silent' = [silent EXCEPT ![a] = 0]
  /\ \E t \in {heart[a], Ttl} : heart' = [heart EXCEPT ![a] = t]
  /\ UNCHANGED <<size, main, timer, flag, nodes, cluster, removed, work, told, flowVars, call, of>>

Wake(a) ==
  /\ thread[a] = "sleep" /\ timer[a] = 0 /\ thread' = [thread EXCEPT ![a] = "check"]
  /\ UNCHANGED <<size, main, timer, flag, heart, silent, nodes, cluster, removed,
                 work, told, flowVars, call, of>>

Down(n) == IF n = 0 THEN 0 ELSE n - 1

(* A minute passes.  The thread is not kept from running for that long. *)
Minute ==
  /\ \A a \in Agent : thread[a] \in {"off", "sleep"} /\ (thread[a] = "sleep" => timer[a] > 0)
  /\ \E a \in Agent : heart[a] > 0 \/ timer[a] > 0
  /\ timer' = [a \in Agent |-> Down(timer[a])]
  /\ heart' = [a \in Agent |-> Down(heart[a])]
  /\ silent' = [a \in Agent |-> IF thread[a] = "off" /\ silent[a] < Ttl THEN silent[a] + 1
                                ELSE silent[a]]
  /\ UNCHANGED <<size, main, thread, flag, nodes, cluster, removed, work, told, flowVars, call, of>>

-----------------------------------------------------------------------------
(* The operators: remove forgets an agent and not its cluster's set; the
   workers of a known agent, or those of a queue, are told to shut down, which
   a busy worker does after its job. *)
Remove(a) ==
  /\ a \in nodes /\ nodes' = nodes \ {a} /\ removed' = removed \cup {a}
  /\ UNCHANGED <<size, main, thread, timer, flag, heart, silent, cluster, work, told, flowVars, call, of>>

Shutdown(W) ==
  /\ work' = [w \in Worker |-> IF w \in W /\ work[w] = "idle" THEN "off" ELSE work[w]]
  /\ told' = told \cup {w \in W : work[w] \in Exec}
  /\ UNCHANGED <<agentVars, flowVars, call, of>>

KillWorkers(a) == a \in nodes /\ Shutdown({a} \X size[a])

KillQueue == Shutdown({w \in Worker : work[w] # "off"})

(* A worker takes a notebook of its queue, runs it, and is free again.  The
   workers' queues have the cluster's name in front, the machine that a
   notebook is enqueued under has not unless its author wrote it. *)
Take(w, e) ==
  /\ work[w] = "idle" /\ call[e] = "queued" /\ of[e] \in Prefixed
  /\ work' = [work EXCEPT ![w] = e] /\ call' = [call EXCEPT ![e] = "running"]
  /\ UNCHANGED <<agentVars, told, flowVars, of>>

Finish(w) ==
  /\ work[w] \in Exec /\ told' = told \ {w}
  /\ work' = [work EXCEPT ![w] = IF w \in told THEN "off" ELSE "idle"]
  /\ call' = [call EXCEPT ![work[w]] = "done"]
  /\ UNCHANGED <<agentVars, flowVars, of>>

-----------------------------------------------------------------------------
(* Workflows in the database, as their handlers leave them. *)
Alive(f) == row[f] \in {"on", "off"}

Save(f) ==
  /\ row[f] # "deleted" /\ \E s \in {"on", "off"} : row[f] # s /\ row' = [row EXCEPT ![f] = s]
  /\ UNCHANGED <<agentVars, work, told, sched, gone, crossed, call, of>>

(* schedule puts a workflow that its caller has found in the database into
   rq-scheduler, under its id: a job that is there is replaced. *)
Schedule(f) ==
  /\ row[f] # "none" /\ f \notin sched /\ sched' = sched \cup {f}
  /\ crossed' = IF f \in gone \/ ~Alive(f) THEN crossed \cup {f} ELSE crossed \ {f}
  /\ UNCHANGED <<agentVars, work, told, row, gone, call, of>>

CancelAll ==
  /\ sched # {} /\ sched' = {}
  /\ UNCHANGED <<agentVars, work, told, row, gone, crossed, call, of>>

(* delete_workflow cancels the job, then deletes the row. *)
CancelJob_Not(f) ==
  /\ Alive(f) /\ f \notin gone /\ gone' = gone \cup {f}
  /\ UNCHANGED <<agentVars, work, told, row, sched, crossed, call, of>>
CancelJob(f) ==
  /\ Alive(f) /\ f \notin gone /\ gone' = gone \cup {f} /\ sched' = sched \ {f}
  /\ UNCHANGED <<agentVars, work, told, row, crossed, call, of>>

DeleteRow(f) ==
  /\ f \in gone /\ gone' = gone \ {f} /\ row' = [row EXCEPT ![f] = "deleted"]
  /\ UNCHANGED <<agentVars, work, told, sched, crossed, call, of>>

(* rq-scheduler, at its time, or the web by dispatcher enqueue a call. *)
Dispatch(e, f) ==
  /\ call[e] = "new" /\ (f \in sched \/ Alive(f))
  /\ call' = [call EXCEPT ![e] = "control"] /\ of' = [of EXCEPT ![e] = f]
  /\ UNCHANGED <<agentVars, work, told, flowVars>>

(* prepare_notebook_job has no context to return for a workflow that is gone
   or disabled, which fails the call; the schedule is left as it is. *)
Prepared(f) == row[f] = "on"

SchedulerDispatcher(e) ==
  /\ call[e] = "control"
  /\ call' = [call EXCEPT ![e] = IF Prepared(of[e]) THEN "queued" ELSE "failed"]
  /\ UNCHANGED <<agentVars, work, told, flowVars, of>>

-----------------------------------------------------------------------------
AgentRun(a) ==
  \/ Register(a) \/ StartWorkers(a) \/ WorkersEnd(a) \/ Unregister(a)
  \/ DeleteHeart(a) \/ SetFlag(a) \/ Exit(a)

HeartbeatRun(a) == LookAtFlag(a) \/ SetHeart(a) \/ SetFails(a) \/ Wake(a)

Flow(f) == Save(f) \/ Schedule(f) \/ CancelJob(f) \/ DeleteRow(f)

Next ==
  \/ \E a \in Agent : StartHeart(a) \/ AgentRun(a) \/ HeartbeatRun(a) \/ Crash(a)
                        \/ Remove(a) \/ KillWorkers(a)
  \/ Minute \/ KillQueue \/ CancelAll
  \/ \E w \in Worker : Finish(w) \/ \E e \in Exec : Take(w, e)
  \/ \E f \in Workflow : Flow(f) \/ \E e \in Exec : Dispatch(e, f)
  \/ \E e \in Exec : SchedulerDispatcher(e)

Spec == Init /\ [][Next]_vars

-----------------------------------------------------------------------------
(* How far a heartbeat can be from the truth.  It outlives its thread by its
   time to live at most, although unregister deletes it before it stops the
   thread and a set that raises may have been done; and a running agent whose
   thread sleeps without a key, which a check longer than the time to live
   causes, sets one again within the difference. *)
HeartbeatBound ==
  \A a \in Agent :
    /\ thread[a] = "off" => heart[a] + silent[a] <= Ttl
    /\ thread[a] = "sleep" /\ heart[a] = 0 /\ main[a] \notin {"unbeaten", "waiting"} =>
         timer[a] <= Check - Ttl

(* A worker serves its queues without a registered agent only when the agent
   has several workers, and unregistered itself right after starting them, or
   was removed by name: kill_workers_from_agent cannot find it. *)
UnlistedWorkers ==
  \A a \in Agent : Up(a) # {} /\ a \notin nodes => Multi(a) \/ a \in removed

(* A job in rq-scheduler without its workflow was put there after the
   workflow's deletion had begun: delete_workflow itself leaves none. *)
OrphanNeedsCrossing == \A f \in sched : ~Alive(f) => f \in crossed

=============================================================================
