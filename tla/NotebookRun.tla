---------------------------- MODULE NotebookRun ----------------------------
(***************************************************************************)
(* The execution of notebooks and its history.  A run is served by two     *)
(* processes that do not talk to each other: the worker (docker_exec on an *)
(* agent) starts a container, waits for it and gives up after the task's   *)
(* timeout; the container (lab exec local) executes the notebook and tells *)
(* the server about it.  The container records every result it lives to    *)
(* see; the worker records a failure when the container did not exit with  *)
(* 0.  Both write to the lf_history table, the container also uploads the  *)
(* executed notebook to the store of the project's outputs.  A request of  *)
(* theirs is on its way until the server serves it, whatever becomes of    *)
(* its sender meanwhile.                                                   *)
(***************************************************************************)
EXTENDS Integers

CONSTANTS
  Exec,      \* execution ids; one is drawn for every run (ExecID)
  Workflow,  \* the workflows that are run, registered on day 0
  LastDay,   \* bound: the last day of a behaviour
  Faults,    \* what may go wrong besides the notebook, a subset of FaultNames
  NoCtx, NoExec   \* absent values

(* "post": a call to the server raises or is refused; "docker": a call to the
   docker daemon fails; "worker": the worker dies or raises. *)
FaultNames == {"post", "docker", "worker"}

ASSUME RunAssumption ==
  /\ LastDay \in Nat
  /\ Faults \subseteq FaultNames
  /\ NoExec \notin Exec
  /\ Exec \cap Workflow = {}

Day  == 0..LastDay

(* The part of ExecutionNBTask the history depends on: which workflow asked
   for the run and how, and the day its output_dir and error_dir name. *)
Ctx  == [kind : {"periodic", "manual"}, wf : Workflow, day : Day]
ASSUME CtxAssumption == NoCtx \notin Ctx

VARIABLES
  today,    \* the date, the same on every machine
  ctx,      \* ctx[e]: the context the worker of run e was given
  work,     \* work[e]: where the worker stands
  status,   \* status[e]: DockerRunResult.status
  box,      \* box[e]: where the container of run e stands
  verdict,  \* verdict[e]: what became of the notebook
  wire,     \* the requests on their way to the server: whose, and what for
  rows,     \* the rows of lf_history
  store,    \* store[k]: the run whose notebook is stored under k
  refused   \* history: whose row the server refused, by an answer nobody read

vars == <<today, ctx, work, status, box, verdict, wire, rows, store, refused>>

(* The container is running; it waits for an answer while it is "posting" and
   "uploading". *)
Inside == {"started", "ran", "posting", "posted", "uploading", "uploaded"}
Exited == {"exited0", "exited1"}                    \* with code 0, with another
Box    == {"none", "killed", "removed"} \cup Inside \cup Exited
Busy   == {"queued", "prepared", "waiting", "expired", "ended", "returned", "reporting"}
Work   == {"idle", "done", "lost"} \cup Busy
Side   == {"container", "worker"}                   \* who writes to the history
Back   == {"returned", "reporting", "done"}         \* DockerCommand.run is over

(* A row: which side wrote it, the wfid and the output day of the result. *)
HistRow == [exec : Exec, by : Side, status : {0, -1},
            wfid : Workflow \cup {"tmp"}, day : Day]
(* A key of the store: outputs/<dir>/<day>/<output_name>. *)
Key == [dir : {"ok", "errors"}, day : Day, name : Exec \cup Workflow]

TypeOK ==
  /\ today \in Day
  /\ ctx \in [Exec -> Ctx \cup {NoCtx}]
  /\ work \in [Exec -> Work]
  /\ status \in [Exec -> {0, 1, -1, -3}]
  /\ box \in [Exec -> Box]
  /\ verdict \in [Exec -> {"none", "ok", "failed", "crashed"}]
  /\ wire \subseteq Exec \X (Side \cup {"notebook"})
  /\ rows \in SUBSET HistRow
  /\ store \in [Key -> Exec \cup {NoExec}]
  /\ refused \subseteq Exec \X Side
  /\ \A e \in Exec : work[e] # "idle" => ctx[e] \in Ctx

-----------------------------------------------------------------------------
(* Helpers.  A definition called Operator_Something right before Operator
   is a fault: the operator with one plausible mistake.  No specification
   uses it; it shows that a property can fail. *)

WorkAt(e, l) == work' = [work EXCEPT ![e] = l]
BoxAt(e, l)  == box' = [box EXCEPT ![e] = l]
Refuse(e, side) == refused' = refused \cup {<<e, side>>}
Request(e, what) == wire' = wire \cup {<<e, what>>}

(* create_notebook_ctx names the output after the wfid and the execid of the
   context; workflow_dispatcher draws a new execid and keeps the name. *)
OutputName_PerWorkflow(e) == ctx[e].wf
OutputName(e) == IF ctx[e].kind = "periodic" THEN ctx[e].wf ELSE e

(* register_workflow puts the workflow's wfid into the context; a manual run
   keeps the temporary one of create_notebook_ctx. *)
RowWfid(e) == IF ctx[e].kind = "periodic" THEN ctx[e].wf ELSE "tmp"

HistoryRow(e, side, code) ==
  [exec |-> e, by |-> side, status |-> code, wfid |-> RowWfid(e), day |-> ctx[e].day]

(* history.create: status 0, or -1 when the result carries an error. *)
ResultCode_AlwaysOk(e) == 0
ResultCode(e) == IF verdict[e] = "ok" THEN 0 ELSE -1

(* Where the server puts an upload: today is read when it arrives. *)
UploadKey(e) == [dir |-> IF verdict[e] = "ok" THEN "ok" ELSE "errors",
                 day |-> today, name |-> OutputName(e)]

-----------------------------------------------------------------------------
Init ==
  /\ today = 0
  /\ ctx = [e \in Exec |-> NoCtx]
  /\ work = [e \in Exec |-> "idle"]
  /\ status = [e \in Exec |-> -1]
  /\ box = [e \in Exec |-> "none"]
  /\ verdict = [e \in Exec |-> "none"]
  /\ wire = {} /\ rows = {}
  /\ store = [k \in Key |-> NoExec]
  /\ refused = {}

Midnight ==
  /\ today < LastDay
  /\ today' = today + 1
  /\ UNCHANGED <<ctx, work, status, box, verdict, wire, rows, store, refused>>

(* A job reaches a worker's queue: a periodic one with the directories of the
   day it was registered, a manual one with those of its own day. *)
Enqueue(e) ==
  /\ work[e] = "idle"
  /\ \E k \in {"periodic", "manual"}, w \in Workflow :
       ctx' = [ctx EXCEPT ![e] = [kind |-> k, wf |-> w,
                                  day |-> IF k = "periodic" THEN 0 ELSE today]]
  /\ WorkAt(e, "queued")
  /\ UNCHANGED <<today, status, box, verdict, wire, rows, store, refused>>

-----------------------------------------------------------------------------
(* The worker. *)

(* NBTaskDocker.run: the project's key and an agent token are fetched. *)
Prepare(e) ==
  /\ work[e] = "queued" /\ WorkAt(e, "prepared")
  /\ UNCHANGED <<today, ctx, status, box, verdict, wire, rows, store, refused>>

StartContainer(e) ==
  /\ work[e] = "prepared" /\ WorkAt(e, "waiting")
  /\ BoxAt(e, "started")
  /\ UNCHANGED <<today, ctx, status, verdict, wire, rows, store, refused>>

(* _wait_result: the container's exit code, unless it comes too late. *)
SeeExit_IgnoresCode(e) ==
  /\ work[e] = "waiting" /\ box[e] \in Exited /\ WorkAt(e, "ended")
  /\ status' = [status EXCEPT ![e] = 0]
  /\ UNCHANGED <<today, ctx, box, verdict, wire, rows, store, refused>>
SeeExit(e) ==
  /\ work[e] = "waiting" /\ box[e] \in Exited /\ WorkAt(e, "ended")
  /\ status' = [status EXCEPT ![e] = IF box[e] = "exited0" THEN 0 ELSE 1]
  /\ UNCHANGED <<today, ctx, box, verdict, wire, rows, store, refused>>

(* _wait_result swallows every exception: the timeout, or a broken
   connection to the daemon, both mean that there is no result. *)
WaitTimeout_Never(e) == FALSE /\ UNCHANGED vars
WaitTimeout(e) ==
  /\ work[e] = "waiting" /\ WorkAt(e, "expired")
  /\ UNCHANGED <<today, ctx, status, box, verdict, wire, rows, store, refused>>

(* Killing a container that has exited meanwhile is an APIError: the status
   is -3 and the container is not removed. *)
Kill_Forgotten(e) ==
  /\ work[e] = "expired" /\ WorkAt(e, "returned")
  /\ UNCHANGED <<today, ctx, status, box, verdict, wire, rows, store, refused>>
Kill(e) ==
  /\ work[e] = "expired"
  /\ \/ /\ box[e] \in Inside /\ BoxAt(e, "killed") /\ WorkAt(e, "ended")
        /\ UNCHANGED status
     \/ /\ box[e] \in Exited /\ WorkAt(e, "returned")
        /\ status' = [status EXCEPT ![e] = -3] /\ UNCHANGED box
  /\ UNCHANGED <<today, ctx, verdict, wire, rows, store, refused>>

(* The logs are read and the container is removed. *)
Remove(e) ==
  /\ work[e] = "ended" /\ WorkAt(e, "returned")
  /\ BoxAt(e, "removed")
  /\ UNCHANGED <<today, ctx, status, verdict, wire, rows, store, refused>>

(* Any call to the daemon raises an APIError. *)
DockerFails(e) ==
  /\ "docker" \in Faults
  /\ work[e] \in {"prepared", "expired", "ended"} /\ WorkAt(e, "returned")
  /\ status' = [status EXCEPT ![e] = -3]
  /\ UNCHANGED <<today, ctx, box, verdict, wire, rows, store, refused>>

(* docker_exec: only a failure is registered (DEBUG is not set).  The upload
   that follows finds no notebook on the agent: the container shares no
   volume with it. *)
Return(e) ==
  /\ work[e] = "returned"
  /\ \/ status[e] = 0 /\ WorkAt(e, "done") /\ UNCHANGED wire
     \/ status[e] # 0 /\ WorkAt(e, "reporting") /\ Request(e, "worker")
  /\ UNCHANGED <<today, ctx, status, box, verdict, rows, store, refused>>

(* The worker dies, its job times out or an exception nobody catches ends
   it; what it started in docker goes on. *)
WorkerFails(e) ==
  /\ "worker" \in Faults
  /\ work[e] \in Busy /\ WorkAt(e, "lost")
  /\ UNCHANGED <<today, ctx, status, box, verdict, wire, rows, store, refused>>

-----------------------------------------------------------------------------
(* The container. *)

(* NBTaskLocal.run: the notebook succeeds, fails (a PapermillExecutionError,
   its output is moved to error_dir), or the process ends in another way. *)
Execute(e) ==
  /\ box[e] = "started"
  /\ \/ \E v \in {"ok", "failed"} :
          verdict' = [verdict EXCEPT ![e] = v] /\ BoxAt(e, "ran")
     \/ verdict' = [verdict EXCEPT ![e] = "crashed"] /\ BoxAt(e, "exited1")
  /\ UNCHANGED <<today, ctx, work, status, wire, rows, store, refused>>

(* history_register, and when it is answered history_nb_output. *)
Post(e) ==
  /\ box[e] = "ran" /\ BoxAt(e, "posting") /\ Request(e, "container")
  /\ UNCHANGED <<today, ctx, work, status, verdict, rows, store, refused>>
Upload(e) ==
  /\ box[e] = "posted" /\ BoxAt(e, "uploading") /\ Request(e, "notebook")
  /\ UNCHANGED <<today, ctx, work, status, verdict, rows, store, refused>>

(* cmd/executors.local exits with -1 when the result carries an error. *)
Exit(e) ==
  /\ box[e] = "uploaded"
  /\ BoxAt(e, IF verdict[e] = "ok" THEN "exited0" ELSE "exited1")
  /\ UNCHANGED <<today, ctx, work, status, verdict, wire, rows, store, refused>>

-----------------------------------------------------------------------------
(* The server.  It serves a request even when its sender has gone; a sender
   that waits goes on, whatever the answer. *)
Served(e, what) == <<e, what>> \in wire /\ wire' = wire \ {<<e, what>>}
Goes(f, e, from, to) == [f EXCEPT ![e] = IF @ = from THEN to ELSE @]

ServeRow(e, side) ==
  /\ Served(e, side)
  /\ \/ /\ rows' = rows \cup {HistoryRow(e, side, IF side = "worker" THEN -1 ELSE ResultCode(e))}
        /\ UNCHANGED refused
     \/ "post" \in Faults /\ Refuse(e, side) /\ UNCHANGED rows
  /\ IF side = "worker" THEN work' = Goes(work, e, "reporting", "done") /\ UNCHANGED box
     ELSE box' = Goes(box, e, "posting", "posted") /\ UNCHANGED work
  /\ UNCHANGED <<today, ctx, status, verdict, store>>

ServeNotebook(e) ==
  /\ Served(e, "notebook")
  /\ \/ store' = [store EXCEPT ![UploadKey(e)] = e]
     \/ "post" \in Faults /\ UNCHANGED store
  /\ box' = Goes(box, e, "uploading", "uploaded")
  /\ UNCHANGED <<today, ctx, work, status, verdict, rows, refused>>

(* A call raises, and its process ends: nobody waits for the answer, and the
   server may have the request all the same. *)
CallFails(e) ==
  /\ "post" \in Faults
  /\ \/ box[e] \in {"posting", "uploading"} /\ BoxAt(e, "exited1") /\ UNCHANGED work
     \/ work[e] = "reporting" /\ WorkAt(e, "lost") /\ UNCHANGED box
  /\ UNCHANGED <<today, ctx, status, verdict, wire, rows, store, refused>>

-----------------------------------------------------------------------------
WorkerStep(e) ==
  \/ Prepare(e) \/ StartContainer(e) \/ SeeExit(e) \/ WaitTimeout(e)
  \/ Kill(e) \/ Remove(e) \/ Return(e)
ContainerStep(e) == Execute(e) \/ Post(e) \/ Upload(e) \/ Exit(e)
ServerStep(e) == ServeNotebook(e) \/ \E side \in Side : ServeRow(e, side)

Next ==
  \/ Midnight
  \/ \E e \in Exec : \/ Enqueue(e) \/ WorkerStep(e) \/ ContainerStep(e) \/ ServerStep(e)
                     \/ DockerFails(e) \/ WorkerFails(e) \/ CallFails(e)

Spec == Init /\ [][Next]_vars

(* A worker that lives goes on, and is answered; a notebook may compute for ever. *)
FairSpec == Spec /\ \A e \in Exec : WF_vars(WorkerStep(e) \/ ServeRow(e, "worker"))

-----------------------------------------------------------------------------
(* Properties. *)

Recorded(e, code) == \E x \in rows : x.exec = e /\ x.status = code

(* When the worker is done with a run, the history has a row with the
   outcome the worker saw, whichever side was to write it, or the server has
   refused that side's row: one call of the two processes is enough. *)
OutcomeRecorded ==
  \A e \in Exec :
    work[e] = "done" =>
      \/ Recorded(e, IF status[e] = 0 THEN 0 ELSE -1)
      \/ <<e, IF status[e] = 0 THEN "container" ELSE "worker">> \in refused

(* A success in the history is a notebook that ran to its end.  A failure of
   such a notebook is the worker's word, who did not see its container exit
   with 0: it was killed, docker or the server failed. *)
RowsTellTheTruth ==
  \A x \in rows :
    /\ x.status = 0 => verdict[x.exec] = "ok"
    /\ x.status # 0 /\ verdict[x.exec] = "ok" =>
         x.by = "worker" /\ status[x.exec] # 0

(* Once DockerCommand.run has returned, its container is gone, unless the
   status says that a call to docker failed. *)
ContainerGone ==
  \A e \in Exec : work[e] \in Back /\ status[e] # -3 => box[e] = "removed"

(* As long as docker's calls succeed nothing goes on running behind the back of
   a worker that has returned: a container it gave up on was killed before it
   reported.  What that container had sent may still be served. *)
NothingRunsOn ==
  \A e \in Exec : work[e] \in Back => box[e] \notin Inside

(* A stored notebook has its row, with the status its directory says, unless
   the server has refused that row and taken the notebook. *)
OutputHasRow ==
  \A k \in Key :
    store[k] # NoExec =>
      \/ Recorded(store[k], IF k.dir = "ok" THEN 0 ELSE -1)
      \/ <<store[k], "container">> \in refused

(* A stored notebook is only replaced by a later run of the same periodic
   workflow: manual runs never overwrite each other's output. *)
OnlyPeriodicOverwrites ==
  [][\A k \in Key :
       store[k] # NoExec /\ store'[k] # store[k] =>
         /\ ctx[store[k]].kind = "periodic" /\ ctx[store'[k]].kind = "periodic"
         /\ ctx[store[k]].wf = ctx[store'[k]].wf]_vars

(* Every run that was queued ends for its worker, even when the notebook
   never does: the wait has a timeout. *)
EveryRunEnds == \A e \in Exec : work[e] = "queued" ~> work[e] \in {"done", "lost"}

(* The two processes of a run implement RunHistory: whichever dies, is killed
   or is not answered, and however they cross, each is heard at most once, and
   the container after its worker only with what it had sent before. *)
Stage(place) ==
  IF place = "none" THEN "none" ELSE IF place \in {"started", "ran"} THEN "open"
  ELSE IF place \in {"posting", "posted", "uploading"} THEN place ELSE "shut"
Code(e) == IF verdict[e] = "none" THEN 1 ELSE ResultCode(e)
History == INSTANCE RunHistory WITH
             Row <- HistRow,
             Unsure <- "post" \in Faults, Mortal <- "worker" \in Faults,
             Failing <- "docker" \in Faults,
             stage <- [e \in Exec |-> Stage(box[e])], code <- [e \in Exec |-> Code(e)],
             adrift <- {e \in Exec : status[e] = -3},
             closed <- {e \in Exec : work[e] \in {"reporting", "done", "lost"}}
ImplementsHistory == History!Spec

=============================================================================
