---------------------------- MODULE WorkflowJobs ----------------------------
(***************************************************************************)
(* The workflow registry: the web handlers that keep the lf_workflow table *)
(* and the job store of the queue in step, and the scheduler that fires    *)
(* the jobs.                                                               *)
(*                                                                         *)
(* Every handler is a coroutine: between two awaits any other handler, the *)
(* scheduler or a failure may run.  The database and Redis share no        *)
(* transaction, so what a handler did to the job store stays when its      *)
(* database transaction rolls back.                                        *)
(***************************************************************************)
EXTENDS Naturals

CONSTANTS
  Request,     \* the requests of a behaviour; each one is served once
  Wfid,        \* workflow ids (generate_wfid; a random id is never drawn twice)
  Project,     \* project ids
  Row,         \* the workflow definitions clients may send (WorkflowDataWeb)
  Operations,  \* the handlers clients call, a subset of OpNames
  Existing,    \* the workflows registered before the behaviour starts
  MayFail,     \* may an await raise, or the server die, in mid request?
  Boot,        \* the execid of the jobs registered before the behaviour starts
  NoRow, NoJob, NoCall   \* absent values

OpNames == {"create", "update", "delete", "run"}

(* A definition: alias and task are opaque, sched says whether a schedule
   is present, enabled is the flag of the same name. *)
ASSUME RowAssumption ==
  \A d \in Row : /\ d = [alias |-> d.alias, task |-> d.task,
                         sched |-> d.sched, enabled |-> d.enabled]
                 /\ d.sched \in BOOLEAN /\ d.enabled \in BOOLEAN
ASSUME ConstAssumption ==
  /\ Existing \subseteq Wfid
  /\ Operations \subseteq OpNames
  /\ MayFail \in BOOLEAN
  /\ Boot \notin Request

(* Stands for the body of a request that has none. *)
NoData == CHOOSE d \in Row : TRUE

Task == {d.task : d \in Row}

(* What the table holds: a definition and the project that owns it. *)
Stored == [prj : Project, def : Row]
(* What the job store holds: the execution context built at registration. *)
Job    == [prj : Project, task : Task, execid : Request \cup {Boot}]
Call   == [op : OpNames, prj : Project, wfid : Wfid, def : Row]
Run    == [kind : {"periodic", "manual"}, wfid : Wfid, prj : Project, task : Task]

ASSUME AbsentAssumption ==
  NoRow \notin Stored /\ NoJob \notin Job /\ NoCall \notin Call

VARIABLES
  db,         \* db[w]: the committed row of workflow w
  jobs,       \* jobs[w]: the job definition stored under jobid w
  scheduled,  \* the jobids the scheduler will fire
  queue,      \* the runs handed to the workers' queues so far
  call,       \* call[r]: what request r asks for
  pc          \* pc[r]: where the handler of request r stands

vars == <<db, jobs, scheduled, queue, call, pc>>

(* Where a handler may stand: before its first await, in its transaction
   ("locked": its UPDATE has the row, and not yet its new alias), and
   answered ("torn": failed after it changed the job store). *)
Staged   == {"flushed", "defined", "enqueued"}
Removing == {"unregistered", "removed", "deleted"}
Holding  == {"locked"} \cup Staged
InFlight == {"begun", "read"} \cup Holding \cup Removing
Answered == {"ok", "exists", "notfound", "error", "torn"}
PC       == {"idle"} \cup InFlight \cup Answered

TypeOK ==
  /\ db \in [Wfid -> Stored \cup {NoRow}]
  /\ jobs \in [Wfid -> Job \cup {NoJob}]
  /\ scheduled \in SUBSET Wfid
  /\ queue \in SUBSET Run
  /\ call \in [Request -> Call \cup {NoCall}]
  /\ pc \in [Request -> PC]
  /\ \A r \in Request : pc[r] # "idle" => call[r] \in Call

-----------------------------------------------------------------------------
(* Helpers.  Here and below, a definition called Operator_Something right
   before Operator is a fault: the operator with one plausible mistake in
   it.  No specification uses it; it shows that a property can fail. *)

Is(r, o)    == pc[r] # "idle" /\ call[r].op = o
On(r, w)    == pc[r] # "idle" /\ call[r].wfid = w
JobFor(r)   == [prj |-> call[r].prj, task |-> call[r].def.task, execid |-> r]

(* A wfid a client can know: it was answered to a create, or is older. *)
Known(w)    == \/ w \in Existing
               \/ \E r \in Request : Is(r, "create") /\ On(r, w) /\ pc[r] = "ok"
Fresh(w)    == w \notin Existing /\ \A r \in Request : ~On(r, w)

(* Does the DELETE of r match the row of its workflow? *)
Matches(r)  == /\ db[call[r].wfid] # NoRow
               /\ db[call[r].wfid].prj = call[r].prj

(* r's open transaction holds the lock of the row of w. *)
Locks(r, w) ==
  /\ On(r, w)
  /\ db[w] # NoRow
  /\ \/ Is(r, "update") /\ pc[r] \in Holding
     \/ Is(r, "delete") /\ pc[r] = "deleted" /\ Matches(r)
(* A fault: one update of a row does not exclude another. *)
RowBusy_NoLock(r, w) ==
  \E q \in Request \ {r} : Locks(q, w) /\ ~(Is(q, "update") /\ Is(r, "update"))
RowBusy(r, w) == \E q \in Request \ {r} : Locks(q, w)

(* The unique constraint on (alias, project_id), for workflow w of p. *)
KeyTaken(w, p, a) ==
  \E v \in Wfid \ {w} : db[v] # NoRow /\ db[v].prj = p /\ db[v].def.alias = a
(* The open transaction of q, of another workflow than w, adds or may free
   the alias a in p; an UPDATE that waits has marked its old alias only. *)
HoldsKey(q, w, p, a) ==
  /\ pc[q] # "idle"
  /\ LET v == call[q].wfid IN
     /\ v # w
     /\ \/ /\ Is(q, "create") /\ pc[q] \in Staged
           /\ call[q].prj = p /\ call[q].def.alias = a
        \/ /\ Locks(q, v) /\ db[v].prj = p
           /\ \/ db[v].def.alias = a
              \/ Is(q, "update") /\ pc[q] \in Staged /\ call[q].def.alias = a
(* A fault: only what is committed counts. *)
KeyBusy_CommittedOnly(w, p, a) == FALSE
(* The database makes a statement wait for the outcome of such a transaction. *)
KeyBusy(w, p, a) == \E q \in Request : HoldsKey(q, w, p, a)

(* r holds its row and waits for the alias that q has. *)
WaitsFor(r, q) ==
  /\ pc[r] = "locked" /\ db[call[r].wfid] # NoRow
  /\ HoldsKey(q, call[r].wfid, db[call[r].wfid].prj, call[r].def.alias)
(* What r waits for, in one step or more, is r itself. *)
Deadlocked(r) ==
  \A S \in SUBSET Request :
    (\A q \in S \cup {r} : \A x \in Request : WaitsFor(q, x) => x \in S) => r \in S

Goto(r, l)  == pc' = [pc EXCEPT ![r] = l]

-----------------------------------------------------------------------------
(* The registered workflows a behaviour starts from: a scheduled one has
   its job in the store and on the schedule. *)
Init ==
  /\ db \in [Wfid -> Stored \cup {NoRow}]
  /\ \A w \in Wfid : db[w] # NoRow <=> w \in Existing
  /\ \A w \in Existing : ~KeyTaken(w, db[w].prj, db[w].def.alias)
  /\ jobs = [w \in Wfid |->
               IF db[w] # NoRow /\ db[w].def.sched
               THEN [prj |-> db[w].prj, task |-> db[w].def.task, execid |-> Boot]
               ELSE NoJob]
  /\ scheduled = {w \in Wfid : db[w] # NoRow /\ db[w].def.sched}
  /\ queue = {}
  /\ call = [r \in Request |-> NoCall]
  /\ pc = [r \in Request |-> "idle"]

(* A valid request arrives.  A create draws its wfid; the other operations
   name a workflow the client was told of. *)
Receive(r) ==
  /\ pc[r] = "idle"
  /\ \E o \in Operations, p \in Project, w \in Wfid, d \in Row :
       /\ IF o = "create" THEN Fresh(w) ELSE Known(w)
       /\ o \notin {"create", "update"} => d = NoData
       /\ call' = [call EXCEPT ![r] = [op |-> o, prj |-> p, wfid |-> w, def |-> d]]
  /\ Goto(r, "begun")
  /\ UNCHANGED <<db, jobs, scheduled, queue>>

(* workflows_mg.register: the INSERT is flushed; a taken alias rolls back
   and is answered "workflow already exist".  While it waits for an alias the
   INSERT has only its own new id, for which nobody waits. *)
InsertRow(r) ==
  /\ Is(r, "create") /\ pc[r] = "begun"
  /\ ~KeyBusy(call[r].wfid, call[r].prj, call[r].def.alias)
  /\ IF KeyTaken(call[r].wfid, call[r].prj, call[r].def.alias)
     THEN Goto(r, "exists")
     ELSE Goto(r, "flushed")
  /\ UNCHANGED <<db, jobs, scheduled, queue, call>>

(* workflows_mg.register(update=True): the UPDATE locks the row it finds by
   the wfid alone; nobody looks whether it found one. *)
LockRow(r) ==
  /\ Is(r, "update") /\ pc[r] = "begun"
  /\ ~RowBusy(r, call[r].wfid)
  /\ Goto(r, IF db[call[r].wfid] = NoRow THEN "flushed" ELSE "locked")
  /\ UNCHANGED <<db, jobs, scheduled, queue, call>>

(* With the row in its hands the UPDATE waits for its new alias; a taken one
   raises an IntegrityError nobody catches. *)
UpdateRow(r) ==
  LET w == call[r].wfid IN
  /\ pc[r] = "locked"
  /\ ~KeyBusy(w, db[w].prj, call[r].def.alias)
  /\ Goto(r, IF KeyTaken(w, db[w].prj, call[r].def.alias) THEN "error" ELSE "flushed")
  /\ UNCHANGED <<db, jobs, scheduled, queue, call>>

(* The database (external) finds a cycle of waiting transactions and aborts
   one of them. *)
BreakDeadlock_Never(r) == FALSE /\ UNCHANGED vars
BreakDeadlock(r) ==
  /\ Deadlocked(r)
  /\ Goto(r, "error")
  /\ UNCHANGED <<db, jobs, scheduled, queue, call>>

(* JobManager.register_workflow, first await: the job definition, with the
   context built from the request, replaces the one under the same jobid. *)
CreateJob(r) ==
  /\ pc[r] = "flushed" /\ call[r].def.sched
  /\ jobs' = [jobs EXCEPT ![call[r].wfid] = JobFor(r)]
  /\ Goto(r, "defined")
  /\ UNCHANGED <<db, scheduled, queue, call>>

(* JobManager.register_workflow, second await. *)
EnqueueJob_Forgotten(r) ==
  pc[r] = "defined" /\ Goto(r, "enqueued") /\ UNCHANGED <<db, jobs, scheduled, queue, call>>
EnqueueJob(r) ==
  /\ pc[r] = "defined"
  /\ scheduled' = scheduled \cup {call[r].wfid}
  /\ Goto(r, "enqueued")
  /\ UNCHANGED <<db, jobs, queue, call>>

(* The end of the handler's session.begin() block: a create inserts its row,
   an update overwrites the definition of the row it found, if any. *)
BlockDone_CommitsFirst(r) == pc[r] = "flushed"
BlockDone(r) == pc[r] = "enqueued" \/ (pc[r] = "flushed" /\ ~call[r].def.sched)
RowAfter(r) ==
  LET row == db[call[r].wfid] IN
  IF Is(r, "create") THEN [prj |-> call[r].prj, def |-> call[r].def]
  ELSE IF row = NoRow THEN NoRow
  ELSE [prj |-> row.prj, def |-> call[r].def]
Commit(r) ==
  /\ BlockDone(r)
  /\ db' = [db EXCEPT ![call[r].wfid] = RowAfter(r)]
  /\ Goto(r, "ok")
  /\ UNCHANGED <<jobs, scheduled, queue, call>>

(* workflow_delete: the job leaves the schedule, then the store, then the
   row is deleted and the transaction committed. *)
UnregisterJob(r) ==
  /\ Is(r, "delete") /\ pc[r] = "begun"
  /\ scheduled' = scheduled \ {call[r].wfid}
  /\ Goto(r, "unregistered")
  /\ UNCHANGED <<db, jobs, queue, call>>

RemoveJob_Kept(r) ==
  pc[r] = "unregistered" /\ Goto(r, "removed") /\ UNCHANGED <<db, jobs, scheduled, queue, call>>
RemoveJob(r) ==
  /\ pc[r] = "unregistered"
  /\ jobs' = [jobs EXCEPT ![call[r].wfid] = NoJob]
  /\ Goto(r, "removed")
  /\ UNCHANGED <<db, scheduled, queue, call>>

DeleteRow(r) ==
  /\ pc[r] = "removed"
  /\ Matches(r) => ~RowBusy(r, call[r].wfid)
  /\ Goto(r, "deleted")
  /\ UNCHANGED <<db, jobs, scheduled, queue, call>>

CommitDelete(r) ==
  /\ pc[r] = "deleted"
  /\ db' = [db EXCEPT ![call[r].wfid] = IF Matches(r) THEN NoRow ELSE @]
  /\ Goto(r, "ok")
  /\ UNCHANGED <<jobs, scheduled, queue, call>>

(* workflow_enqueue reads the row (model2data raises when it has no
   schedule), keeps what it read, then enqueues a notebook run. *)
ReadWorkflow(r) ==
  LET row == db[call[r].wfid] IN
  /\ Is(r, "run") /\ pc[r] = "begun"
  /\ \/ /\ ~Matches(r)
        /\ Goto(r, "notfound") /\ UNCHANGED call
     \/ /\ Matches(r) /\ ~row.def.sched
        /\ Goto(r, "error") /\ UNCHANGED call
     \/ /\ Matches(r) /\ row.def.sched /\ ~row.def.enabled
        /\ Goto(r, "notfound") /\ UNCHANGED call
     \/ /\ Matches(r) /\ row.def.sched /\ row.def.enabled
        /\ call' = [call EXCEPT ![r].def = row.def]
        /\ Goto(r, "read")
  /\ UNCHANGED <<db, jobs, scheduled, queue>>

EnqueueNotebook(r) ==
  /\ pc[r] = "read"
  /\ queue' = queue \cup {[kind |-> "manual", wfid |-> call[r].wfid,
                           prj |-> call[r].prj, task |-> call[r].def.task]}
  /\ Goto(r, "ok")
  /\ UNCHANGED <<db, jobs, scheduled, call>>

(* An await of the handler raises, or the process serving it dies: the
   transaction rolls back, what Redis was told stays. *)
Fail_NoRollback(r) ==
  /\ MayFail /\ pc[r] \in Staged
  /\ db' = [db EXCEPT ![call[r].wfid] = RowAfter(r)]
  /\ Goto(r, "torn")
  /\ UNCHANGED <<jobs, scheduled, queue, call>>
Fail(r) ==
  /\ MayFail /\ pc[r] \in InFlight
  /\ Goto(r, IF pc[r] \in {"defined", "enqueued"} \cup Removing
             THEN "torn" ELSE "error")
  /\ UNCHANGED <<db, jobs, scheduled, queue, call>>

(* libq's scheduler (external) fires a job that is due: the stored context
   goes to a worker's queue, where workflow_dispatcher executes it without
   looking at the table. *)
Fire(w) ==
  /\ w \in scheduled /\ jobs[w] # NoJob
  /\ queue' = queue \cup {[kind |-> "periodic", wfid |-> w,
                           prj |-> jobs[w].prj, task |-> jobs[w].task]}
  /\ UNCHANGED <<db, jobs, scheduled, call, pc>>

Serve(r) ==
  \/ InsertRow(r) \/ LockRow(r) \/ UpdateRow(r) \/ BreakDeadlock(r)
  \/ CreateJob(r) \/ EnqueueJob(r) \/ Commit(r)
  \/ UnregisterJob(r) \/ RemoveJob(r) \/ DeleteRow(r) \/ CommitDelete(r)
  \/ ReadWorkflow(r) \/ EnqueueNotebook(r)

Next ==
  \/ \E r \in Request : Receive(r) \/ Serve(r) \/ Fail(r)
  \/ \E w \in Wfid : Fire(w)

Spec == Init /\ [][Next]_vars

(* The event loop resumes a handler whose await has completed, and libq's
   scheduler keeps firing; nothing makes a client call or a call fail. *)
Fairness ==
  /\ \A r \in Request : WF_vars(Serve(r))
  /\ \A w \in Wfid : WF_vars(Fire(w))
FairSpec == Spec /\ Fairness
-----------------------------------------------------------------------------
(* Properties.  Writer(w) is the request whose registration made the job
   that is stored for w: its execid is in the stored context. *)

Writer(w)    == jobs[w].execid
Uncommitted(r) == pc[r] \in {"defined", "enqueued", "torn"}
DeleteBegan(w) ==
  \E r \in Request : Is(r, "delete") /\ On(r, w)
                     /\ pc[r] \in Removing \cup {"ok", "torn"}

(* A committed row with a schedule has its job in the store and on the
   schedule, whatever fails and whenever, unless a delete of that workflow
   reached Redis: workflow_create and workflow_update tell Redis first and
   commit last. *)
ScheduledRowHasJob ==
  \A w \in Wfid :
    db[w] # NoRow /\ db[w].def.sched =>
      (jobs[w] # NoJob /\ w \in scheduled) \/ DeleteBegan(w)

(* The stored job of a scheduled row carries the row's own project and task,
   unless the request that wrote it has not committed (in flight, or failed
   half way) or named another project than the row's: updates of one
   workflow are serialized by the row lock they hold while they talk to
   Redis. *)
JobMatchesRow ==
  \A w \in Wfid :
    db[w] # NoRow /\ db[w].def.sched /\ jobs[w] # NoJob =>
      \/ jobs[w].prj = db[w].prj /\ jobs[w].task = db[w].def.task
      \/ /\ Writer(w) \in Request
         /\ Uncommitted(Writer(w)) \/ call[Writer(w)].prj # db[w].prj

(* A job whose workflow has no row was written by a registration that did
   not commit, or by an update that came after the removal: workflow_delete
   never leaves behind the job of an acknowledged create. *)
OrphanJobHasCause ==
  \A w \in Wfid :
    jobs[w] # NoJob /\ db[w] = NoRow =>
      /\ Writer(w) \in Request
      /\ \/ Uncommitted(Writer(w))
         \/ Is(Writer(w), "update") /\ pc[Writer(w)] = "ok"

(* The schedule names a job that has no definition only when a delete and an
   update of one workflow crossed: register_workflow defines before it
   enqueues and unregister_workflow takes off the schedule first. *)
DanglingNeedsRace ==
  \A w \in Wfid :
    w \in scheduled /\ jobs[w] = NoJob =>
      DeleteBegan(w) /\ \E r \in Request : Is(r, "update") /\ On(r, w)
                                           /\ pc[r] \in {"enqueued", "ok", "torn"}

(* A workflow that was registered and deleted never has a row again: the
   UPDATE of a late workflow_update inserts nothing. *)
NoResurrection ==
  [][\A w \in Wfid : Known(w) /\ db[w] = NoRow => db'[w] = NoRow]_vars

(* A row only ever changes in a step that answers a request on it "ok", and
   never changes project: a request that fails or is refused leaves the
   table as it was, whatever it wrote before. *)
RowChangesAreAnswered ==
  [][\A w \in Wfid :
       db'[w] # db[w] =>
         /\ \E r \in Request : On(r, w) /\ pc[r] # "ok" /\ pc'[r] = "ok"
         /\ db[w] # NoRow /\ db'[w] # NoRow => db'[w].prj = db[w].prj]_vars

(* An alias names one workflow of its project: what the unique constraint is
   for, kept by the waits of the statements and not by a check at commit. *)
AliasUnique ==
  \A w \in Wfid : db[w] # NoRow => ~KeyTaken(w, db[w].prj, db[w].def.alias)

(* The handlers implement the table their clients count on (WorkflowTable):
   each create, update and delete takes effect at once where it is answered
   "ok", and never if it fails; the alias that was free when the statement ran
   is still free when the transaction commits, because every handler that might
   take it has to wait; a run writes nothing. *)
Writes(r) == pc[r] # "idle" /\ call[r].op # "run"
Table == INSTANCE WorkflowTable WITH
  table <- db,
  asked <- [r \in Request |-> IF Writes(r) THEN call[r] ELSE NoCall],
  done  <- {r \in Request : Writes(r) /\ pc[r] = "ok"}
ImplementsTable == Table!Spec

(* Every request a server took is answered: handlers that wait for each
   other's rows and aliases never wait for ever.  Two updates that swap the
   aliases of two workflows each have what the other one waits for, and go on
   because the database aborts one of them. *)
EveryRequestAnswered ==
  \A r \in Request : pc[r] \in InFlight ~> pc[r] \in Answered

(* A workflow whose row has a schedule is eventually run by the scheduler,
   unless it is being deleted. *)
ScheduledWorkflowRuns ==
  \A w \in Wfid :
    db[w] # NoRow /\ db[w].def.sched ~>
      \/ \E x \in queue : x.kind = "periodic" /\ x.wfid = w
      \/ DeleteBegan(w)
=============================================================================
