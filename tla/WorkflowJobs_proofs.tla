------------------------ MODULE WorkflowJobs_proofs ------------------------
(***************************************************************************)
(* Proofs about WorkflowJobs, for any sets of requests, workflows,         *)
(* projects and definitions, and with or without failures.                 *)
(***************************************************************************)
EXTENDS WorkflowJobs, TLAPS

USE DEF Staged, Holding, Removing, InFlight, Answered, PC, Goto, BlockDone, RowAfter

-----------------------------------------------------------------------------
(* Type correctness *)

(* The steps of an UPDATE that waits move its handler only. *)
Waits(r) == LockRow(r) \/ UpdateRow(r) \/ BreakDeadlock(r)

(* Who waits for itself has its row and waits. *)
LEMMA DeadlockedWaits ==
  ASSUME NEW r \in Request, Deadlocked(r)
  PROVE  pc[r] = "locked"
<1>1. ASSUME \A x \in Request : ~WaitsFor(r, x)
      PROVE  FALSE
  <2>1. r \in {}
    BY <1>1 DEF Deadlocked
  <2> QED
    BY <2>1
<1> QED
  BY <1>1 DEF WaitsFor

LEMMA WaitsFrame ==
  ASSUME NEW r \in Request, Waits(r)
  PROVE  /\ UNCHANGED <<db, jobs, scheduled, queue, call>>
         /\ pc[r] = "locked" \/ (pc[r] = "begun" /\ Is(r, "update"))
         /\ \E l \in {"locked", "flushed", "error"} :
              /\ pc' = [pc EXCEPT ![r] = l]
              /\ l = "locked" => pc[r] = "begun" /\ ~RowBusy(r, call[r].wfid)
              /\ l = "flushed" /\ pc[r] = "begun" => db[call[r].wfid] = NoRow
<1>1. CASE LockRow(r)
  BY <1>1 DEF LockRow
<1>2. CASE UpdateRow(r)
  BY <1>2 DEF UpdateRow
<1>3. CASE BreakDeadlock(r)
  <2>1. pc[r] = "locked"
    BY <1>3, DeadlockedWaits DEF BreakDeadlock
  <2> QED
    BY <1>3, <2>1 DEF BreakDeadlock
<1> QED
  BY <1>1, <1>2, <1>3 DEF Waits

LEMMA InitTypeOK == Init => TypeOK
<1> SUFFICES ASSUME Init PROVE TypeOK
  OBVIOUS
<1>1. jobs \in [Wfid -> Job \cup {NoJob}]
  <2> SUFFICES ASSUME NEW w \in Wfid, db[w] # NoRow
               PROVE [prj |-> db[w].prj, task |-> db[w].def.task, execid |-> Boot] \in Job
    BY DEF Init
  <2>1. db[w] \in Stored
    BY DEF Init
  <2> QED
    BY <2>1 DEF Stored, Job, Task
<1> QED
  BY <1>1 DEF Init, TypeOK

(* Every step keeps the types of all the variables; one case per action. *)
LEMMA StepTypeOK == TypeOK /\ [Next]_vars => TypeOK'
<1> SUFFICES ASSUME TypeOK, [Next]_vars PROVE TypeOK'
  OBVIOUS
<1> USE DEF TypeOK
<1>1. ASSUME NEW r \in Request, Receive(r) PROVE TypeOK'
  <2>1. PICK c \in Call : call' = [call EXCEPT ![r] = c]
    BY <1>1, ConstAssumption DEF Receive, Call
  <2> QED
    BY <1>1, <2>1 DEF Receive
<1>2. ASSUME NEW r \in Request, InsertRow(r) PROVE TypeOK'
  BY <1>2 DEF InsertRow
<1>3. ASSUME NEW r \in Request, Waits(r) PROVE TypeOK'
  BY <1>3, WaitsFrame
<1>4. ASSUME NEW r \in Request, CreateJob(r) PROVE TypeOK'
  <2>1. call[r] \in Call
    BY <1>4 DEF CreateJob
  <2>2. JobFor(r) \in Job
    BY <2>1 DEF JobFor, Job, Call, Task
  <2> QED
    BY <1>4, <2>1, <2>2 DEF CreateJob, Call
<1>5. ASSUME NEW r \in Request, EnqueueJob(r) PROVE TypeOK'
  BY <1>5 DEF EnqueueJob, Call
<1>6. ASSUME NEW r \in Request, Commit(r) PROVE TypeOK'
  <2>1. call[r] \in Call
    BY <1>6 DEF Commit
  <2>2. db' \in [Wfid -> Stored \cup {NoRow}]
    <3>1. [prj |-> call[r].prj, def |-> call[r].def] \in Stored
      BY <2>1 DEF Call, Stored
    <3>2. db[call[r].wfid] # NoRow =>
            [prj |-> db[call[r].wfid].prj, def |-> call[r].def] \in Stored
      BY <2>1 DEF Call, Stored
    <3> QED
      BY <1>6, <2>1, <3>1, <3>2 DEF Commit, Call
  <2> QED
    BY <1>6, <2>2 DEF Commit
<1>7. ASSUME NEW r \in Request, UnregisterJob(r) PROVE TypeOK'
  BY <1>7 DEF UnregisterJob
<1>8. ASSUME NEW r \in Request, RemoveJob(r) PROVE TypeOK'
  BY <1>8 DEF RemoveJob
<1>9. ASSUME NEW r \in Request, DeleteRow(r) PROVE TypeOK'
  BY <1>9 DEF DeleteRow
<1>10. ASSUME NEW r \in Request, CommitDelete(r) PROVE TypeOK'
  BY <1>10 DEF CommitDelete
<1>11. ASSUME NEW r \in Request, ReadWorkflow(r) PROVE TypeOK'
  <2>1. call[r] \in Call
    BY <1>11 DEF ReadWorkflow, Is
  <2>2. Matches(r) => [call[r] EXCEPT !.def = db[call[r].wfid].def] \in Call
    BY <2>1 DEF Matches, Call, Stored
  <2>3. call' \in [Request -> Call \cup {NoCall}]
        /\ (\A q \in Request : call[q] \in Call => call'[q] \in Call)
    BY <1>11, <2>1, <2>2 DEF ReadWorkflow
  <2>4. pc' \in [Request -> PC] /\ \A q \in Request : q # r => pc'[q] = pc[q]
    BY <1>11 DEF ReadWorkflow
  <2> QED
    BY <1>11, <2>1, <2>3, <2>4 DEF ReadWorkflow
<1>12. ASSUME NEW r \in Request, EnqueueNotebook(r) PROVE TypeOK'
  <2>1. call[r] \in Call
    BY <1>12 DEF EnqueueNotebook
  <2>2. [kind |-> "manual", wfid |-> call[r].wfid, prj |-> call[r].prj,
         task |-> call[r].def.task] \in Run
    BY <2>1 DEF Call, Run, Task
  <2> QED
    BY <1>12, <2>2 DEF EnqueueNotebook
<1>13. ASSUME NEW r \in Request, Fail(r) PROVE TypeOK'
  BY <1>13 DEF Fail
<1>14. ASSUME NEW w \in Wfid, Fire(w) PROVE TypeOK'
  <2>1. [kind |-> "periodic", wfid |-> w, prj |-> jobs[w].prj,
         task |-> jobs[w].task] \in Run
    BY <1>14 DEF Fire, Job, Run
  <2> QED
    BY <1>14, <2>1 DEF Fire
<1>15. CASE UNCHANGED vars
  BY <1>15 DEF vars
<1> QED
  BY <1>1, <1>2, <1>3, <1>4, <1>5, <1>6, <1>7, <1>8, <1>9, <1>10, <1>11,
     <1>12, <1>13, <1>14, <1>15 DEF Next, Serve, Waits

(* The variables of the handlers, the table, the job store and the queue
   always have their types. *)
THEOREM TypeCorrect == Spec => []TypeOK
BY InitTypeOK, StepTypeOK, PTL DEF Spec

-----------------------------------------------------------------------------
(* The inductive invariant: the four properties of the stored state,
   strengthened by what the handlers in flight know. *)

(* Which handler stands where. *)
Role ==
  \A r \in Request :
    /\ pc[r] = "locked" => Is(r, "update")
    /\ pc[r] \in Staged => Is(r, "create") \/ Is(r, "update")
    /\ pc[r] \in {"defined", "enqueued"} => call[r].def.sched
    /\ pc[r] \in Removing => Is(r, "delete")
    /\ pc[r] = "read" => Is(r, "run")

(* A workflow being created is nobody else's business before its create is
   acknowledged: its id was never told, it is not an older workflow's, and
   it has no row. *)
Secret ==
  \A r \in Request :
    Is(r, "create") =>
      /\ call[r].wfid \notin Existing
      /\ pc[r] # "ok" => db[call[r].wfid] = NoRow
      /\ \A q \in Request \ {r} :
           On(q, call[r].wfid) => ~Is(q, "create") /\ pc[r] = "ok"

(* Only a workflow some client was or will be told of has a row. *)
Grounded ==
  \A w \in Wfid : db[w] # NoRow => ~Fresh(w)

(* Two open updates of one row exclude each other. *)
RowLock ==
  \A r, q \in Request :
    /\ r # q /\ Is(r, "update") /\ Is(q, "update")
    /\ pc[r] \in Holding /\ pc[q] \in Holding
    /\ call[r].wfid = call[q].wfid
    => db[call[r].wfid] = NoRow

(* The stored job was written by a registration of that workflow, from the
   registration's own data, or is one the behaviour started with. *)
Author ==
  \A w \in Wfid :
    jobs[w] # NoJob =>
      \/ jobs[w].execid = Boot /\ w \in Existing
      \/ LET r == jobs[w].execid IN
         /\ r \in Request /\ On(r, w)
         /\ Is(r, "create") \/ Is(r, "update")
         /\ pc[r] \in {"defined", "enqueued", "ok", "torn"}
         /\ jobs[w] = JobFor(r)

(* While a registration holds its row, nobody else writes its job. *)
Exclusive ==
  \A r \in Request :
    /\ pc[r] \in {"defined", "enqueued"}
    /\ Is(r, "create") \/ db[call[r].wfid] # NoRow
    => LET j == jobs[call[r].wfid] IN j = NoJob \/ j.execid = r

(* What a registration has told Redis is still there, unless a delete of
   that workflow began. *)
Told ==
  \A r \in Request :
    pc[r] \in {"defined", "enqueued"} =>
      LET w == call[r].wfid IN
      \/ DeleteBegan(w)
      \/ jobs[w] # NoJob /\ (pc[r] = "enqueued" => w \in scheduled)

(* Once a delete has removed the job, only an update can write it again. *)
Cleared ==
  \A d \in Request :
    Is(d, "delete") /\ pc[d] \in {"removed", "deleted", "ok"} =>
      LET j == jobs[call[d].wfid] IN
      j # NoJob => j.execid \in Request /\ Is(j.execid, "update")

(* Once a delete took the workflow off the schedule, only an update puts it
   back. *)
LateUpdate(w) ==
  \E r \in Request : Is(r, "update") /\ On(r, w) /\ pc[r] \in {"enqueued", "ok", "torn"}
OffSchedule ==
  \A d \in Request :
    pc[d] = "unregistered" /\ call[d].wfid \in scheduled => LateUpdate(call[d].wfid)

Handlers == Role /\ Secret /\ Grounded /\ RowLock /\ Author /\ Exclusive /\ Told
            /\ Cleared /\ OffSchedule
Stores   == ScheduledRowHasJob /\ JobMatchesRow /\ OrphanJobHasCause
            /\ DanglingNeedsRace
IInv     == TypeOK /\ Handlers /\ Stores

-----------------------------------------------------------------------------
(* Each conjunct is preserved by every step; one lemma per conjunct, one
   case per action. *)

(* A stored context is never the absent value. *)
LEMMA JobForIsJob ==
  ASSUME TypeOK, NEW r \in Request, pc[r] # "idle"
  PROVE  JobFor(r) \in Job /\ JobFor(r) # NoJob /\ call[r].wfid \in Wfid
<1>1. call[r] \in Call
  BY DEF TypeOK
<1> QED
  BY <1>1, AbsentAssumption DEF JobFor, Job, Call, Task

(* A handler only reaches the places of its operation. *)
LEMMA RoleStep == TypeOK /\ Role /\ [Next]_vars => Role'
<1> SUFFICES ASSUME TypeOK, Role, [Next]_vars PROVE Role'
  OBVIOUS
<1> USE DEF TypeOK, Role, Is, Call
<1>1. ASSUME NEW r \in Request, Receive(r) PROVE Role'
  BY <1>1 DEF Receive
<1>2. ASSUME NEW r \in Request, InsertRow(r) PROVE Role'
  BY <1>2 DEF InsertRow
<1>3. ASSUME NEW r \in Request, Waits(r) PROVE Role'
  BY <1>3, WaitsFrame
<1>4. ASSUME NEW r \in Request, CreateJob(r) PROVE Role'
  BY <1>4 DEF CreateJob
<1>5. ASSUME NEW r \in Request, EnqueueJob(r) PROVE Role'
  BY <1>5 DEF EnqueueJob
<1>6. ASSUME NEW r \in Request, Commit(r) PROVE Role'
  BY <1>6 DEF Commit
<1>7. ASSUME NEW r \in Request, UnregisterJob(r) PROVE Role'
  BY <1>7 DEF UnregisterJob
<1>8. ASSUME NEW r \in Request, RemoveJob(r) PROVE Role'
  BY <1>8 DEF RemoveJob
<1>9. ASSUME NEW r \in Request, DeleteRow(r) PROVE Role'
  BY <1>9 DEF DeleteRow
<1>10. ASSUME NEW r \in Request, CommitDelete(r) PROVE Role'
  BY <1>10 DEF CommitDelete
<1>11. ASSUME NEW r \in Request, ReadWorkflow(r) PROVE Role'
  BY <1>11 DEF ReadWorkflow
<1>12. ASSUME NEW r \in Request, EnqueueNotebook(r) PROVE Role'
  BY <1>12 DEF EnqueueNotebook
<1>13. ASSUME NEW r \in Request, Fail(r) PROVE Role'
  BY <1>13 DEF Fail
<1>14. ASSUME NEW w \in Wfid, Fire(w) PROVE Role'
  BY <1>14 DEF Fire
<1>15. CASE UNCHANGED vars
  BY <1>15 DEF vars
<1> QED
  BY <1>1, <1>2, <1>3, <1>4, <1>5, <1>6, <1>7, <1>8, <1>9,
     <1>10, <1>11, <1>12, <1>13, <1>14, <1>15 DEF Next, Serve, Waits

(* Receive is the request's first step and concerns no other request. *)
LEMMA ReceiveFrame ==
  ASSUME TypeOK, NEW r \in Request, Receive(r)
  PROVE  /\ pc[r] = "idle" /\ pc'[r] = "begun" /\ call'[r] \in Call
         /\ \A q \in Request \ {r} : pc'[q] = pc[q] /\ call'[q] = call[q]
         /\ IF call'[r].op = "create" THEN Fresh(call'[r].wfid) ELSE Known(call'[r].wfid)
<1>1. PICK o \in Operations, p \in Project, w \in Wfid, d \in Row :
        /\ IF o = "create" THEN Fresh(w) ELSE Known(w)
        /\ call' = [call EXCEPT ![r] = [op |-> o, prj |-> p, wfid |-> w, def |-> d]]
  BY DEF Receive
<1>2. call'[r] = [op |-> o, prj |-> p, wfid |-> w, def |-> d]
  BY <1>1 DEF TypeOK
<1>3. call'[r] \in Call
  BY <1>2, ConstAssumption DEF Call
<1> QED
  BY <1>1, <1>2, <1>3 DEF TypeOK, Receive

(* ReadWorkflow keeps a copy of the row in its own request only. *)
LEMMA ReadFrame ==
  ASSUME TypeOK, NEW r \in Request, ReadWorkflow(r)
  PROVE  /\ Is(r, "run") /\ pc[r] = "begun"
         /\ call'[r].op = call[r].op /\ call'[r].wfid = call[r].wfid
         /\ pc' \in [Request -> PC] /\ pc'[r] \in {"notfound", "error", "read"}
         /\ \A q \in Request \ {r} : pc'[q] = pc[q] /\ call'[q] = call[q]
<1>1. call[r] \in Call
  BY DEF TypeOK, ReadWorkflow, Is
<1>2. \A x : /\ [call[r] EXCEPT !.def = x].op = call[r].op
            /\ [call[r] EXCEPT !.def = x].wfid = call[r].wfid
  BY <1>1 DEF Call
<1>3. call'[r] = call[r] \/ call'[r] = [call[r] EXCEPT !.def = db[call[r].wfid].def]
  BY DEF TypeOK, ReadWorkflow
<1>4. \A q \in Request \ {r} : call'[q] = call[q]
  BY DEF TypeOK, ReadWorkflow
<1>5. call'[r].op = call[r].op /\ call'[r].wfid = call[r].wfid
  BY <1>2, <1>3
<1>6. /\ pc' \in [Request -> PC] /\ pc'[r] \in {"notfound", "error", "read"}
      /\ \A q \in Request \ {r} : pc'[q] = pc[q]
  BY DEF TypeOK, ReadWorkflow
<1> QED
  BY <1>4, <1>5, <1>6 DEF ReadWorkflow

(* Only its own commit gives a created workflow its row. *)
LEMMA SecretStep == TypeOK /\ Role /\ Secret /\ Grounded /\ [Next]_vars => Secret'
<1> SUFFICES ASSUME TypeOK, Role, Secret, Grounded, [Next]_vars PROVE Secret'
  OBVIOUS
<1> USE DEF TypeOK, Role, Secret, Is, On
<1>1. ASSUME NEW r \in Request, Receive(r) PROVE Secret'
  <2>1. ~On(r, call'[r].wfid) /\ \A q \in Request \ {r} : On(q, call'[r].wfid) =>
          call'[r].op # "create"
    BY <1>1, ReceiveFrame DEF Fresh
  <2>2. call'[r].op = "create" => call'[r].wfid \notin Existing /\ db[call'[r].wfid] = NoRow
    BY <1>1, ReceiveFrame DEF Fresh, Grounded, Call
  <2>3. call'[r].op # "create" =>
          \A q \in Request : Is(q, "create") /\ call[q].wfid = call'[r].wfid => pc[q] = "ok"
    BY <1>1, ReceiveFrame DEF Known
  <2> QED
    BY <1>1, <2>1, <2>2, <2>3, ReceiveFrame DEF Receive
<1>2. ASSUME NEW r \in Request, InsertRow(r) PROVE Secret'
  BY <1>2 DEF InsertRow
<1>3. ASSUME NEW r \in Request, Waits(r) PROVE Secret'
  BY <1>3, WaitsFrame
<1>4. ASSUME NEW r \in Request, CreateJob(r) PROVE Secret'
  BY <1>4 DEF CreateJob
<1>5. ASSUME NEW r \in Request, EnqueueJob(r) PROVE Secret'
  BY <1>5 DEF EnqueueJob
<1>6. ASSUME NEW r \in Request, Commit(r) PROVE Secret'
  BY <1>6 DEF Commit
<1>7. ASSUME NEW r \in Request, UnregisterJob(r) PROVE Secret'
  BY <1>7 DEF UnregisterJob
<1>8. ASSUME NEW r \in Request, RemoveJob(r) PROVE Secret'
  BY <1>8 DEF RemoveJob
<1>9. ASSUME NEW r \in Request, DeleteRow(r) PROVE Secret'
  BY <1>9 DEF DeleteRow
<1>10. ASSUME NEW r \in Request, CommitDelete(r) PROVE Secret'
  BY <1>10 DEF CommitDelete
<1>11. ASSUME NEW r \in Request, ReadWorkflow(r) PROVE Secret'
  BY <1>11, ReadFrame DEF ReadWorkflow
<1>12. ASSUME NEW r \in Request, EnqueueNotebook(r) PROVE Secret'
  BY <1>12 DEF EnqueueNotebook
<1>13. ASSUME NEW r \in Request, Fail(r) PROVE Secret'
  BY <1>13 DEF Fail
<1>14. ASSUME NEW w \in Wfid, Fire(w) PROVE Secret'
  BY <1>14 DEF Fire
<1>15. CASE UNCHANGED vars
  BY <1>15 DEF vars
<1> QED
  BY <1>1, <1>2, <1>3, <1>4, <1>5, <1>6, <1>7, <1>8, <1>9,
     <1>10, <1>11, <1>12, <1>13, <1>14, <1>15 DEF Next, Serve, Waits

(* A row appears only in the commit of a create. *)
LEMMA GroundedStep == TypeOK /\ Role /\ Grounded /\ [Next]_vars => Grounded'
<1> SUFFICES ASSUME TypeOK, Role, Grounded, [Next]_vars PROVE Grounded'
  OBVIOUS
<1> USE DEF TypeOK, Role, Grounded, Is, On, Fresh
<1>1. ASSUME NEW r \in Request, Receive(r) PROVE Grounded'
  BY <1>1 DEF Receive
<1>2. ASSUME NEW r \in Request, InsertRow(r) PROVE Grounded'
  BY <1>2 DEF InsertRow
<1>3. ASSUME NEW r \in Request, Waits(r) PROVE Grounded'
  BY <1>3, WaitsFrame
<1>4. ASSUME NEW r \in Request, CreateJob(r) PROVE Grounded'
  BY <1>4 DEF CreateJob
<1>5. ASSUME NEW r \in Request, EnqueueJob(r) PROVE Grounded'
  BY <1>5 DEF EnqueueJob
<1>6. ASSUME NEW r \in Request, Commit(r) PROVE Grounded'
  BY <1>6 DEF Commit
<1>7. ASSUME NEW r \in Request, UnregisterJob(r) PROVE Grounded'
  BY <1>7 DEF UnregisterJob
<1>8. ASSUME NEW r \in Request, RemoveJob(r) PROVE Grounded'
  BY <1>8 DEF RemoveJob
<1>9. ASSUME NEW r \in Request, DeleteRow(r) PROVE Grounded'
  BY <1>9 DEF DeleteRow
<1>10. ASSUME NEW r \in Request, CommitDelete(r) PROVE Grounded'
  BY <1>10 DEF CommitDelete
<1>11. ASSUME NEW r \in Request, ReadWorkflow(r) PROVE Grounded'
  BY <1>11, ReadFrame DEF ReadWorkflow
<1>12. ASSUME NEW r \in Request, EnqueueNotebook(r) PROVE Grounded'
  BY <1>12 DEF EnqueueNotebook
<1>13. ASSUME NEW r \in Request, Fail(r) PROVE Grounded'
  BY <1>13 DEF Fail
<1>14. ASSUME NEW w \in Wfid, Fire(w) PROVE Grounded'
  BY <1>14 DEF Fire
<1>15. CASE UNCHANGED vars
  BY <1>15 DEF vars
<1> QED
  BY <1>1, <1>2, <1>3, <1>4, <1>5, <1>6, <1>7, <1>8, <1>9,
     <1>10, <1>11, <1>12, <1>13, <1>14, <1>15 DEF Next, Serve, Waits

(* An UPDATE waits while another open update holds the row. *)
LEMMA RowLockStep == TypeOK /\ Role /\ Secret /\ RowLock /\ [Next]_vars => RowLock'
<1> SUFFICES ASSUME TypeOK, Role, Secret, RowLock, [Next]_vars PROVE RowLock'
  OBVIOUS
<1> USE DEF TypeOK, Role, Secret, RowLock, Is, On, RowBusy, Locks
<1>1. ASSUME NEW r \in Request, Receive(r) PROVE RowLock'
  BY <1>1 DEF Receive
<1>2. ASSUME NEW r \in Request, InsertRow(r) PROVE RowLock'
  BY <1>2 DEF InsertRow
<1>3. ASSUME NEW r \in Request, Waits(r) PROVE RowLock'
  BY <1>3, WaitsFrame
<1>4. ASSUME NEW r \in Request, CreateJob(r) PROVE RowLock'
  BY <1>4 DEF CreateJob
<1>5. ASSUME NEW r \in Request, EnqueueJob(r) PROVE RowLock'
  BY <1>5 DEF EnqueueJob
<1>6. ASSUME NEW r \in Request, Commit(r) PROVE RowLock'
  BY <1>6 DEF Commit
<1>7. ASSUME NEW r \in Request, UnregisterJob(r) PROVE RowLock'
  BY <1>7 DEF UnregisterJob
<1>8. ASSUME NEW r \in Request, RemoveJob(r) PROVE RowLock'
  BY <1>8 DEF RemoveJob
<1>9. ASSUME NEW r \in Request, DeleteRow(r) PROVE RowLock'
  BY <1>9 DEF DeleteRow
<1>10. ASSUME NEW r \in Request, CommitDelete(r) PROVE RowLock'
  BY <1>10 DEF CommitDelete
<1>11. ASSUME NEW r \in Request, ReadWorkflow(r) PROVE RowLock'
  BY <1>11 DEF ReadWorkflow
<1>12. ASSUME NEW r \in Request, EnqueueNotebook(r) PROVE RowLock'
  BY <1>12 DEF EnqueueNotebook
<1>13. ASSUME NEW r \in Request, Fail(r) PROVE RowLock'
  BY <1>13 DEF Fail
<1>14. ASSUME NEW w \in Wfid, Fire(w) PROVE RowLock'
  BY <1>14 DEF Fire
<1>15. CASE UNCHANGED vars
  BY <1>15 DEF vars
<1> QED
  BY <1>1, <1>2, <1>3, <1>4, <1>5, <1>6, <1>7, <1>8, <1>9,
     <1>10, <1>11, <1>12, <1>13, <1>14, <1>15 DEF Next, Serve, Waits

(* A job is written by CreateJob, whose request then only moves on. *)
LEMMA AuthorStep == TypeOK /\ Role /\ Author /\ [Next]_vars => Author'
<1> SUFFICES ASSUME TypeOK, Role, Author, [Next]_vars PROVE Author'
  OBVIOUS
<1> USE DEF TypeOK, Role, Author, Is, On, JobFor
<1>1. ASSUME NEW r \in Request, Receive(r) PROVE Author'
  BY <1>1 DEF Receive
<1>2. ASSUME NEW r \in Request, InsertRow(r) PROVE Author'
  BY <1>2 DEF InsertRow
<1>3. ASSUME NEW r \in Request, Waits(r) PROVE Author'
  BY <1>3, WaitsFrame
<1>4. ASSUME NEW r \in Request, CreateJob(r) PROVE Author'
  BY <1>4 DEF CreateJob
<1>5. ASSUME NEW r \in Request, EnqueueJob(r) PROVE Author'
  BY <1>5 DEF EnqueueJob
<1>6. ASSUME NEW r \in Request, Commit(r) PROVE Author'
  BY <1>6 DEF Commit
<1>7. ASSUME NEW r \in Request, UnregisterJob(r) PROVE Author'
  BY <1>7 DEF UnregisterJob
<1>8. ASSUME NEW r \in Request, RemoveJob(r) PROVE Author'
  BY <1>8 DEF RemoveJob
<1>9. ASSUME NEW r \in Request, DeleteRow(r) PROVE Author'
  BY <1>9 DEF DeleteRow
<1>10. ASSUME NEW r \in Request, CommitDelete(r) PROVE Author'
  BY <1>10 DEF CommitDelete
<1>11. ASSUME NEW r \in Request, ReadWorkflow(r) PROVE Author'
  BY <1>11 DEF ReadWorkflow
<1>12. ASSUME NEW r \in Request, EnqueueNotebook(r) PROVE Author'
  BY <1>12 DEF EnqueueNotebook
<1>13. ASSUME NEW r \in Request, Fail(r) PROVE Author'
  BY <1>13 DEF Fail
<1>14. ASSUME NEW w \in Wfid, Fire(w) PROVE Author'
  BY <1>14 DEF Fire
<1>15. CASE UNCHANGED vars
  BY <1>15 DEF vars
<1> QED
  BY <1>1, <1>2, <1>3, <1>4, <1>5, <1>6, <1>7, <1>8, <1>9,
     <1>10, <1>11, <1>12, <1>13, <1>14, <1>15 DEF Next, Serve, Waits

(* Two registrations of one workflow do not interleave while it has a row. *)
LEMMA ExclusiveStep == TypeOK /\ Role /\ Secret /\ RowLock /\ Exclusive /\ [Next]_vars => Exclusive'
<1> SUFFICES ASSUME TypeOK, Role, Secret, RowLock, Exclusive, [Next]_vars PROVE Exclusive'
  OBVIOUS
<1> USE DEF TypeOK, Role, Secret, RowLock, Exclusive, Is, On, JobFor
<1>1. ASSUME NEW r \in Request, Receive(r) PROVE Exclusive'
  BY <1>1 DEF Receive
<1>2. ASSUME NEW r \in Request, InsertRow(r) PROVE Exclusive'
  BY <1>2 DEF InsertRow
<1>3. ASSUME NEW r \in Request, Waits(r) PROVE Exclusive'
  BY <1>3, WaitsFrame
<1>4. ASSUME NEW r \in Request, CreateJob(r) PROVE Exclusive'
  <2>1. JobFor(r) # NoJob /\ call[r].wfid \in Wfid
    BY <1>4, JobForIsJob DEF CreateJob
  <2> QED
    BY <1>4, <2>1 DEF CreateJob, JobFor
<1>5. ASSUME NEW r \in Request, EnqueueJob(r) PROVE Exclusive'
  BY <1>5 DEF EnqueueJob
<1>6. ASSUME NEW r \in Request, Commit(r) PROVE Exclusive'
  BY <1>6 DEF Commit
<1>7. ASSUME NEW r \in Request, UnregisterJob(r) PROVE Exclusive'
  BY <1>7 DEF UnregisterJob
<1>8. ASSUME NEW r \in Request, RemoveJob(r) PROVE Exclusive'
  BY <1>8 DEF RemoveJob
<1>9. ASSUME NEW r \in Request, DeleteRow(r) PROVE Exclusive'
  BY <1>9 DEF DeleteRow
<1>10. ASSUME NEW r \in Request, CommitDelete(r) PROVE Exclusive'
  BY <1>10 DEF CommitDelete
<1>11. ASSUME NEW r \in Request, ReadWorkflow(r) PROVE Exclusive'
  BY <1>11 DEF ReadWorkflow
<1>12. ASSUME NEW r \in Request, EnqueueNotebook(r) PROVE Exclusive'
  BY <1>12 DEF EnqueueNotebook
<1>13. ASSUME NEW r \in Request, Fail(r) PROVE Exclusive'
  BY <1>13 DEF Fail
<1>14. ASSUME NEW w \in Wfid, Fire(w) PROVE Exclusive'
  BY <1>14 DEF Fire
<1>15. CASE UNCHANGED vars
  BY <1>15 DEF vars
<1> QED
  BY <1>1, <1>2, <1>3, <1>4, <1>5, <1>6, <1>7, <1>8, <1>9,
     <1>10, <1>11, <1>12, <1>13, <1>14, <1>15 DEF Next, Serve, Waits

(* Only a delete undoes what a registration told Redis. *)
LEMMA ToldStep == TypeOK /\ Role /\ Told /\ [Next]_vars => Told'
<1> SUFFICES ASSUME TypeOK, Role, Told, [Next]_vars PROVE Told'
  OBVIOUS
<1> USE DEF TypeOK, Role, Told, Is, On, DeleteBegan
<1>1. ASSUME NEW r \in Request, Receive(r) PROVE Told'
  BY <1>1 DEF Receive
<1>2. ASSUME NEW r \in Request, InsertRow(r) PROVE Told'
  BY <1>2 DEF InsertRow
<1>3. ASSUME NEW r \in Request, Waits(r) PROVE Told'
  BY <1>3, WaitsFrame
<1>4. ASSUME NEW r \in Request, CreateJob(r) PROVE Told'
  <2>1. JobFor(r) # NoJob /\ call[r].wfid \in Wfid
    BY <1>4, JobForIsJob DEF CreateJob
  <2> QED
    BY <1>4, <2>1 DEF CreateJob
<1>5. ASSUME NEW r \in Request, EnqueueJob(r) PROVE Told'
  BY <1>5 DEF EnqueueJob
<1>6. ASSUME NEW r \in Request, Commit(r) PROVE Told'
  BY <1>6 DEF Commit
<1>7. ASSUME NEW r \in Request, UnregisterJob(r) PROVE Told'
  BY <1>7 DEF UnregisterJob
<1>8. ASSUME NEW r \in Request, RemoveJob(r) PROVE Told'
  BY <1>8 DEF RemoveJob
<1>9. ASSUME NEW r \in Request, DeleteRow(r) PROVE Told'
  BY <1>9 DEF DeleteRow
<1>10. ASSUME NEW r \in Request, CommitDelete(r) PROVE Told'
  BY <1>10 DEF CommitDelete
<1>11. ASSUME NEW r \in Request, ReadWorkflow(r) PROVE Told'
  BY <1>11 DEF ReadWorkflow
<1>12. ASSUME NEW r \in Request, EnqueueNotebook(r) PROVE Told'
  BY <1>12 DEF EnqueueNotebook
<1>13. ASSUME NEW r \in Request, Fail(r) PROVE Told'
  BY <1>13 DEF Fail
<1>14. ASSUME NEW w \in Wfid, Fire(w) PROVE Told'
  BY <1>14 DEF Fire
<1>15. CASE UNCHANGED vars
  BY <1>15 DEF vars
<1> QED
  BY <1>1, <1>2, <1>3, <1>4, <1>5, <1>6, <1>7, <1>8, <1>9,
     <1>10, <1>11, <1>12, <1>13, <1>14, <1>15 DEF Next, Serve, Waits

(* After RemoveJob only an update's CreateJob writes the job. *)
LEMMA ClearedStep == TypeOK /\ Role /\ Secret /\ Author /\ Cleared /\ [Next]_vars => Cleared'
<1> SUFFICES ASSUME TypeOK, Role, Secret, Author, Cleared, [Next]_vars PROVE Cleared'
  OBVIOUS
<1> USE DEF TypeOK, Role, Secret, Author, Cleared, Is, On, JobFor
<1>1. ASSUME NEW r \in Request, Receive(r) PROVE Cleared'
  BY <1>1 DEF Receive
<1>2. ASSUME NEW r \in Request, InsertRow(r) PROVE Cleared'
  BY <1>2 DEF InsertRow
<1>3. ASSUME NEW r \in Request, Waits(r) PROVE Cleared'
  BY <1>3, WaitsFrame
<1>4. ASSUME NEW r \in Request, CreateJob(r) PROVE Cleared'
  BY <1>4 DEF CreateJob
<1>5. ASSUME NEW r \in Request, EnqueueJob(r) PROVE Cleared'
  BY <1>5 DEF EnqueueJob
<1>6. ASSUME NEW r \in Request, Commit(r) PROVE Cleared'
  BY <1>6 DEF Commit
<1>7. ASSUME NEW r \in Request, UnregisterJob(r) PROVE Cleared'
  BY <1>7 DEF UnregisterJob
<1>8. ASSUME NEW r \in Request, RemoveJob(r) PROVE Cleared'
  <2>1. call[r].wfid \in Wfid
    BY <1>8 DEF RemoveJob, Call
  <2> QED
    BY <1>8, <2>1 DEF RemoveJob
<1>9. ASSUME NEW r \in Request, DeleteRow(r) PROVE Cleared'
  BY <1>9 DEF DeleteRow
<1>10. ASSUME NEW r \in Request, CommitDelete(r) PROVE Cleared'
  BY <1>10 DEF CommitDelete
<1>11. ASSUME NEW r \in Request, ReadWorkflow(r) PROVE Cleared'
  BY <1>11 DEF ReadWorkflow
<1>12. ASSUME NEW r \in Request, EnqueueNotebook(r) PROVE Cleared'
  BY <1>12 DEF EnqueueNotebook
<1>13. ASSUME NEW r \in Request, Fail(r) PROVE Cleared'
  BY <1>13 DEF Fail
<1>14. ASSUME NEW w \in Wfid, Fire(w) PROVE Cleared'
  BY <1>14 DEF Fire
<1>15. CASE UNCHANGED vars
  BY <1>15 DEF vars
<1> QED
  BY <1>1, <1>2, <1>3, <1>4, <1>5, <1>6, <1>7, <1>8, <1>9,
     <1>10, <1>11, <1>12, <1>13, <1>14, <1>15 DEF Next, Serve, Waits

(* After UnregisterJob only an update's EnqueueJob puts it back. *)
LEMMA OffScheduleStep == TypeOK /\ Role /\ Secret /\ OffSchedule /\ [Next]_vars => OffSchedule'
<1> SUFFICES ASSUME TypeOK, Role, Secret, OffSchedule, [Next]_vars PROVE OffSchedule'
  OBVIOUS
<1> USE DEF TypeOK, Role, Secret, OffSchedule, LateUpdate, Is, On
<1>1. ASSUME NEW r \in Request, Receive(r) PROVE OffSchedule'
  BY <1>1 DEF Receive
<1>2. ASSUME NEW r \in Request, InsertRow(r) PROVE OffSchedule'
  BY <1>2 DEF InsertRow
<1>3. ASSUME NEW r \in Request, Waits(r) PROVE OffSchedule'
  BY <1>3, WaitsFrame
<1>4. ASSUME NEW r \in Request, CreateJob(r) PROVE OffSchedule'
  BY <1>4 DEF CreateJob
<1>5. ASSUME NEW r \in Request, EnqueueJob(r) PROVE OffSchedule'
  BY <1>5 DEF EnqueueJob
<1>6. ASSUME NEW r \in Request, Commit(r) PROVE OffSchedule'
  BY <1>6 DEF Commit
<1>7. ASSUME NEW r \in Request, UnregisterJob(r) PROVE OffSchedule'
  BY <1>7 DEF UnregisterJob
<1>8. ASSUME NEW r \in Request, RemoveJob(r) PROVE OffSchedule'
  BY <1>8 DEF RemoveJob
<1>9. ASSUME NEW r \in Request, DeleteRow(r) PROVE OffSchedule'
  BY <1>9 DEF DeleteRow
<1>10. ASSUME NEW r \in Request, CommitDelete(r) PROVE OffSchedule'
  BY <1>10 DEF CommitDelete
<1>11. ASSUME NEW r \in Request, ReadWorkflow(r) PROVE OffSchedule'
  BY <1>11 DEF ReadWorkflow
<1>12. ASSUME NEW r \in Request, EnqueueNotebook(r) PROVE OffSchedule'
  BY <1>12 DEF EnqueueNotebook
<1>13. ASSUME NEW r \in Request, Fail(r) PROVE OffSchedule'
  BY <1>13 DEF Fail
<1>14. ASSUME NEW w \in Wfid, Fire(w) PROVE OffSchedule'
  BY <1>14 DEF Fire
<1>15. CASE UNCHANGED vars
  BY <1>15 DEF vars
<1> QED
  BY <1>1, <1>2, <1>3, <1>4, <1>5, <1>6, <1>7, <1>8, <1>9,
     <1>10, <1>11, <1>12, <1>13, <1>14, <1>15 DEF Next, Serve, Waits

(* A row with a schedule is committed after its job is in place. *)
LEMMA ScheduledRowHasJobStep == TypeOK /\ Role /\ Told /\ ScheduledRowHasJob /\ [Next]_vars => ScheduledRowHasJob'
<1> SUFFICES ASSUME TypeOK, Role, Told, ScheduledRowHasJob, [Next]_vars PROVE ScheduledRowHasJob'
  OBVIOUS
<1> USE DEF TypeOK, Role, Told, ScheduledRowHasJob, DeleteBegan, Is, On
<1>1. ASSUME NEW r \in Request, Receive(r) PROVE ScheduledRowHasJob'
  BY <1>1 DEF Receive
<1>2. ASSUME NEW r \in Request, InsertRow(r) PROVE ScheduledRowHasJob'
  BY <1>2 DEF InsertRow
<1>3. ASSUME NEW r \in Request, Waits(r) PROVE ScheduledRowHasJob'
  BY <1>3, WaitsFrame
<1>4. ASSUME NEW r \in Request, CreateJob(r) PROVE ScheduledRowHasJob'
  <2>1. JobFor(r) # NoJob /\ call[r].wfid \in Wfid
    BY <1>4, JobForIsJob DEF CreateJob
  <2> QED
    BY <1>4, <2>1 DEF CreateJob
<1>5. ASSUME NEW r \in Request, EnqueueJob(r) PROVE ScheduledRowHasJob'
  BY <1>5 DEF EnqueueJob
<1>6. ASSUME NEW r \in Request, Commit(r) PROVE ScheduledRowHasJob'
  BY <1>6 DEF Commit
<1>7. ASSUME NEW r \in Request, UnregisterJob(r) PROVE ScheduledRowHasJob'
  BY <1>7 DEF UnregisterJob
<1>8. ASSUME NEW r \in Request, RemoveJob(r) PROVE ScheduledRowHasJob'
  BY <1>8 DEF RemoveJob
<1>9. ASSUME NEW r \in Request, DeleteRow(r) PROVE ScheduledRowHasJob'
  BY <1>9 DEF DeleteRow
<1>10. ASSUME NEW r \in Request, CommitDelete(r) PROVE ScheduledRowHasJob'
  BY <1>10 DEF CommitDelete
<1>11. ASSUME NEW r \in Request, ReadWorkflow(r) PROVE ScheduledRowHasJob'
  BY <1>11 DEF ReadWorkflow
<1>12. ASSUME NEW r \in Request, EnqueueNotebook(r) PROVE ScheduledRowHasJob'
  BY <1>12 DEF EnqueueNotebook
<1>13. ASSUME NEW r \in Request, Fail(r) PROVE ScheduledRowHasJob'
  BY <1>13 DEF Fail
<1>14. ASSUME NEW w \in Wfid, Fire(w) PROVE ScheduledRowHasJob'
  BY <1>14 DEF Fire
<1>15. CASE UNCHANGED vars
  BY <1>15 DEF vars
<1> QED
  BY <1>1, <1>2, <1>3, <1>4, <1>5, <1>6, <1>7, <1>8, <1>9,
     <1>10, <1>11, <1>12, <1>13, <1>14, <1>15 DEF Next, Serve, Waits

(* A commit finds the job its own request wrote. *)
LEMMA JobMatchesRowStep == TypeOK /\ Role /\ Secret /\ Author /\ Exclusive /\ JobMatchesRow /\ [Next]_vars => JobMatchesRow'
<1> SUFFICES ASSUME TypeOK, Role, Secret, Author, Exclusive, JobMatchesRow, [Next]_vars PROVE JobMatchesRow'
  OBVIOUS
<1> USE DEF TypeOK, Role, Secret, Author, Exclusive, JobMatchesRow, Writer, Uncommitted, Is, On, JobFor
<1>1. ASSUME NEW r \in Request, Receive(r) PROVE JobMatchesRow'
  <2>1. ASSUME NEW w \in Wfid, jobs[w] # NoJob, Writer(w) \in Request
        PROVE  Writer(w) # r
    BY <1>1, <2>1, ConstAssumption, ReceiveFrame
  <2>2. db' = db /\ jobs' = jobs
    BY <1>1 DEF Receive
  <2> QED
    BY <1>1, <2>1, <2>2, ReceiveFrame
<1>2. ASSUME NEW r \in Request, InsertRow(r) PROVE JobMatchesRow'
  BY <1>2 DEF InsertRow
<1>3. ASSUME NEW r \in Request, Waits(r) PROVE JobMatchesRow'
  BY <1>3, WaitsFrame
<1>4. ASSUME NEW r \in Request, CreateJob(r) PROVE JobMatchesRow'
  BY <1>4 DEF CreateJob
<1>5. ASSUME NEW r \in Request, EnqueueJob(r) PROVE JobMatchesRow'
  BY <1>5 DEF EnqueueJob
<1>6. ASSUME NEW r \in Request, Commit(r) PROVE JobMatchesRow'
  <2>1. SUFFICES ASSUME NEW w \in Wfid,
                        db'[w] # NoRow, db'[w].def.sched, jobs'[w] # NoJob
                 PROVE  \/ jobs'[w].prj = db'[w].prj /\ jobs'[w].task = db'[w].def.task
                        \/ /\ Writer(w)' \in Request
                           /\ Uncommitted(Writer(w))' \/ call'[Writer(w)'].prj # db'[w].prj
    BY DEF JobMatchesRow
  <2>2. jobs'[w] = jobs[w] /\ call' = call
    BY <1>6 DEF Commit
  <2>3. CASE w # call[r].wfid
    <3>1. db'[w] = db[w]
      BY <1>6, <2>3 DEF Commit
    <3>2. Writer(w) \in Request => Writer(w) # r
      BY <2>1, <2>2, <2>3, ConstAssumption
    <3> QED
      BY <1>6, <2>1, <2>2, <3>1, <3>2 DEF Commit
  <2>4. CASE w = call[r].wfid
    <3>1. /\ Is(r, "create") \/ db[w] # NoRow
          /\ db'[w].def = call[r].def
          /\ Is(r, "create") => db'[w].prj = call[r].prj
      BY <1>6, <2>1, <2>4 DEF Commit
    <3>2. pc[r] = "enqueued"
      BY <1>6, <2>1, <3>1 DEF Commit
    <3>3. jobs[w].execid = r
      BY <2>1, <2>2, <2>4, <3>1, <3>2
    <3>4. jobs[w] = JobFor(r)
      BY <2>1, <2>2, <3>3, ConstAssumption
    <3>5. jobs[w].prj = call[r].prj /\ jobs[w].task = call[r].def.task
      BY <3>4
    <3> QED
      BY <2>2, <3>1, <3>3, <3>5
  <2> QED
    BY <2>3, <2>4
<1>7. ASSUME NEW r \in Request, UnregisterJob(r) PROVE JobMatchesRow'
  BY <1>7 DEF UnregisterJob
<1>8. ASSUME NEW r \in Request, RemoveJob(r) PROVE JobMatchesRow'
  BY <1>8 DEF RemoveJob
<1>9. ASSUME NEW r \in Request, DeleteRow(r) PROVE JobMatchesRow'
  BY <1>9 DEF DeleteRow
<1>10. ASSUME NEW r \in Request, CommitDelete(r) PROVE JobMatchesRow'
  BY <1>10 DEF CommitDelete
<1>11. ASSUME NEW r \in Request, ReadWorkflow(r) PROVE JobMatchesRow'
  <2>1. ASSUME NEW w \in Wfid, jobs[w] # NoJob, Writer(w) \in Request
        PROVE  Writer(w) # r
    BY <1>11, <2>1, ConstAssumption, ReadFrame
  <2>2. db' = db /\ jobs' = jobs
    BY <1>11 DEF ReadWorkflow
  <2> QED
    BY <1>11, <2>1, <2>2, ReadFrame
<1>12. ASSUME NEW r \in Request, EnqueueNotebook(r) PROVE JobMatchesRow'
  BY <1>12 DEF EnqueueNotebook
<1>13. ASSUME NEW r \in Request, Fail(r) PROVE JobMatchesRow'
  BY <1>13 DEF Fail
<1>14. ASSUME NEW w \in Wfid, Fire(w) PROVE JobMatchesRow'
  BY <1>14 DEF Fire
<1>15. CASE UNCHANGED vars
  BY <1>15 DEF vars
<1> QED
  BY <1>1, <1>2, <1>3, <1>4, <1>5, <1>6, <1>7, <1>8, <1>9,
     <1>10, <1>11, <1>12, <1>13, <1>14, <1>15 DEF Next, Serve, Waits

(* A row goes away only after its job, unless an update wrote a new one. *)
LEMMA OrphanJobHasCauseStep == TypeOK /\ Role /\ Author /\ Cleared /\ OrphanJobHasCause /\ [Next]_vars => OrphanJobHasCause'
<1> SUFFICES ASSUME TypeOK, Role, Author, Cleared, OrphanJobHasCause, [Next]_vars PROVE OrphanJobHasCause'
  OBVIOUS
<1> USE DEF TypeOK, Role, Author, Cleared, OrphanJobHasCause, Writer, Uncommitted, Is, On
<1>1. ASSUME NEW r \in Request, Receive(r) PROVE OrphanJobHasCause'
  BY <1>1 DEF Receive
<1>2. ASSUME NEW r \in Request, InsertRow(r) PROVE OrphanJobHasCause'
  BY <1>2 DEF InsertRow
<1>3. ASSUME NEW r \in Request, Waits(r) PROVE OrphanJobHasCause'
  BY <1>3, WaitsFrame
<1>4. ASSUME NEW r \in Request, CreateJob(r) PROVE OrphanJobHasCause'
  <2>1. JobFor(r) # NoJob /\ call[r].wfid \in Wfid
    BY <1>4, JobForIsJob DEF CreateJob
  <2>2. SUFFICES ASSUME NEW w \in Wfid, jobs'[w] # NoJob, db'[w] = NoRow
                 PROVE  /\ Writer(w)' \in Request
                        /\ \/ Uncommitted(Writer(w))'
                           \/ Is(Writer(w), "update")' /\ pc'[Writer(w)'] = "ok"
    BY DEF OrphanJobHasCause
  <2>3. CASE w = call[r].wfid
    BY <1>4, <2>1, <2>3 DEF CreateJob, JobFor
  <2>4. CASE w # call[r].wfid
    <3>1. jobs'[w] = jobs[w] /\ db[w] = NoRow
      BY <1>4, <2>2, <2>4 DEF CreateJob
    <3>2. Writer(w) \in Request /\ Writer(w) # r
      BY <1>4, <2>2, <2>4, <3>1, ConstAssumption DEF CreateJob
    <3> QED
      BY <1>4, <2>2, <3>1, <3>2 DEF CreateJob
  <2> QED
    BY <2>3, <2>4
<1>5. ASSUME NEW r \in Request, EnqueueJob(r) PROVE OrphanJobHasCause'
  BY <1>5 DEF EnqueueJob
<1>6. ASSUME NEW r \in Request, Commit(r) PROVE OrphanJobHasCause'
  <2>1. SUFFICES ASSUME NEW w \in Wfid, jobs'[w] # NoJob, db'[w] = NoRow
                 PROVE  /\ Writer(w)' \in Request
                        /\ \/ Uncommitted(Writer(w))'
                           \/ Is(Writer(w), "update")' /\ pc'[Writer(w)'] = "ok"
    BY DEF OrphanJobHasCause
  <2>2. call[r] \in Call /\ [prj |-> call[r].prj, def |-> call[r].def] # NoRow
    BY <1>6, AbsentAssumption DEF Commit, Call, Stored
  <2>3. jobs'[w] = jobs[w] /\ db[w] = NoRow
    <3>1. CASE w # call[r].wfid
      BY <1>6, <2>1, <3>1 DEF Commit
    <3>2. CASE w = call[r].wfid
      <4>1. db[w] # NoRow => db[w] \in Stored
        OBVIOUS
      <4>2. db[w] # NoRow => [prj |-> db[w].prj, def |-> call[r].def] # NoRow
        BY <4>1, <2>2, AbsentAssumption DEF Stored, Call
      <4> QED
        BY <1>6, <2>1, <2>2, <3>2, <4>2 DEF Commit
    <3> QED
      BY <3>1, <3>2
  <2>4. Writer(w) \in Request /\ jobs[w] # NoJob
    BY <2>1, <2>3
  <2>5. Writer(w) # r \/ Is(r, "update")
    <3>1. CASE w # call[r].wfid
      BY <2>4, <3>1, ConstAssumption
    <3>2. CASE w = call[r].wfid
      BY <1>6, <2>1, <2>2, <3>2 DEF Commit
    <3> QED
      BY <3>1, <3>2
  <2> QED
    BY <1>6, <2>3, <2>4, <2>5 DEF Commit
<1>7. ASSUME NEW r \in Request, UnregisterJob(r) PROVE OrphanJobHasCause'
  BY <1>7 DEF UnregisterJob
<1>8. ASSUME NEW r \in Request, RemoveJob(r) PROVE OrphanJobHasCause'
  BY <1>8 DEF RemoveJob
<1>9. ASSUME NEW r \in Request, DeleteRow(r) PROVE OrphanJobHasCause'
  BY <1>9 DEF DeleteRow
<1>10. ASSUME NEW r \in Request, CommitDelete(r) PROVE OrphanJobHasCause'
  <2>1. SUFFICES ASSUME NEW w \in Wfid, jobs'[w] # NoJob, db'[w] = NoRow
                 PROVE  /\ Writer(w)' \in Request
                        /\ \/ Uncommitted(Writer(w))'
                           \/ Is(Writer(w), "update")' /\ pc'[Writer(w)'] = "ok"
    BY DEF OrphanJobHasCause
  <2>2. jobs'[w] = jobs[w] /\ Is(r, "delete")
    BY <1>10 DEF CommitDelete
  <2>3. /\ Writer(w) \in Request
        /\ Uncommitted(Writer(w)) \/ (Is(Writer(w), "update") /\ pc[Writer(w)] = "ok")
    <3>1. CASE db[w] = NoRow
      BY <2>1, <2>2, <3>1
    <3>2. CASE db[w] # NoRow
      <4>1. w = call[r].wfid
        BY <1>10, <2>1, <3>2 DEF CommitDelete
      <4>2. Writer(w) \in Request /\ Is(Writer(w), "update")
        BY <1>10, <2>1, <2>2, <4>1 DEF CommitDelete
      <4> QED
        BY <2>1, <2>2, <4>2, ConstAssumption
    <3> QED
      BY <3>1, <3>2
  <2>4. Writer(w) # r
    BY <1>10, <2>2, <2>3 DEF CommitDelete
  <2> QED
    BY <1>10, <2>2, <2>3, <2>4 DEF CommitDelete
<1>11. ASSUME NEW r \in Request, ReadWorkflow(r) PROVE OrphanJobHasCause'
  BY <1>11 DEF ReadWorkflow
<1>12. ASSUME NEW r \in Request, EnqueueNotebook(r) PROVE OrphanJobHasCause'
  BY <1>12 DEF EnqueueNotebook
<1>13. ASSUME NEW r \in Request, Fail(r) PROVE OrphanJobHasCause'
  BY <1>13 DEF Fail
<1>14. ASSUME NEW w \in Wfid, Fire(w) PROVE OrphanJobHasCause'
  BY <1>14 DEF Fire
<1>15. CASE UNCHANGED vars
  BY <1>15 DEF vars
<1> QED
  BY <1>1, <1>2, <1>3, <1>4, <1>5, <1>6, <1>7, <1>8, <1>9,
     <1>10, <1>11, <1>12, <1>13, <1>14, <1>15 DEF Next, Serve, Waits

(* A definition leaves the store after its entry left the schedule. *)
LEMMA DanglingNeedsRaceStep == TypeOK /\ Role /\ Secret /\ Told /\ OffSchedule /\ DanglingNeedsRace /\ [Next]_vars => DanglingNeedsRace'
<1> SUFFICES ASSUME TypeOK, Role, Secret, Told, OffSchedule, DanglingNeedsRace, [Next]_vars PROVE DanglingNeedsRace'
  OBVIOUS
<1> USE DEF TypeOK, Role, Secret, Told, OffSchedule, LateUpdate, DanglingNeedsRace, DeleteBegan, Is, On
<1>1. ASSUME NEW r \in Request, Receive(r) PROVE DanglingNeedsRace'
  BY <1>1 DEF Receive
<1>2. ASSUME NEW r \in Request, InsertRow(r) PROVE DanglingNeedsRace'
  BY <1>2 DEF InsertRow
<1>3. ASSUME NEW r \in Request, Waits(r) PROVE DanglingNeedsRace'
  BY <1>3, WaitsFrame
<1>4. ASSUME NEW r \in Request, CreateJob(r) PROVE DanglingNeedsRace'
  <2>1. JobFor(r) # NoJob /\ call[r].wfid \in Wfid
    BY <1>4, JobForIsJob DEF CreateJob
  <2> QED
    BY <1>4, <2>1 DEF CreateJob
<1>5. ASSUME NEW r \in Request, EnqueueJob(r) PROVE DanglingNeedsRace'
  BY <1>5 DEF EnqueueJob
<1>6. ASSUME NEW r \in Request, Commit(r) PROVE DanglingNeedsRace'
  BY <1>6 DEF Commit
<1>7. ASSUME NEW r \in Request, UnregisterJob(r) PROVE DanglingNeedsRace'
  BY <1>7 DEF UnregisterJob
<1>8. ASSUME NEW r \in Request, RemoveJob(r) PROVE DanglingNeedsRace'
  BY <1>8 DEF RemoveJob
<1>9. ASSUME NEW r \in Request, DeleteRow(r) PROVE DanglingNeedsRace'
  BY <1>9 DEF DeleteRow
<1>10. ASSUME NEW r \in Request, CommitDelete(r) PROVE DanglingNeedsRace'
  BY <1>10 DEF CommitDelete
<1>11. ASSUME NEW r \in Request, ReadWorkflow(r) PROVE DanglingNeedsRace'
  BY <1>11 DEF ReadWorkflow
<1>12. ASSUME NEW r \in Request, EnqueueNotebook(r) PROVE DanglingNeedsRace'
  BY <1>12 DEF EnqueueNotebook
<1>13. ASSUME NEW r \in Request, Fail(r) PROVE DanglingNeedsRace'
  BY <1>13 DEF Fail
<1>14. ASSUME NEW w \in Wfid, Fire(w) PROVE DanglingNeedsRace'
  BY <1>14 DEF Fire
<1>15. CASE UNCHANGED vars
  BY <1>15 DEF vars
<1> QED
  BY <1>1, <1>2, <1>3, <1>4, <1>5, <1>6, <1>7, <1>8, <1>9,
     <1>10, <1>11, <1>12, <1>13, <1>14, <1>15 DEF Next, Serve, Waits

-----------------------------------------------------------------------------
(* Together *)

LEMMA InitIInv == Init => IInv
<1> SUFFICES ASSUME Init PROVE IInv
  OBVIOUS
<1>1. TypeOK
  BY InitTypeOK
<1>2. \A r \in Request : pc[r] = "idle"
  BY DEF Init
<1>3. Handlers
  BY <1>1, <1>2 DEF Init, TypeOK, Handlers, Role, Secret, Grounded, RowLock, Author,
       Exclusive, Told, Cleared, OffSchedule, Is, On, Fresh
<1>4. \A w \in Wfid :
        jobs[w] = IF db[w] # NoRow /\ db[w].def.sched
                  THEN [prj |-> db[w].prj, task |-> db[w].def.task, execid |-> Boot]
                  ELSE NoJob
  BY DEF Init
<1>5. \A w \in Wfid : db[w] # NoRow /\ db[w].def.sched => jobs[w] # NoJob
  <2> SUFFICES ASSUME NEW w \in Wfid, db[w] # NoRow, db[w].def.sched
               PROVE  [prj |-> db[w].prj, task |-> db[w].def.task, execid |-> Boot] \in Job
    BY <1>4, AbsentAssumption
  <2>1. db[w] \in Stored
    BY <1>1 DEF TypeOK
  <2> QED
    BY <2>1 DEF Stored, Job, Task
<1>6. Stores
  BY <1>4, <1>5 DEF Init, Stores, ScheduledRowHasJob, JobMatchesRow, OrphanJobHasCause,
       DanglingNeedsRace
<1> QED
  BY <1>1, <1>3, <1>6 DEF IInv

LEMMA StepIInv == IInv /\ [Next]_vars => IInv'
BY StepTypeOK, RoleStep, SecretStep, GroundedStep, RowLockStep, AuthorStep, ExclusiveStep,
   ToldStep, ClearedStep, OffScheduleStep, ScheduledRowHasJobStep, JobMatchesRowStep,
   OrphanJobHasCauseStep, DanglingNeedsRaceStep
   DEF IInv, Handlers, Stores

LEMMA InvariantIInv == Spec => []IInv
BY InitIInv, StepIInv, PTL DEF Spec

(* Whatever fails and however requests interleave, a committed row with a
   schedule has its job in place until a delete of it reaches Redis. *)
THEOREM ScheduledRowsHaveJobs == Spec => []ScheduledRowHasJob
<1>1. IInv => ScheduledRowHasJob
  BY DEF IInv, Stores
<1> QED
  BY <1>1, InvariantIInv, PTL

(* Updates of one workflow are serialized: the stored job is the committed
   row's, or that of a request that did not commit or named another project. *)
THEOREM JobsMatchRows == Spec => []JobMatchesRow
<1>1. IInv => JobMatchesRow
  BY DEF IInv, Stores
<1> QED
  BY <1>1, InvariantIInv, PTL

(* A job without a row is the work of a registration that did not commit or
   of an update that came after the removal. *)
THEOREM OrphanJobsHaveCauses == Spec => []OrphanJobHasCause
<1>1. IInv => OrphanJobHasCause
  BY DEF IInv, Stores
<1> QED
  BY <1>1, InvariantIInv, PTL

(* The schedule names an undefined job only after a delete and an update of
   one workflow crossed. *)
THEOREM DanglingEntriesNeedRaces == Spec => []DanglingNeedsRace
<1>1. IInv => DanglingNeedsRace
  BY DEF IInv, Stores
<1> QED
  BY <1>1, InvariantIInv, PTL

(* A workflow that was registered and deleted never has a row again. *)
THEOREM DeletedStaysDeleted == Spec => NoResurrection
<1>1. ASSUME IInv, [Next]_vars
      PROVE  [\A w \in Wfid : Known(w) /\ db[w] = NoRow => db'[w] = NoRow]_vars
  <2> SUFFICES ASSUME NEW w \in Wfid, Known(w), db[w] = NoRow, Next
               PROVE  db'[w] = NoRow
    BY <1>1 DEF vars
  <2>1. CASE \E r \in Request : Commit(r)
    <3>1. PICK r \in Request : Commit(r)
      BY <2>1
    <3>2. CASE w = call[r].wfid /\ Is(r, "create")
      <4>1. w \notin Existing /\ pc[r] # "ok"
        BY <1>1, <3>1, <3>2 DEF IInv, Handlers, Secret, Commit
      <4>2. PICK q \in Request : Is(q, "create") /\ On(q, w) /\ pc[q] = "ok"
        BY <4>1 DEF Known
      <4> QED
        BY <1>1, <3>2, <4>1, <4>2 DEF IInv, Handlers, Secret
    <3>3. CASE w # call[r].wfid \/ ~Is(r, "create")
      BY <1>1, <3>1, <3>3 DEF Commit, IInv, TypeOK
    <3> QED
      BY <3>2, <3>3
  <2>2. CASE \E r \in Request : CommitDelete(r)
    BY <1>1, <2>2 DEF CommitDelete, IInv, TypeOK
  <2>3. CASE ~(\E r \in Request : Commit(r) \/ CommitDelete(r))
    BY <2>3, WaitsFrame DEF Next, Serve, Waits, Receive, InsertRow, CreateJob, EnqueueJob,
         UnregisterJob, RemoveJob, DeleteRow, ReadWorkflow, EnqueueNotebook, Fail, Fire
  <2> QED
    BY <2>1, <2>2, <2>3
<1> QED
  BY <1>1, InvariantIInv, PTL DEF Spec, NoResurrection

(* A row changes only in the step that answers a request on it "ok", and
   keeps its project: what a handler wrote before a failure or a refusal is
   never seen. *)
THEOREM ChangesAreAnswered == Spec => RowChangesAreAnswered
<1>1. ASSUME IInv, [Next]_vars
      PROVE  [\A w \in Wfid :
                db'[w] # db[w] =>
                  /\ \E r \in Request : On(r, w) /\ pc[r] # "ok" /\ pc'[r] = "ok"
                  /\ db[w] # NoRow /\ db'[w] # NoRow => db'[w].prj = db[w].prj]_vars
  <2> DEFINE Acknowledged(w) ==
               \E r \in Request : On(r, w) /\ pc[r] # "ok" /\ pc'[r] = "ok"
             Kept(w) == db[w] # NoRow /\ db'[w] # NoRow => db'[w].prj = db[w].prj
  <2> SUFFICES ASSUME NEW w \in Wfid, db'[w] # db[w], Next
               PROVE  Acknowledged(w) /\ Kept(w)
    BY <1>1 DEF vars
  <2> USE <1>1 DEF IInv
  <2>1. CASE \E r \in Request : Commit(r)
    <3>1. PICK r \in Request : Commit(r)
      BY <2>1
    <3>2. pc[r] \in {"flushed", "enqueued"} /\ pc'[r] = "ok"
      BY <3>1 DEF Commit, TypeOK
    <3>3. w = call[r].wfid /\ On(r, w)
      BY <3>1, <3>2 DEF Commit, On, TypeOK
    <3>4. db'[w] = RowAfter(r)
      BY <3>1, <3>3 DEF Commit, TypeOK
    <3>5. Acknowledged(w)
      BY <3>2, <3>3
    <3>6. CASE Is(r, "create")
      <4>1. db[w] = NoRow
        BY <3>2, <3>3, <3>6 DEF Handlers, Secret
      <4> QED
        BY <3>5, <4>1
    <3>7. CASE ~Is(r, "create")
      <4>1. db[w] # NoRow => db'[w] = [prj |-> db[w].prj, def |-> call[r].def]
        BY <3>3, <3>4, <3>7
      <4> QED
        BY <3>5, <4>1
    <3> QED
      BY <3>6, <3>7
  <2>2. CASE \E r \in Request : CommitDelete(r)
    <3>1. PICK r \in Request : CommitDelete(r)
      BY <2>2
    <3>2. pc[r] = "deleted" /\ pc'[r] = "ok"
      BY <3>1 DEF CommitDelete, TypeOK
    <3>3. w = call[r].wfid /\ db'[w] = NoRow
      BY <3>1 DEF CommitDelete, TypeOK
    <3> QED
      BY <3>2, <3>3 DEF On
  <2>3. CASE ~(\E r \in Request : Commit(r) \/ CommitDelete(r))
    BY <2>3, WaitsFrame DEF Next, Serve, Waits, Receive, InsertRow, CreateJob, EnqueueJob,
         UnregisterJob, RemoveJob, DeleteRow, ReadWorkflow, EnqueueNotebook, Fail, Fire
  <2> QED
    BY <2>1, <2>2, <2>3
<1> QED
  BY <1>1, InvariantIInv, PTL DEF Spec, RowChangesAreAnswered

-----------------------------------------------------------------------------
(* The table the handlers implement.  A transaction that will write a row
   reserves the row's key: nobody has it, and no other open transaction of
   another workflow is to write it. *)

Writing(r) == pc[r] \in Staged /\ (Is(r, "create") \/ db[call[r].wfid] # NoRow)
Target(r)  == IF Is(r, "create") THEN call[r].prj ELSE db[call[r].wfid].prj

Reserved ==
  \A r \in Request :
    Writing(r) => ~KeyTaken(call[r].wfid, Target(r), call[r].def.alias)
Apart ==
  \A r, q \in Request :
    /\ Writing(r) /\ Writing(q) /\ call[r].wfid # call[q].wfid
    => Target(r) # Target(q) \/ call[r].def.alias # call[q].def.alias

Keys == Reserved /\ Apart /\ AliasUnique

(* Keys are only freed by a step that adds no row and no writer. *)
LEMMA FewerKeys ==
  ASSUME Keys,
         \A w \in Wfid : db'[w] = db[w] \/ db'[w] = NoRow,
         \A q \in Request : Writing(q)' => Writing(q) /\ call'[q] = call[q] /\ call[q].wfid \in Wfid
  PROVE  Keys'
<1>1. \A q \in Request : Writing(q)' => (Is(q, "create")' <=> Is(q, "create"))
  BY DEF Writing, Is
<1>2. ASSUME NEW q \in Request, Writing(q)'
      PROVE  Target(q)' = Target(q)
  BY <1>1, <1>2 DEF Target, Writing
<1>3. ASSUME NEW w, NEW p, NEW a, KeyTaken(w, p, a)'
      PROVE  KeyTaken(w, p, a)
  BY <1>3 DEF KeyTaken
<1>4. Reserved'
  BY <1>2, <1>3 DEF Keys, Reserved
<1>5. Apart'
  BY <1>2 DEF Keys, Apart
<1>6. AliasUnique'
  BY <1>3 DEF Keys, AliasUnique
<1> QED
  BY <1>4, <1>5, <1>6 DEF Keys

(* A statement that passed its checks reserves a key nobody else writes. *)
LEMMA StatementKeys ==
  ASSUME TypeOK, Role, Keys, NEW r \in Request, InsertRow(r) \/ Waits(r)
  PROVE  Keys'
<1>1. /\ db' = db /\ call' = call /\ pc[r] \in {"begun", "locked"} /\ pc'[r] # "idle"
      /\ \A q \in Request \ {r} : pc'[q] = pc[q]
  BY WaitsFrame DEF InsertRow, TypeOK
<1>2. ASSUME NEW q \in Request \ {r}
      PROVE  (Writing(q)' <=> Writing(q)) /\ Target(q)' = Target(q)
  BY <1>1 DEF Writing, Target, Is
<1>3. Target(r)' = Target(r)
  BY <1>1 DEF Target, Is
<1>4. ASSUME NEW w, NEW p, NEW a
      PROVE  KeyTaken(w, p, a)' <=> KeyTaken(w, p, a)
  BY <1>1 DEF KeyTaken
<1>5. ASSUME Writing(r)'
      PROVE  /\ ~KeyTaken(call[r].wfid, Target(r), call[r].def.alias)
             /\ ~KeyBusy(call[r].wfid, Target(r), call[r].def.alias)
  <2>1. CASE InsertRow(r)
    BY <1>1, <1>5, <2>1 DEF InsertRow, Writing, Target, Is, TypeOK
  <2>2. CASE Waits(r)
    <3>1. /\ pc[r] = "locked" /\ UpdateRow(r)
          /\ pc'[r] = "flushed" /\ db[call[r].wfid] # NoRow /\ ~Is(r, "create")
      BY <1>1, <1>5, <2>2 DEF Waits, LockRow, UpdateRow, BreakDeadlock, Writing, Role, Is, TypeOK
    <3> QED
      BY <3>1 DEF UpdateRow, Target, TypeOK
  <2> QED
    BY <2>1, <2>2
<1>6. ASSUME Writing(r)', NEW q \in Request \ {r}, Writing(q), call[r].wfid # call[q].wfid
      PROVE  Target(r) # Target(q) \/ call[r].def.alias # call[q].def.alias
  <2>1. pc[q] # "idle"
    BY <1>6 DEF Writing, TypeOK
  <2>2. CASE Is(q, "create")
    BY <1>5, <1>6, <2>1, <2>2 DEF KeyBusy, HoldsKey, Target, Writing
  <2>3. CASE ~Is(q, "create")
    <3>1. Is(q, "update") /\ Locks(q, call[q].wfid)
      BY <1>6, <2>1, <2>3 DEF Writing, Role, Locks, On
    <3> QED
      BY <1>5, <1>6, <2>1, <2>3, <3>1 DEF KeyBusy, HoldsKey, Target, Writing
  <2> QED
    BY <2>2, <2>3
<1>7. Reserved'
  BY <1>1, <1>2, <1>3, <1>4, <1>5 DEF Keys, Reserved
<1>8. Apart'
  BY <1>1, <1>2, <1>3, <1>6 DEF Keys, Apart
<1>9. AliasUnique'
  BY <1>1, <1>4 DEF Keys, AliasUnique
<1> QED
  BY <1>7, <1>8, <1>9 DEF Keys

(* While a request is about to write a row, no other can write that row. *)
LEMMA OneWriter ==
  ASSUME TypeOK, Role, Secret, RowLock, NEW r \in Request, NEW q \in Request \ {r},
         pc[r] \in Staged, pc[q] \in Staged, call[q].wfid = call[r].wfid
  PROVE  ~Is(r, "create") /\ ~Is(q, "create") /\ db[call[r].wfid] = NoRow
<1>1. On(q, call[r].wfid) /\ On(r, call[q].wfid)
  BY DEF On
<1>2. ~Is(r, "create") /\ ~Is(q, "create")
  BY <1>1 DEF Secret
<1>3. Is(r, "update") /\ Is(q, "update")
  BY <1>2 DEF Role
<1> QED
  BY <1>2, <1>3 DEF RowLock

(* What a commit does to the table and to the other writers. *)
LEMMA CommitFrame ==
  ASSUME TypeOK, Role, Secret, RowLock, NEW r \in Request, Commit(r)
  PROVE  LET w == call[r].wfid IN
         /\ pc[r] \in {"flushed", "enqueued"} /\ call[r] \in Call /\ w \in Wfid
         /\ call' = call /\ pc'[r] = "ok" /\ \A q \in Request \ {r} : pc'[q] = pc[q]
         /\ \A v \in Wfid \ {w} : db'[v] = db[v]
         /\ Writing(r) => db'[w] = [prj |-> Target(r), def |-> call[r].def]
         /\ ~Writing(r) => db'[w] = NoRow /\ db[w] = NoRow
         /\ \A q \in Request : Writing(q)' =>
              q # r /\ Writing(q) /\ call[q].wfid # w /\ Target(q)' = Target(q)
<1> DEFINE w == call[r].wfid
<1>1. /\ pc[r] \in {"flushed", "enqueued"} /\ call' = call /\ pc'[r] = "ok"
      /\ \A q \in Request \ {r} : pc'[q] = pc[q]
  BY DEF Commit, TypeOK
<1>2. call[r] \in Call /\ w \in Wfid
  BY <1>1 DEF TypeOK, Call
<1>3. db'[w] = RowAfter(r) /\ \A v \in Wfid \ {w} : db'[v] = db[v]
  BY <1>2 DEF Commit, TypeOK
<1>4. Writing(r) => db'[w] = [prj |-> Target(r), def |-> call[r].def]
  BY <1>3 DEF Writing, Target
<1>5. ~Writing(r) => db'[w] = NoRow /\ db[w] = NoRow
  BY <1>1, <1>3 DEF Writing
<1>6. ASSUME NEW q \in Request, Writing(q)'
      PROVE  q # r /\ Writing(q) /\ call[q].wfid # w /\ Target(q)' = Target(q)
  <2>1. q # r /\ pc[q] \in Staged /\ (Is(q, "create")' <=> Is(q, "create"))
    BY <1>1, <1>6 DEF Writing, Is
  <2>2. call[q].wfid \in Wfid
    BY <2>1 DEF TypeOK, Call
  <2>3. call[q].wfid # w
    <3> SUFFICES ASSUME call[q].wfid = w PROVE FALSE
      OBVIOUS
    <3>1. ~Is(r, "create") /\ ~Is(q, "create") /\ db[w] = NoRow
      BY <1>1, <2>1, OneWriter
    <3>2. db'[w] = NoRow
      BY <1>3, <3>1
    <3> QED
      BY <1>1, <1>6, <2>1, <3>1, <3>2 DEF Writing
  <2>4. db'[call[q].wfid] = db[call[q].wfid]
    BY <1>3, <2>2, <2>3
  <2> QED
    BY <1>1, <1>6, <2>1, <2>3, <2>4 DEF Writing, Target
<1> QED
  BY <1>1, <1>2, <1>3, <1>4, <1>5, <1>6

(* A commit writes the key its statement reserved. *)
LEMMA CommitKeys ==
  ASSUME TypeOK, Role, Secret, RowLock, Keys, NEW r \in Request, Commit(r)
  PROVE  Keys'
<1> DEFINE w == call[r].wfid
<1>1. call' = call /\ w \in Wfid /\ \A v \in Wfid \ {w} : db'[v] = db[v]
  BY CommitFrame
<1>2. db'[w] # NoRow => Writing(r) /\ db'[w] = [prj |-> Target(r), def |-> call[r].def]
  BY CommitFrame
<1>3. \A q \in Request : Writing(q)' =>
        Writing(q) /\ call[q].wfid # w /\ Target(q)' = Target(q)
  BY CommitFrame
<1>4. Reserved'
  <2> SUFFICES ASSUME NEW q \in Request, Writing(q)', NEW v \in Wfid \ {call[q].wfid},
                      db'[v] # NoRow, db'[v].prj = Target(q), db'[v].def.alias = call[q].def.alias
               PROVE  FALSE
    BY <1>1, <1>3 DEF Reserved, KeyTaken
  <2>1. CASE v = w
    BY <1>2, <1>3, <2>1 DEF Keys, Apart
  <2>2. CASE v # w
    BY <1>1, <1>3, <2>2 DEF Keys, Reserved, KeyTaken
  <2> QED
    BY <2>1, <2>2
<1>5. Apart'
  BY <1>1, <1>3 DEF Keys, Apart
<1>6. AliasUnique'
  <2> SUFFICES ASSUME NEW u \in Wfid, NEW v \in Wfid \ {u}, db'[u] # NoRow, db'[v] # NoRow,
                      db'[u].prj = db'[v].prj, db'[u].def.alias = db'[v].def.alias
               PROVE  FALSE
    BY DEF AliasUnique, KeyTaken
  <2>1. CASE u = w
    BY <1>1, <1>2, <2>1 DEF Keys, Reserved, KeyTaken
  <2>2. CASE v = w
    BY <1>1, <1>2, <2>2 DEF Keys, Reserved, KeyTaken
  <2>3. CASE u # w /\ v # w
    BY <1>1, <2>3 DEF Keys, AliasUnique, KeyTaken
  <2> QED
    BY <2>1, <2>2, <2>3
<1> QED
  BY <1>4, <1>5, <1>6 DEF Keys

LEMMA KeysStep == IInv /\ Keys /\ [Next]_vars => Keys'
<1> SUFFICES ASSUME IInv, Keys, [Next]_vars PROVE Keys'
  OBVIOUS
<1> USE DEF IInv, Handlers
<1>1. CASE \E r \in Request : InsertRow(r) \/ Waits(r)
  BY <1>1, StatementKeys
<1>2. CASE \E r \in Request : Commit(r)
  BY <1>2, CommitKeys
<1>3. CASE \E r \in Request : CommitDelete(r)
  <2>1. PICK r \in Request : CommitDelete(r)
    BY <1>3
  <2>2. \A v \in Wfid : db'[v] = db[v] \/ db'[v] = NoRow
    BY <2>1 DEF CommitDelete, TypeOK
  <2>3. ASSUME NEW q \in Request, Writing(q)'
        PROVE  Writing(q) /\ call'[q] = call[q] /\ call[q].wfid \in Wfid
    <3>1. call' = call /\ pc[q] \in Staged
      BY <2>1, <2>3 DEF CommitDelete, TypeOK, Writing
    <3>2. call[q].wfid \in Wfid
      BY <3>1 DEF TypeOK, Call
    <3> QED
      BY <2>2, <2>3, <3>1, <3>2 DEF Writing, Is
  <2> QED
    BY <2>2, <2>3, FewerKeys
<1>4. CASE /\ ~\E r \in Request : InsertRow(r) \/ Waits(r) \/ Commit(r) \/ CommitDelete(r)
  <2>1. db' = db
    BY <1>4 DEF Next, Serve, Waits, Receive, CreateJob, EnqueueJob, UnregisterJob, RemoveJob,
         DeleteRow, ReadWorkflow, EnqueueNotebook, Fail, Fire, vars
  <2>2. ASSUME NEW q \in Request, pc'[q] \in Staged
        PROVE  pc[q] \in Staged /\ call'[q] = call[q]
    BY <1>4, <2>2, ReadFrame DEF TypeOK, Next, Serve, Waits, Receive, CreateJob, EnqueueJob,
         UnregisterJob, RemoveJob, DeleteRow, ReadWorkflow, EnqueueNotebook, Fail, Fire, vars
  <2>3. ASSUME NEW q \in Request, Writing(q)'
        PROVE  Writing(q) /\ call'[q] = call[q] /\ call[q].wfid \in Wfid
    <3>1. pc[q] \in Staged /\ call'[q] = call[q]
      BY <2>2, <2>3 DEF Writing
    <3>2. call[q].wfid \in Wfid
      BY <3>1 DEF TypeOK, Call
    <3> QED
      BY <2>1, <2>3, <3>1, <3>2 DEF Writing, Is
  <2> QED
    BY <2>1, <2>3, FewerKeys
<1> QED
  BY <1>1, <1>2, <1>3, <1>4

LEMMA InitKeys == Init => Keys
BY DEF Init, Keys, Reserved, Apart, AliasUnique, Writing, KeyTaken

LEMMA InvariantKeys == Spec => [](IInv /\ Keys)
<1>1. Init => IInv /\ Keys
  BY InitIInv, InitKeys
<1>2. IInv /\ Keys /\ [Next]_vars => (IInv /\ Keys)'
  BY StepIInv, KeysStep
<1> QED
  BY <1>1, <1>2, PTL DEF Spec

(* However transactions overlap, no two workflows of a project ever have the
   same alias. *)
THEOREM AliasesAreUnique == Spec => []AliasUnique
<1>1. Keys => AliasUnique
  BY DEF Keys
<1> QED
  BY <1>1, InvariantKeys, PTL

-----------------------------------------------------------------------------
(* The refinement, step by step. *)

LEMMA InitTable == Init => Table!Init
<1> SUFFICES ASSUME Init PROVE Table!Init
  OBVIOUS
<1>1. \A w \in Existing : Table!Free(w, db[w].prj, db[w].def.alias)
  BY DEF Init, Table!Free, KeyTaken
<1>2. \A r \in Request : ~Writes(r)
  BY DEF Init, Writes
<1> QED
  BY <1>1, <1>2 DEF Init, Table!Init, Stored

(* What the table is told: the calls that write, and those answered "ok". *)
Asked == [r \in Request |-> IF Writes(r) THEN call[r] ELSE NoCall]
Done  == {r \in Request : Writes(r) /\ pc[r] = "ok"}

(* A step that changes no row, no writer's call and no writer's answer is
   not seen. *)
LEMMA Unseen ==
  ASSUME db' = db,
         \A r \in Request : /\ Writes(r)' <=> Writes(r)
                            /\ Writes(r) => call'[r] = call[r]
                            /\ Writes(r) => (pc'[r] = "ok" <=> pc[r] = "ok")
  PROVE  UNCHANGED <<db, Asked, Done>>
BY DEF Asked, Done

(* A writer's call is a request to the table. *)
LEMMA WriterAsks ==
  ASSUME TypeOK, NEW r \in Request, Writes(r)
  PROVE  call[r] \in Table!Written /\ call[r] # NoCall /\ Asked[r] = call[r]
<1>1. call[r] \in Call
  BY DEF TypeOK, Writes
<1> QED
  BY <1>1, AbsentAssumption DEF Writes, Asked, Call, OpNames, Table!Written

(* The arrival of a request is seen when it is to write. *)
LEMMA ReceiveAsks ==
  ASSUME IInv, NEW r \in Request, Receive(r)
  PROVE  [Table!Next]_<<db, Asked, Done>>
<1>1. /\ pc[r] = "idle" /\ pc'[r] = "begun" /\ call'[r] \in Call /\ db' = db
      /\ \A q \in Request \ {r} : pc'[q] = pc[q] /\ call'[q] = call[q]
  BY ReceiveFrame DEF IInv, Receive
<1>2. \A q \in Request \ {r} : Writes(q)' <=> Writes(q)
  BY <1>1 DEF Writes
<1>3. ~Writes(r) /\ (Writes(r)' <=> call'[r].op # "run")
  BY <1>1 DEF Writes
<1>4. Done' = Done
  BY <1>1, <1>2, <1>3 DEF Done
<1>5. CASE call'[r].op = "run"
  <2>1. Asked' = Asked
    BY <1>1, <1>2, <1>3, <1>5 DEF Asked
  <2> QED
    BY <1>1, <1>4, <2>1
<1>6. CASE call'[r].op # "run"
  <2>1. call'[r] \in Table!Written
    BY <1>1, <1>6 DEF Call, OpNames, Table!Written
  <2>2. Asked[r] = NoCall /\ Asked' = [Asked EXCEPT ![r] = call'[r]]
    BY <1>1, <1>2, <1>3, <1>6 DEF Asked
  <2>3. Table!Ask(r)
    BY <1>1, <1>4, <2>1, <2>2 DEF Table!Ask, Asked, Done
  <2> QED
    BY <2>3 DEF Table!Next
<1> QED
  BY <1>5, <1>6

(* The answer "ok" to a writer. *)
LEMMA AnswerSeen ==
  ASSUME IInv, NEW r \in Request, Writes(r), pc[r] # "ok", pc'[r] = "ok", call' = call,
         \A q \in Request \ {r} : pc'[q] = pc[q]
  PROVE  /\ Asked' = Asked /\ Done' = Done \cup {r}
         /\ Asked[r] = call[r] /\ Asked[r] # NoCall /\ r \notin Done
<1>1. \A q \in Request : Writes(q)' <=> Writes(q)
  BY DEF Writes
<1>2. Asked[r] = call[r] /\ Asked[r] # NoCall
  BY WriterAsks DEF IInv
<1> QED
  BY <1>1, <1>2 DEF Asked, Done

(* The commit of a registration is the table's Create or Update. *)
LEMMA CommitAnswers ==
  ASSUME IInv, Keys, NEW r \in Request, Commit(r)
  PROVE  Table!Answer(r)
<1> USE DEF IInv, Handlers
<1> DEFINE w == call[r].wfid
<1>1. /\ pc[r] \in {"flushed", "enqueued"} /\ call' = call /\ pc'[r] = "ok" /\ w \in Wfid
      /\ \A q \in Request \ {r} : pc'[q] = pc[q]
  BY CommitFrame
<1>2. Is(r, "create") \/ Is(r, "update")
  BY <1>1 DEF Role
<1>3. Writes(r)
  BY <1>2 DEF Is, Writes
<1>4. /\ Asked' = Asked /\ Done' = Done \cup {r}
      /\ Asked[r] = call[r] /\ Asked[r] # NoCall /\ r \notin Done
  BY <1>1, <1>3, AnswerSeen
<1>5. db' = [db EXCEPT ![w] = RowAfter(r)]
  BY DEF Commit
<1>6. Writing(r) => Table!Free(w, Target(r), call[r].def.alias)
  BY DEF Keys, Reserved, KeyTaken, Table!Free
<1>7. CASE Is(r, "create")
  <2>1. w \notin Existing
    BY <1>7 DEF Secret
  <2>2. \A q \in Done : ~(Asked[q].op = "create" /\ Asked[q].wfid = w)
    <3> SUFFICES ASSUME NEW q \in Done, Asked[q].op = "create", Asked[q].wfid = w
                 PROVE  FALSE
      OBVIOUS
    <3>1. q \in Request \ {r} /\ Is(q, "create") /\ On(q, w)
      BY <1>4 DEF Done, Asked, Writes, Is, On
    <3> QED
      BY <1>7, <3>1 DEF Secret
  <2>3. Table!Free(w, call[r].prj, call[r].def.alias)
    BY <1>1, <1>6, <1>7 DEF Writing, Target
  <2>4. db' = [db EXCEPT ![w] = [prj |-> call[r].prj, def |-> call[r].def]]
    BY <1>5, <1>7
  <2>5. Table!Create(r) /\ Asked[r].op = "create"
    BY <1>4, <1>7, <2>1, <2>2, <2>3, <2>4 DEF Table!Create, Asked, Done, Is
  <2> QED
    BY <1>4, <2>5 DEF Table!Answer, Asked, Done
<1>8. CASE ~Is(r, "create")
  <2>1. db[w] # NoRow =>
          /\ Table!Free(w, db[w].prj, call[r].def.alias)
          /\ db' = [db EXCEPT ![w] = [prj |-> db[w].prj, def |-> call[r].def]]
    BY <1>1, <1>5, <1>6, <1>8 DEF Writing, Target
  <2>2. db[w] = NoRow => db' = db
    BY <1>1, <1>5, <1>8 DEF TypeOK
  <2>3. Table!Update(r) /\ Asked[r].op = "update"
    BY <1>2, <1>4, <1>8, <2>1, <2>2 DEF Table!Update, Asked, Is
  <2> QED
    BY <1>4, <2>3 DEF Table!Answer, Asked, Done
<1> QED
  BY <1>7, <1>8

(* The commit of a removal is the table's Delete. *)
LEMMA DeleteAnswers ==
  ASSUME IInv, NEW r \in Request, CommitDelete(r)
  PROVE  Table!Answer(r)
<1> USE DEF IInv, Handlers
<1> DEFINE w == call[r].wfid
<1>1. /\ pc[r] = "deleted" /\ call' = call /\ pc'[r] = "ok"
      /\ \A q \in Request \ {r} : pc'[q] = pc[q]
  BY DEF CommitDelete, TypeOK
<1>2. Is(r, "delete")
  BY <1>1 DEF Role
<1>3. Writes(r)
  BY <1>2 DEF Is, Writes
<1>4. /\ Asked' = Asked /\ Done' = Done \cup {r}
      /\ Asked[r] = call[r] /\ Asked[r] # NoCall /\ r \notin Done
  BY <1>1, <1>3, AnswerSeen
<1>5. IF Matches(r) THEN db' = [db EXCEPT ![w] = NoRow] ELSE db' = db
  BY DEF CommitDelete, TypeOK
<1>6. Table!Delete(r) /\ Asked[r].op = "delete"
  BY <1>2, <1>4, <1>5 DEF Table!Delete, Matches, Asked, Is
<1> QED
  BY <1>4, <1>6 DEF Table!Answer, Asked, Done

LEMMA StepTable == IInv /\ Keys /\ [Next]_vars => [Table!Next]_<<db, Asked, Done>>
<1> SUFFICES ASSUME IInv, Keys, [Next]_vars PROVE [Table!Next]_<<db, Asked, Done>>
  OBVIOUS
<1>1. CASE \E r \in Request : Receive(r)
  BY <1>1, ReceiveAsks
<1>2. CASE \E r \in Request : Commit(r)
  BY <1>2, CommitAnswers DEF Table!Next
<1>3. CASE \E r \in Request : CommitDelete(r)
  BY <1>3, DeleteAnswers DEF Table!Next
<1>4. CASE ~\E r \in Request : Receive(r) \/ Commit(r) \/ CommitDelete(r)
  <2>1. db' = db
    BY <1>4, WaitsFrame DEF Next, Serve, Waits, InsertRow, CreateJob, EnqueueJob, UnregisterJob,
         RemoveJob, DeleteRow, ReadWorkflow, EnqueueNotebook, Fail, Fire, vars
  <2>2. ASSUME NEW q \in Request
        PROVE  /\ Writes(q)' <=> Writes(q)
               /\ Writes(q) => call'[q] = call[q]
               /\ Writes(q) => (pc'[q] = "ok" <=> pc[q] = "ok")
    <3> DEFINE Same == /\ Writes(q)' <=> Writes(q)
                       /\ Writes(q) => call'[q] = call[q]
                       /\ Writes(q) => (pc'[q] = "ok" <=> pc[q] = "ok")
    <3> USE DEF IInv, Handlers, TypeOK, Writes
    <3>1. ASSUME NEW r \in Request, ReadWorkflow(r) PROVE Same
      BY <3>1, ReadFrame DEF Is
    <3>2. ASSUME NEW r \in Request, EnqueueNotebook(r) PROVE Same
      BY <3>2 DEF EnqueueNotebook, Role, Is
    <3>3. ASSUME NEW r \in Request,
                 \/ InsertRow(r) \/ Waits(r) \/ CreateJob(r) \/ EnqueueJob(r)
                 \/ UnregisterJob(r) \/ RemoveJob(r) \/ DeleteRow(r) \/ Fail(r)
          PROVE  Same
      BY <3>3, WaitsFrame DEF InsertRow, CreateJob, EnqueueJob, UnregisterJob, RemoveJob,
           DeleteRow, Fail
    <3>4. CASE UNCHANGED vars \/ \E v \in Wfid : Fire(v)
      BY <3>4 DEF vars, Fire
    <3> QED
      BY <1>4, <3>1, <3>2, <3>3, <3>4 DEF Next, Serve, Waits
  <2> QED
    BY <2>1, <2>2, Unseen
<1> QED
  BY <1>1, <1>2, <1>3, <1>4

(* Every create, update and delete takes effect at once where it is answered
   "ok", with its alias free and its id new, or never: the handlers implement
   the table, whatever fails and however they interleave. *)
THEOREM HandlersImplementTable == Spec => ImplementsTable
BY InitTable, StepTable, InvariantKeys, PTL DEF Spec, ImplementsTable, Table!Spec, Asked, Done
=============================================================================
