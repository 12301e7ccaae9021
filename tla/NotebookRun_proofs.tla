------------------------- MODULE NotebookRun_proofs -------------------------
(***************************************************************************)
(* Proofs about NotebookRun, for every set of runs and workflows and every *)
(* combination of faults.  The inductive invariant says, for every place   *)
(* the worker may stand at, what the container and the status can be       *)
(* (Hand), what the notebook's verdict can be for every place of the       *)
(* container (Inner), with what a request on its way was sent (OnWire),    *)
(* and which side wrote a row when (Written, Posted, Reported, Stored).    *)
(* The refinement of RunHistory and the proofs about the events of a run   *)
(* (EventStream) follow.                                                   *)
(***************************************************************************)
EXTENDS NotebookRun, EventStream, SequenceTheorems, WellFoundedInduction, TLAPS

(* The two processes are synchronized only by docker: what the worker has
   seen of the container, by the place where it stands. *)
Hand ==
  \A e \in Exec :
    /\ work[e] \in {"idle", "queued", "prepared"} => box[e] = "none" /\ status[e] = -1
    /\ work[e] \in {"waiting", "expired"} =>
         box[e] \in Inside \cup Exited /\ status[e] = -1
    /\ work[e] = "ended" => \/ status[e] = 0 /\ box[e] = "exited0"
                            \/ status[e] = 1 /\ box[e] = "exited1"
                            \/ status[e] = -1 /\ box[e] = "killed"
    /\ work[e] \in Back => status[e] = -3 \/ box[e] = "removed"
    /\ work[e] \in Back /\ "docker" \notin Faults => box[e] \notin Inside
    /\ work[e] = "reporting" => status[e] # 0
    /\ status[e] = 0 => box[e] \in {"exited0", "removed"} /\ verdict[e] = "ok"

(* The container has a verdict once its notebook has ended. *)
Inner ==
  \A e \in Exec :
    /\ box[e] \in {"none", "started"} => verdict[e] = "none"
    /\ box[e] \in {"ran", "posting", "posted", "uploading", "uploaded"} =>
         verdict[e] \in {"ok", "failed"}
    /\ box[e] = "exited0" => verdict[e] = "ok"

(* Rows and stored notebooks are of runs whose context is fixed. *)
Written ==
  \A x \in rows :
    /\ x.by = "container" =>
         verdict[x.exec] \in {"ok", "failed"} /\ x.status = ResultCode(x.exec)
    /\ x.by = "worker" =>
         x.status = -1 /\ work[x.exec] \in {"done", "lost"} /\ status[x.exec] # 0

(* What the server has recorded, or refused to. *)
Taken(e, side, code) == Recorded(e, code) \/ <<e, side>> \in refused

Posted ==
  \A e \in Exec :
    box[e] \in {"posted", "uploading", "uploaded", "exited0"} \/ status[e] = 0 =>
      Taken(e, "container", ResultCode(e))

Reported ==
  \A e \in Exec : work[e] = "done" /\ status[e] # 0 => Taken(e, "worker", -1)

Stored ==
  \A k \in Key, e \in Exec :
    store[k] = e =>
      /\ verdict[e] \in {"ok", "failed"}
      /\ k.dir = IF verdict[e] = "ok" THEN "ok" ELSE "errors"
      /\ k.name = OutputName(e)
      /\ Taken(e, "container", ResultCode(e))

(* A request says what is settled when it is sent, and a notebook is sent
   after its row was served. *)
OnWire ==
  \A e \in Exec :
    /\ <<e, "container">> \in wire => verdict[e] \in {"ok", "failed"}
    /\ <<e, "notebook">> \in wire =>
         verdict[e] \in {"ok", "failed"} /\ Taken(e, "container", ResultCode(e))
    /\ <<e, "worker">> \in wire => status[e] # 0 /\ work[e] \in {"reporting", "lost"}

IInv == TypeOK /\ Hand /\ Inner /\ OnWire /\ Written /\ Posted /\ Reported /\ Stored

-----------------------------------------------------------------------------
(* Lemmas about the operators. *)

(* The context of a run whose container exists is set. *)
LEMMA ContextSet ==
  ASSUME TypeOK, Hand, NEW e \in Exec, work[e] # "idle" \/ box[e] # "none"
  PROVE  ctx[e] \in Ctx
  BY DEF TypeOK, Hand

(* An output's name is an execid or stands for a workflow, never both. *)
LEMMA NameType ==
  ASSUME NEW e \in Exec, ctx[e] \in Ctx
  PROVE  /\ OutputName(e) \in Exec \cup Workflow
         /\ ctx[e].kind = "periodic" => OutputName(e) = ctx[e].wf
         /\ ctx[e].kind # "periodic" => OutputName(e) = e
         /\ ctx[e].wf \in Workflow
  BY DEF Ctx, OutputName

(* Both sides write rows of the table. *)
LEMMA RowType ==
  ASSUME NEW e \in Exec, ctx[e] \in Ctx,
         NEW side \in Side, NEW code \in {0, -1}
  PROVE  HistoryRow(e, side, code) \in HistRow
  BY DEF Ctx, HistoryRow, HistRow, RowWfid, Side

(* An upload goes to a key of the store. *)
LEMMA KeyType ==
  ASSUME TypeOK, NEW e \in Exec, ctx[e] \in Ctx
  PROVE  UploadKey(e) \in Key
  BY NameType DEF TypeOK, UploadKey, Key

(* The code a result is recorded with. *)
LEMMA CodeType ==
  ASSUME NEW e \in Exec
  PROVE  ResultCode(e) \in {0, -1}
  BY DEF ResultCode

-----------------------------------------------------------------------------
(* Types. *)

LEMMA InitInv == Init => IInv
<1> SUFFICES ASSUME Init PROVE IInv
  OBVIOUS
<1>1. TypeOK
  BY RunAssumption DEF Init, TypeOK, Day, Work, Busy, Box
<1>2. Hand /\ Inner
  BY DEF Init, Hand, Inner, Back
<1>3. OnWire /\ Written /\ Posted /\ Reported /\ Stored
  BY RunAssumption DEF Init, OnWire, Written, Posted, Reported, Stored
<1> QED
  BY <1>1, <1>2, <1>3 DEF IInv

(* Every step keeps the types. *)
LEMMA TypeStep == TypeOK /\ Hand /\ Inner /\ OnWire /\ [Next]_vars => TypeOK'
<1> SUFFICES ASSUME TypeOK, Hand, Inner, OnWire, [Next]_vars PROVE TypeOK'
  OBVIOUS
<1> USE DEF TypeOK, WorkAt, BoxAt, Refuse, Request, Served, Goes, Side, Work, Busy, Box, Inside, Exited, Day
<1>1. ASSUME Midnight PROVE TypeOK'
  BY <1>1, RunAssumption DEF Midnight
<1>2. ASSUME NEW e \in Exec, Enqueue(e) PROVE TypeOK'
  <2>1. ctx' \in [Exec -> Ctx \cup {NoCtx}] /\ ctx'[e] \in Ctx
    BY <1>2, RunAssumption DEF Enqueue, Ctx
  <2> QED
    BY <1>2, <2>1 DEF Enqueue
<1>3. ASSUME NEW e \in Exec, Prepare(e) PROVE TypeOK'
  BY <1>3 DEF Prepare
<1>4. ASSUME NEW e \in Exec, StartContainer(e) PROVE TypeOK'
  BY <1>4 DEF StartContainer
<1>5. ASSUME NEW e \in Exec, SeeExit(e) PROVE TypeOK'
  BY <1>5 DEF SeeExit
<1>6. ASSUME NEW e \in Exec, WaitTimeout(e) PROVE TypeOK'
  BY <1>6 DEF WaitTimeout
<1>7. ASSUME NEW e \in Exec, Kill(e) PROVE TypeOK'
  BY <1>7 DEF Kill
<1>8. ASSUME NEW e \in Exec, Remove(e) PROVE TypeOK'
  BY <1>8 DEF Remove
<1>9. ASSUME NEW e \in Exec, Return(e) PROVE TypeOK'
  BY <1>9 DEF Return
<1>10. ASSUME NEW e \in Exec, Execute(e) PROVE TypeOK'
  BY <1>10 DEF Execute
<1>11. ASSUME NEW e \in Exec, Post(e) PROVE TypeOK'
  BY <1>11 DEF Post
<1>12. ASSUME NEW e \in Exec, Upload(e) PROVE TypeOK'
  BY <1>12 DEF Upload
<1>13. ASSUME NEW e \in Exec, Exit(e) PROVE TypeOK'
  BY <1>13 DEF Exit
<1>14. ASSUME NEW e \in Exec, DockerFails(e) PROVE TypeOK'
  BY <1>14 DEF DockerFails
<1>15. ASSUME NEW e \in Exec, WorkerFails(e) PROVE TypeOK'
  BY <1>15 DEF WorkerFails
<1>16. ASSUME NEW e \in Exec, NEW side \in Side, ServeRow(e, side) PROVE TypeOK'
  <2>1. ctx[e] \in Ctx
    BY <1>16, ContextSet DEF ServeRow, OnWire, Inner
  <2>2. HistoryRow(e, side, IF side = "worker" THEN -1 ELSE ResultCode(e)) \in HistRow
    BY <2>1, RowType, CodeType
  <2> QED
    BY <1>16, <2>2 DEF ServeRow
<1>17. ASSUME NEW e \in Exec, ServeNotebook(e) PROVE TypeOK'
  <2>1. UploadKey(e) \in Key
    BY <1>17, ContextSet, KeyType DEF ServeNotebook, OnWire, Inner
  <2> QED
    BY <1>17, <2>1 DEF ServeNotebook
<1>18. ASSUME NEW e \in Exec, CallFails(e) PROVE TypeOK'
  BY <1>18 DEF CallFails
<1>19. ASSUME UNCHANGED vars PROVE TypeOK'
  BY <1>19 DEF vars
<1> QED
  BY <1>1, <1>2, <1>3, <1>4, <1>5, <1>6, <1>7, <1>8, <1>9, <1>10, <1>11, <1>12, <1>13, <1>14, <1>15, <1>16,
     <1>17, <1>18, <1>19 DEF Next, WorkerStep, ContainerStep, ServerStep

(* What the worker has seen of the container stays true. *)
LEMMA HandStep == TypeOK /\ Hand /\ Inner /\ OnWire /\ [Next]_vars => Hand'
<1> SUFFICES ASSUME TypeOK, Hand, Inner, OnWire, [Next]_vars PROVE Hand'
  OBVIOUS
<1> USE DEF TypeOK, Hand, Inner, OnWire, WorkAt, BoxAt, Goes, Inside, Exited, Busy, Back
<1>1. ASSUME Midnight PROVE Hand'
  BY <1>1 DEF Midnight
<1>2. ASSUME NEW e \in Exec, Enqueue(e) PROVE Hand'
  BY <1>2 DEF Enqueue
<1>3. ASSUME NEW e \in Exec, Prepare(e) PROVE Hand'
  BY <1>3 DEF Prepare
<1>4. ASSUME NEW e \in Exec, StartContainer(e) PROVE Hand'
  BY <1>4 DEF StartContainer
<1>5. ASSUME NEW e \in Exec, SeeExit(e) PROVE Hand'
  BY <1>5 DEF SeeExit
<1>6. ASSUME NEW e \in Exec, WaitTimeout(e) PROVE Hand'
  BY <1>6 DEF WaitTimeout
<1>7. ASSUME NEW e \in Exec, Kill(e) PROVE Hand'
  BY <1>7 DEF Kill
<1>8. ASSUME NEW e \in Exec, Remove(e) PROVE Hand'
  BY <1>8 DEF Remove
<1>9. ASSUME NEW e \in Exec, Return(e) PROVE Hand'
  BY <1>9 DEF Return
<1>10. ASSUME NEW e \in Exec, Execute(e) PROVE Hand'
  BY <1>10 DEF Execute
<1>11. ASSUME NEW e \in Exec, Post(e) PROVE Hand'
  BY <1>11 DEF Post
<1>12. ASSUME NEW e \in Exec, Upload(e) PROVE Hand'
  BY <1>12 DEF Upload
<1>13. ASSUME NEW e \in Exec, Exit(e) PROVE Hand'
  BY <1>13 DEF Exit
<1>14. ASSUME NEW e \in Exec, DockerFails(e) PROVE Hand'
  BY <1>14 DEF DockerFails
<1>15. ASSUME NEW e \in Exec, WorkerFails(e) PROVE Hand'
  BY <1>15 DEF WorkerFails
<1>16. ASSUME NEW e \in Exec, NEW side \in Side, ServeRow(e, side) PROVE Hand'
  BY <1>16 DEF ServeRow
<1>17. ASSUME NEW e \in Exec, ServeNotebook(e) PROVE Hand'
  BY <1>17 DEF ServeNotebook
<1>18. ASSUME NEW e \in Exec, CallFails(e) PROVE Hand'
  BY <1>18 DEF CallFails
<1>19. ASSUME UNCHANGED vars PROVE Hand'
  BY <1>19 DEF vars
<1> QED
  BY <1>1, <1>2, <1>3, <1>4, <1>5, <1>6, <1>7, <1>8, <1>9, <1>10, <1>11, <1>12, <1>13, <1>14, <1>15, <1>16,
     <1>17, <1>18, <1>19 DEF Next, WorkerStep, ContainerStep, ServerStep

(* The verdict follows the container. *)
LEMMA InnerStep == TypeOK /\ Inner /\ Hand /\ [Next]_vars => Inner'
<1> SUFFICES ASSUME TypeOK, Inner, Hand, [Next]_vars PROVE Inner'
  OBVIOUS
<1> USE DEF TypeOK, Inner, Hand, WorkAt, BoxAt, Goes, Inside, Exited, Busy, Back
<1>1. ASSUME Midnight PROVE Inner'
  BY <1>1 DEF Midnight
<1>2. ASSUME NEW e \in Exec, Enqueue(e) PROVE Inner'
  BY <1>2 DEF Enqueue
<1>3. ASSUME NEW e \in Exec, Prepare(e) PROVE Inner'
  BY <1>3 DEF Prepare
<1>4. ASSUME NEW e \in Exec, StartContainer(e) PROVE Inner'
  BY <1>4 DEF StartContainer
<1>5. ASSUME NEW e \in Exec, SeeExit(e) PROVE Inner'
  BY <1>5 DEF SeeExit
<1>6. ASSUME NEW e \in Exec, WaitTimeout(e) PROVE Inner'
  BY <1>6 DEF WaitTimeout
<1>7. ASSUME NEW e \in Exec, Kill(e) PROVE Inner'
  BY <1>7 DEF Kill
<1>8. ASSUME NEW e \in Exec, Remove(e) PROVE Inner'
  BY <1>8 DEF Remove
<1>9. ASSUME NEW e \in Exec, Return(e) PROVE Inner'
  BY <1>9 DEF Return
<1>10. ASSUME NEW e \in Exec, Execute(e) PROVE Inner'
  BY <1>10 DEF Execute
<1>11. ASSUME NEW e \in Exec, Post(e) PROVE Inner'
  BY <1>11 DEF Post
<1>12. ASSUME NEW e \in Exec, Upload(e) PROVE Inner'
  BY <1>12 DEF Upload
<1>13. ASSUME NEW e \in Exec, Exit(e) PROVE Inner'
  BY <1>13 DEF Exit
<1>14. ASSUME NEW e \in Exec, DockerFails(e) PROVE Inner'
  BY <1>14 DEF DockerFails
<1>15. ASSUME NEW e \in Exec, WorkerFails(e) PROVE Inner'
  BY <1>15 DEF WorkerFails
<1>16. ASSUME NEW e \in Exec, NEW side \in Side, ServeRow(e, side) PROVE Inner'
  BY <1>16 DEF ServeRow
<1>17. ASSUME NEW e \in Exec, ServeNotebook(e) PROVE Inner'
  BY <1>17 DEF ServeNotebook
<1>18. ASSUME NEW e \in Exec, CallFails(e) PROVE Inner'
  BY <1>18 DEF CallFails
<1>19. ASSUME UNCHANGED vars PROVE Inner'
  BY <1>19 DEF vars
<1> QED
  BY <1>1, <1>2, <1>3, <1>4, <1>5, <1>6, <1>7, <1>8, <1>9, <1>10, <1>11, <1>12, <1>13, <1>14, <1>15, <1>16,
     <1>17, <1>18, <1>19 DEF Next, WorkerStep, ContainerStep, ServerStep

-----------------------------------------------------------------------------
(* Rows are only added, and verdict and context do not change once they have
   been used: what is recorded stays true. *)

(* No row is ever taken back. *)
LEMMA RowsStay == [Next]_vars => rows \subseteq rows'
  BY DEF Next, WorkerStep, ContainerStep, vars, Midnight, Enqueue, Prepare,
         StartContainer, SeeExit, WaitTimeout, Kill, Remove, Return, Execute,
         Post, Upload, Exit, DockerFails, WorkerFails,
         ServerStep, ServeRow, ServeNotebook, CallFails

(* The verdict, the context and a result's code are fixed once there is a
   verdict. *)
LEMMA VerdictStays ==
  ASSUME TypeOK, Hand, Inner, [Next]_vars, NEW e \in Exec, verdict[e] # "none"
  PROVE  /\ verdict'[e] = verdict[e] /\ ctx'[e] = ctx[e]
         /\ ResultCode(e)' = ResultCode(e) /\ OutputName(e)' = OutputName(e)
<1>1. verdict'[e] = verdict[e]
  <2>1. ASSUME NEW f \in Exec, Execute(f) PROVE verdict'[e] = verdict[e]
    BY <2>1 DEF Execute, Inner, TypeOK
  <2> QED
    BY <2>1 DEF Next, WorkerStep, ContainerStep, vars, Midnight, Enqueue, Prepare,
         StartContainer, SeeExit, WaitTimeout, Kill, Remove, Return, Post, Upload,
         Exit, DockerFails, WorkerFails,
         ServerStep, ServeRow, ServeNotebook, CallFails
<1>2. ctx'[e] = ctx[e]
  <2>1. ASSUME NEW f \in Exec, Enqueue(f) PROVE ctx'[e] = ctx[e]
    BY <2>1 DEF Enqueue, Inner, Hand, TypeOK
  <2> QED
    BY <2>1 DEF Next, WorkerStep, ContainerStep, vars, Midnight, Prepare,
         StartContainer, SeeExit, WaitTimeout, Kill, Remove, Return, Execute, Post,
         Upload, Exit, DockerFails, WorkerFails,
         ServerStep, ServeRow, ServeNotebook, CallFails
<1> QED
  BY <1>1, <1>2 DEF ResultCode, OutputName

(* A worker that has ended stays where it is, with the status it had. *)
LEMMA EndStays ==
  ASSUME TypeOK, [Next]_vars, NEW e \in Exec, work[e] \in {"done", "lost"}
  PROVE  work'[e] = work[e] /\ status'[e] = status[e]
  BY DEF TypeOK, WorkAt, Goes, Busy, Next, WorkerStep, ContainerStep, vars, Midnight,
         Enqueue, Prepare, StartContainer, SeeExit, WaitTimeout, Kill, Remove,
         Return, Execute, Post, Upload, Exit, DockerFails, WorkerFails,
         ServerStep, ServeRow, ServeNotebook, CallFails

(* A row comes from a request that the server serves. *)
LEMMA NewRow ==
  ASSUME [Next]_vars, NEW x \in rows', x \notin rows
  PROVE  \E e \in Exec, side \in Side :
           /\ ServeRow(e, side)
           /\ x = HistoryRow(e, side, IF side = "worker" THEN -1 ELSE ResultCode(e))
<1>1. PICK e \in Exec, side \in Side : ServeRow(e, side)
  BY DEF Next, WorkerStep, ContainerStep, vars, Midnight, Enqueue, Prepare,
         StartContainer, SeeExit, WaitTimeout, Kill, Remove, Return, Execute, Post,
         Upload, Exit, DockerFails, WorkerFails, ServerStep, ServeNotebook, CallFails
<1> QED
  BY <1>1 DEF ServeRow

(* Every row is the work of the side it names. *)
LEMMA WrittenStep == TypeOK /\ Hand /\ Inner /\ OnWire /\ Written /\ [Next]_vars => Written'
<1> SUFFICES ASSUME TypeOK, Hand, Inner, OnWire, Written, [Next]_vars, NEW x \in rows'
             PROVE  /\ x.by = "container" =>
                         /\ verdict'[x.exec] \in {"ok", "failed"}
                         /\ x.status = ResultCode(x.exec)'
                    /\ x.by = "worker" =>
                         /\ x.status = -1 /\ work'[x.exec] \in {"done", "lost"}
                         /\ status'[x.exec] # 0
  BY DEF Written
<1>1. CASE x \in rows
  <2>1. x.exec \in Exec
    BY <1>1 DEF TypeOK, HistRow
  <2>2. x.by = "container" =>
          verdict'[x.exec] \in {"ok", "failed"} /\ x.status = ResultCode(x.exec)'
    BY <1>1, <2>1, VerdictStays DEF Written
  <2> QED
    BY <1>1, <2>1, <2>2, EndStays DEF Written
<1>2. CASE x \notin rows
  <2>1. PICK e \in Exec, side \in Side :
          /\ ServeRow(e, side)
          /\ x = HistoryRow(e, side, IF side = "worker" THEN -1 ELSE ResultCode(e))
    BY <1>2, NewRow
  <2>2. x.exec = e /\ x.by = side
    BY <2>1 DEF HistoryRow
  <2>3. CASE side = "container"
    <3>1. x.status = ResultCode(e) /\ verdict[e] \in {"ok", "failed"}
      BY <2>1, <2>3 DEF HistoryRow, ServeRow, Served, OnWire
    <3> QED
      BY <2>2, <2>3, <3>1, VerdictStays
  <2>4. CASE side = "worker"
    <3>1. x.status = -1 /\ status[e] # 0 /\ work[e] \in {"reporting", "lost"}
      BY <2>1, <2>4 DEF HistoryRow, ServeRow, Served, OnWire
    <3>2. status'[e] = status[e] /\ work'[e] \in {"done", "lost"}
      BY <2>1, <2>4, <3>1 DEF ServeRow, Goes, TypeOK
    <3> QED
      BY <2>2, <2>4, <3>1, <3>2
  <2> QED
    BY <2>3, <2>4 DEF Side
<1> QED
  BY <1>1, <1>2

(* A stored notebook comes from a request that the server serves. *)
LEMMA NewNotebook ==
  ASSUME [Next]_vars, NEW k \in Key, store'[k] # store[k]
  PROVE  \E e \in Exec : ServeNotebook(e)
  BY DEF Next, WorkerStep, ContainerStep, vars, Midnight, Enqueue, Prepare,
         StartContainer, SeeExit, WaitTimeout, Kill, Remove, Return, Execute, Post,
         Upload, Exit, DockerFails, WorkerFails, ServerStep, ServeRow, CallFails

(* A refusal is never forgotten. *)
LEMMA RefusedStays == [Next]_vars => refused \subseteq refused'
  BY DEF Next, WorkerStep, ContainerStep, vars, Midnight, Enqueue, Prepare,
         StartContainer, SeeExit, WaitTimeout, Kill, Remove, Return, Execute,
         Post, Upload, Exit, DockerFails, WorkerFails,
         ServerStep, ServeRow, ServeNotebook, CallFails, Refuse

(* What the server took or refused stays so. *)
LEMMA TakenStays ==
  ASSUME [Next]_vars, NEW e, NEW side, NEW code, Taken(e, side, code)
  PROVE  Taken(e, side, code)'
  BY RowsStay, RefusedStays DEF Taken, Recorded

(* What is on its way keeps saying what it was sent with. *)
LEMMA OnWireStep ==
  TypeOK /\ Hand /\ Inner /\ OnWire /\ Posted /\ [Next]_vars => OnWire'
<1> SUFFICES ASSUME TypeOK, Hand, Inner, OnWire, Posted, [Next]_vars, NEW e \in Exec
             PROVE  /\ <<e, "container">> \in wire' => verdict'[e] \in {"ok", "failed"}
                    /\ <<e, "notebook">> \in wire' =>
                         /\ verdict'[e] \in {"ok", "failed"}
                         /\ Taken(e, "container", ResultCode(e))'
                    /\ <<e, "worker">> \in wire' =>
                         status'[e] # 0 /\ work'[e] \in {"reporting", "lost"}
  BY DEF OnWire
<1>1. ASSUME NEW what, <<e, what>> \in wire', <<e, what>> \notin wire
      PROVE  \/ what = "container" /\ Post(e)
             \/ what = "notebook" /\ Upload(e)
             \/ what = "worker" /\ Return(e) /\ work'[e] = "reporting" /\ status'[e] # 0
  <2>1. ASSUME NEW f \in Exec, Post(f) PROVE f = e /\ what = "container"
    BY <1>1, <2>1 DEF Post, Request
  <2>2. ASSUME NEW f \in Exec, Upload(f) PROVE f = e /\ what = "notebook"
    BY <1>1, <2>2 DEF Upload, Request
  <2>3. ASSUME NEW f \in Exec, Return(f)
        PROVE  f = e /\ what = "worker" /\ work'[e] = "reporting" /\ status'[e] # 0
    BY <1>1, <2>3 DEF Return, Request, WorkAt, TypeOK
  <2>4. \E f \in Exec : Post(f) \/ Upload(f) \/ Return(f)
    BY <1>1 DEF Next, WorkerStep, ContainerStep, vars, Midnight, Enqueue, Prepare,
         StartContainer, SeeExit, WaitTimeout, Kill, Remove, Execute, Exit, DockerFails,
         WorkerFails, ServerStep, ServeRow, ServeNotebook, CallFails, Served
  <2> QED
    BY <2>1, <2>2, <2>3, <2>4
<1>2. <<e, "container">> \in wire' => verdict'[e] \in {"ok", "failed"}
  <2>1. ASSUME Post(e) PROVE verdict[e] \in {"ok", "failed"}
    BY <2>1 DEF Post, Inner
  <2>2. <<e, "container">> \in wire' /\ <<e, "container">> \notin wire => Post(e)
    BY <1>1
  <2>3. <<e, "container">> \in wire' => verdict[e] \in {"ok", "failed"}
    BY <2>1, <2>2 DEF OnWire
  <2> QED
    BY <2>3, VerdictStays
<1>3. <<e, "notebook">> \in wire' =>
        verdict'[e] \in {"ok", "failed"} /\ Taken(e, "container", ResultCode(e))'
  <2>1. ASSUME Upload(e)
        PROVE  verdict[e] \in {"ok", "failed"} /\ Taken(e, "container", ResultCode(e))
    BY <2>1 DEF Upload, Inner, Posted
  <2>2. <<e, "notebook">> \in wire' /\ <<e, "notebook">> \notin wire => Upload(e)
    BY <1>1
  <2>3. <<e, "notebook">> \in wire' =>
          verdict[e] \in {"ok", "failed"} /\ Taken(e, "container", ResultCode(e))
    BY <2>1, <2>2 DEF OnWire
  <2> QED
    BY <2>3, VerdictStays, RowsStay, RefusedStays DEF Taken, Recorded
<1>4. <<e, "worker">> \in wire' => status'[e] # 0 /\ work'[e] \in {"reporting", "lost"}
  <2> SUFFICES ASSUME <<e, "worker">> \in wire', <<e, "worker">> \in wire
               PROVE  status'[e] # 0 /\ work'[e] \in {"reporting", "lost"}
    BY <1>1
  <2>1. status[e] # 0 /\ work[e] \in {"reporting", "lost"}
    BY DEF OnWire
  <2>2. status'[e] = status[e]
    BY <2>1 DEF TypeOK, Next, WorkerStep, ContainerStep, vars, Midnight, Enqueue, Prepare,
         StartContainer, SeeExit, WaitTimeout, Kill, Remove, Return, Execute, Post, Upload,
         Exit, DockerFails, WorkerFails, ServerStep, ServeRow, ServeNotebook, CallFails
  <2>3. ASSUME NEW f \in Exec, NEW side \in Side, ServeRow(f, side)
        PROVE  work'[e] = work[e]
    BY <2>3 DEF ServeRow, Served, Goes, TypeOK
  <2>4. work'[e] \in {"reporting", "lost"}
    BY <2>1, <2>3 DEF TypeOK, WorkAt, Next, WorkerStep, ContainerStep, vars, Midnight, Enqueue,
         Prepare, StartContainer, SeeExit, WaitTimeout, Kill, Remove, Return, Execute, Post,
         Upload, Exit, DockerFails, WorkerFails, ServerStep, ServeNotebook, CallFails
  <2> QED
    BY <2>1, <2>2, <2>4
<1> QED
  BY <1>2, <1>3, <1>4

(* A container past its post and a worker that saw code 0 have the
   container's row, or its refusal. *)
LEMMA PostedStep == TypeOK /\ Hand /\ Inner /\ OnWire /\ Posted /\ [Next]_vars => Posted'
<1> SUFFICES ASSUME TypeOK, Hand, Inner, OnWire, Posted, [Next]_vars,
                    NEW e \in Exec,
                    box'[e] \in {"posted", "uploading", "uploaded", "exited0"} \/ status'[e] = 0
             PROVE  Taken(e, "container", ResultCode(e))'
  BY DEF Posted
<1>1. CASE box[e] \in {"posted", "uploading", "uploaded", "exited0"} \/ status[e] = 0
  <2>1. verdict[e] # "none"
    BY <1>1 DEF Inner, Hand
  <2>2. Taken(e, "container", ResultCode(e)) /\ ResultCode(e)' = ResultCode(e)
    BY <1>1, <2>1, VerdictStays DEF Posted
  <2> QED
    BY <2>2, RowsStay, RefusedStays DEF Taken, Recorded
<1>2. CASE ~(box[e] \in {"posted", "uploading", "uploaded", "exited0"} \/ status[e] = 0)
  <2>1. ServeRow(e, "container")
    BY <1>2 DEF TypeOK, BoxAt, Goes, Side, Next, WorkerStep, ContainerStep, vars, Midnight,
         Enqueue, Prepare, StartContainer, SeeExit, WaitTimeout, Kill, Remove,
         Return, Execute, Post, Upload, Exit, DockerFails, WorkerFails, ServerStep,
         ServeRow, ServeNotebook, CallFails
  <2>2. /\ \/ HistoryRow(e, "container", ResultCode(e)) \in rows'
           \/ <<e, "container">> \in refused'
        /\ verdict[e] # "none"
    BY <2>1 DEF ServeRow, Served, OnWire, Refuse
  <2>3. ResultCode(e)' = ResultCode(e)
    BY <2>2, VerdictStays
  <2> QED
    BY <2>2, <2>3 DEF Taken, Recorded, HistoryRow
<1> QED
  BY <1>1, <1>2

(* A worker that is done after a failure has reported it, or was refused. *)
LEMMA ReportedStep == TypeOK /\ Hand /\ Reported /\ [Next]_vars => Reported'
<1> SUFFICES ASSUME TypeOK, Hand, Reported, [Next]_vars,
                    NEW e \in Exec, work'[e] = "done", status'[e] # 0
             PROVE  Taken(e, "worker", -1)'
  BY DEF Reported
<1>1. CASE work[e] = "done"
  BY <1>1, EndStays, TakenStays DEF Reported
<1>2. CASE work[e] # "done"
  <2>1. ASSUME NEW f \in Exec, Return(f) PROVE FALSE
    BY <1>2, <2>1 DEF Return, WorkAt, TypeOK
  <2>2. ASSUME NEW f \in Exec, NEW side \in Side, ServeRow(f, side)
        PROVE  f = e /\ side = "worker"
    BY <1>2, <2>2 DEF ServeRow, Goes, TypeOK
  <2>3. ServeRow(e, "worker")
    BY <1>2, <2>1, <2>2 DEF TypeOK, WorkAt, Next, WorkerStep, ContainerStep, vars, Midnight,
         Enqueue, Prepare, StartContainer, SeeExit, WaitTimeout, Kill, Remove,
         Execute, Post, Upload, Exit, DockerFails, WorkerFails, ServerStep,
         ServeNotebook, CallFails
  <2>4. HistoryRow(e, "worker", -1) \in rows' \/ <<e, "worker">> \in refused'
    BY <2>3 DEF ServeRow, Refuse
  <2> QED
    BY <2>4 DEF Taken, Recorded, HistoryRow
<1> QED
  BY <1>1, <1>2

(* Every stored notebook is its run's, under the run's own name and the
   directory of its verdict, and came after its row. *)
LEMMA StoredStep ==
  TypeOK /\ Hand /\ Inner /\ OnWire /\ Stored /\ [Next]_vars => Stored'
<1> SUFFICES ASSUME TypeOK, Hand, Inner, OnWire, Stored, [Next]_vars,
                    NEW k \in Key, NEW e \in Exec, store'[k] = e
             PROVE  /\ verdict'[e] \in {"ok", "failed"}
                    /\ k.dir = IF verdict'[e] = "ok" THEN "ok" ELSE "errors"
                    /\ k.name = OutputName(e)'
                    /\ Taken(e, "container", ResultCode(e))'
  BY DEF Stored
<1>1. /\ verdict[e] \in {"ok", "failed"}
      /\ k.dir = IF verdict[e] = "ok" THEN "ok" ELSE "errors"
      /\ k.name = OutputName(e)
      /\ Taken(e, "container", ResultCode(e))
  <2>1. CASE store'[k] = store[k]
    BY <2>1 DEF Stored
  <2>2. CASE store'[k] # store[k]
    <3>1. PICK f \in Exec : ServeNotebook(f)
      BY <2>2, NewNotebook
    <3>2. e = f /\ k = UploadKey(f) /\ <<f, "notebook">> \in wire
      BY <2>2, <3>1 DEF ServeNotebook, Served, TypeOK
    <3> QED
      BY <3>1, <3>2 DEF OnWire, UploadKey
  <2> QED
    BY <2>1, <2>2
<1>2. /\ verdict'[e] = verdict[e] /\ OutputName(e)' = OutputName(e)
      /\ ResultCode(e)' = ResultCode(e)
  BY <1>1, VerdictStays
<1>3. Taken(e, "container", ResultCode(e))'
  BY <1>1, <1>2, RowsStay, RefusedStays DEF Taken, Recorded
<1> QED
  BY <1>1, <1>2, <1>3

-----------------------------------------------------------------------------
(* The theorems. *)

(* The inductive invariant holds in every reachable state. *)
LEMMA Invariance == Spec => []IInv
<1>1. Init => IInv
  BY InitInv
<1>2. IInv /\ [Next]_vars => IInv'
  BY TypeStep, HandStep, InnerStep, OnWireStep, WrittenStep, PostedStep, ReportedStep,
     StoredStep DEF IInv
<1> QED
  BY <1>1, <1>2, PTL DEF Spec

(* Every action keeps the types, whatever fails. *)
THEOREM TypeCorrect == Spec => []TypeOK
<1>1. IInv => TypeOK
  BY DEF IInv
<1> QED
  BY <1>1, Invariance, PTL

(* history.create: a success is never recorded for a notebook that did not run
   to its end, and a failure of one that did is the worker's word. *)
THEOREM HistoryIsTrue == Spec => []RowsTellTheTruth
<1>1. IInv => RowsTellTheTruth
  <2> SUFFICES ASSUME IInv, NEW x \in rows
               PROVE  /\ x.status = 0 => verdict[x.exec] = "ok"
                      /\ x.status # 0 /\ verdict[x.exec] = "ok" =>
                           x.by = "worker" /\ status[x.exec] # 0
    BY DEF RowsTellTheTruth
  <2>1. x.by \in {"container", "worker"}
    BY DEF IInv, TypeOK, HistRow, Side
  <2> QED
    BY <2>1 DEF IInv, Written, ResultCode
<1> QED
  BY <1>1, Invariance, PTL

(* DockerCommand.run leaves no container behind without saying so in its
   status. *)
THEOREM ContainersGo == Spec => []ContainerGone
<1>1. IInv => ContainerGone
  BY DEF IInv, Hand, ContainerGone
<1> QED
  BY <1>1, Invariance, PTL

(* While docker's calls succeed, a returned worker has no running container:
   it was seen to exit, or killed. *)
THEOREM NoRunaway == ASSUME "docker" \notin Faults PROVE Spec => []NothingRunsOn
<1>1. IInv => NothingRunsOn
  BY DEF IInv, Hand, NothingRunsOn
<1> QED
  BY <1>1, Invariance, PTL

(* docker_exec and local_exec_env together record every outcome, although
   neither knows what the other has recorded. *)
THEOREM OutcomesRecorded == Spec => []OutcomeRecorded
<1>1. IInv => OutcomeRecorded
  <2> SUFFICES ASSUME IInv, NEW e \in Exec, work[e] = "done"
               PROVE  \/ Recorded(e, IF status[e] = 0 THEN 0 ELSE -1)
                      \/ <<e, IF status[e] = 0 THEN "container" ELSE "worker">> \in refused
    BY DEF OutcomeRecorded
  <2>1. CASE status[e] = 0
    BY <2>1 DEF IInv, Hand, Posted, ResultCode, Taken
  <2>2. CASE status[e] # 0
    BY <2>2 DEF IInv, Reported, Taken
  <2> QED
    BY <2>1, <2>2
<1> QED
  BY <1>1, Invariance, PTL

(* NBTaskExecBase.register: the row comes before the notebook. *)
THEOREM OutputsHaveRows == Spec => []OutputHasRow
<1>1. IInv => OutputHasRow
  <2> SUFFICES ASSUME IInv, NEW k \in Key, NEW e \in Exec, store[k] = e
               PROVE  \/ Recorded(e, IF k.dir = "ok" THEN 0 ELSE -1)
                      \/ <<e, "container">> \in refused
    BY DEF OutputHasRow, IInv, TypeOK
  <2> QED
    BY DEF IInv, Stored, ResultCode, Taken
<1> QED
  BY <1>1, Invariance, PTL

(* create_notebook_ctx: the execid in the name keeps the outputs of manual
   runs apart. *)
THEOREM ManualOutputsKept == Spec => OnlyPeriodicOverwrites
<1>1. ASSUME IInv, [Next]_vars, NEW k \in Key, store[k] # NoExec, store'[k] # store[k]
      PROVE  /\ ctx[store[k]].kind = "periodic" /\ ctx[store'[k]].kind = "periodic"
             /\ ctx[store[k]].wf = ctx[store'[k]].wf
  <2>1. PICK f \in Exec : ServeNotebook(f)
    BY <1>1, NewNotebook
  <2>2. store'[k] = f /\ k = UploadKey(f) /\ verdict[f] # "none"
    BY <1>1, <2>1 DEF ServeNotebook, Served, OnWire, IInv, TypeOK
  <2>3. PICK e \in Exec : store[k] = e
    BY <1>1 DEF IInv, TypeOK
  <2>4. OutputName(e) = OutputName(f) /\ e # f
    BY <1>1, <2>2, <2>3 DEF IInv, Stored, UploadKey
  <2>5. ctx[e] \in Ctx /\ ctx[f] \in Ctx
    <3>1. box[e] # "none" /\ box[f] # "none"
      BY <1>1, <2>2, <2>3 DEF IInv, Stored, Inner
    <3> QED
      BY <1>1, <3>1, ContextSet DEF IInv
  <2>6. /\ ctx[e].kind = "periodic" => OutputName(e) = ctx[e].wf
        /\ ctx[e].kind # "periodic" => OutputName(e) = e
        /\ ctx[f].kind = "periodic" => OutputName(f) = ctx[f].wf
        /\ ctx[f].kind # "periodic" => OutputName(f) = f
        /\ ctx[e].wf \in Workflow /\ ctx[f].wf \in Workflow
    BY <2>5, NameType
  <2> QED
    BY <2>2, <2>3, <2>4, <2>6, RunAssumption
<1>2. IInv /\ [Next]_vars =>
        [\A k \in Key :
          store[k] # NoExec /\ store'[k] # store[k] =>
            /\ ctx[store[k]].kind = "periodic" /\ ctx[store'[k]].kind = "periodic"
            /\ ctx[store[k]].wf = ctx[store'[k]].wf]_vars
  BY <1>1
<1> QED
  BY <1>2, Invariance, PTL DEF Spec, OnlyPeriodicOverwrites

-----------------------------------------------------------------------------
(* The two processes of a run implement RunHistory.  What RunHistory sees of a
   state: of the container, *)
Stages == [e \in Exec |-> Stage(box[e])]
Codes  == [e \in Exec |-> Code(e)]
Adrift == {e \in Exec : status[e] = -3}
Ended  == {e \in Exec : work[e] \in {"reporting", "done", "lost"}}

LEMMA StageMoves ==
  ASSUME TypeOK, NEW e \in Exec, NEW place, BoxAt(e, place)
  PROVE  /\ Stages' = [Stages EXCEPT ![e] = Stage(place)]
         /\ Stage(place) = Stage(box[e]) => Stages' = Stages
<1>1. \A f \in Exec : box'[f] = IF f = e THEN place ELSE box[f]
  BY DEF TypeOK, BoxAt
<1>2. \A f \in Exec : Stage(box'[f]) = IF f = e THEN Stage(place) ELSE Stage(box[f])
  BY <1>1
<1> QED
  BY <1>2, Zenon DEF Stages

LEMMA StageStays == UNCHANGED box => Stages' = Stages
  BY DEF Stages

(* of a container that may wait for the answer, *)
LEMMA AnswerMoves ==
  ASSUME TypeOK, NEW e \in Exec, NEW from, NEW to, box' = Goes(box, e, from, to)
  PROVE  /\ box[e] = from => BoxAt(e, to)
         /\ box[e] # from => UNCHANGED box
<1>1. box = [f \in Exec |-> box[f]]
  BY DEF TypeOK
<1>2. box[e] # from => \A f \in Exec : box'[f] = box[f]
  BY <1>1 DEF Goes, TypeOK
<1>3. box' = [f \in Exec |-> box'[f]]
  BY <1>1 DEF Goes
<1> QED
  BY <1>1, <1>2, <1>3 DEF Goes, BoxAt

(* of its notebook, *)
LEMMA CodeStays == UNCHANGED verdict => Codes' = Codes
  BY DEF Codes, Code, ResultCode

LEMMA CodeMoves ==
  ASSUME TypeOK, NEW e \in Exec, NEW v, v # "none", verdict' = [verdict EXCEPT ![e] = v]
  PROVE  Codes' = [Codes EXCEPT ![e] = IF v = "ok" THEN 0 ELSE -1]
<1>1. \A f \in Exec : Code(f)' = IF f = e THEN IF v = "ok" THEN 0 ELSE -1 ELSE Code(f)
  BY DEF TypeOK, Code, ResultCode
<1> QED
  BY <1>1, Zenon DEF Codes

(* of what docker told, *)
LEMMA AdriftStays == UNCHANGED status => Adrift' = Adrift
  BY DEF Adrift

LEMMA AdriftMoves ==
  ASSUME TypeOK, NEW e \in Exec, status' = [status EXCEPT ![e] = -3]
  PROVE  Adrift' = Adrift \cup {e}
  BY DEF TypeOK, Adrift

(* and of its worker. *)
LEMMA EndedStays ==
  ASSUME TypeOK, NEW e \in Exec, NEW l, WorkAt(e, l),
         work[e] \in {"reporting", "done", "lost"} <=> l \in {"reporting", "done", "lost"}
  PROVE  Ended' = Ended
  BY DEF TypeOK, WorkAt, Ended

LEMMA EndedMoves ==
  ASSUME TypeOK, NEW e \in Exec, NEW l \in {"reporting", "done", "lost"}, WorkAt(e, l),
         work[e] \notin {"reporting", "done", "lost"}
  PROVE  e \notin Ended /\ Ended' = Ended \cup {e}
  BY DEF TypeOK, WorkAt, Ended

LEMMA EndedSame == UNCHANGED work => Ended' = Ended
  BY DEF Ended

(* What RunHistory has of the server's state is the same here and there. *)
ServerKept == <<rows, store, wire, refused>>

(* The steps RunHistory does not see: the calendar, the queue, and what passes
   between a worker and docker. *)
LEMMA Unseen ==
  ASSUME TypeOK, Hand,
         \/ Midnight \/ UNCHANGED vars
         \/ \E e \in Exec : \/ Enqueue(e) \/ Prepare(e) \/ SeeExit(e) \/ WaitTimeout(e)
                            \/ Remove(e) \/ Exit(e)
  PROVE  UNCHANGED History!vars
<1>1. UNCHANGED ServerKept /\ UNCHANGED verdict
  BY DEF vars, ServerKept, Midnight, Enqueue, Prepare, SeeExit, WaitTimeout, Remove, Exit
<1>2. Stages' = Stages
  <2>1. ASSUME NEW e \in Exec, Remove(e) \/ Exit(e) PROVE Stages' = Stages
    <3>1. \E l \in {"removed", "exited0", "exited1"} : BoxAt(e, l)
      BY <2>1 DEF Remove, Exit
    <3>2. box[e] \in {"exited0", "exited1", "killed", "uploaded"}
      BY <2>1 DEF Remove, Exit, Hand
    <3> QED
      BY <3>1, <3>2, StageMoves DEF Stage
  <2> QED
    BY <2>1, StageStays DEF vars, Midnight, Enqueue, Prepare, SeeExit, WaitTimeout
<1>3. Ended' = Ended
  <2>1. ASSUME NEW e \in Exec,
               Enqueue(e) \/ Prepare(e) \/ SeeExit(e) \/ WaitTimeout(e) \/ Remove(e)
        PROVE  Ended' = Ended
    <3>1. /\ work[e] \notin {"reporting", "done", "lost"}
          /\ \E l : WorkAt(e, l) /\ l \notin {"reporting", "done", "lost"}
      BY <2>1 DEF Enqueue, Prepare, SeeExit, WaitTimeout, Remove
    <3> QED
      BY <3>1, EndedStays
  <2> QED
    BY <2>1, EndedSame DEF vars, Midnight, Exit
<1>4. Adrift' = Adrift
  <2>1. ASSUME NEW e \in Exec, SeeExit(e) PROVE Adrift' = Adrift
    BY <2>1 DEF SeeExit, Hand, TypeOK, Adrift
  <2> QED
    BY <2>1, AdriftStays DEF vars, Midnight, Enqueue, Prepare, WaitTimeout, Remove, Exit
<1> QED
  BY <1>1, <1>2, <1>3, <1>4, CodeStays
     DEF History!vars, ServerKept, Stages, Codes, Adrift, Ended

(* What the container does and says. *)
LEMMA ContainerRefines ==
  ASSUME TypeOK, Hand, Inner, NEW e \in Exec,
         StartContainer(e) \/ Execute(e) \/ Post(e) \/ Upload(e)
  PROVE  History!Next
<1>1. Stages[e] = Stage(box[e]) /\ Codes[e] = Code(e) /\ e \in DOMAIN Codes
  BY DEF Stages, Codes
<1>2. Adrift' = Adrift /\ UNCHANGED <<rows, store, refused>>
  BY AdriftStays DEF StartContainer, Execute, Post, Upload
<1>3. CASE StartContainer(e)
  <2>1. box[e] = "none" /\ e \notin Ended /\ BoxAt(e, "started")
    BY <1>3 DEF StartContainer, Hand, Ended
  <2>2. Stages[e] = "none" /\ Stages' = [Stages EXCEPT ![e] = "open"]
    BY <1>1, <2>1, StageMoves DEF Stage
  <2>3. Ended' = Ended /\ Codes' = Codes /\ UNCHANGED wire
    BY <1>3, EndedStays, CodeStays DEF StartContainer
  <2>4. History!Start(e)
    BY <1>2, <2>1, <2>2, <2>3
       DEF History!Start, History!StageAt, Stages, Codes, Adrift, Ended
  <2> QED
    BY <2>4 DEF History!Next
<1>4. CASE Execute(e)
  <2>1. Stages[e] = "open" /\ Codes[e] = 1
    BY <1>1, <1>4 DEF Execute, Inner, Stage, Code
  <2>2. Ended' = Ended /\ UNCHANGED wire
    BY <1>4, EndedSame DEF Execute
  <2>3. \/ \E c \in {0, -1} : Codes' = [Codes EXCEPT ![e] = c] /\ Stages' = Stages
        \/ Codes' = [Codes EXCEPT ![e] = -1] /\ Stages' = [Stages EXCEPT ![e] = "shut"]
    <3>1. CASE \E v \in {"ok", "failed"} :
                 verdict' = [verdict EXCEPT ![e] = v] /\ BoxAt(e, "ran")
      <4>1. Stages' = Stages
        BY <1>4, <3>1, StageMoves DEF Execute, Stage
      <4>2. \E c \in {0, -1} : Codes' = [Codes EXCEPT ![e] = c]
        BY <3>1, CodeMoves
      <4> QED
        BY <4>1, <4>2
    <3>2. CASE verdict' = [verdict EXCEPT ![e] = "crashed"] /\ BoxAt(e, "exited1")
      <4>1. Stages' = [Stages EXCEPT ![e] = "shut"]
        BY <3>2, StageMoves DEF Stage
      <4>2. /\ Codes' = [Codes EXCEPT ![e] = IF "crashed" = "ok" THEN 0 ELSE -1]
            /\ "crashed" # "ok"
        BY <3>2, CodeMoves
      <4> QED
        BY <4>1, <4>2
    <3> QED
      BY <1>4, <3>1, <3>2 DEF Execute
  <2>4. History!Settle(e)
    BY <1>1, <1>2, <2>1, <2>2, <2>3
       DEF History!Settle, History!StageAt, History!Unknown, Stages, Codes, Adrift, Ended
  <2> QED
    BY <2>4 DEF History!Next
<1>5. CASE Post(e) \/ Upload(e)
  <2>1. Ended' = Ended /\ Codes' = Codes
    BY <1>5, EndedSame, CodeStays DEF Post, Upload
  <2>2. \/ /\ Stages[e] = "open" /\ Codes[e] # 1 /\ wire' = wire \cup {<<e, "container">>}
           /\ Stages' = [Stages EXCEPT ![e] = "posting"]
        \/ /\ Stages[e] = "posted" /\ wire' = wire \cup {<<e, "notebook">>}
           /\ Stages' = [Stages EXCEPT ![e] = "uploading"]
    BY <1>1, <1>5, StageMoves DEF Post, Upload, Request, Inner, Stage, Code, ResultCode
  <2>3. History!Say(e)
    BY <1>2, <2>1, <2>2
       DEF History!Say, History!StageAt, History!Unknown, Stages, Codes, Adrift, Ended
  <2> QED
    BY <2>3 DEF History!Next
<1> QED
  BY <1>3, <1>4, <1>5

(* A row that is served, *)
LEMMA RowRefines ==
  ASSUME IInv, NEW e \in Exec, NEW side \in Side, ServeRow(e, side)
  PROVE  History!Next
<1> USE DEF IInv
<1> DEFINE c == IF side = "worker" THEN -1 ELSE ResultCode(e)
<1>1. <<e, side>> \in wire /\ wire' = wire \ {<<e, side>>} /\ UNCHANGED store
  BY DEF ServeRow, Served
<1>2. Adrift' = Adrift /\ Codes' = Codes
  BY AdriftStays, CodeStays DEF ServeRow
<1>3. Ended' = Ended
  BY DEF ServeRow, Goes, TypeOK, Ended
<1>4. IF side = "container" /\ Stages[e] = "posting"
      THEN Stages' = [Stages EXCEPT ![e] = "posted"] ELSE Stages' = Stages
  <2>1. Stages[e] = "posting" <=> box[e] = "posting"
    BY DEF Stages, Stage
  <2>2. CASE side = "worker"
    BY <2>2, StageStays DEF ServeRow
  <2>3. CASE side = "container"
    BY <2>1, <2>3, AnswerMoves, StageMoves, StageStays DEF ServeRow, Stage
  <2> QED
    BY <2>2, <2>3 DEF Side
<1>5. side = "container" => c = Codes[e]
  BY <1>1 DEF OnWire, Codes, Code
<1>6. \/ /\ UNCHANGED refused
         /\ \E x \in HistRow : /\ x.exec = e /\ x.by = side /\ x.status = c
                               /\ rows' = rows \cup {x}
      \/ "post" \in Faults /\ refused' = refused \cup {<<e, side>>} /\ UNCHANGED rows
  <2>1. ctx[e] \in Ctx
    BY <1>1, ContextSet DEF OnWire, Inner, Side
  <2>2. /\ HistoryRow(e, side, c) \in HistRow /\ HistoryRow(e, side, c).exec = e
        /\ HistoryRow(e, side, c).by = side /\ HistoryRow(e, side, c).status = c
    BY <2>1, RowType, CodeType DEF HistoryRow
  <2> QED
    BY <2>2 DEF ServeRow, Refuse
<1>7. side \in {"container", "worker"}
  BY DEF Side
<1>8. CASE side = "container"
  <2>1. History!Arrive(e, "container", Codes[e])
    BY <1>1, <1>2, <1>3, <1>4, <1>5, <1>6, <1>8
       DEF History!Arrive, History!StageAt, Stages, Codes, Adrift, Ended
  <2> QED
    BY <2>1 DEF History!Next, Codes
<1>9. CASE side = "worker"
  <2>1. History!Arrive(e, "worker", -1)
    BY <1>1, <1>2, <1>3, <1>4, <1>6, <1>9
       DEF History!Arrive, History!StageAt, Stages, Codes, Adrift, Ended
  <2> QED
    BY <2>1 DEF History!Next
<1> QED
  BY <1>7, <1>8, <1>9

(* and a notebook. *)
LEMMA NotebookRefines ==
  ASSUME IInv, NEW e \in Exec, ServeNotebook(e)
  PROVE  History!Next
<1> USE DEF IInv
<1> DEFINE dir == IF Codes[e] = 0 THEN "ok" ELSE "errors"
<1>1. <<e, "notebook">> \in wire /\ wire' = wire \ {<<e, "notebook">>} /\ UNCHANGED <<rows, refused>>
  BY DEF ServeNotebook, Served
<1>2. Adrift' = Adrift /\ Codes' = Codes /\ Ended' = Ended
  BY AdriftStays, CodeStays, EndedSame DEF ServeNotebook
<1>3. IF Stages[e] = "uploading" THEN Stages' = [Stages EXCEPT ![e] = "shut"]
      ELSE Stages' = Stages
  <2>1. Stages[e] = "uploading" <=> box[e] = "uploading"
    BY DEF Stages, Stage
  <2> QED
    BY <2>1, AnswerMoves, StageMoves, StageStays DEF ServeNotebook, Stage
<1>4. \/ \E k \in Key : k.dir = dir /\ store' = [store EXCEPT ![k] = e]
      \/ "post" \in Faults /\ UNCHANGED store
  <2>1. verdict[e] \in {"ok", "failed"}
    BY <1>1 DEF OnWire
  <2>2. UploadKey(e) \in Key
    BY <2>1, ContextSet, KeyType DEF Inner
  <2>3. UploadKey(e).dir = dir
    BY <2>1 DEF UploadKey, Codes, Code, ResultCode
  <2> QED
    BY <2>2, <2>3 DEF ServeNotebook
<1>5. History!Keep(e)
  BY <1>1, <1>2, <1>3, <1>4 DEF History!Keep, History!StageAt, Stages, Codes, Adrift, Ended
<1> QED
  BY <1>5 DEF History!Next

(* A container that is killed has been waited for by a worker that has not
   returned; one that has ended meanwhile sets it adrift. *)
LEMMA KillRefines ==
  ASSUME TypeOK, Hand, NEW e \in Exec, Kill(e)
  PROVE  [History!Next]_History!vars
<1>1. /\ e \notin Ended /\ Ended' = Ended /\ Codes' = Codes /\ UNCHANGED ServerKept
  BY EndedStays, CodeStays DEF Kill, Ended, ServerKept
<1>2. CASE box[e] \in Inside /\ BoxAt(e, "killed") /\ UNCHANGED status
  <2>1. Adrift' = Adrift /\ Stages' = [Stages EXCEPT ![e] = "shut"]
    BY <1>2, AdriftStays, StageMoves DEF Stage
  <2>2. CASE Stages[e] = "shut"
    <3>1. Stages' = Stages
      BY <1>2, <2>2, StageMoves DEF Stages, Stage
    <3> QED
      BY <1>1, <2>1, <3>1 DEF History!vars, ServerKept, Stages, Codes, Adrift, Ended
  <2>3. CASE Stages[e] # "shut"
    <3>1. Stages[e] \notin {"none", "shut"}
      BY <1>2, <2>3 DEF Stages, Stage, Inside
    <3>2. History!Cut(e)
      BY <1>1, <2>1, <3>1
         DEF History!Cut, History!StageAt, ServerKept, Stages, Codes, Adrift, Ended
    <3> QED
      BY <3>2 DEF History!Next
  <2> QED
    BY <2>2, <2>3
<1>3. CASE box[e] \in Exited /\ status' = [status EXCEPT ![e] = -3] /\ UNCHANGED box
  <2>1. Adrift' = Adrift \cup {e} /\ Stages' = Stages /\ Stages[e] = "shut"
    BY <1>3, AdriftMoves, StageStays DEF Stages, Stage, Exited
  <2>2. History!Drift(e)
    BY <1>1, <2>1 DEF History!Drift, ServerKept, Stages, Codes, Adrift, Ended
  <2> QED
    BY <2>2 DEF History!Next
<1> QED
  BY <1>2, <1>3 DEF Kill

(* A call fails: one to docker, or one to the server. *)
LEMMA FailureRefines ==
  ASSUME TypeOK, Hand, NEW e \in Exec, DockerFails(e) \/ CallFails(e)
  PROVE  [History!Next]_History!vars
<1>1. Codes' = Codes /\ UNCHANGED ServerKept
  BY CodeStays DEF DockerFails, CallFails, ServerKept
<1>2. Ended' = Ended
  BY EndedStays, EndedSame DEF DockerFails, CallFails
<1>3. CASE DockerFails(e)
  <2>1. e \notin Ended /\ Adrift' = Adrift \cup {e} /\ Stages' = Stages
    BY <1>3, AdriftMoves, StageStays DEF DockerFails, Ended
  <2>2. History!Drift(e)
    BY <1>1, <1>2, <1>3, <2>1
       DEF DockerFails, History!Drift, ServerKept, Stages, Codes, Adrift, Ended
  <2> QED
    BY <2>2 DEF History!Next
<1>4. CASE CallFails(e) /\ UNCHANGED box
  <2>1. Adrift' = Adrift /\ Stages' = Stages
    BY <1>4, AdriftStays, StageStays DEF CallFails
  <2> QED
    BY <1>1, <1>2, <2>1 DEF History!vars, ServerKept, Stages, Codes, Adrift, Ended
<1>5. CASE CallFails(e) /\ box[e] \in {"posting", "uploading"} /\ BoxAt(e, "exited1")
  <2>1. Adrift' = Adrift
    BY <1>5, AdriftStays DEF CallFails
  <2>2. Stages[e] \in {"posting", "uploading"} /\ Stages' = [Stages EXCEPT ![e] = "shut"]
    BY <1>5, StageMoves DEF Stages, Stage
  <2>3. History!Cut(e)
    BY <1>1, <1>2, <1>5, <2>1, <2>2
       DEF CallFails, History!Cut, History!StageAt, ServerKept, Stages, Codes, Adrift, Ended
  <2> QED
    BY <2>3 DEF History!Next
<1> QED
  BY <1>3, <1>4, <1>5 DEF CallFails

(* A worker that adds nothing saw code 0, and then the container's row is
   there or was refused; and its container is shut unless a call to docker
   failed. *)
LEMMA WorkerRefines ==
  ASSUME IInv, NEW e \in Exec, Return(e) \/ WorkerFails(e)
  PROVE  [History!Next]_History!vars
<1> USE DEF IInv
<1>1. /\ Stages' = Stages /\ Codes' = Codes /\ Adrift' = Adrift
      /\ UNCHANGED <<rows, store, refused>>
  BY StageStays, CodeStays, AdriftStays DEF Return, WorkerFails
<1>2. CASE Return(e)
  <2>1. e \notin Ended /\ Ended' = Ended \cup {e}
    BY <1>2, EndedMoves DEF Return
  <2>2. Stages[e] = "shut" \/ e \in Adrift
    BY <1>2 DEF Return, Hand, Back, Stages, Stage, Adrift
  <2>3. ASSUME status[e] = 0
        PROVE  \/ \E x \in rows : x.exec = e /\ x.by = "container" /\ x.status = 0
               \/ <<e, "container">> \in refused
    <3>1. Taken(e, "container", 0)
      BY <2>3 DEF Posted, Hand, ResultCode
    <3>2. \A x \in rows : x.status = 0 => x.by = "container"
      BY DEF Written, TypeOK, HistRow, Side
    <3> QED
      BY <3>1, <3>2 DEF Taken, Recorded
  <2>4. \/ wire' = wire \cup {<<e, "worker">>}
        \/ /\ \/ \E x \in rows : x.exec = e /\ x.by = "container" /\ x.status = 0
              \/ <<e, "container">> \in refused
           /\ UNCHANGED wire
    BY <1>2, <2>3 DEF Return, Request
  <2>5. History!Report(e)
    BY <1>1, <2>1, <2>2, <2>4 DEF History!Report, Stages, Codes, Adrift, Ended
  <2> QED
    BY <2>5 DEF History!Next
<1>3. CASE WorkerFails(e) /\ work[e] = "reporting"
  <2>1. Ended' = Ended /\ UNCHANGED wire
    BY <1>3, EndedStays DEF WorkerFails
  <2> QED
    BY <1>1, <2>1 DEF History!vars, Stages, Codes, Adrift, Ended
<1>4. CASE WorkerFails(e) /\ work[e] # "reporting"
  <2>1. e \notin Ended /\ Ended' = Ended \cup {e} /\ UNCHANGED wire
    BY <1>4, EndedMoves DEF WorkerFails, Busy
  <2>2. History!Vanish(e)
    BY <1>1, <1>4, <2>1 DEF WorkerFails, History!Vanish, Stages, Codes, Adrift, Ended
  <2> QED
    BY <2>2 DEF History!Next
<1> QED
  BY <1>2, <1>3, <1>4

(* Whatever fails and however the two processes of a run and their requests
   cross, each reports at most once: the container sends its notebook after
   its row was served, a worker reports when its container has nothing more to
   send unless docker failed it, and is silent only about a success that is in
   the history or was refused. *)
THEOREM HeardAtMostOnce == Spec => ImplementsHistory
<1>1. Init => History!Init
  <2> SUFFICES ASSUME Init PROVE History!Init
    OBVIOUS
  <2>1. /\ Stages = [e \in Exec |-> "none"] /\ Codes = [e \in Exec |-> 1]
        /\ Adrift = {} /\ Ended = {}
    BY DEF Init, Stages, Codes, Adrift, Ended, Stage, Code
  <2> QED
    BY <2>1 DEF Init, History!Init, History!Unknown, Stages, Codes, Adrift, Ended
<1>2. IInv /\ [Next]_vars => [History!Next]_History!vars
  <2> SUFFICES ASSUME IInv, [Next]_vars PROVE [History!Next]_History!vars
    OBVIOUS
  <2>1. TypeOK /\ Hand /\ Inner
    BY DEF IInv
  <2> QED
    BY <2>1, Unseen, ContainerRefines, RowRefines, NotebookRefines, KillRefines,
       FailureRefines, WorkerRefines DEF Next, WorkerStep, ContainerStep, ServerStep
<1> QED
  BY <1>1, <1>2, Invariance, PTL DEF Spec, ImplementsHistory, History!Spec

-----------------------------------------------------------------------------
(***************************************************************************)
(* Listening to the events of a run (EventStream), for every set of        *)
(* listeners, whatever is published and whatever fails: an execution       *)
(* publishes what its notebook does.  The invariant follows an event's id  *)
(* from the log to the batch a handler has read, the connection to its     *)
(* client, and what the client has seen.                                   *)
(***************************************************************************)
(* A listener that has not read yet holds nothing, and one that has knows its
   position; a batch is held while it is sent. *)
Unread(l) ==
  /\ pc[l] = "off" => start[l] = Newest
  /\ start[l] = Newest => /\ pc[l] \in {"off", "call"} /\ l \notin holes
                          /\ seen[l] = <<>> /\ conn[l] = <<>>
  /\ start[l] # Newest => last[l] # Newest
  /\ pc[l] # "send" => batch[l] = <<>>

(* The events on their way are events of the log, in order: those the client
   has seen, then those sent up to last, then those of the batch. *)
InOrder(l) ==
  /\ \A k \in 1..Len(batch[l]) : batch[l][k] \in 1..Len(log) /\ batch[l][k] > last[l]
  /\ \A j, k \in 1..Len(batch[l]) : j < k => batch[l][j] < batch[l][k]
  /\ \A k \in 1..Len(conn[l]) : conn[l][k] \in 1..Len(log) /\ conn[l][k] <= last[l]
  /\ \A j, k \in 1..Len(conn[l]) : j < k => conn[l][j] < conn[l][k]
  /\ \A j \in 1..Len(seen[l]), k \in 1..Len(conn[l]) : seen[l][j].id < conn[l][k]
  /\ \A k \in 1..Len(seen[l]) : seen[l][k].id \in 1..Len(log) /\ seen[l][k].id <= last[l]

(* While the client reads, nothing is missing between them either. *)
Gapless(l) ==
  l \notin holes /\ start[l] # Newest /\ client[l] = "on" =>
    /\ last[l] = start[l] + Len(seen[l]) + Len(conn[l])
    /\ \A k \in 1..Len(conn[l]) : conn[l][k] = start[l] + Len(seen[l]) + k
    /\ \A k \in 1..Len(batch[l]) : batch[l][k] = last[l] + k

(* What a client has seen (NoGapNoRepeat, of one listener). *)
Shown(l) ==
  /\ \A j, k \in 1..Len(seen[l]) : j < k => seen[l][j].id < seen[l][k].id
  /\ l \notin holes => \A k \in 1..Len(seen[l]) : seen[l][k].id = start[l] + k

Followed(l) == Unread(l) /\ InOrder(l) /\ Gapless(l) /\ Shown(l)
StreamInv == StreamTypeOK /\ \A l \in Listener : Followed(l)

-----------------------------------------------------------------------------
(* What a client makes of a text, for texts of any length: the loop over its
   lines is a function of how many it has taken. *)
Texts   == {Parsed(d).shown : d \in Data}
Reading == [shown : Seq(Lines), data : Lines \cup {NoData}, kept : BOOLEAN, end : {"on", "told", "failed"}]
NextLine(d, k) == IF k = Len(d) THEN Blank ELSE d[k + 1]

(* Induction on a set of numbers: the library's theorem takes an operator, its
   well-founded minimum takes a set. *)
LEMMA NatInductive ==
  ASSUME NEW S, 0 \in S, \A n \in Nat : n \in S => n + 1 \in S
  PROVE  \A n \in Nat : n \in S
  <1> DEFINE Below == {p \in Nat \X Nat : p[1] < p[2]}
             Out == {n \in Nat : n \notin S}
  <1>1. IsWellFoundedOn(Below, Nat)
    BY NatLessThanWellFounded DEF OpToRel
  <1>2. SUFFICES ASSUME Out # {} PROVE FALSE
    OBVIOUS
  <1>3. PICK x \in Out : \A y \in Out : <<y, x>> \notin Below
    <2> HIDE DEF Below
    <2>1. Out \subseteq Nat
      OBVIOUS
    <2> HIDE DEF Out
    <2>. QED BY <1>1, <1>2, <2>1, WFMin
  <1>4. x \in Nat /\ x # 0 /\ x - 1 \in Nat /\ x - 1 < x
    OBVIOUS
  <1>5. x - 1 \notin Out
    BY <1>3, <1>4
  <1>. QED BY <1>4, <1>5

LEMMA LinesTaken ==
  ASSUME NEW d, Len(d) \in Nat
  PROVE  After(d) = [k \in 0..Len(d) |->
           IF k = 0 THEN FirstLine(d) ELSE Take(After(d)[k - 1], NextLine(d, k))]
  <1> DEFINE Turns(f, n) == f = [k \in 0..n |->
                IF k = 0 THEN FirstLine(d) ELSE Take(f[k - 1], NextLine(d, k))]
             Done == {n \in Nat : \E f : Turns(f, n)}
  <1>1. 0 \in Done
    <2>1. Turns([k \in 0..0 |-> FirstLine(d)], 0)
      OBVIOUS
    <2>. QED BY <2>1
  <1>2. ASSUME NEW n \in Nat, n \in Done PROVE n + 1 \in Done
    <2>1. PICK f : Turns(f, n)
      BY <1>2
    <2> DEFINE g == [k \in 0..(n + 1) |-> IF k = n + 1 THEN Take(f[n], NextLine(d, n + 1)) ELSE f[k]]
    <2>2. \A k \in 0..n : g[k] = f[k] /\ f[k] = IF k = 0 THEN FirstLine(d) ELSE Take(f[k - 1], NextLine(d, k))
      BY <2>1
    <2>3. g[n + 1] = Take(f[n], NextLine(d, n + 1))
      OBVIOUS
    <2>4. \A k \in 0..(n + 1) : g[k] = IF k = 0 THEN FirstLine(d) ELSE Take(g[k - 1], NextLine(d, k))
      <3> HIDE DEF g
      <3>1. \A k \in 1..(n + 1) : k - 1 \in 0..n
        OBVIOUS
      <3>. QED BY <2>2, <2>3, <3>1
    <2>5. g = [k \in 0..(n + 1) |-> g[k]]
      OBVIOUS
    <2>6. Turns(g, n + 1)
      <3> HIDE DEF g
      <3>. QED BY <2>4, <2>5
    <2> HIDE DEF g, Turns
    <2>. QED BY <2>6
  <1>3. \E f : Turns(f, Len(d))
    <2> HIDE DEF Turns
    <2>1. Len(d) \in Done
      <3> HIDE DEF Done
      <3>. QED BY <1>1, <1>2, NatInductive
    <2>. QED BY <2>1
  <1>4. After(d) = CHOOSE f : Turns(f, Len(d))
    BY DEF After, NextLine
  <1>5. Turns(After(d), Len(d))
    <2> HIDE DEF Turns
    <2>. QED BY <1>3, <1>4
  <1>. QED BY <1>5

(* A client goes on only after a text of which it showed something. *)
LEMMA TakeLine ==
  ASSUME TextAssumption, NEW r \in Reading, NEW line \in Lines,
         r.end = "on" /\ r.shown = <<>> => r.kept /\ r.data # NoData
  PROVE  /\ Take(r, line) \in Reading
         /\ Take(r, line).end = "on" /\ Take(r, line).shown = <<>> =>
              Take(r, line).kept /\ Take(r, line).data # NoData
         /\ Take(r, Blank).end = "on" => Take(r, Blank).shown # <<>>
  <1> USE TextAssumption DEF Reading
  <1>1. CASE r.end # "on"
    BY <1>1 DEF Take
  <1>2. CASE r.end = "on"
    <2> DEFINE u == [r EXCEPT !.end = "told"]
               v == [r EXCEPT !.end = "failed"]
               w == [r EXCEPT !.shown = Append(@, r.data), !.data = NoData, !.kept = FALSE]
    <2>1. /\ u \in Reading /\ u.end = "told" /\ v \in Reading /\ v.end = "failed"
      OBVIOUS
    <2>2. ASSUME r.data # NoData PROVE w \in Reading /\ w.shown # <<>>
      <3>1. r.data \in Lines /\ r.shown \in Seq(Lines)
        BY <2>2
      <3> HIDE TextAssumption
      <3>2. Append(r.shown, r.data) \in Seq(Lines) /\ Append(r.shown, r.data) # <<>>
        <4>1. /\ Append(r.shown, r.data) \in Seq(Lines)
              /\ Len(Append(r.shown, r.data)) = Len(r.shown) + 1 /\ Len(r.shown) \in Nat
          BY <3>1, AppendProperties, LenProperties
        <4>2. Len(Append(r.shown, r.data)) # 0
          BY <4>1
        <4>. QED BY <4>1, <4>2, EmptySeq
      <3>. QED BY <3>2
    <2> DEFINE c == Cut(r)
    <2>3. c \in Reading /\ (c.end = "on" => c.shown # <<>>)
      <3> HIDE DEF u, v, w
      <3>1. \/ c = u \/ c = v
            \/ c = w /\ r.data # NoData
        BY DEF Cut, u, v, w
      <3>. QED BY <2>1, <2>2, <3>1
    <2>4. ASSUME NEW x \in Lines \cup {NoData}, x = r.data \/ x # NoData
          PROVE  LET k == [r EXCEPT !.kept = TRUE, !.data = x] IN
                   k \in Reading /\ (k.shown = <<>> => k.kept /\ k.data # NoData) /\ k.shown = r.shown
      BY <1>2, <2>4
    <2>5. Line(line.text) \in Lines
      BY DEF Lines, Line
    <2>6. /\ Take(r, line) \in Reading
          /\ Take(r, line).end = "on" /\ Take(r, line).shown = <<>> =>
               Take(r, line).kept /\ Take(r, line).data # NoData
      <3>1. CASE line = Blank /\ r.kept
        <4>1. Take(r, line) = c
          BY <1>2, <3>1 DEF Take
        <4>. QED BY <2>3, <4>1
      <3>2. CASE ~(line = Blank /\ r.kept)
        <4> DEFINE x == IF line.tag = "data" THEN Line(line.text) ELSE r.data
        <4>1. x \in Lines \cup {NoData} /\ (x = r.data \/ x # NoData)
          BY <2>5
        <4>2. Take(r, line) = [r EXCEPT !.kept = TRUE, !.data = x]
          BY <1>2, <3>2 DEF Take
        <4> HIDE DEF x
        <4>. QED BY <2>4, <4>1, <4>2
      <3>. QED BY <3>1, <3>2
    <2>7. Take(r, Blank).end = "on" => Take(r, Blank).shown # <<>>
      <3>1. CASE r.kept
        <4>1. Take(r, Blank) = c
          BY <1>2, <3>1 DEF Take
        <4>. QED BY <2>3, <4>1
      <3>2. CASE ~r.kept
        <4>1. Take(r, Blank) = [r EXCEPT !.kept = TRUE, !.data = r.data]
          BY <1>2, <3>2 DEF Take, Blank, Line
        <4>. QED BY <1>2, <2>4, <3>2, <4>1
      <3>. QED BY <3>1, <3>2
    <2>. QED BY <2>6, <2>7
  <1>. QED BY <1>1, <1>2

LEMMA ParsedEnds ==
  ASSUME NEW d \in Data
  PROVE  /\ Parsed(d).end \in {"on", "told", "failed"}
         /\ Parsed(d).shown = <<>> => Parsed(d).end # "on"
  <1> DEFINE Good(r) == /\ r \in Reading
                        /\ r.end = "on" /\ r.shown = <<>> => r.kept /\ r.data # NoData
             F(k) == IF k = 0 THEN FirstLine(d) ELSE Take(After(d)[k - 1], NextLine(d, k))
             Kept == {n \in Nat : n \in 0..Len(d) => Good(After(d)[n])}
  <1>1. /\ d \in Seq(Lines) /\ Len(d) \in Nat \ {0}
        /\ \A k \in 1..Len(d) : d[k] \in Lines
    <2>1. d \in Seq(Lines) /\ d # <<>>
      BY TextAssumption
    <2>. QED BY <2>1, LenProperties, EmptySeq, ElementOfSeq
  <1>2. After(d) = [k \in 0..Len(d) |-> F(k)]
    BY <1>1, LinesTaken
  <1>3. Blank \in Lines
    BY TextAssumption DEF Blank, Line, Lines
  <1>4. \A k \in 1..Len(d) : NextLine(d, k) \in Lines
    BY <1>1, <1>3 DEF NextLine
  <1>5. Good(FirstLine(d))
    <2>1. d[1] \in Lines
      BY <1>1
    <2> DEFINE x == [d[1] EXCEPT !.pad = FALSE]
    <2>2. x \in Lines /\ x # NoData /\ FirstLine(d).data = x
      BY <2>1, TextAssumption DEF Lines, FirstLine
    <2>3. <<>> \in Seq(Lines)
      OBVIOUS
    <2> HIDE DEF x
    <2>4. FirstLine(d) = [shown |-> <<>>, data |-> x, kept |-> TRUE, end |-> "on"]
      BY DEF FirstLine, x
    <2>. QED BY <2>2, <2>3, <2>4 DEF Reading
  <1>6. 0 \in Kept
    <2> HIDE DEF Good
    <2>1. After(d)[0] = FirstLine(d)
      <3>1. F(0) = FirstLine(d) /\ 0 \in 0..Len(d)
        BY <1>1
      <3> HIDE DEF F
      <3>. QED BY <1>2, <3>1
    <2>. QED BY <1>5, <2>1
  <1>7. ASSUME NEW n \in Nat, n \in Kept PROVE n + 1 \in Kept
    <2>1. SUFFICES ASSUME n + 1 \in 0..Len(d) PROVE Good(After(d)[n + 1])
      BY <1>7
    <2>2. n \in 0..Len(d) /\ n + 1 \in 1..Len(d)
      BY <1>1, <2>1
    <2>3. Good(After(d)[n])
      BY <1>7, <2>2
    <2>4. After(d)[n + 1] = Take(After(d)[n], NextLine(d, n + 1))
      <3>1. F(n + 1) = Take(After(d)[n], NextLine(d, n + 1))
        OBVIOUS
      <3> HIDE DEF F
      <3>. QED BY <1>2, <2>1, <3>1
    <2>. QED BY <1>4, <2>2, <2>3, <2>4, TextAssumption, TakeLine
  <1>8. Good(After(d)[Len(d) - 1]) /\ Good(After(d)[Len(d)])
    <2>1. \A n \in Nat : n \in Kept
      <3> HIDE DEF Kept
      <3>. QED BY <1>6, <1>7, NatInductive
    <2> HIDE DEF Good
    <2>. QED BY <1>1, <2>1
  <1>9. After(d)[Len(d)] = Take(After(d)[Len(d) - 1], Blank)
    <2>1. F(Len(d)) = Take(After(d)[Len(d) - 1], Blank) /\ Len(d) \in 0..Len(d)
      BY <1>1 DEF NextLine
    <2> HIDE DEF F
    <2>. QED BY <1>2, <2>1
  <1>10. Take(After(d)[Len(d) - 1], Blank).end = "on" => Take(After(d)[Len(d) - 1], Blank).shown # <<>>
    BY <1>3, <1>8, TextAssumption, TakeLine
  <1>11. After(d)[Len(d)].end \in {"on", "told", "failed"}
    BY <1>8 DEF Reading
  <1>. QED BY <1>9, <1>10, <1>11 DEF Parsed

(* The types of the sequences, with what they say of their elements. *)
LEMMA StreamTypes ==
  ASSUME StreamTypeOK, NEW l \in Listener
  PROVE  /\ log \in Seq(Event) /\ Len(log) \in Nat
         /\ batch[l] \in Ids /\ Len(batch[l]) \in Nat
         /\ conn[l] \in Ids /\ Len(conn[l]) \in Nat
         /\ seen[l] \in Seq([id : 1..MaxLog, data : Texts]) /\ Len(seen[l]) \in Nat
  <1>1. /\ log \in Seq(Event) /\ batch[l] \in Ids /\ conn[l] \in Ids
        /\ seen[l] \in Seq([id : 1..MaxLog, data : Texts])
    BY DEF StreamTypeOK, Texts
  <1>. QED BY <1>1, LenProperties DEF Ids

LEMMA StreamLengths ==
  ASSUME StreamTypeOK, NEW l \in Listener
  PROVE  Len(log) \in Nat /\ Len(batch[l]) \in Nat /\ Len(conn[l]) \in Nat /\ Len(seen[l]) \in Nat
  BY StreamTypes

LEMMA NoIds == <<>> \in Ids
  BY DEF Ids

(* The elements of a sequence that one was appended to, or taken from. *)
LEMMA TakenId ==
  ASSUME NEW s \in Ids, s # <<>>
  PROVE  /\ Tail(s) \in Ids /\ Len(Tail(s)) = Len(s) - 1 /\ Len(s) \in Nat \ {0}
         /\ Head(s) = s[1] /\ 1 \in 1..Len(s) /\ s[1] \in 1..MaxLog
         /\ \A k \in 1..Len(Tail(s)) : k \in Nat /\ k + 1 \in 1..Len(s) /\ Tail(s)[k] = s[k + 1]
  <1> DEFINE T == 1..MaxLog
  <1>1. s \in Seq(T)
    BY DEF Ids
  <1> HIDE DEF T
  <1>2. /\ Len(s) \in Nat \ {0} /\ Len(Tail(s)) = Len(s) - 1 /\ Tail(s) \in Seq(T)
        /\ \A k \in 1..Len(Tail(s)) : Tail(s)[k] = s[k + 1]
    BY <1>1, HeadTailProperties, EmptySeq
  <1>3. 1 \in 1..Len(s) /\ \A k \in 1..Len(Tail(s)) : k \in Nat /\ k + 1 \in 1..Len(s)
    BY <1>2
  <1>4. Head(s) = s[1] /\ s[1] \in T
    BY <1>1, <1>3, ElementOfSeq
  <1>5. Tail(s) \in Ids /\ s[1] \in 1..MaxLog
    BY <1>2, <1>4 DEF Ids, T
  <1>. QED BY <1>2, <1>3, <1>4, <1>5

LEMMA AppendedId ==
  ASSUME NEW s \in Ids, NEW x \in 1..MaxLog
  PROVE  /\ Append(s, x) \in Ids /\ Len(Append(s, x)) = Len(s) + 1 /\ Len(s) \in Nat
         /\ \A k \in 1..Len(Append(s, x)) : \/ k \in 1..Len(s) /\ Append(s, x)[k] = s[k]
                                            \/ k = Len(s) + 1 /\ Append(s, x)[k] = x
  <1> DEFINE T == 1..MaxLog
             a == Append(s, x)
  <1>1. s \in Seq(T) /\ x \in T
    BY DEF Ids
  <1> HIDE DEF T
  <1>2. /\ a \in Seq(T) /\ Len(a) = Len(s) + 1 /\ Len(s) \in Nat /\ a[Len(s) + 1] = x
        /\ \A k \in 1..Len(s) : a[k] = s[k]
    BY <1>1, AppendProperties, LenProperties
  <1>3. a \in Ids
    BY <1>2 DEF Ids, T
  <1> HIDE DEF a
  <1>4. \A k \in 1..Len(a) : k \in 1..Len(s) \/ k = Len(s) + 1
    BY <1>2
  <1>5. \A k \in 1..Len(a) : \/ k \in 1..Len(s) /\ a[k] = s[k]
                             \/ k = Len(s) + 1 /\ a[k] = x
    BY <1>2, <1>4
  <1>. QED BY <1>2, <1>3, <1>5 DEF a

(* What Between lists. *)
LEMMA BetweenLists ==
  ASSUME NEW a \in Nat, NEW b \in Nat, a < b, b <= MaxLog, MaxLog \in Nat
  PROVE  /\ Between(a, b) \in Ids /\ Len(Between(a, b)) = b - a
         /\ \A k \in 1..(b - a) : Between(a, b)[k] = a + k
  BY DEF Between, Ids

(* A listener that nothing happens to. *)
LEMMA StreamFrame ==
  ASSUME NEW l \in Listener, Followed(l), UNCHANGED log,
         pc'[l] = pc[l], last'[l] = last[l], start'[l] = start[l], batch'[l] = batch[l],
         conn'[l] = conn[l], seen'[l] = seen[l], client'[l] = client[l],
         l \in holes' <=> l \in holes
  PROVE  Followed(l)'
  BY DEF Followed, Unread, InOrder, Gapless, Shown

LEMMA StreamStarts ==
  ASSUME StreamInit
  PROVE  StreamInv
  BY StreamAssumption DEF StreamInit, StreamInv, StreamTypeOK, Ids, Position, Followed, Unread, InOrder, Gapless, Shown

LEMMA PublishFollowed ==
  ASSUME StreamInv, NEW e \in Event, Publish(e)
  PROVE  StreamInv'
  <1>1. /\ Len(log') = Len(log) + 1 /\ log' \in Seq(Event) /\ Len(log) \in Nat
        /\ \A i \in 1..Len(log) : log'[i] = log[i]
    BY AppendProperties, LenProperties DEF StreamInv, StreamTypeOK, Publish
  <1>2. StreamTypeOK'
    <2>1. log' \in Seq(Event) /\ Len(log') <= MaxLog /\ dead' \in 0..Len(log')
      BY StreamAssumption, <1>1 DEF StreamInv, StreamTypeOK, Publish
    <2>. QED BY <2>1 DEF StreamInv, StreamTypeOK, Event, Ids, Position, Publish
  <1>3. ASSUME NEW l \in Listener PROVE Followed(l)'
    <2>1. Followed(l) /\ StreamTypeOK
      BY DEF StreamInv
    <2>2. Unread(l)' /\ Gapless(l)'
      BY <2>1 DEF Followed, Unread, Gapless, Publish
    <2>3. InOrder(l)'
      <3>1. \A i : i \in 1..Len(log) => i \in 1..Len(log')
        BY <1>1
      <3>2. UNCHANGED <<batch, conn, seen, last>>
        BY DEF Publish
      <3>3. InOrder(l)
        BY <2>1 DEF Followed
      <3>. QED BY <3>1, <3>2, <3>3 DEF InOrder
    <2>4. Shown(l)'
      BY <1>1, <2>1, StreamTypes DEF Followed, InOrder, Shown, Publish
    <2>. QED BY <2>2, <2>3, <2>4 DEF Followed
  <1>. QED BY <1>2, <1>3 DEF StreamInv

(* Starting to listen, and the ends of reading and sending. *)
LEMMA ListenFollowed ==
  ASSUME StreamInv, NEW m \in Listener,
         \/ \E from \in Position \cup {Newest} : Listen(m, from)
         \/ Quiet(m) \/ SendFails(m) \/ Loop(m) \/ Closed(m) \/ Break(m)
  PROVE  StreamInv'
  <1>1. StreamTypeOK'
    <2>1. CASE \E from \in Position \cup {Newest} : Listen(m, from)
      BY StreamAssumption, <2>1 DEF StreamInv, StreamTypeOK, Listen, Position
    <2>2. CASE Quiet(m) \/ Loop(m)
      BY <2>2 DEF StreamInv, StreamTypeOK, Quiet, Loop
    <2>3. CASE SendFails(m)
      BY <2>3, NoIds DEF StreamInv, StreamTypeOK, SendFails
    <2>4. CASE Closed(m)
      BY <2>4 DEF StreamInv, StreamTypeOK, Closed
    <2>5. CASE Break(m)
      BY <2>5, NoIds DEF StreamInv, StreamTypeOK, Break
    <2>. QED BY <2>1, <2>2, <2>3, <2>4, <2>5
  <1>2. ASSUME NEW l \in Listener, l # m PROVE Followed(l)'
    BY <1>2, StreamFrame DEF StreamInv, StreamTypeOK, Listen, Quiet, SendFails, Loop, Closed, Break
  <1>3. Followed(m)'
    <2>0. StreamTypeOK /\ Followed(m)
      BY DEF StreamInv
    <2>1. CASE \E from \in Position \cup {Newest} : Listen(m, from)
      <3>1. /\ pc[m] = "off" /\ start[m] = Newest /\ m \notin holes
            /\ seen[m] = <<>> /\ conn[m] = <<>> /\ batch[m] = <<>>
        BY <2>0, <2>1 DEF Followed, Unread, Listen
      <3>2. /\ pc'[m] = "call" /\ UNCHANGED <<log, start, batch, conn, seen, holes>>
        BY <2>0, <2>1 DEF StreamTypeOK, Listen
      <3>3. Unread(m)' /\ Shown(m)'
        BY <2>0, <3>1, <3>2, StreamTypes DEF Unread, Shown
      <3>4. InOrder(m)'
        BY <2>0, <3>1, <3>2, StreamTypes DEF InOrder
      <3>5. Gapless(m)'
        BY <2>0, <3>1, <3>2, StreamTypes DEF Gapless
      <3>. QED BY <3>3, <3>4, <3>5 DEF Followed
    <2>2. CASE Quiet(m) \/ Loop(m)
      BY <2>0, <2>2 DEF StreamTypeOK, Followed, Unread, InOrder, Gapless, Shown, Quiet, Loop
    <2>3. CASE SendFails(m)
      BY <2>0, <2>3 DEF StreamTypeOK, Followed, Unread, InOrder, Gapless, Shown, SendFails
    <2>4. CASE Closed(m)
      BY <2>0, <2>4 DEF StreamTypeOK, Followed, Unread, InOrder, Gapless, Shown, Closed
    <2>5. CASE Break(m)
      BY <2>0, <2>5 DEF StreamTypeOK, Followed, Unread, InOrder, Gapless, Shown, Break
    <2>. QED BY <2>1, <2>2, <2>3, <2>4, <2>5
  <1>. QED BY <1>1, <1>2, <1>3 DEF StreamInv

(* Reading, and what is read. *)
LEMMA ReadFollowed ==
  ASSUME StreamInv, NEW m \in Listener, Call(m) \/ ReadReturns(m)
  PROVE  StreamInv'
  <1>0. StreamTypeOK /\ Followed(m) /\ MaxLog \in Nat /\ Newest \notin Int /\ dead \in Nat /\ Len(log) <= MaxLog
    <2>1. /\ log \in Seq(Event) /\ Len(log) <= MaxLog /\ dead \in 0..Len(log)
      BY DEF StreamInv, StreamTypeOK
    <2>2. Len(log) \in Nat /\ dead \in Nat
      BY <2>1, LenProperties
    <2>. QED BY StreamAssumption, <2>1, <2>2 DEF StreamInv
  <1>1. ASSUME NEW l \in Listener, l # m PROVE Followed(l)'
    BY <1>1, StreamFrame DEF StreamInv, StreamTypeOK, Call, ReadReturns
  <1>2. CASE Call(m)
    <2> DEFINE p == IF last[m] = Newest THEN Len(log) ELSE last[m]
    <2>1. p \in Position
      BY <1>0, StreamTypes DEF StreamTypeOK, Position
    <2>2. StreamTypeOK'
      BY <1>0, <1>2, <2>1 DEF StreamTypeOK, Call
    <2>3. /\ last'[m] = p /\ start'[m] = (IF start[m] = Newest THEN p ELSE start[m])
          /\ pc[m] = "call" /\ pc'[m] = "read" /\ p \in Nat /\ Newest \notin Nat
          /\ UNCHANGED <<log, batch, conn, seen, client, holes>>
      BY <1>0, <1>2, <2>1 DEF StreamTypeOK, Call, Position
    <2>4. batch[m] = <<>> /\ (last[m] = Newest => start[m] = Newest)
      BY <1>0, <2>3 DEF Followed, Unread
    <2>5. Unread(m)' /\ Shown(m)'
      BY <1>0, <2>3, <2>4, StreamTypes DEF Followed, Unread, Shown
    <2>6. InOrder(m)'
      <3>1. InOrder(m) /\ \A k \in 1..Len(batch[m]) : FALSE
        BY <1>0, <2>4 DEF Followed
      <3>2. start[m] = Newest => seen[m] = <<>> /\ conn[m] = <<>>
        BY <1>0 DEF Followed, Unread
      <3>3. start[m] # Newest => last[m] # Newest /\ p = last[m]
        BY <1>0 DEF Followed, Unread
      <3>4. start[m] = Newest => Len(seen[m]) = 0 /\ Len(conn[m]) = 0
        BY <3>2
      <3>. QED BY <2>3, <3>1, <3>3, <3>4 DEF InOrder
    <2>7. Gapless(m)'
      BY <1>0, <2>3, <2>4, StreamTypes DEF Followed, Unread, Gapless
    <2>. QED BY <1>1, <2>2, <2>5, <2>6, <2>7 DEF StreamInv, Followed
  <1>3. CASE ReadReturns(m)
    <2> DEFINE p == Greater(last[m], dead)
    <2>1. last[m] \in Nat /\ start[m] # Newest /\ pc[m] = "read"
      BY <1>0, <1>3 DEF Followed, Unread, StreamTypeOK, Position, ReadReturns
    <2>2. p \in Nat /\ p >= last[m] /\ p < Len(log) /\ (m \notin holes' => p = last[m])
      BY <1>0, <1>3, <2>1, StreamTypes DEF Greater, ReadReturns
    <2>3. /\ batch'[m] \in Ids /\ Len(batch'[m]) = Len(log) - p /\ Len(log) \in Nat
          /\ \A k \in 1..Len(batch'[m]) : batch'[m][k] = p + k
      <3>1. batch'[m] = Between(p, Len(log))
        BY <1>0, <1>3 DEF ReadReturns, StreamTypeOK
      <3> HIDE DEF p
      <3>2. Len(log) \in Nat /\ Len(log) <= MaxLog /\ MaxLog \in Nat
        BY <1>0, StreamTypes, StreamAssumption DEF StreamTypeOK
      <3>3. p \in Nat /\ p < Len(log)
        BY <2>2
      <3> DEFINE n == Len(log)
      <3> HIDE DEF n
      <3>4. n \in Nat /\ n <= MaxLog /\ p < n /\ batch'[m] = Between(p, n)
        BY <3>1, <3>2, <3>3 DEF n
      <3>5. /\ batch'[m] \in Ids /\ Len(batch'[m]) = n - p
            /\ \A k \in 1..Len(batch'[m]) : batch'[m][k] = p + k
        <4>1. /\ Between(p, n) \in Ids /\ Len(Between(p, n)) = n - p
              /\ \A k \in 1..(n - p) : Between(p, n)[k] = p + k
          BY <3>2, <3>3, <3>4, BetweenLists
        <4> DEFINE b == Between(p, n)
        <4> HIDE DEF b
        <4>2. b \in Ids /\ Len(b) = n - p /\ \A k \in 1..(n - p) : b[k] = p + k
          BY <4>1 DEF b
        <4>3. batch'[m] = b
          BY <3>4 DEF b
        <4> QED
          BY <4>2, <4>3
      <3>. QED BY <3>2, <3>5 DEF n
    <2>4. StreamTypeOK'
      BY <1>0, <1>3, <2>3 DEF StreamTypeOK, ReadReturns
    <2>5. Unread(m)' /\ Shown(m)'
      BY <1>0, <1>3, <2>1 DEF Followed, Unread, Shown, ReadReturns, StreamTypeOK
    <2>6. /\ UNCHANGED <<log, last, start, conn, seen, client>> /\ (m \in holes => m \in holes')
      BY <1>3 DEF ReadReturns
    <2>7. InOrder(m)' /\ Gapless(m)'
      <3>1. \A k \in 1..Len(batch'[m]) : /\ batch'[m][k] \in 1..Len(log) /\ batch'[m][k] > last[m]
                                         /\ m \notin holes' => batch'[m][k] = last[m] + k
        <4> HIDE DEF p
        <4>. QED BY StreamAssumption, <2>1, <2>2, <2>3
      <3>2. \A j, k \in 1..Len(batch'[m]) : j < k => batch'[m][j] < batch'[m][k]
        <4> HIDE DEF p
        <4>. QED BY <2>2, <2>3
      <3>. QED BY <1>0, <2>6, <3>1, <3>2 DEF Followed, InOrder, Gapless
    <2>. QED BY <1>1, <2>4, <2>5, <2>7 DEF StreamInv, Followed
  <1>. QED BY <1>2, <1>3

(* Sending the head of a batch. *)
LEMMA SendFollowed ==
  ASSUME StreamInv, NEW m \in Listener, Send(m)
  PROVE  StreamInv'
  <1>0. StreamTypeOK /\ Followed(m) /\ MaxLog \in Nat /\ Newest \notin Int
    BY StreamAssumption DEF StreamInv
  <1>1. ASSUME NEW l \in Listener, l # m PROVE Followed(l)'
    BY <1>1, StreamFrame DEF StreamInv, StreamTypeOK, Send
  <1>2. /\ batch[m] # <<>> /\ batch[m] \in Ids /\ conn[m] \in Ids
        /\ Head(batch[m]) = batch[m][1] /\ batch[m][1] \in 1..MaxLog /\ 1 \in 1..Len(batch[m])
    BY <1>0, StreamTypes, TakenId DEF Send
  <1>3. batch'[m] = Tail(batch[m]) /\ conn'[m] = Append(conn[m], batch[m][1])
    BY <1>0, <1>2 DEF Send, StreamTypeOK
  <1>4. /\ Len(batch[m]) \in Nat \ {0} /\ Len(batch'[m]) = Len(batch[m]) - 1
        /\ \A k \in 1..Len(batch'[m]) : /\ k \in Nat /\ k + 1 \in 1..Len(batch[m])
                                        /\ batch'[m][k] = batch[m][k + 1]
    BY <1>2, <1>3, TakenId
  <1>4a. /\ Len(conn'[m]) = Len(conn[m]) + 1
         /\ \A k \in 1..Len(conn'[m]) : \/ k \in 1..Len(conn[m]) /\ conn'[m][k] = conn[m][k]
                                        \/ k = Len(conn[m]) + 1 /\ conn'[m][k] = batch[m][1]
    BY <1>2, <1>3, AppendedId
  <1>5. last'[m] = batch[m][1] /\ last'[m] \in Position
    BY <1>0, <1>2 DEF Send, StreamTypeOK, Position
  <1>6. StreamTypeOK'
    <2>1. batch'[m] \in Ids /\ conn'[m] \in Ids
      BY <1>2, <1>3, TakenId, AppendedId
    <2>. QED BY <1>0, <1>5, <2>1 DEF StreamTypeOK, Send
  <1>7. start[m] # Newest /\ last[m] \in Nat /\ start[m] \in Nat
    BY <1>0 DEF Followed, Unread, StreamTypeOK, Position, Send
  <1>8. UNCHANGED <<log, pc, start, seen, client, holes>> /\ pc[m] = "send" /\ client[m] = "on"
    BY DEF Send
  <1>9. Unread(m)' /\ Shown(m)'
    BY <1>0, <1>5, <1>7, <1>8 DEF Followed, Unread, Shown, Position
  <1>10. InOrder(m)'
    <2>1. /\ \A k \in 1..Len(batch[m]) : batch[m][k] \in 1..Len(log) /\ batch[m][k] > last[m]
          /\ \A j, k \in 1..Len(batch[m]) : j < k => batch[m][j] < batch[m][k]
          /\ \A k \in 1..Len(conn[m]) : conn[m][k] \in 1..Len(log) /\ conn[m][k] <= last[m]
          /\ \A j, k \in 1..Len(conn[m]) : j < k => conn[m][j] < conn[m][k]
          /\ \A j \in 1..Len(seen[m]), k \in 1..Len(conn[m]) : seen[m][j].id < conn[m][k]
          /\ \A k \in 1..Len(seen[m]) : seen[m][k].id \in 1..Len(log) /\ seen[m][k].id <= last[m]
          /\ Len(log) \in Nat /\ Len(conn[m]) \in Nat /\ Len(seen[m]) \in Nat
      BY <1>0, StreamLengths DEF Followed, InOrder
    <2>2. batch[m][1] \in 1..Len(log) /\ batch[m][1] > last[m]
      BY <1>2, <2>1
    <2>3. \A k \in 1..Len(batch'[m]) : batch'[m][k] \in 1..Len(log) /\ batch'[m][k] > batch[m][1]
      <3> TAKE k \in 1..Len(batch'[m])
      <3>1. k + 1 \in 1..Len(batch[m]) /\ 1 < k + 1 /\ batch'[m][k] = batch[m][k + 1]
        BY <1>4
      <3>. QED BY <1>2, <2>1, <3>1
    <2>4. \A j, k \in 1..Len(batch'[m]) : j < k => batch'[m][j] < batch'[m][k]
      <3> TAKE j, k \in 1..Len(batch'[m])
      <3>1. /\ j + 1 \in 1..Len(batch[m]) /\ k + 1 \in 1..Len(batch[m]) /\ (j < k => j + 1 < k + 1)
            /\ batch'[m][j] = batch[m][j + 1] /\ batch'[m][k] = batch[m][k + 1]
        BY <1>4
      <3>. QED BY <2>1, <3>1
    <2>5. \A k \in 1..Len(conn'[m]) : conn'[m][k] \in 1..Len(log) /\ conn'[m][k] <= batch[m][1]
      <3>1. \A k \in 1..Len(conn[m]) : conn[m][k] \in 1..Len(log) /\ conn[m][k] <= batch[m][1]
        BY <1>7, <2>1, <2>2
      <3>. QED BY <1>4a, <2>2, <3>1
    <2>6. \A j, k \in 1..Len(conn'[m]) : j < k => conn'[m][j] < conn'[m][k]
      <3> TAKE j, k \in 1..Len(conn'[m])
      <3>1. CASE k = Len(conn[m]) + 1
        <4>1. k \notin 1..Len(conn[m]) /\ (j < k => j # Len(conn[m]) + 1)
          BY <2>1, <3>1
        <4>2. \A a \in 1..Len(conn[m]) : conn[m][a] < batch[m][1]
          BY <1>7, <2>1, <2>2
        <4>. QED BY <1>4a, <4>1, <4>2
      <3>2. CASE k \in 1..Len(conn[m])
        <4>1. k # Len(conn[m]) + 1 /\ (j < k => j # Len(conn[m]) + 1)
          BY <2>1, <3>2
        <4>. QED BY <1>4a, <2>1, <3>2, <4>1
      <3>. QED BY <1>4a, <3>1, <3>2
    <2>7. \A j \in 1..Len(seen[m]), k \in 1..Len(conn'[m]) : seen[m][j].id < conn'[m][k]
      <3> TAKE j \in 1..Len(seen[m]), k \in 1..Len(conn'[m])
      <3>1. seen[m][j].id < batch[m][1]
        BY <1>7, <2>1, <2>2
      <3>. QED BY <1>4a, <2>1, <3>1
    <2>8. \A k \in 1..Len(seen[m]) : seen[m][k].id \in 1..Len(log) /\ seen[m][k].id <= batch[m][1]
      BY <1>7, <2>1, <2>2
    <2>. QED BY <1>5, <1>8, <2>3, <2>4, <2>5, <2>6, <2>7, <2>8 DEF InOrder
  <1>11. Gapless(m)'
    <2>1. CASE m \notin holes
      <3>1. /\ last[m] = start[m] + Len(seen[m]) + Len(conn[m])
            /\ \A k \in 1..Len(conn[m]) : conn[m][k] = start[m] + Len(seen[m]) + k
            /\ \A k \in 1..Len(batch[m]) : batch[m][k] = last[m] + k
            /\ Len(conn[m]) \in Nat /\ Len(seen[m]) \in Nat
        BY <1>0, <1>7, <1>8, <2>1, StreamLengths DEF Followed, Gapless
      <3>2. batch[m][1] = last[m] + 1
        BY <1>2, <3>1
      <3>3. last[m] + 1 = start[m] + Len(seen[m]) + Len(conn'[m])
        <4>1. \A a, b, c \in Nat : a + b + c + 1 = a + b + (c + 1)
          OBVIOUS
        <4>2. last[m] + 1 = start[m] + Len(seen[m]) + (Len(conn[m]) + 1)
          BY <1>7, <3>1, <4>1
        <4>. QED BY <1>4a, <4>2
      <3>4. \A k \in 1..Len(conn'[m]) : conn'[m][k] = start[m] + Len(seen[m]) + k
        <4> TAKE k \in 1..Len(conn'[m])
        <4>1. CASE k = Len(conn[m]) + 1 /\ conn'[m][k] = batch[m][1]
          <5>1. last[m] + 1 = start[m] + Len(seen[m]) + (Len(conn[m]) + 1)
            BY <1>7, <3>1
          <5>. QED BY <3>2, <4>1, <5>1
        <4>. QED BY <1>4a, <3>1, <4>1
      <3>5. \A k \in 1..Len(batch'[m]) : batch'[m][k] = last[m] + 1 + k
        <4> TAKE k \in 1..Len(batch'[m])
        <4>1. k \in Nat /\ batch'[m][k] = last[m] + (k + 1)
          BY <1>4, <3>1
        <4>. QED BY <1>7, <4>1
      <3>. QED BY <1>5, <1>8, <3>2, <3>3, <3>4, <3>5 DEF Gapless
    <2>. QED BY <1>8, <2>1 DEF Gapless
  <1>. QED BY <1>1, <1>6, <1>9, <1>10, <1>11 DEF StreamInv, Followed

(* Receiving the head of a connection. *)
LEMMA ReceiveFollowed ==
  ASSUME StreamInv, NEW m \in Listener, Receive(m)
  PROVE  StreamInv'
  <1> DEFINE i == Head(conn[m])
             x == [id |-> i, data |-> Parsed(log[i].data).shown]
             Shape == [id : 1..MaxLog, data : Texts]
             Told == seen' = seen /\ client'[m] # "on"
             Shows == /\ Len(seen'[m]) = Len(seen[m]) + 1
                      /\ \A k \in 1..Len(seen'[m]) :
                           \/ k \in 1..Len(seen[m]) /\ seen'[m][k] = seen[m][k]
                           \/ k = Len(seen[m]) + 1 /\ seen'[m][k] = x
  <1>1. StreamTypeOK /\ Followed(m)
    BY DEF StreamInv
  <1>2. ASSUME NEW l \in Listener, l # m PROVE Followed(l)'
    BY <1>2, StreamFrame DEF StreamInv, StreamTypeOK, Receive
  <1>3. conn'[m] = Tail(conn[m]) /\ conn[m] # <<>> /\ conn[m] \in Ids
    BY <1>1, StreamTypes DEF Receive, StreamTypeOK
  <1>4. /\ conn'[m] \in Ids /\ i = conn[m][1] /\ i \in 1..MaxLog /\ 1 \in 1..Len(conn[m])
        /\ Len(conn[m]) \in Nat \ {0} /\ Len(conn'[m]) = Len(conn[m]) - 1
        /\ \A k \in 1..Len(conn'[m]) : /\ k \in Nat /\ k + 1 \in 1..Len(conn[m])
                                       /\ conn'[m][k] = conn[m][k + 1]
    BY <1>3, TakenId
  <1>5. /\ \A k \in 1..Len(conn[m]) : conn[m][k] \in 1..Len(log) /\ conn[m][k] <= last[m]
        /\ \A j, k \in 1..Len(conn[m]) : j < k => conn[m][j] < conn[m][k]
        /\ \A j \in 1..Len(seen[m]), k \in 1..Len(conn[m]) : seen[m][j].id < conn[m][k]
        /\ \A k \in 1..Len(seen[m]) : seen[m][k].id \in 1..Len(log) /\ seen[m][k].id <= last[m]
        /\ Len(log) \in Nat /\ Len(seen[m]) \in Nat
    BY <1>1, StreamLengths DEF Followed, InOrder
  <1>6. i \in 1..Len(log) /\ i <= last[m] /\ \A j \in 1..Len(seen[m]) : seen[m][j].id < i
    BY <1>4, <1>5
  <1>7. /\ x \in Shape /\ x.id = i
        /\ Parsed(log[i].data).end \in {"on", "told", "failed"}
        /\ Parsed(log[i].data).shown = <<>> => Parsed(log[i].data).end # "on"
    <2>1. log[i] \in Event
      BY <1>1, <1>6, StreamTypes
    <2>2. log[i].data \in Data
      BY <2>1 DEF Event
    <2>. QED BY <1>4, <2>2, ParsedEnds DEF Texts
  <1>8. seen \in [Listener -> Seq(Shape)] /\ seen[m] \in Seq(Shape)
    BY <1>1 DEF StreamTypeOK, Texts
  <1>9. UNCHANGED <<log, dead, pc, last, start, batch, keep, holes>> /\ client[m] = "on"
    BY DEF Receive
  <1>10. seen' \in [Listener -> Seq(Shape)] /\ (Told \/ Shows)
    <2>1. Told \/ seen' = [seen EXCEPT ![m] = Append(seen[m], x)]
      BY <1>1, <1>7 DEF Receive, StreamTypeOK
    <2> HIDE DEF x, Shape
    <2>2. CASE seen' = [seen EXCEPT ![m] = Append(seen[m], x)]
      <3>1. seen'[m] = Append(seen[m], x)
        BY <1>8, <2>2
      <3>2. /\ seen'[m] \in Seq(Shape) /\ Len(seen'[m]) = Len(seen[m]) + 1
            /\ seen'[m][Len(seen[m]) + 1] = x /\ \A k \in 1..Len(seen[m]) : seen'[m][k] = seen[m][k]
        BY <1>7, <1>8, <3>1, AppendProperties
      <3>3. Shows
        <4>1. \A k \in 1..Len(seen'[m]) : k \in 1..Len(seen[m]) \/ k = Len(seen[m]) + 1
          BY <1>5, <3>2
        <4>. QED BY <3>2, <4>1
      <3>. QED BY <1>8, <2>2, <3>1, <3>2, <3>3
    <2>. QED BY <1>8, <2>1, <2>2
  <1>11. StreamTypeOK'
    <2>1. client' \in [Listener -> {"off", "on", "told", "eof", "failed", "broken"}]
      BY <1>1, <1>7 DEF StreamTypeOK, Receive
    <2>2. conn' \in [Listener -> Ids]
      BY <1>1, <1>4 DEF StreamTypeOK, Receive
    <2>. QED BY <1>1, <1>9, <1>10, <2>1, <2>2 DEF StreamTypeOK, Texts
  <1>12. start[m] # Newest /\ last[m] \in Nat /\ start[m] \in Nat
    BY <1>1, <1>3 DEF Followed, Unread, StreamTypeOK, Position
  <1>13. Unread(m)'
    BY <1>1, <1>9, <1>12 DEF Followed, Unread
  <1> HIDE DEF i, x
  <1>14. InOrder(m)'
    <2>1. \A k \in 1..Len(conn'[m]) : /\ conn'[m][k] \in 1..Len(log) /\ conn'[m][k] <= last[m]
                                      /\ i < conn'[m][k]
      <3> TAKE k \in 1..Len(conn'[m])
      <3>1. k + 1 \in 1..Len(conn[m]) /\ 1 < k + 1 /\ conn'[m][k] = conn[m][k + 1]
        BY <1>4
      <3>. QED BY <1>4, <1>5, <3>1
    <2>2. \A j, k \in 1..Len(conn'[m]) : j < k => conn'[m][j] < conn'[m][k]
      <3> TAKE j, k \in 1..Len(conn'[m])
      <3>1. /\ j + 1 \in 1..Len(conn[m]) /\ k + 1 \in 1..Len(conn[m]) /\ (j < k => j + 1 < k + 1)
            /\ conn'[m][j] = conn[m][j + 1] /\ conn'[m][k] = conn[m][k + 1]
        <4>1. j \in Nat /\ k \in Nat
          OBVIOUS
        <4>. QED BY <1>4, <4>1
      <3>. QED BY <1>5, <3>1
    <2>3. \A j \in 1..Len(seen[m]), k \in 1..Len(conn'[m]) : seen[m][j].id < conn'[m][k]
      <3> TAKE j \in 1..Len(seen[m]), k \in 1..Len(conn'[m])
      <3>1. k + 1 \in 1..Len(conn[m]) /\ conn'[m][k] = conn[m][k + 1]
        BY <1>4
      <3>. QED BY <1>5, <3>1
    <2>4. \A k \in 1..Len(seen'[m]) : seen'[m][k].id \in 1..Len(log) /\ seen'[m][k].id <= last[m]
      <3> TAKE k \in 1..Len(seen'[m])
      <3>. QED BY <1>5, <1>6, <1>7, <1>10
    <2>5. \A j \in 1..Len(seen'[m]), k \in 1..Len(conn'[m]) : seen'[m][j].id < conn'[m][k]
      <3> TAKE j \in 1..Len(seen'[m]), k \in 1..Len(conn'[m])
      <3>. QED BY <1>7, <1>10, <2>1, <2>3
    <2>. QED BY <1>1, <1>9, <2>1, <2>2, <2>4, <2>5 DEF Followed, InOrder
  <1>15. ASSUME m \notin holes
         PROVE  /\ last[m] = start[m] + Len(seen[m]) + Len(conn[m]) /\ i = start[m] + Len(seen[m]) + 1
                /\ \A k \in 1..Len(conn'[m]) : conn'[m][k] = start[m] + (Len(seen[m]) + 1) + k
                /\ \A k \in 1..Len(batch[m]) : batch[m][k] = last[m] + k
    <2>1. /\ last[m] = start[m] + Len(seen[m]) + Len(conn[m])
          /\ \A k \in 1..Len(conn[m]) : conn[m][k] = start[m] + Len(seen[m]) + k
          /\ \A k \in 1..Len(batch[m]) : batch[m][k] = last[m] + k
      BY <1>1, <1>9, <1>12, <1>15 DEF Followed, Gapless
    <2>2. ASSUME NEW k \in 1..Len(conn'[m]) PROVE conn'[m][k] = start[m] + (Len(seen[m]) + 1) + k
      <3>1. k \in Nat /\ conn'[m][k] = start[m] + Len(seen[m]) + (k + 1)
        BY <1>4, <2>1
      <3>2. \A a, b \in Nat : a + b + (k + 1) = a + (b + 1) + k
        BY <3>1
      <3>3. start[m] + Len(seen[m]) + (k + 1) = start[m] + (Len(seen[m]) + 1) + k
        BY <1>5, <1>12, <3>2
      <3>. QED BY <3>1, <3>3
    <2>. QED BY <1>4, <1>5, <2>1, <2>2
  <1>16. Gapless(m)'
    <2>1. CASE Told
      BY <2>1 DEF Gapless
    <2>2. CASE Shows
      <3>1. last[m] = start[m] + (Len(seen[m]) + 1) + (Len(conn[m]) - 1) <=>
            last[m] = start[m] + Len(seen[m]) + Len(conn[m])
        <4>1. \A a, b \in Nat, c \in Nat \ {0} : a + (b + 1) + (c - 1) = a + b + c
          OBVIOUS
        <4>. QED BY <1>4, <1>5, <1>12, <4>1
      <3>. QED BY <1>4, <1>9, <1>15, <2>2, <3>1 DEF Gapless
    <2>. QED BY <1>10, <2>1, <2>2
  <1>17. Shown(m)'
    <2>1. CASE Told
      BY <1>1, <1>9, <2>1 DEF Followed, Shown
    <2>2. CASE Shows
      <3>2. \A j, k \in 1..Len(seen'[m]) : j < k => seen'[m][j].id < seen'[m][k].id
        <4> TAKE j, k \in 1..Len(seen'[m])
        <4>1. CASE k = Len(seen[m]) + 1
          <5>1. k \notin 1..Len(seen[m]) /\ (j < k => j # Len(seen[m]) + 1)
            BY <1>5, <4>1
          <5>. QED BY <1>6, <1>7, <2>2, <5>1
        <4>2. CASE k \in 1..Len(seen[m])
          <5>1. k # Len(seen[m]) + 1 /\ (j < k => j # Len(seen[m]) + 1)
            BY <1>5, <4>2
          <5>2. \A a, b \in 1..Len(seen[m]) : a < b => seen[m][a].id < seen[m][b].id
            BY <1>1 DEF Followed, Shown
          <5>. QED BY <2>2, <4>2, <5>1, <5>2
        <4>. QED BY <2>2, <4>1, <4>2
      <3>3. m \notin holes => \A k \in 1..Len(seen'[m]) : seen'[m][k].id = start[m] + k
        <4> HAVE m \notin holes
        <4> TAKE k \in 1..Len(seen'[m])
        <4>1. i = start[m] + (Len(seen[m]) + 1)
          BY <1>5, <1>12, <1>15
        <4>. QED BY <1>1, <1>7, <2>2, <4>1 DEF Followed, Shown
      <3>. QED BY <1>9, <3>2, <3>3 DEF Shown
    <2>. QED BY <1>10, <2>1, <2>2
  <1>. QED BY <1>2, <1>11, <1>13, <1>14, <1>16, <1>17 DEF StreamInv, Followed

LEMMA StreamStep ==
  ASSUME StreamInv, [StreamNext]_streamVars
  PROVE  StreamInv'
  <1>1. CASE \E e \in Event : Publish(e)
    BY <1>1, PublishFollowed
  <1>2. CASE Expire \/ UNCHANGED streamVars
    <2>1. StreamTypeOK'
      <3>1. Len(log) \in Nat /\ Len(log) \in 0..Len(log)
        BY LenProperties DEF StreamInv, StreamTypeOK
      <3>2. CASE Expire
        <4>1. log' = log /\ dead' \in 0..Len(log)
          BY <3>1, <3>2 DEF Expire
        <4>. QED BY <3>2, <4>1 DEF StreamInv, StreamTypeOK, Expire
      <3>3. CASE UNCHANGED streamVars
        BY <3>3 DEF StreamInv, StreamTypeOK, streamVars
      <3>. QED BY <1>2, <3>2, <3>3
    <2>2. ASSUME NEW l \in Listener PROVE Followed(l)'
      BY <1>2, StreamFrame DEF StreamInv, Expire, streamVars
    <2>. QED BY <2>1, <2>2 DEF StreamInv
  <1>3. CASE \E m \in Listener : EventListen(m) \/ EventsListen(m) \/ Break(m)
                                   \/ \E from \in Position \cup {Newest} : Listen(m, from)
    BY <1>3, ListenFollowed, ReadFollowed, SendFollowed, ReceiveFollowed DEF EventListen, EventsListen
  <1>. QED BY <1>1, <1>2, <1>3 DEF StreamNext

LEMMA StreamInvariant == StreamSpec => []StreamInv
  <1>1. StreamInit => StreamInv
    BY StreamStarts
  <1>2. StreamInv /\ [StreamNext]_streamVars => StreamInv'
    BY StreamStep
  <1>. QED BY <1>1, <1>2, PTL DEF StreamSpec

(* TypeOK: the ids on their way are ids of events, and the positions are
   places of the stream. *)
THEOREM StreamTyped == StreamSpec => []StreamTypeOK
  <1>1. StreamInv => StreamTypeOK
    BY DEF StreamInv
  <1>. QED BY <1>1, StreamInvariant, PTL

(* NoGapNoRepeat: what a client has yielded are the events after its
   listener's first read, one by one and in order, however often the listener
   read a batch while others were published, and wherever the connection
   broke; only the expiry of the stream makes a gap. *)
THEOREM NothingLostOrRepeated == StreamSpec => []NoGapNoRepeat
  <1>1. StreamInv => NoGapNoRepeat
    BY DEF StreamInv, Followed, Shown, NoGapNoRepeat
  <1>. QED BY <1>1, StreamInvariant, PTL

-----------------------------------------------------------------------------
(* The feed that listening implements.  Where a listener is: its client has
   begun if it has, its positions are places of the log, and what it holds
   comes after its first one. *)
Placed(l) ==
  /\ pc[l] = "off" => client[l] = "off"
  /\ last[l] # Newest => last[l] <= Len(log)
  /\ start[l] # Newest => /\ start[l] <= last[l]
                          /\ \A k \in 1..Len(conn[l]) : conn[l][k] > start[l]
                          /\ \A k \in 1..Len(seen[l]) : seen[l][k].id > start[l]

SeenAt(l, i)  == \E k \in 1..Len(seen[l]) : seen[l][k].id = i
ConnAt(l, i)  == \E k \in 1..Len(conn[l]) : conn[l][k] = i
BatchAt(l, i) == \E k \in 1..Len(batch[l]) : batch[l][k] = i
Reached(l, i) == i <= last[l] \/ \E k \in 1..Len(batch[l]) : i <= batch[l][k]

(* While the client reads, every event up to the last one read is seen, sent
   or held, or has expired: also of a listener that lost some (in holes). *)
Whole(l) ==
  client[l] = "on" /\ start[l] # Newest =>
    \A i \in Position :
      i > start[l] /\ i > dead /\ Reached(l, i) => SeenAt(l, i) \/ ConnAt(l, i) \/ BatchAt(l, i)

FeedInv == StreamInv /\ \A l \in Listener : Placed(l) /\ Whole(l)

LEMMA StreamNumbers ==
  ASSUME StreamTypeOK
  PROVE  /\ Len(log) \in Nat /\ dead \in Nat /\ dead <= Len(log) /\ MaxLog \in Nat
         /\ Len(log) <= MaxLog /\ Newest \notin Int
  <1>1. Len(log) \in Nat
    BY LenProperties DEF StreamTypeOK
  <1>. QED BY StreamAssumption, <1>1 DEF StreamTypeOK

(* A listener that nothing happens to while the log grows or expires. *)
LEMMA FeedFrame ==
  ASSUME StreamTypeOK, StreamTypeOK', NEW l \in Listener, Placed(l), Whole(l),
         Len(log) <= Len(log)', dead <= dead',
         pc'[l] = "off" => pc[l] = "off", last'[l] = last[l], start'[l] = start[l],
         batch'[l] = batch[l], conn'[l] = conn[l], seen'[l] = seen[l], client'[l] = client[l]
  PROVE  Placed(l)' /\ Whole(l)'
  <1>1. Len(log) \in Nat /\ Len(log)' \in Nat /\ dead \in Nat /\ dead' \in Nat
    <2>1. Len(log)' \in Nat /\ dead' \in Nat
      BY LenProperties DEF StreamTypeOK
    <2>. QED BY <2>1, StreamNumbers
  <1>2. Placed(l)'
    <2>1. last[l] # Newest => last[l] \in Nat
      BY DEF StreamTypeOK, Position
    <2>. QED BY <1>1, <2>1 DEF Placed
  <1>3. Whole(l)'
    BY <1>1 DEF Whole, Reached, SeenAt, ConnAt, BatchAt, Position
  <1>. QED BY <1>2, <1>3

(* Sending the head of a batch moves one event to the connection. *)
LEMMA SendWhole ==
  ASSUME FeedInv, NEW m \in Listener, Send(m)
  PROVE  Placed(m)' /\ Whole(m)'
  <1>0. StreamTypeOK /\ Followed(m) /\ Placed(m) /\ Whole(m)
    BY DEF FeedInv, StreamInv
  <1>1. /\ batch[m] # <<>> /\ batch[m] \in Ids /\ conn[m] \in Ids
        /\ Head(batch[m]) = batch[m][1] /\ batch[m][1] \in 1..MaxLog /\ 1 \in 1..Len(batch[m])
    BY <1>0, StreamTypes, TakenId DEF Send
  <1>2. /\ batch'[m] = Tail(batch[m]) /\ conn'[m] = Append(conn[m], batch[m][1])
        /\ last'[m] = batch[m][1]
    BY <1>0, <1>1 DEF Send, StreamTypeOK
  <1>3. UNCHANGED <<log, dead, pc, start, seen, client>> /\ client[m] = "on" /\ pc[m] = "send"
    BY DEF Send
  <1>4. /\ Len(batch[m]) \in Nat \ {0} /\ Len(batch'[m]) = Len(batch[m]) - 1
        /\ \A k \in 1..Len(batch'[m]) : /\ k \in Nat /\ k + 1 \in 1..Len(batch[m])
                                        /\ batch'[m][k] = batch[m][k + 1]
    BY <1>1, <1>2, TakenId
  <1>5. /\ Len(conn'[m]) = Len(conn[m]) + 1 /\ Len(conn[m]) \in Nat
        /\ \A k \in 1..Len(conn'[m]) : \/ k \in 1..Len(conn[m]) /\ conn'[m][k] = conn[m][k]
                                       \/ k = Len(conn[m]) + 1 /\ conn'[m][k] = batch[m][1]
    <2>1. Len(conn[m]) \in Nat
      BY <1>0, StreamLengths
    <2>2. /\ Len(conn'[m]) = Len(conn[m]) + 1
          /\ \A k \in 1..Len(conn'[m]) : \/ k \in 1..Len(conn[m]) /\ conn'[m][k] = conn[m][k]
                                         \/ k = Len(conn[m]) + 1 /\ conn'[m][k] = batch[m][1]
      BY <1>1, <1>2, AppendedId
    <2>. QED BY <2>1, <2>2
  <1>6. /\ start[m] # Newest /\ last[m] \in Nat /\ start[m] \in Nat /\ start[m] <= last[m]
        /\ batch[m][1] > last[m] /\ batch[m][1] <= Len(log) /\ batch[m][1] > start[m]
    <2>1. start[m] # Newest /\ last[m] \in Nat /\ start[m] \in Nat
      BY <1>0, <1>3 DEF Followed, Unread, StreamTypeOK, Position
    <2>2. start[m] <= last[m]
      BY <1>0, <2>1 DEF Placed
    <2>3. batch[m][1] \in 1..Len(log) /\ batch[m][1] > last[m]
      BY <1>0, <1>1 DEF Followed, InOrder
    <2>. QED BY <1>1, <2>1, <2>2, <2>3
  <1>7. Placed(m)'
    <2>1. \A k \in 1..Len(conn'[m]) : conn'[m][k] > start[m]
      BY <1>0, <1>5, <1>6 DEF Placed
    <2>2. start[m] <= batch[m][1]
      BY <1>1, <1>6
    <2>. QED BY <1>0, <1>2, <1>3, <1>6, <2>1, <2>2 DEF Placed
  <1>8. ASSUME NEW i \in Position, Reached(m, i)'
        PROVE  Reached(m, i)
    <2>1. CASE i <= batch[m][1]
      BY <1>1, <2>1 DEF Reached
    <2>2. CASE \E k \in 1..Len(batch'[m]) : i <= batch'[m][k]
      <3>1. PICK k \in 1..Len(batch'[m]) : i <= batch'[m][k]
        BY <2>2
      <3>. QED BY <1>4, <3>1 DEF Reached
    <2>. QED BY <1>2, <1>8, <2>1, <2>2 DEF Reached
  <1>9. ASSUME NEW i \in Position, ConnAt(m, i)
        PROVE  ConnAt(m, i)'
    <2>1. PICK k \in 1..Len(conn[m]) : conn[m][k] = i
      BY <1>9 DEF ConnAt
    <2>2. k \in 1..Len(conn'[m]) /\ k # Len(conn[m]) + 1
      BY <1>5
    <2>. QED BY <1>5, <2>1, <2>2 DEF ConnAt
  <1>10. ASSUME NEW i \in Position, BatchAt(m, i)
         PROVE  ConnAt(m, i)' \/ BatchAt(m, i)'
    <2>1. PICK k \in 1..Len(batch[m]) : batch[m][k] = i
      BY <1>10 DEF BatchAt
    <2>2. CASE k = 1
      <3>1. Len(conn[m]) + 1 \in 1..Len(conn'[m]) /\ Len(conn[m]) + 1 \notin 1..Len(conn[m])
        BY <1>5
      <3>. QED BY <1>5, <2>1, <2>2, <3>1 DEF ConnAt
    <2>3. CASE k # 1
      <3>1. k - 1 \in 1..Len(batch'[m]) /\ (k - 1) + 1 = k
        BY <1>4, <2>3
      <3>2. batch'[m][k - 1] = i
        BY <1>4, <2>1, <3>1
      <3>. QED BY <3>1, <3>2 DEF BatchAt
    <2>. QED BY <2>2, <2>3
  <1>11. Whole(m)'
    BY <1>0, <1>3, <1>6, <1>8, <1>9, <1>10 DEF Whole, SeenAt
  <1>. QED BY <1>7, <1>11

(* Reading fixes the position, then fetches all that has not expired. *)
LEMMA ReadWhole ==
  ASSUME FeedInv, NEW m \in Listener, Call(m) \/ ReadReturns(m)
  PROVE  Placed(m)' /\ Whole(m)'
  <1>0. StreamTypeOK /\ Followed(m) /\ Placed(m) /\ Whole(m)
    BY DEF FeedInv, StreamInv
  <1>1. /\ Len(log) \in Nat /\ dead \in Nat /\ dead <= Len(log) /\ MaxLog \in Nat
        /\ Len(log) <= MaxLog /\ Newest \notin Int
    BY <1>0, StreamNumbers
  <1>2. CASE Call(m)
    <2> DEFINE p == IF last[m] = Newest THEN Len(log) ELSE last[m]
    <2>1. /\ last'[m] = p /\ start'[m] = (IF start[m] = Newest THEN p ELSE start[m])
          /\ UNCHANGED <<log, dead, batch, conn, seen, client>>
          /\ pc[m] = "call" /\ pc'[m] = "read"
      BY <1>0, <1>2 DEF StreamTypeOK, Call
    <2>2. p \in Nat /\ p <= Len(log) /\ (start[m] # Newest => p = last[m])
      BY <1>0, <1>1 DEF Placed, Followed, Unread, StreamTypeOK, Position
    <2>3. batch[m] = <<>> /\ (start[m] = Newest => conn[m] = <<>> /\ seen[m] = <<>>)
      BY <1>0, <2>1 DEF Followed, Unread
    <2>4. CASE start[m] = Newest
      <3>1. start'[m] = p /\ Len(conn[m]) = 0 /\ Len(seen[m]) = 0 /\ Len(batch[m]) = 0
        BY <2>1, <2>3, <2>4
      <3> HIDE DEF p
      <3>2. Placed(m)'
        BY <1>1, <2>1, <2>2, <3>1 DEF Placed
      <3>3. Whole(m)'
        BY <1>1, <2>1, <2>2, <3>1 DEF Whole, Reached, Position
      <3>. QED BY <3>2, <3>3
    <2>5. CASE start[m] # Newest
      BY <1>0, <2>1, <2>2, <2>5 DEF Placed, Whole, Reached, SeenAt, ConnAt, BatchAt
    <2>. QED BY <2>4, <2>5
  <1>3. CASE ReadReturns(m)
    <2> DEFINE p == Greater(last[m], dead)
    <2>1. /\ last[m] \in Nat /\ start[m] # Newest /\ start[m] \in Nat /\ start[m] <= last[m]
          /\ batch[m] = <<>>
      BY <1>0, <1>3 DEF Followed, Unread, Placed, StreamTypeOK, Position, ReadReturns
    <2>2. p \in Nat /\ p < Len(log) /\ (p = last[m] \/ p = dead) /\ p >= last[m]
      BY <1>1, <1>3, <2>1 DEF Greater, ReadReturns
    <2>3. UNCHANGED <<log, dead, last, start, conn, seen, client>> /\ pc'[m] = "send"
      BY <1>0, <1>3 DEF ReadReturns, StreamTypeOK
    <2>4. /\ Len(batch'[m]) = Len(log) - p
          /\ \A k \in 1..Len(batch'[m]) : batch'[m][k] = p + k
      <3>1. batch'[m] = Between(p, Len(log))
        BY <1>0, <1>3 DEF ReadReturns, StreamTypeOK
      <3> HIDE DEF p
      <3>2. /\ Len(Between(p, Len(log))) = Len(log) - p
            /\ \A k \in 1..(Len(log) - p) : Between(p, Len(log))[k] = p + k
        BY <1>1, <2>2, BetweenLists
      <3>. QED BY <3>1, <3>2
    <2>5. Placed(m)'
      BY <1>0, <2>3 DEF Placed
    <2> HIDE DEF p
    <2>6. ASSUME NEW i \in Position, i > dead, i > last[m], Reached(m, i)'
          PROVE  BatchAt(m, i)'
      <3>1. PICK k \in 1..Len(batch'[m]) : i <= batch'[m][k]
        BY <2>1, <2>3, <2>6 DEF Reached, Position
      <3>2. i - p \in 1..Len(batch'[m]) /\ p + (i - p) = i
        <4>1. i \in Nat /\ i > p
          BY <1>1, <2>2, <2>6 DEF Position
        <4>2. k \in Nat /\ k <= Len(log) - p /\ i <= p + k
          BY <1>1, <2>2, <2>4, <3>1
        <4>3. i - p \in 1..(Len(log) - p) /\ p + (i - p) = i
          BY <1>1, <2>2, <4>1, <4>2
        <4>. QED BY <2>4, <4>3
      <3>3. batch'[m][i - p] = i
        BY <2>4, <3>2
      <3>. QED BY <3>2, <3>3 DEF BatchAt
    <2>7. Whole(m)'
      <3> SUFFICES ASSUME client[m] = "on", NEW i \in Position, i > start[m], i > dead, Reached(m, i)'
                   PROVE  SeenAt(m, i) \/ ConnAt(m, i) \/ BatchAt(m, i)'
        BY <2>3 DEF Whole, SeenAt, ConnAt
      <3>1. CASE i > last[m]
        BY <2>6, <3>1
      <3>2. CASE i <= last[m]
        <4>1. Len(batch[m]) = 0
          BY <2>1
        <4>2. ~BatchAt(m, i)
          BY <4>1 DEF BatchAt
        <4>. QED BY <1>0, <2>1, <3>2, <4>2 DEF Whole, Reached
      <3>. QED BY <2>1, <3>1, <3>2 DEF Position
    <2>. QED BY <2>5, <2>7
  <1>. QED BY <1>2, <1>3

(* The client takes the oldest event on its connection, and shows something of
   it unless it ends there. *)
TookExit(m) ==
  LET p == Parsed(log[conn[m][1]].data) IN
  /\ p.end \in {"told", "failed"} /\ p.shown = <<>> /\ seen' = seen
  /\ client' = [client EXCEPT ![m] = p.end]
TookEvent(m) ==
  LET p == Parsed(log[conn[m][1]].data)
      e == [id |-> conn[m][1], data |-> p.shown] IN
  /\ p.end \in {"on", "told", "failed"} /\ p.shown # <<>> /\ seen' = [seen EXCEPT ![m] = Append(@, e)]
  /\ client' = [client EXCEPT ![m] = p.end]

LEMMA ReceiveMoves ==
  ASSUME FeedInv, NEW m \in Listener, Receive(m)
  PROVE  /\ conn[m][1] \in 1..Len(log) /\ conn[m][1] <= last[m] /\ 1 \in 1..Len(conn[m])
         /\ start[m] # Newest /\ start[m] \in Nat /\ last[m] \in Nat
         /\ client[m] = "on" /\ UNCHANGED <<log, dead, pc, last, start, batch>>
         /\ TookExit(m) \/ TookEvent(m)
         /\ \A i \in Position : ConnAt(m, i) => i = conn[m][1] \/ ConnAt(m, i)'
         /\ \A k \in 1..Len(conn'[m]) : \E j \in 1..Len(conn[m]) : conn'[m][k] = conn[m][j]
  <1>0. StreamTypeOK /\ Followed(m)
    BY DEF FeedInv, StreamInv
  <1>1. /\ conn'[m] = Tail(conn[m]) /\ conn[m] # <<>> /\ conn[m] \in Ids
        /\ UNCHANGED <<log, dead, pc, last, start, batch>> /\ client[m] = "on"
    BY <1>0, StreamTypes DEF Receive, StreamTypeOK
  <1>2. /\ Head(conn[m]) = conn[m][1] /\ 1 \in 1..Len(conn[m])
        /\ Len(conn[m]) \in Nat \ {0} /\ Len(conn'[m]) = Len(conn[m]) - 1
        /\ \A k \in 1..Len(conn'[m]) : /\ k \in Nat /\ k + 1 \in 1..Len(conn[m])
                                       /\ conn'[m][k] = conn[m][k + 1]
    BY <1>1, TakenId
  <1>3. conn[m][1] \in 1..Len(log) /\ conn[m][1] <= last[m]
    BY <1>0, <1>2 DEF Followed, InOrder
  <1>4. start[m] # Newest /\ start[m] \in Nat /\ last[m] \in Nat
    BY <1>0, <1>1 DEF Followed, Unread, StreamTypeOK, Position
  <1>5. TookExit(m) \/ TookEvent(m)
    <2>0. log[conn[m][1]] \in Event
      BY <1>0, <1>3, StreamTypes
    <2>1. log[conn[m][1]].data \in Data
      BY <2>0 DEF Event
    <2>. QED BY <1>2, <2>1, ParsedEnds DEF Receive, TookExit, TookEvent
  <1>6. ASSUME NEW i \in Position, ConnAt(m, i), i # conn[m][1]
        PROVE  ConnAt(m, i)'
    <2>1. PICK k \in 1..Len(conn[m]) : conn[m][k] = i
      BY <1>6 DEF ConnAt
    <2>2. k - 1 \in 1..Len(conn'[m]) /\ (k - 1) + 1 = k
      BY <1>2, <1>6, <2>1
    <2>3. conn'[m][k - 1] = i
      BY <1>2, <2>1, <2>2
    <2>. QED BY <2>2, <2>3 DEF ConnAt
  <1>7. \A k \in 1..Len(conn'[m]) : \E j \in 1..Len(conn[m]) : conn'[m][k] = conn[m][j]
    BY <1>2
  <1>. QED BY <1>1, <1>2, <1>3, <1>4, <1>5, <1>6, <1>7

(* What the client has seen after it showed an event. *)
LEMMA ShowedSeen ==
  ASSUME FeedInv, NEW m \in Listener, Receive(m), TookEvent(m)
  PROVE  /\ Len(seen[m]) \in Nat /\ Len(seen'[m]) = Len(seen[m]) + 1
         /\ \A k \in 1..Len(seen[m]) : seen'[m][k] = seen[m][k]
         /\ seen'[m][Len(seen[m]) + 1].id = conn[m][1]
         /\ seen[m] = <<>> <=> Len(seen[m]) = 0
  <1> DEFINE e == [id |-> conn[m][1], data |-> Parsed(log[conn[m][1]].data).shown]
             Shape == [id : 1..MaxLog, data : Texts]
  <1>1. seen \in [Listener -> Seq(Shape)] /\ seen[m] \in Seq(Shape)
    BY DEF FeedInv, StreamInv, StreamTypeOK, Texts
  <1>2. e \in Shape /\ e.id = conn[m][1]
    <2>1. conn[m][1] \in 1..Len(log) /\ Len(log) \in Nat /\ Len(log) <= MaxLog /\ MaxLog \in Nat
      BY ReceiveMoves, StreamNumbers DEF FeedInv, StreamInv
    <2>2. log[conn[m][1]] \in Event
      BY <2>1 DEF FeedInv, StreamInv, StreamTypeOK
    <2>3. log[conn[m][1]].data \in Data
      BY <2>2 DEF Event
    <2>. QED BY <2>1, <2>3 DEF Texts
  <1>3. seen' = [seen EXCEPT ![m] = Append(seen[m], e)]
    BY DEF TookEvent
  <1> HIDE DEF e, Shape
  <1>4. seen'[m] = Append(seen[m], e)
    BY <1>1, <1>3
  <1>5. /\ Len(seen'[m]) = Len(seen[m]) + 1 /\ seen'[m][Len(seen[m]) + 1] = e
        /\ \A k \in 1..Len(seen[m]) : seen'[m][k] = seen[m][k]
    BY <1>1, <1>2, <1>4, AppendProperties
  <1>6. Len(seen[m]) \in Nat /\ (seen[m] = <<>> <=> Len(seen[m]) = 0)
    BY <1>1, LenProperties, EmptySeq
  <1>. QED BY <1>2, <1>5, <1>6

LEMMA ReceiveWhole ==
  ASSUME FeedInv, NEW m \in Listener, Receive(m)
  PROVE  Placed(m)' /\ Whole(m)'
  <1>0. Placed(m) /\ Whole(m) /\ StreamTypeOK
    BY DEF FeedInv, StreamInv
  <1>1. /\ start[m] # Newest /\ start[m] \in Nat /\ client[m] = "on"
        /\ UNCHANGED <<log, dead, pc, last, start, batch>> /\ pc[m] # "off"
        /\ \A i \in Position : ConnAt(m, i) => i = conn[m][1] \/ ConnAt(m, i)'
        /\ \A k \in 1..Len(conn'[m]) : conn'[m][k] > start[m]
        /\ conn[m][1] > start[m]
    BY <1>0, ReceiveMoves DEF Placed
  <1>2. CASE TookExit(m)
    <2>1. client'[m] \in {"told", "failed"} /\ seen' = seen
      BY <1>0, <1>2 DEF TookExit, StreamTypeOK
    <2>. QED BY <1>0, <1>1, <2>1 DEF Placed, Whole
  <1>3. CASE TookEvent(m)
    <2>1. /\ Len(seen[m]) \in Nat /\ Len(seen'[m]) = Len(seen[m]) + 1
          /\ \A k \in 1..Len(seen[m]) : seen'[m][k] = seen[m][k]
          /\ seen'[m][Len(seen[m]) + 1].id = conn[m][1]
      BY <1>3, ShowedSeen
    <2>2. /\ \A k \in 1..Len(seen'[m]) : k \in 1..Len(seen[m]) \/ k = Len(seen[m]) + 1
          /\ \A k \in 1..Len(seen[m]) : k \in 1..Len(seen'[m])
          /\ Len(seen[m]) + 1 \in 1..Len(seen'[m])
      BY <2>1
    <2>3. Placed(m)'
      BY <1>0, <1>1, <2>1, <2>2 DEF Placed
    <2>4. \A i \in Position : SeenAt(m, i) \/ i = conn[m][1] => SeenAt(m, i)'
      BY <2>1, <2>2 DEF SeenAt
    <2>5. Whole(m)'
      BY <1>0, <1>1, <2>4 DEF Whole, Reached, BatchAt
    <2>. QED BY <2>3, <2>5
  <1>4. TookExit(m) \/ TookEvent(m)
    BY ReceiveMoves
  <1>. QED BY <1>2, <1>3, <1>4

(* The start of a listener and the ends of its reading, sending and client. *)
LEMMA OtherWhole ==
  ASSUME FeedInv, StreamTypeOK', NEW m \in Listener,
         \/ \E from \in Position \cup {Newest} : Listen(m, from)
         \/ Quiet(m) \/ SendFails(m) \/ Loop(m) \/ Closed(m) \/ Break(m)
  PROVE  Placed(m)' /\ Whole(m)'
  <1>0. StreamTypeOK /\ Followed(m) /\ Placed(m) /\ Whole(m)
    BY DEF FeedInv, StreamInv
  <1>1. Len(log) \in Nat /\ dead \in Nat
    BY <1>0, StreamNumbers
  <1>2. CASE \E from \in Position \cup {Newest} : Listen(m, from)
    <2>1. PICK from \in Position \cup {Newest} : Listen(m, from)
      BY <1>2
    <2>2. /\ start[m] = Newest /\ start' = start /\ log' = log /\ last'[m] = from
          /\ pc'[m] = "call" /\ (from # Newest => from <= Len(log))
      BY <1>0, <1>1, <2>1 DEF Followed, Unread, StreamTypeOK, Listen
    <2>. QED BY <2>2 DEF Placed, Whole
  <1>3. CASE Quiet(m) \/ Loop(m)
    <2>1. /\ log' = log /\ dead' = dead /\ UNCHANGED <<last, start, batch, conn, seen, client>>
          /\ pc'[m] # "off"
      BY <1>0, <1>3 DEF StreamTypeOK, Quiet, Loop
    <2>. QED BY <1>0, <1>1, <2>1 DEF Placed, Whole, Reached, SeenAt, ConnAt, BatchAt
  <1>4. CASE SendFails(m)
    <2>1. UNCHANGED <<log, last, start, conn, seen, client>> /\ client[m] # "on" /\ pc'[m] = "eof"
      BY <1>0, <1>4 DEF StreamTypeOK, SendFails
    <2>. QED BY <1>0, <2>1 DEF Placed, Whole
  <1>5. CASE Closed(m) \/ Break(m)
    <2>1. /\ UNCHANGED <<log, pc, last, start, seen>> /\ client'[m] # "on" /\ client[m] = "on"
          /\ conn'[m] = <<>> \/ conn'[m] = conn[m]
      BY <1>0, <1>5 DEF StreamTypeOK, Closed, Break
    <2>2. pc[m] # "off"
      BY <1>0, <2>1 DEF Placed
    <2>. QED BY <1>0, <2>1, <2>2 DEF Placed, Whole
  <1>. QED BY <1>2, <1>3, <1>4, <1>5

LEMMA FeedInvariant == StreamSpec => []FeedInv
  <1>1. StreamInit => FeedInv
    BY StreamStarts DEF StreamInit, FeedInv, Placed, Whole
  <1>2. StreamInv /\ [StreamNext]_streamVars => StreamInv'
    BY StreamStep
  <1>3. FeedInv /\ [StreamNext]_streamVars => FeedInv'
    <2> SUFFICES ASSUME FeedInv, [StreamNext]_streamVars PROVE FeedInv'
      OBVIOUS
    <2>1. StreamInv' /\ StreamTypeOK' /\ StreamTypeOK
      BY <1>2 DEF FeedInv, StreamInv
    <2>2. /\ Len(log) \in Nat /\ dead \in Nat /\ dead <= Len(log)
          /\ \A l \in Listener : Placed(l) /\ Whole(l)
      BY <2>1, StreamNumbers DEF FeedInv
    <2>3. CASE \E e \in Event : Publish(e)
      <3>1. Len(log)' = Len(log) + 1
        BY <2>1, <2>3, AppendProperties DEF StreamTypeOK, Publish
      <3>2. Len(log) <= Len(log)' /\ dead <= dead'
        BY <2>2, <2>3, <3>1 DEF Publish
      <3>3. ASSUME NEW l \in Listener PROVE Placed(l)' /\ Whole(l)'
        BY <2>1, <2>2, <2>3, <3>2, FeedFrame DEF Publish
      <3>. QED BY <2>1, <3>3 DEF FeedInv
    <2>4. CASE Expire \/ UNCHANGED streamVars
      <3>1. Len(log) <= Len(log)' /\ dead <= dead'
        BY <2>2, <2>4 DEF Expire, streamVars
      <3>2. ASSUME NEW l \in Listener PROVE Placed(l)' /\ Whole(l)'
        BY <2>1, <2>2, <2>4, <3>1, FeedFrame DEF Expire, streamVars
      <3>. QED BY <2>1, <3>2 DEF FeedInv
    <2>5. ASSUME NEW m \in Listener,
                 \/ EventListen(m) \/ EventsListen(m) \/ Break(m)
                 \/ \E from \in Position \cup {Newest} : Listen(m, from)
          PROVE  FeedInv'
      <3>1. Placed(m)' /\ Whole(m)'
        BY <2>1, <2>5, SendWhole, ReadWhole, ReceiveWhole, OtherWhole DEF EventListen, EventsListen
      <3>2. ASSUME NEW l \in Listener, l # m PROVE Placed(l)' /\ Whole(l)'
        <4>1. /\ last'[l] = last[l] /\ start'[l] = start[l] /\ batch'[l] = batch[l]
              /\ conn'[l] = conn[l] /\ seen'[l] = seen[l] /\ client'[l] = client[l]
              /\ pc'[l] = pc[l]
          BY <2>1, <2>5, <3>2 DEF StreamTypeOK, EventListen, EventsListen, Call, ReadReturns, Quiet,
               Send, SendFails, Loop, Receive, Closed, Break, Listen
        <4>2. log' = log /\ dead' = dead
          BY <2>5 DEF EventListen, EventsListen, Call, ReadReturns, Quiet,
               Send, SendFails, Loop, Receive, Closed, Break, Listen
        <4>3. Len(log) <= Len(log)' /\ dead <= dead'
          BY <2>2, <4>2
        <4>. QED BY <2>1, <2>2, <4>1, <4>3, FeedFrame
      <3>. QED BY <2>1, <3>1, <3>2 DEF FeedInv
    <2>. QED BY <2>3, <2>4, <2>5 DEF StreamNext
  <1>. QED BY <1>1, <1>3, PTL DEF StreamSpec

-----------------------------------------------------------------------------
(* The refinement, step by step. *)

Open == {l \in Listener : client[l] \in {"off", "on"}}
FeedVars == <<log, dead, start, seen, Open>>

(* No event that has not expired lies between what the client saw last and
   what it takes now. *)
LEMMA NextInLine ==
  ASSUME FeedInv, NEW m \in Listener, Receive(m)
  PROVE  /\ conn[m][1] > Feed!Latest(m)
         /\ \A k \in Feed!Latest(m) + 1 .. conn[m][1] - 1 : k <= dead
  <1> DEFINE i == conn[m][1]
             n == Len(seen[m])
             p == Feed!Latest(m)
  <1>1. StreamTypeOK /\ Followed(m) /\ Placed(m) /\ Whole(m)
    BY DEF FeedInv, StreamInv
  <1>2. /\ i \in 1..Len(log) /\ i <= last[m] /\ 1 \in 1..Len(conn[m]) /\ start[m] # Newest
        /\ start[m] \in Nat /\ last[m] \in Nat /\ client[m] = "on"
    BY ReceiveMoves
  <1>3. Len(log) \in Nat /\ dead \in Nat /\ Len(log) <= MaxLog /\ MaxLog \in Nat
    BY <1>1, StreamNumbers
  <1>4. n \in Nat /\ (seen[m] = <<>> <=> n = 0)
    <2>1. seen[m] \in Seq([id : 1..MaxLog, data : Texts])
      BY <1>1, StreamTypes
    <2>. QED BY <2>1, LenProperties, EmptySeq
  <1>5. p = IF n = 0 THEN start[m] ELSE seen[m][n].id
    BY <1>4 DEF Feed!Latest
  <1>6. /\ p \in Nat /\ p >= start[m] /\ p < i
        /\ \A j \in 1..n : seen[m][j].id <= p
    <2>1. CASE n = 0
      BY <1>1, <1>2, <1>5, <2>1 DEF Placed
    <2>2. CASE n # 0
      <3>1. n \in 1..n /\ \A j \in 1..n : j = n \/ j < n
        BY <1>4, <2>2
      <3>2. /\ seen[m][n].id \in 1..Len(log) /\ seen[m][n].id > start[m]
            /\ seen[m][n].id < i
            /\ \A j \in 1..n : j < n => seen[m][j].id < seen[m][n].id
            /\ \A j \in 1..n : seen[m][j].id \in 1..Len(log)
        BY <1>1, <1>2, <3>1 DEF Placed, Followed, InOrder, Shown
      <3>3. p = seen[m][n].id
        BY <1>5, <2>2
      <3>. HIDE DEF p, i
      <3>4. p \in Nat /\ p >= start[m] /\ p < i
        BY <1>2, <1>3, <3>2, <3>3
      <3>5. ASSUME NEW j \in 1..n PROVE seen[m][j].id <= p
        BY <1>3, <1>4, <3>1, <3>2, <3>3
      <3>. QED BY <3>4, <3>5
    <2>. QED BY <2>1, <2>2
  <1> HIDE DEF p, n
  <1>7. ASSUME NEW k \in p + 1 .. i - 1, k > dead
        PROVE  FALSE
    <2>1. k \in Position /\ k > start[m] /\ k < i /\ k > p /\ k <= last[m] /\ k \in Nat
      BY <1>2, <1>3, <1>6, <1>7 DEF Position
    <2>2. SeenAt(m, k) \/ ConnAt(m, k) \/ BatchAt(m, k)
      BY <1>1, <1>2, <1>7, <2>1 DEF Whole, Reached
    <2>3. ~SeenAt(m, k)
      <3>1. \A j \in 1..n : seen[m][j].id \in 1..Len(log)
        BY <1>1 DEF Followed, InOrder, n
      <3>2. \A j \in 1..n : seen[m][j].id # k
        BY <1>3, <1>6, <2>1, <3>1
      <3>. QED BY <3>2 DEF SeenAt, n
    <2>4. ~ConnAt(m, k)
      <3> SUFFICES ASSUME NEW j \in 1..Len(conn[m]), conn[m][j] = k PROVE FALSE
        BY DEF ConnAt
      <3>1. j # 1
        BY <1>2, <2>1
      <3>2. 1 < j
        BY <3>1
      <3>3. i < k
        BY <1>1, <1>2, <3>2 DEF Followed, InOrder
      <3>. QED BY <1>2, <1>3, <2>1, <3>3
    <2>5. ~BatchAt(m, k)
      <3>1. \A j \in 1..Len(batch[m]) : batch[m][j] > last[m] /\ batch[m][j] \in 1..Len(log)
        BY <1>1 DEF Followed, InOrder
      <3>. QED BY <1>2, <1>3, <2>1, <3>1 DEF BatchAt
    <2>. QED BY <2>2, <2>3, <2>4, <2>5
  <1>8. \A k \in p + 1 .. i - 1 : k <= dead
    <2> TAKE k \in p + 1 .. i - 1
    <2>1. k \in Nat
      BY <1>2, <1>3, <1>6
    <2>. QED BY <1>3, <1>7, <2>1
  <1>. QED BY <1>6, <1>8 DEF p

(* Receiving shows the next event, or ends at an exit. *)
LEMMA ReceiveShows ==
  ASSUME FeedInv, NEW m \in Listener, Receive(m)
  PROVE  Feed!Show(m) \/ Feed!End(m)
  <1>1. /\ conn[m][1] \in 1..Len(log) /\ client[m] = "on" /\ start[m] # Newest
        /\ UNCHANGED <<log, dead, start>>
    BY ReceiveMoves
  <1>2. client \in [Listener -> {"off", "on", "told", "eof", "failed", "broken"}]
    BY DEF FeedInv, StreamInv, StreamTypeOK
  <1>3. m \in Open
    BY <1>1 DEF Open
  <1>4. ASSUME NEW x \in {"told", "failed"}, client' = [client EXCEPT ![m] = x]
        PROVE  Open' = Open \ {m}
    BY <1>2, <1>4 DEF Open
  <1>5. client' = [client EXCEPT ![m] = "on"] => Open' = Open
    BY <1>1, <1>2 DEF Open
  <1>6. CASE TookExit(m)
    <2>1. Open' = Open \ {m} /\ seen' = seen
      BY <1>4, <1>6 DEF TookExit
    <2>. QED BY <1>1, <1>3, <2>1 DEF Feed!End, Open
  <1>7. CASE TookEvent(m)
    <2> DEFINE i == conn[m][1]
               p == Parsed(log[i].data)
               Text == [e \in Event |-> Parsed(e.data).shown]
               Ends == {e \in Event : Parsed(e.data).end # "on"}
    <2>1. log[i] \in Event
      BY <1>1, StreamTypes DEF FeedInv, StreamInv
    <2>2. Text[log[i]] = p.shown /\ (log[i] \in Ends <=> p.end # "on")
      BY <2>1
    <2>3. Open' = IF log[i] \in Ends THEN Open \ {m} ELSE Open
      BY <1>4, <1>5, <1>7, <2>2 DEF TookEvent
    <2>4. /\ Text[log[i]] # <<>>
          /\ seen' = [seen EXCEPT ![m] = Append(@, [id |-> i, data |-> Text[log[i]]])]
      BY <1>7, <2>2 DEF TookEvent
    <2>5. i > Feed!Latest(m) /\ \A k \in Feed!Latest(m) + 1 .. i - 1 : k <= dead
      BY NextInLine
    <2> HIDE DEF i
    <2>6. i \in 1..Len(log)
      BY <1>1 DEF i
    <2>. QED BY <1>1, <1>3, <2>3, <2>4, <2>5, <2>6 DEF Feed!Show, Open
  <1>. QED BY <1>6, <1>7, ReceiveMoves

(* The server's side of a listener is seen when it fixes its position. *)
LEMMA ServerShows ==
  ASSUME FeedInv, NEW m \in Listener,
         \/ EventListen(m) \/ \E from \in Position \cup {Newest} : Listen(m, from)
  PROVE  Feed!Start(m) \/ UNCHANGED FeedVars
  <1>0. StreamTypeOK /\ Followed(m) /\ Placed(m) /\ Len(log) \in Nat
    BY StreamNumbers DEF FeedInv, StreamInv
  <1>1. CASE Call(m)
    <2>1. CASE start[m] = Newest
      <3> DEFINE p == IF last[m] = Newest THEN Len(log) ELSE last[m]
      <3>1. p \in 0..Len(log)
        BY <1>0 DEF Placed, StreamTypeOK, Position
      <3>2. start' = [start EXCEPT ![m] = p] /\ UNCHANGED <<log, dead, seen, client>>
        BY <1>1, <2>1 DEF Call
      <3>3. Open' = Open
        BY <3>2 DEF Open
      <3> HIDE DEF p
      <3>. QED BY <2>1, <3>1, <3>2, <3>3 DEF Feed!Start, Open
    <2>2. CASE start[m] # Newest
      <3>1. start' = start /\ UNCHANGED <<log, dead, seen, client>>
        BY <1>0, <1>1, <2>2 DEF Call, StreamTypeOK
      <3>. QED BY <3>1 DEF FeedVars, Open
    <2>. QED BY <2>1, <2>2
  <1>2. CASE ReadReturns(m) \/ Quiet(m) \/ Send(m) \/ SendFails(m) \/ Loop(m)
    BY <1>2 DEF ReadReturns, Quiet, Send, SendFails, Loop, FeedVars, Open
  <1>3. CASE \E from \in Position \cup {Newest} : Listen(m, from)
    <2>1. client[m] = "off" /\ UNCHANGED <<log, dead, start, seen>>
          /\ client' = [client EXCEPT ![m] = "on"]
      BY <1>0, <1>3 DEF Placed, Listen
    <2>2. Open' = Open
      BY <1>0, <2>1 DEF Open, StreamTypeOK
    <2>. QED BY <2>1, <2>2 DEF FeedVars
  <1>. QED BY <1>1, <1>2, <1>3 DEF EventListen

(* The client's side ends when it is told that nothing follows, or cut off. *)
LEMMA ClientEnds ==
  ASSUME FeedInv, NEW m \in Listener, Closed(m) \/ Break(m)
  PROVE  Feed!End(m)
  <1>1. client \in [Listener -> {"off", "on", "told", "eof", "failed", "broken"}]
    BY DEF FeedInv, StreamInv, StreamTypeOK
  <1>2. /\ client[m] = "on" /\ UNCHANGED <<log, dead, start, seen>>
        /\ \E x \in {"eof", "broken"} : client' = [client EXCEPT ![m] = x]
    BY DEF Closed, Break
  <1>3. m \in Open /\ Open' = Open \ {m}
    BY <1>1, <1>2 DEF Open
  <1>. QED BY <1>2, <1>3 DEF Feed!End, Open

LEMMA FeedStep ==
  ASSUME FeedInv, [StreamNext]_streamVars
  PROVE  [Feed!Next]_FeedVars
  <1>1. CASE \E e \in Event : Publish(e)
    <2>1. Open' = Open
      BY <1>1 DEF Publish, Open
    <2>2. Feed!Publish
      BY <1>1, <2>1 DEF Publish, Feed!Publish, Open
    <2>. QED BY <2>2 DEF Feed!Next
  <1>2. CASE Expire
    <2>1. Open' = Open
      BY <1>2 DEF Expire, Open
    <2>2. Feed!Expire
      BY <1>2, <2>1 DEF Expire, Feed!Expire, Open
    <2>. QED BY <2>2 DEF Feed!Next
  <1>3. CASE UNCHANGED streamVars
    BY <1>3 DEF streamVars, FeedVars, Open
  <1>4. CASE \E m \in Listener : \/ EventListen(m) \/ EventsListen(m) \/ Break(m)
                                 \/ \E from \in Position \cup {Newest} : Listen(m, from)
    BY <1>4, ReceiveShows, ServerShows, ClientEnds DEF EventsListen, Feed!Next
  <1>. QED BY <1>1, <1>2, <1>3, <1>4 DEF StreamNext

(* ImplementsFeed: handler, connection and client together show each listener
   every event that does not expire before it is read, once, in order and as
   its own text lets through, and nothing after an exit or another end. *)
THEOREM StreamImplementsFeed == StreamSpec => ImplementsFeed
  <1>1. StreamInit => Feed!Init
    BY DEF StreamInit, Feed!Init
  <1>2. FeedInv /\ [StreamNext]_streamVars => [Feed!Next]_FeedVars
    BY FeedStep
  <1>. QED BY <1>1, <1>2, FeedInvariant, PTL DEF StreamSpec, ImplementsFeed, Feed!Spec, FeedVars, Open
=============================================================================
