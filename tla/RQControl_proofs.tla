-------------------------- MODULE RQControl_proofs --------------------------
(***************************************************************************)
(* Proofs about RQControl, for any agents, workers, workflows and times.   *)
(* While a thread sleeps, its key and its timer run down together; between *)
(* its registration and its unregistration an agent is listed or was       *)
(* removed; and what is scheduled while its workflow is being deleted was  *)
(* put there after the deletion had begun.                                 *)
(***************************************************************************)
EXTENDS RQControl, TLAPS

Beating(a) ==
  /\ heart[a] <= Ttl
  /\ thread[a] = "off" => heart[a] + silent[a] <= Ttl
  /\ thread[a] = "sleep" /\ main[a] \notin {"unbeaten", "waiting"} =>
       timer[a] - heart[a] <= Check - Ttl

Listed(a) ==
  /\ main[a] \in {"listed", "serving"} => a \in nodes \cup removed
  /\ Up(a) # {} => Multi(a) \/ main[a] = "serving"

Uncrossed(f) == f \in sched /\ (f \in gone \/ ~Alive(f)) => f \in crossed

Inv == /\ TypeOK
       /\ \A a \in Agent : Beating(a) /\ Listed(a)
       /\ \A f \in Workflow : Uncrossed(f)

-----------------------------------------------------------------------------
LEMMA TimesAreNat == Ttl \in Nat /\ Check \in Nat /\ Ttl > 0 /\ Check > 0 /\ NoFlow \notin Workflow
                     /\ "off" \notin Exec /\ "idle" \notin Exec
  BY RQAssumption

LEMMA InitInv == Init => Inv
<1> SUFFICES ASSUME Init PROVE Inv
  OBVIOUS
<1>1. TypeOK
  BY RQAssumption DEF Init, TypeOK, Worker, MainState, ThreadState, CallState
<1>2. ASSUME NEW a \in Agent PROVE Beating(a)
  BY TimesAreNat DEF Init, Beating
<1>3. ASSUME NEW a \in Agent PROVE Listed(a)
  <2>1. \A s \in size[a] : work[<<a, s>>] = "off"
    BY <1>1 DEF Init, TypeOK, Worker
  <2> QED
    BY <2>1 DEF Init, Listed, Up
<1> QED
  BY <1>1, <1>2, <1>3 DEF Inv, Init, Uncrossed

(* Steps of an agent that leave its key, its thread and the workers alone. *)
LEMMA ListingStep ==
  ASSUME Inv, NEW a \in Agent,
         UNCHANGED <<size, thread, timer, flag, heart, silent, work, told, flowVars, call, of>>,
         TypeOK', \A b \in Agent \ {a} : main'[b] = main[b] /\ (b \in nodes <=> b \in nodes')
                                          /\ (b \in removed <=> b \in removed'),
         main[a] \in {"unbeaten", "waiting"} => main'[a] \in {"unbeaten", "waiting"},
         Listed(a)'
  PROVE  Inv'
<1>1. ASSUME NEW b \in Agent PROVE Beating(b)'
  BY DEF Inv, Beating
<1>2. ASSUME NEW b \in Agent \ {a} PROVE Listed(b)'
  BY DEF Inv, Listed, Up, Multi
<1>3. ASSUME NEW f \in Workflow PROVE Uncrossed(f)'
  BY DEF Inv, flowVars, Uncrossed, Alive
<1> QED
  BY <1>1, <1>2, <1>3 DEF Inv

LEMMA RegisterStep == ASSUME Inv, NEW a \in Agent, Register(a) PROVE Inv'
<1>1. TypeOK'
  BY DEF Inv, TypeOK, Register, Goto, flowVars, MainState
<1>2. Listed(a)'
  BY DEF Inv, TypeOK, Register, Goto, Listed, Up, Multi
<1> QED
  BY <1>1, <1>2, ListingStep DEF Inv, TypeOK, Register, Goto

LEMMA WorkersEndStep == ASSUME Inv, NEW a \in Agent, WorkersEnd(a) PROVE Inv'
<1>1. TypeOK'
  BY DEF Inv, TypeOK, WorkersEnd, Goto, flowVars, MainState
<1>2. Listed(a)'
  BY DEF Inv, TypeOK, WorkersEnd, Goto, Listed, Up, Multi
<1> QED
  BY <1>1, <1>2, ListingStep DEF Inv, TypeOK, WorkersEnd, Goto

LEMMA UnregisterStep == ASSUME Inv, NEW a \in Agent, Unregister(a) PROVE Inv'
<1>1. TypeOK'
  BY DEF Inv, TypeOK, Unregister, Goto, flowVars, MainState
<1>2. Listed(a)'
  BY DEF Inv, TypeOK, Unregister, Goto, Listed, Up, Multi
<1> QED
  BY <1>1, <1>2, ListingStep DEF Inv, TypeOK, Unregister, Goto

LEMMA RemoveStep == ASSUME Inv, NEW a \in Agent, Remove(a) PROVE Inv'
<1>1. TypeOK'
  BY DEF Inv, TypeOK, Remove, flowVars
<1>2. Listed(a)'
  BY DEF Inv, TypeOK, Remove, Listed, Up, Multi
<1> QED
  BY <1>1, <1>2, ListingStep DEF Inv, TypeOK, Remove

LEMMA SetFlagStep == ASSUME Inv, NEW a \in Agent, SetFlag(a) PROVE Inv'
<1>1. TypeOK'
  BY DEF Inv, TypeOK, SetFlag, Goto, flowVars, MainState
<1>2. /\ main[a] = "unbeaten" /\ main'[a] = "waiting"
      /\ \A b \in Agent \ {a} : main'[b] = main[b]
  BY DEF Inv, TypeOK, SetFlag, Goto
<1>3. ASSUME NEW b \in Agent PROVE Beating(b)'
  BY <1>2 DEF Inv, SetFlag, Beating
<1>4. ASSUME NEW b \in Agent PROVE Listed(b)'
  BY <1>2 DEF Inv, SetFlag, Listed, Up, Multi
<1>5. ASSUME NEW f \in Workflow PROVE Uncrossed(f)'
  BY DEF Inv, SetFlag, flowVars, Uncrossed, Alive
<1> QED
  BY <1>1, <1>3, <1>4, <1>5 DEF Inv

LEMMA StartWorkersStep == ASSUME Inv, NEW a \in Agent, StartWorkers(a) PROVE Inv'
<1>1. TypeOK'
  BY DEF Inv, TypeOK, StartWorkers, Goto, flowVars, MainState
<1>2. /\ \A b \in Agent \ {a} : main'[b] = main[b]
      /\ main'[a] = (IF Multi(a) THEN "ending" ELSE "serving") /\ main[a] = "listed"
  BY DEF Inv, TypeOK, StartWorkers, Goto
<1>3. ASSUME NEW b \in Agent PROVE Beating(b)'
  BY <1>2 DEF Inv, StartWorkers, Beating
<1>4. ASSUME NEW b \in Agent \ {a} PROVE Listed(b)'
  <2>1. \A s \in size[b] : <<b, s>> \in Worker
    BY DEF Inv, TypeOK, Worker
  <2>2. \A s \in size[b] : work'[<<b, s>>] = work[<<b, s>>]
    BY <2>1 DEF StartWorkers
  <2>3. Up(b)' = Up(b)
    BY <2>2 DEF StartWorkers, Up
  <2> QED
    BY <1>2, <2>3 DEF Inv, StartWorkers, Listed, Multi
<1>5. Listed(a)'
  BY <1>2 DEF Inv, StartWorkers, Listed, Multi
<1>6. ASSUME NEW f \in Workflow PROVE Uncrossed(f)'
  BY DEF Inv, StartWorkers, flowVars, Uncrossed, Alive
<1> QED
  BY <1>1, <1>3, <1>4, <1>5, <1>6 DEF Inv

(* Steps that leave the lists, the workers and the workflows alone. *)
LEMMA HeartStep ==
  ASSUME Inv, TypeOK', UNCHANGED <<size, nodes, removed, work, flowVars>>,
         \A b \in Agent : main'[b] \in {main[b], "off", "beating", "unbeaten"}
                          /\ (main[b] = "serving" /\ Up(b) # {} => main'[b] = "serving"),
         \A b \in Agent : Beating(b)'
  PROVE  Inv'
<1>1. ASSUME NEW b \in Agent PROVE Listed(b)'
  BY DEF Inv, Listed, Up, Multi
<1>2. ASSUME NEW f \in Workflow PROVE Uncrossed(f)'
  BY DEF Inv, flowVars, Uncrossed, Alive
<1> QED
  BY <1>1, <1>2 DEF Inv

LEMMA StartHeartStep == ASSUME Inv, NEW a \in Agent, StartHeart(a) PROVE Inv'
<1>1. TypeOK'
  BY DEF Inv, TypeOK, StartHeart, Goto, flowVars, MainState, ThreadState
<1>2. /\ thread'[a] = "check" /\ main'[a] = "beating" /\ main[a] = "off"
      /\ \A b \in Agent \ {a} : main'[b] = main[b] /\ thread'[b] = thread[b]
  BY DEF Inv, TypeOK, StartHeart, Goto
<1>3. ASSUME NEW b \in Agent PROVE Beating(b)'
  BY <1>2 DEF Inv, StartHeart, Beating
<1> QED
  BY <1>1, <1>2, <1>3, HeartStep DEF StartHeart

LEMMA DeleteHeartStep == ASSUME Inv, NEW a \in Agent, DeleteHeart(a) PROVE Inv'
<1>1. TypeOK'
  BY DEF Inv, TypeOK, DeleteHeart, Goto, flowVars, MainState
<1>2. /\ heart'[a] = 0 /\ main'[a] = "unbeaten" /\ main[a] = "unlisted"
      /\ \A b \in Agent \ {a} : main'[b] = main[b] /\ heart'[b] = heart[b]
  BY DEF Inv, TypeOK, DeleteHeart, Goto
<1>3. ASSUME NEW b \in Agent PROVE Beating(b)'
  BY <1>2, TimesAreNat DEF Inv, TypeOK, DeleteHeart, Beating
<1> QED
  BY <1>1, <1>2, <1>3, HeartStep DEF DeleteHeart

(* The silence begins with the end of the thread. *)
LEMMA EndedFacts ==
  ASSUME Inv, NEW a \in Agent, Ended(a), UNCHANGED heart
  PROVE  /\ main' \in [Agent -> MainState] /\ thread' \in [Agent -> ThreadState]
         /\ timer' \in [Agent -> 0..Check] /\ silent' \in [Agent -> 0..Ttl]
         /\ main'[a] = "off" /\ \A b \in Agent \ {a} : main'[b] = main[b]
         /\ \A b \in Agent : Beating(b)'
<1>1. /\ main' \in [Agent -> MainState] /\ thread' \in [Agent -> ThreadState]
      /\ timer' \in [Agent -> 0..Check] /\ silent' \in [Agent -> 0..Ttl]
  BY TimesAreNat DEF Inv, TypeOK, Ended, Goto, MainState, ThreadState
<1>2. /\ main'[a] = "off" /\ thread'[a] = "off"
      /\ silent'[a] = (IF thread[a] = "off" THEN silent[a] ELSE 0)
      /\ \A b \in Agent \ {a} : /\ main'[b] = main[b] /\ thread'[b] = thread[b]
                                /\ timer'[b] = timer[b] /\ silent'[b] = silent[b]
  BY DEF Inv, TypeOK, Ended, Goto
<1>3. ASSUME NEW b \in Agent PROVE Beating(b)'
  BY <1>2, TimesAreNat DEF Inv, TypeOK, Beating
<1> QED
  BY <1>1, <1>2, <1>3

LEMMA ExitStep == ASSUME Inv, NEW a \in Agent, Exit(a) PROVE Inv'
<1>1. TypeOK'
  BY EndedFacts DEF Inv, TypeOK, Exit, flowVars
<1> QED
  BY <1>1, EndedFacts, HeartStep DEF Exit

LEMMA CrashStep == ASSUME Inv, NEW a \in Agent, Crash(a) PROVE Inv'
<1>1. TypeOK'
  BY EndedFacts DEF Inv, TypeOK, Crash, flowVars, CallState
<1>2. ASSUME NEW b \in Agent PROVE Listed(b)'
  <2>1. \A s \in size[b] : <<b, s>> \in Worker
    BY DEF Inv, TypeOK, Worker
  <2>2. \A s \in size[b] : work'[<<b, s>>] = (IF b = a THEN "off" ELSE work[<<b, s>>])
    BY <2>1 DEF Crash
  <2>3. main'[b] = (IF b = a THEN "off" ELSE main[b])
    BY EndedFacts DEF Crash
  <2> QED
    BY <2>2, <2>3 DEF Inv, Crash, Listed, Up, Multi
<1>3. ASSUME NEW f \in Workflow PROVE Uncrossed(f)'
  BY DEF Inv, Crash, flowVars, Uncrossed, Alive
<1> QED
  BY <1>1, <1>2, <1>3, EndedFacts DEF Inv, Crash

LEMMA HeartbeatStep == ASSUME Inv, NEW a \in Agent, HeartbeatRun(a) PROVE Inv'
<1>1. CASE LookAtFlag(a)
  <2>1. TypeOK'
    BY <1>1, TimesAreNat DEF Inv, TypeOK, LookAtFlag, flowVars, ThreadState
  <2>2. /\ thread[a] = "check" /\ thread'[a] = (IF flag[a] THEN "off" ELSE "set")
        /\ silent'[a] = (IF flag[a] THEN 0 ELSE silent[a])
        /\ \A b \in Agent \ {a} : thread'[b] = thread[b] /\ silent'[b] = silent[b]
    BY <1>1 DEF Inv, TypeOK, LookAtFlag
  <2>3. ASSUME NEW b \in Agent PROVE Beating(b)'
    BY <1>1, <2>2, TimesAreNat DEF Inv, TypeOK, LookAtFlag, Beating
  <2> QED
    BY <1>1, <2>1, <2>3, HeartStep DEF LookAtFlag
<1>2. CASE SetHeart(a)
  <2>1. TypeOK'
    BY <1>2, TimesAreNat DEF Inv, TypeOK, SetHeart, flowVars, ThreadState
  <2>2. /\ thread'[a] = "sleep" /\ timer'[a] = Check /\ heart'[a] = Ttl
        /\ \A b \in Agent \ {a} : thread'[b] = thread[b] /\ timer'[b] = timer[b] /\ heart'[b] = heart[b]
    BY <1>2 DEF Inv, TypeOK, SetHeart
  <2>3. ASSUME NEW b \in Agent PROVE Beating(b)'
    BY <1>2, <2>2, TimesAreNat DEF Inv, TypeOK, SetHeart, Beating
  <2> QED
    BY <1>2, <2>1, <2>3, HeartStep DEF SetHeart
<1>3. CASE Wake(a)
  <2>1. TypeOK'
    BY <1>3 DEF Inv, TypeOK, Wake, flowVars, ThreadState
  <2>2. thread'[a] = "check" /\ \A b \in Agent \ {a} : thread'[b] = thread[b]
    BY <1>3 DEF Inv, TypeOK, Wake
  <2>3. ASSUME NEW b \in Agent PROVE Beating(b)'
    BY <1>3, <2>2 DEF Inv, Wake, Beating
  <2> QED
    BY <1>3, <2>1, <2>3, HeartStep DEF Wake
<1>4. CASE SetFails(a)
  <2>1. PICK t \in {heart[a], Ttl} : heart' = [heart EXCEPT ![a] = t]
    BY <1>4 DEF SetFails
  <2>2. t \in Nat /\ t <= Ttl
    BY <2>1, TimesAreNat DEF Inv, TypeOK, Beating
  <2>3. TypeOK'
    BY <1>4, <2>1, <2>2, TimesAreNat DEF Inv, TypeOK, SetFails, flowVars, ThreadState
  <2>4. /\ thread'[a] = "off" /\ silent'[a] = 0 /\ heart'[a] = t /\ timer' = timer
        /\ \A b \in Agent \ {a} : thread'[b] = thread[b] /\ silent'[b] = silent[b] /\ heart'[b] = heart[b]
    BY <1>4, <2>1 DEF Inv, TypeOK, SetFails
  <2>5. ASSUME NEW b \in Agent PROVE Beating(b)'
    BY <1>4, <2>2, <2>4, TimesAreNat DEF Inv, TypeOK, SetFails, Beating
  <2> QED
    BY <1>4, <2>3, <2>5, HeartStep DEF SetFails
<1> QED
  BY <1>1, <1>2, <1>3, <1>4 DEF HeartbeatRun

(* A minute takes one off the key and one off the timer of a thread asleep. *)
LEMMA MinuteStep == ASSUME Inv, Minute PROVE Inv'
<1>1. \A n \in Nat : Down(n) \in Nat /\ Down(n) <= n /\ (n > 0 => Down(n) = n - 1)
                     /\ (n = 0 => Down(n) = 0)
  BY DEF Down
<1>2. \A a \in Agent : /\ timer'[a] = Down(timer[a]) /\ heart'[a] = Down(heart[a])
                       /\ silent'[a] = (IF thread[a] = "off" /\ silent[a] < Ttl THEN silent[a] + 1
                                        ELSE silent[a])
                       /\ timer[a] \in Nat /\ heart[a] \in Nat /\ silent[a] \in Nat
                       /\ timer[a] <= Check /\ silent[a] <= Ttl
  BY TimesAreNat DEF Inv, TypeOK, Minute
<1>3. TypeOK'
  <2>1. \A a \in Agent : /\ timer'[a] \in 0..Check /\ heart'[a] \in Nat /\ silent'[a] \in 0..Ttl
    BY <1>1, <1>2, TimesAreNat
  <2>2. timer' \in [Agent -> 0..Check] /\ heart' \in [Agent -> Nat] /\ silent' \in [Agent -> 0..Ttl]
    BY <2>1 DEF Minute
  <2> QED
    BY <2>2 DEF Inv, TypeOK, Minute, flowVars
<1>4. ASSUME NEW a \in Agent PROVE Beating(a)'
  <2>1. thread'[a] = thread[a] /\ main'[a] = main[a] /\ (thread[a] = "sleep" => timer[a] > 0)
    BY DEF Minute
  <2>2. heart'[a] <= Ttl
    BY <1>1, <1>2, TimesAreNat DEF Inv, Beating
  <2>3. thread[a] = "off" => heart'[a] + silent'[a] <= Ttl
    BY <1>1, <1>2, TimesAreNat DEF Inv, Beating
  <2>4. thread[a] = "sleep" /\ main[a] \notin {"unbeaten", "waiting"} =>
          timer'[a] - heart'[a] <= Check - Ttl
    BY <1>1, <1>2, <2>1, TimesAreNat DEF Inv, Beating
  <2> QED
    BY <2>1, <2>2, <2>3, <2>4 DEF Beating
<1> QED
  BY <1>3, <1>4, HeartStep DEF Minute

-----------------------------------------------------------------------------
(* Steps of the workers: none of them starts one. *)
LEMMA WorkStep ==
  ASSUME Inv, TypeOK', UNCHANGED <<agentVars, flowVars>>,
         \A w \in Worker : work[w] = "off" => work'[w] = "off"
  PROVE  Inv'
<1>1. ASSUME NEW b \in Agent PROVE Listed(b)'
  <2>1. \A s \in size[b] : <<b, s>> \in Worker
    BY DEF Inv, TypeOK, Worker
  <2>2. Up(b)' # {} => Up(b) # {}
    BY <2>1 DEF agentVars, Up
  <2> QED
    BY <2>2 DEF Inv, agentVars, Listed, Multi
<1>2. ASSUME NEW b \in Agent PROVE Beating(b)'
  BY DEF Inv, agentVars, Beating
<1>3. ASSUME NEW f \in Workflow PROVE Uncrossed(f)'
  BY DEF Inv, flowVars, Uncrossed, Alive
<1> QED
  BY <1>1, <1>2, <1>3 DEF Inv

LEMMA ShutdownStep == ASSUME Inv, NEW W \in SUBSET Worker, Shutdown(W) PROVE Inv'
<1>1. work' \in [Worker -> {"off", "idle"} \cup Exec]
  BY DEF Inv, TypeOK, Shutdown
<1>2. told' \subseteq Worker
  BY DEF Inv, TypeOK, Shutdown
<1>3. TypeOK'
  BY <1>1, <1>2 DEF Inv, TypeOK, Shutdown, agentVars, flowVars
<1> QED
  BY <1>3, WorkStep DEF Shutdown

LEMMA TakeStep == ASSUME Inv, NEW w \in Worker, NEW e \in Exec, Take(w, e) PROVE Inv'
<1>1. TypeOK'
  BY DEF Inv, TypeOK, Take, agentVars, flowVars, CallState
<1> QED
  BY <1>1, WorkStep DEF Inv, TypeOK, Take

LEMMA FinishStep == ASSUME Inv, NEW w \in Worker, Finish(w) PROVE Inv'
<1>1. TypeOK'
  BY DEF Inv, TypeOK, Finish, agentVars, flowVars, CallState
<1>2. \A v \in Worker : work[v] = "off" => work'[v] = "off"
  BY TimesAreNat DEF Inv, TypeOK, Finish
<1> QED
  BY <1>1, <1>2, WorkStep DEF Finish

LEMMA CallStep ==
  ASSUME Inv, NEW e \in Exec, SchedulerDispatcher(e) \/ \E f \in Workflow : Dispatch(e, f)
  PROVE  Inv'
<1>1. TypeOK'
  BY DEF Inv, TypeOK, SchedulerDispatcher, Dispatch, agentVars, flowVars, CallState
<1> QED
  BY <1>1, WorkStep DEF SchedulerDispatcher, Dispatch

-----------------------------------------------------------------------------
(* Steps of the workflows. *)
LEMMA FlowStep ==
  ASSUME Inv, TypeOK', UNCHANGED <<agentVars, work>>, \A f \in Workflow : Uncrossed(f)'
  PROVE  Inv'
<1>1. ASSUME NEW b \in Agent PROVE Beating(b)' /\ Listed(b)'
  BY DEF Inv, agentVars, Beating, Listed, Up, Multi
<1> QED
  BY <1>1 DEF Inv

LEMMA FlowsStep == ASSUME Inv, NEW f \in Workflow, Flow(f) PROVE Inv'
<1>1. CASE Save(f)
  <2>1. TypeOK'
    BY <1>1 DEF Inv, TypeOK, Save, agentVars
  <2>2. row'[f] \in {"on", "off"} /\ \A g \in Workflow \ {f} : row'[g] = row[g]
    BY <1>1 DEF Inv, TypeOK, Save
  <2>3. ASSUME NEW g \in Workflow PROVE Uncrossed(g)'
    BY <1>1, <2>2 DEF Inv, Save, Uncrossed, Alive
  <2> QED
    BY <1>1, <2>1, <2>3, FlowStep DEF Save
<1>2. CASE Schedule(f)
  <2>1. TypeOK'
    BY <1>2 DEF Inv, TypeOK, Schedule, agentVars
  <2>2. ASSUME NEW g \in Workflow PROVE Uncrossed(g)'
    BY <1>2 DEF Inv, Schedule, Uncrossed, Alive
  <2> QED
    BY <1>2, <2>1, <2>2, FlowStep DEF Schedule
<1>3. CASE CancelJob(f)
  <2>1. TypeOK'
    BY <1>3 DEF Inv, TypeOK, CancelJob, agentVars
  <2>2. ASSUME NEW g \in Workflow PROVE Uncrossed(g)'
    BY <1>3 DEF Inv, CancelJob, Uncrossed, Alive
  <2> QED
    BY <1>3, <2>1, <2>2, FlowStep DEF CancelJob
<1>4. CASE DeleteRow(f)
  <2>1. TypeOK'
    BY <1>4 DEF Inv, TypeOK, DeleteRow, agentVars
  <2>2. \A g \in Workflow \ {f} : row'[g] = row[g]
    BY <1>4 DEF Inv, TypeOK, DeleteRow
  <2>3. ASSUME NEW g \in Workflow PROVE Uncrossed(g)'
    BY <1>4, <2>2 DEF Inv, DeleteRow, Uncrossed, Alive
  <2> QED
    BY <1>4, <2>1, <2>3, FlowStep DEF DeleteRow
<1> QED
  BY <1>1, <1>2, <1>3, <1>4 DEF Flow

LEMMA CancelAllStep == ASSUME Inv, CancelAll PROVE Inv'
<1>1. TypeOK'
  BY DEF Inv, TypeOK, CancelAll, agentVars
<1> QED
  BY <1>1, FlowStep DEF CancelAll, Uncrossed

-----------------------------------------------------------------------------
LEMMA NextInv == Inv /\ [Next]_vars => Inv'
<1> SUFFICES ASSUME Inv, [Next]_vars PROVE Inv'
  OBVIOUS
<1>1. ASSUME NEW a \in Agent, StartHeart(a) \/ AgentRun(a) \/ HeartbeatRun(a) \/ Crash(a)
                                \/ Remove(a)
      PROVE  Inv'
  BY <1>1, StartHeartStep, RegisterStep, StartWorkersStep, WorkersEndStep, UnregisterStep,
     DeleteHeartStep, SetFlagStep, ExitStep, HeartbeatStep, CrashStep, RemoveStep
     DEF AgentRun
<1>2. ASSUME NEW a \in Agent, KillWorkers(a) PROVE Inv'
  <2>1. {a} \X size[a] \subseteq Worker
    BY DEF Inv, TypeOK, Worker
  <2> QED
    BY <1>2, <2>1, ShutdownStep DEF KillWorkers
<1>3. CASE Minute \/ KillQueue \/ CancelAll
  BY <1>3, MinuteStep, ShutdownStep, CancelAllStep DEF KillQueue
<1>4. ASSUME NEW w \in Worker, Finish(w) \/ \E e \in Exec : Take(w, e) PROVE Inv'
  BY <1>4, FinishStep, TakeStep
<1>5. ASSUME NEW f \in Workflow, Flow(f) \/ \E e \in Exec : Dispatch(e, f) PROVE Inv'
  BY <1>5, FlowsStep, CallStep
<1>6. ASSUME NEW e \in Exec, SchedulerDispatcher(e) PROVE Inv'
  BY <1>6, CallStep
<1>7. CASE UNCHANGED vars
  BY <1>7 DEF vars, agentVars, flowVars, Inv, TypeOK, Beating, Listed, Uncrossed, Up, Multi, Alive
<1> QED
  BY <1>1, <1>2, <1>3, <1>4, <1>5, <1>6, <1>7 DEF Next

LEMMA Invariance == Spec => []Inv
<1> QED
  BY InitInv, NextInv, PTL DEF Spec

(* Every variable keeps its type: an agent stands at a line of its main, its
   thread in its loop, and what a worker does is an execution. *)
THEOREM TypeCorrect == Spec => []TypeOK
<1>1. Inv => TypeOK
  BY DEF Inv
<1> QED
  BY <1>1, Invariance, PTL

(* The heartbeat's loop and unregister: a key outlives its thread by at most
   its time to live, and misses by at most what the check is longer. *)
THEOREM HeartbeatsAreBounded == Spec => []HeartbeatBound
<1>1. Inv => HeartbeatBound
  BY TimesAreNat DEF Inv, TypeOK, Beating, HeartbeatBound
<1> QED
  BY <1>1, Invariance, PTL

(* run's order: only an agent with several workers, or a removed one, has a
   worker while the register does not know it. *)
THEOREM UnlistedHaveCauses == Spec => []UnlistedWorkers
<1>1. Inv => UnlistedWorkers
  BY DEF Inv, Listed, UnlistedWorkers
<1> QED
  BY <1>1, Invariance, PTL

(* delete_workflow cancels the job before it deletes the row: a job without
   its workflow was scheduled in between or after. *)
THEOREM OrphansCrossed == Spec => []OrphanNeedsCrossing
<1>1. Inv => OrphanNeedsCrossing
  BY DEF Inv, TypeOK, Uncrossed, OrphanNeedsCrossing
<1> QED
  BY <1>1, Invariance, PTL

=============================================================================
