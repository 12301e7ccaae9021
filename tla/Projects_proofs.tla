-------------------------- MODULE Projects_proofs --------------------------
(***************************************************************************)
(* Proofs about Projects, for every set of folders, people, agents, names, *)
(* ids and requests, whatever fails.  The inductive invariant adds what    *)
(* keeps the parties apart: an open transaction has an id and a name of    *)
(* its own, a folder that has not been answered yet has an id no project   *)
(* has or will have, and a key is kept under such an id.                   *)
(* The builds that bundle a project's secrets (RuntimeBuild) follow.       *)
(***************************************************************************)
EXTENDS Projects, RuntimeBuild, TLAPS

InUse(i)  == \E r \in Req : req[r].stage \in Open /\ req[r].id = i
Unanswered == {"local", "waiting", "stored"}
(* An id that is drawn and neither a project's nor about to become one. *)
Spare(i)  == i \in drawn /\ i \notin DOMAIN projects /\ ~InUse(i)

(* What a request carries at its stage; its user is locked while it is open. *)
Handled ==
  \A r \in Req :
    /\ req[r].stage \in Open \cup {"sent", "exists", "created"} =>
         req[r].name \in Name /\ req[r].key \in Id /\ req[r].user \in User
    /\ req[r].stage \in Open =>
         /\ req[r].user \in users /\ ~Taken(req[r].name)
         /\ req[r].id \in drawn /\ req[r].id \notin DOMAIN projects
    /\ req[r].stage = "peopled" => req[r].agent \in Agent
    /\ req[r].stage = "created" =>
         /\ req[r].id \in DOMAIN projects
         /\ projects[req[r].id].name = req[r].name
         /\ projects[req[r].id].key = req[r].key

(* The unique index: open transactions wait for each other's names. *)
Apart ==
  \A r, s \in Req :
    r # s /\ req[r].stage \in Open /\ req[s].stage \in Open =>
      req[r].name # req[s].name /\ req[r].id # req[s].id

(* Where a folder stands, what it knows of its request. *)
Asked ==
  \A f \in Folder :
    /\ pc[f] \in Unanswered => lab[f].id \in Id /\ lab[f].name \in Name /\ Spare(lab[f].id)
    /\ pc[f] \in {"waiting", "stored"} =>
         /\ sent[f] \in Req /\ req[sent[f]].stage # "new"
         /\ req[sent[f]].stage # "failed" =>
              req[sent[f]].name = lab[f].name /\ req[sent[f]].key = lab[f].id
    /\ pc[f] = "stored" =>
         /\ req[sent[f]].stage = "created"
         /\ keyfile[UserOf[f]][lab[f].id] = lab[f].id

(* Labfiles and bundles name no project that is still being created. *)
Settled ==
  /\ DOMAIN projects \subseteq drawn
  /\ \A f \in Folder : lab[f].id # NoId => lab[f].id \in drawn /\ ~InUse(lab[f].id)
  /\ \A b \in bundles : b[1] \in drawn /\ ~InUse(b[1])

(* A key is kept under the id it was made for, which the server never uses. *)
KeysKept ==
  \A u \in User, i \in Id :
    keyfile[u][i] # NoId => keyfile[u][i] = i /\ Spare(i)

Inv == /\ TypeOK /\ References /\ Handled /\ Apart /\ Asked /\ Settled /\ KeysKept
       /\ SecretsReadable

-----------------------------------------------------------------------------
(* The operators. *)

(* Deleting a user changes no project but for its owner. *)
LEMMA OrphanedRows ==
  ASSUME TypeOK, NEW u
  PROVE  /\ DOMAIN Orphaned(u) = DOMAIN projects
         /\ \A p \in DOMAIN projects :
              /\ Orphaned(u)[p] \in ProjectRow
              /\ Orphaned(u)[p].name = projects[p].name
              /\ Orphaned(u)[p].key = projects[p].key
              /\ \/ Orphaned(u)[p].owner = NoOne
                 \/ Orphaned(u)[p].owner = projects[p].owner /\ projects[p].owner # u
  BY DEF Orphaned, TypeOK, ProjectRow

(* The table with a new project. *)
LEMMA AddedRows ==
  ASSUME NEW r
  PROVE  /\ DOMAIN Added(r) = DOMAIN projects \cup {req[r].id}
         /\ Added(r)[req[r].id] = NewRow(r)
         /\ \A p \in DOMAIN projects \ {req[r].id} : Added(r)[p] = projects[p]
  BY DEF Added

(* The agent of an INSERT is a new one. *)
LEMMA FreshIsAgent == FreshAgent \subseteq Agent
  BY DEF FreshAgent

(* A handler changes its own request only, and its stage. *)
LEMMA ServeMoves ==
  ASSUME TypeOK, NEW r \in Req, NEW rec \in Request, Serve(r, rec)
  PROVE  /\ req' \in [Req -> Request] /\ req'[r] = rec
         /\ \A s \in Req \ {r} : req'[s] = req[s]
  BY DEF TypeOK, Serve

LEMMA NothingType == Nothing \in Request
  BY DEF Nothing, Request, Stage

(* A stage is set and the rest of a request kept. *)
LEMMA StageSet ==
  ASSUME NEW q \in Request, NEW st \in Stage
  PROVE  LET n == [q EXCEPT !.stage = st] IN
         /\ n \in Request /\ n.stage = st /\ n.name = q.name /\ n.key = q.key
         /\ n.user = q.user /\ n.id = q.id /\ n.agent = q.agent
  BY DEF Request

-----------------------------------------------------------------------------
(* The invariant holds at the start ... *)

LEMMA InitInv == Init => Inv
<1> SUFFICES ASSUME Init PROVE Inv
  OBVIOUS
<1>1. TypeOK
  BY ProjectsAssumption, NothingType DEF Init, TypeOK, Anyone
<1>2. DOMAIN projects = {} /\ members = {} /\ bundles = {}
  BY DEF Init
<1>3. References /\ Settled /\ SecretsReadable
  BY <1>2 DEF Init, References, Settled, SecretsReadable
<1>4. Handled /\ Apart
  BY DEF Init, Handled, Apart, Nothing, Open
<1>5. Asked /\ KeysKept
  BY DEF Init, Asked, KeysKept, Unanswered
<1> QED
  BY <1>1, <1>3, <1>4, <1>5 DEF Inv

(* ... and is kept by every step of a handler. *)

(* A handler ends without a commit: refused, failed or rolled back. *)
LEMMA QuitStep ==
  ASSUME Inv, NEW r \in Req, req[r].stage \in {"sent"} \cup Open,
         req' \in [Req -> Request], \A s \in Req \ {r} : req'[s] = req[s],
         \/ req'[r].stage = "failed"
         \/ /\ req'[r].stage = "exists" /\ req'[r].name = req[r].name
            /\ req'[r].key = req[r].key /\ req'[r].user = req[r].user,
         UNCHANGED <<tables, found, client, deleted, drawn>>
  PROVE  Inv'
<1> USE DEF tables, client
<1>1. \A i : InUse(i)' => InUse(i)
  BY DEF InUse, Open
<1>2. \A i : Spare(i) => Spare(i)'
  BY <1>1 DEF Spare
<1>3. TypeOK'
  BY DEF Inv, TypeOK
<1>4. References' /\ SecretsReadable'
  BY DEF Inv, References, SecretsReadable
<1>5. Handled'
  BY DEF Inv, Handled, Open, Taken
<1>6. Apart'
  BY DEF Inv, Apart, Open
<1>7. Asked'
  BY <1>2 DEF Inv, Asked, Open
<1>8. Settled' /\ KeysKept'
  BY <1>1, <1>2 DEF Inv, Settled, KeysKept
<1> QED
  BY <1>3, <1>4, <1>5, <1>6, <1>7, <1>8 DEF Inv

(* A handler goes on in its transaction. *)
LEMMA OpenStep ==
  ASSUME Inv, NEW r \in Req, req[r].stage \in Open, req'[r].stage \in Open,
         req' \in [Req -> Request], \A s \in Req \ {r} : req'[s] = req[s],
         req'[r].name = req[r].name, req'[r].key = req[r].key,
         req'[r].user = req[r].user, req'[r].id = req[r].id,
         req'[r].stage = "peopled" => req'[r].agent \in Agent,
         UNCHANGED <<tables, found, client, deleted, drawn>>
  PROVE  Inv'
<1> USE DEF tables, client
<1>1. \A i : InUse(i)' => InUse(i)
  BY DEF InUse
<1>2. \A i : Spare(i) => Spare(i)'
  BY <1>1 DEF Spare
<1>3. TypeOK'
  BY DEF Inv, TypeOK
<1>4. References' /\ SecretsReadable'
  BY DEF Inv, References, SecretsReadable
<1>5. Handled'
  BY DEF Inv, Handled, Open, Taken
<1>6. Apart'
  BY DEF Inv, Apart
<1>7. Asked'
  BY <1>2 DEF Inv, Asked, Open
<1>8. Settled' /\ KeysKept'
  BY <1>1, <1>2 DEF Inv, Settled, KeysKept
<1> QED
  BY <1>3, <1>4, <1>5, <1>6, <1>7, <1>8 DEF Inv

(* The INSERT: the id is new and the name is nobody else's. *)
LEMMA InsertStep == ASSUME Inv, NEW r \in Req, Insert(r) PROVE Inv'
<1>0. req[r] \in Request /\ req[r].stage = "sent" /\ TypeOK
  BY DEF Inv, TypeOK, Insert
<1>1. CASE ~Known(r) /\ Serve(r, [req[r] EXCEPT !.stage = "failed"]) /\ UNCHANGED drawn
  <2>1. [req[r] EXCEPT !.stage = "failed"] \in Request /\ [req[r] EXCEPT !.stage = "failed"].stage = "failed"
    BY <1>0, StageSet DEF Stage
  <2> QED
    BY <1>0, <1>1, <2>1, ServeMoves, QuitStep DEF Insert
<1>2. CASE Serve(r, [req[r] EXCEPT !.stage = "exists"]) /\ UNCHANGED drawn
  <2>1. LET n == [req[r] EXCEPT !.stage = "exists"] IN
        n \in Request /\ n.stage = "exists" /\ n.name = req[r].name /\ n.key = req[r].key /\ n.user = req[r].user
    BY <1>0, StageSet DEF Stage
  <2> QED
    BY <1>0, <1>2, <2>1, ServeMoves, QuitStep DEF Insert
<1>3. ASSUME Known(r), ~Busy(req[r].name), ~Taken(req[r].name), NEW i \in Id \ drawn,
             Serve(r, [req[r] EXCEPT !.stage = "inserted", !.id = i]),
             drawn' = drawn \cup {i}
      PROVE  Inv'
  <2> DEFINE n == [req[r] EXCEPT !.stage = "inserted", !.id = i]
  <2>1. /\ n \in Request /\ n.stage = "inserted" /\ n.id = i
        /\ n.name = req[r].name /\ n.key = req[r].key /\ n.user = req[r].user
    BY <1>0 DEF Request, Stage, Open
  <2>2. /\ req' \in [Req -> Request] /\ req'[r] = n
        /\ \A s \in Req \ {r} : req'[s] = req[s]
    BY <1>0, <1>3, <2>1, ServeMoves
  <2> HIDE DEF n
  <2>3. UNCHANGED <<projects, members, users, found, pc, sent, lab, keyfile, bundles, deleted>>
    BY DEF Insert, tables, client
  <2>4. \A j : InUse(j)' => InUse(j) \/ j = i
    BY <2>1, <2>2 DEF InUse
  <2>5. \A j : Spare(j) => Spare(j)'
    BY <1>3, <2>3, <2>4 DEF Spare
  <2>6. TypeOK'
    BY <1>0, <1>3, <2>2, <2>3 DEF TypeOK
  <2>7. References' /\ SecretsReadable'
    BY <2>3 DEF Inv, References, SecretsReadable
  <2>8. \A s \in Req \ {r} : req[s].stage \in Open =>
                              req[s].name # req[r].name /\ req[s].id # i
    BY <1>3 DEF Inv, Busy, Handled
  <2>9. Apart'
    BY <2>1, <2>2, <2>8 DEF Inv, Apart
  <2>10. i \notin DOMAIN projects
    BY <1>3 DEF Inv, Settled
  <2>11. Handled'
    BY <1>0, <1>3, <2>1, <2>2, <2>3, <2>10 DEF Inv, Handled, Open, Taken, Known
  <2>12. Asked'
    BY <1>0, <2>1, <2>2, <2>3, <2>5 DEF Inv, Asked
  <2>13. Settled' /\ KeysKept'
    BY <1>3, <2>3, <2>4, <2>5 DEF Inv, Settled, KeysKept
  <2> QED
    BY <2>6, <2>7, <2>9, <2>11, <2>12, <2>13 DEF Inv
<1> QED
  BY <1>1, <1>2, <1>3 DEF Insert

LEMMA RelateStep == ASSUME Inv, NEW r \in Req, Relate(r) PROVE Inv'
<1>1. req[r] \in Request /\ req[r].stage \in Open /\ TypeOK
  BY DEF Inv, TypeOK, Relate, Open
<1> DEFINE n == [req[r] EXCEPT !.stage = "related"]
<1>2. /\ n \in Request /\ n.stage = "related" /\ n.name = req[r].name /\ n.key = req[r].key
      /\ n.user = req[r].user /\ n.id = req[r].id
  BY <1>1, StageSet DEF Stage, Open
<1>3. req' \in [Req -> Request] /\ req'[r] = n /\ \A s \in Req \ {r} : req'[s] = req[s]
  BY <1>1, <1>2, ServeMoves DEF Relate
<1> HIDE DEF n
<1>4. "related" \in Open /\ "related" # "peopled"
  BY DEF Open
<1>5. UNCHANGED <<tables, found, client, deleted, drawn>>
  BY DEF Relate
<1> QED
  BY <1>1, <1>2, <1>3, <1>4, <1>5, OpenStep

LEMMA NewAgentStep == ASSUME Inv, NEW r \in Req, NewAgent(r) PROVE Inv'
<1>1. req[r] \in Request /\ req[r].stage \in Open /\ TypeOK
  BY DEF Inv, TypeOK, NewAgent, Open
<1>2. PICK a \in FreshAgent : Serve(r, [req[r] EXCEPT !.stage = "peopled", !.agent = a])
  BY DEF NewAgent
<1> DEFINE n == [req[r] EXCEPT !.stage = "peopled", !.agent = a]
<1>3. /\ n \in Request /\ n.stage = "peopled" /\ n.name = req[r].name /\ n.key = req[r].key
      /\ n.user = req[r].user /\ n.id = req[r].id /\ n.agent \in Agent
  BY <1>1, FreshIsAgent DEF Request, Stage, Open
<1>4. req' \in [Req -> Request] /\ req'[r] = n /\ \A s \in Req \ {r} : req'[s] = req[s]
  BY <1>1, <1>2, <1>3, ServeMoves
<1> HIDE DEF n
<1>5. "peopled" \in Open
  BY DEF Open
<1>6. UNCHANGED <<tables, found, client, deleted, drawn>>
  BY DEF NewAgent
<1> QED
  BY <1>1, <1>3, <1>4, <1>5, <1>6, OpenStep

LEMMA AbortStep == ASSUME Inv, NEW r \in Req, Abort(r) PROVE Inv'
<1>1. TypeOK /\ req[r].stage \in {"sent"} \cup Open
  BY DEF Inv, Abort
<1> DEFINE n == [Nothing EXCEPT !.stage = "failed"]
<1>2. n \in Request /\ n.stage = "failed"
  BY StageSet, NothingType DEF Stage
<1>3. req' \in [Req -> Request] /\ req'[r] = n /\ \A s \in Req \ {r} : req'[s] = req[s]
  BY <1>1, <1>2, ServeMoves DEF Abort
<1> HIDE DEF n
<1> QED
  BY <1>1, <1>2, <1>3, QuitStep DEF Abort

(* The commit: the row, the memberships and the agent appear together, under
   an id that nobody has kept a key or a bundle for. *)
LEMMA CommitStep == ASSUME Inv, NEW r \in Req, Commit(r) PROVE Inv'
<1>1. req[r] \in Request /\ req[r].stage = "peopled" /\ req[r].stage \in Open /\ TypeOK
  BY DEF Inv, TypeOK, Commit, Open
<1> DEFINE n == [req[r] EXCEPT !.stage = "created"]
<1>2. /\ n \in Request /\ n.stage = "created" /\ n.name = req[r].name /\ n.key = req[r].key
      /\ n.user = req[r].user /\ n.id = req[r].id
  BY <1>1, StageSet DEF Stage
<1>3. req' \in [Req -> Request] /\ req'[r] = n /\ \A s \in Req \ {r} : req'[s] = req[s]
  BY <1>1, <1>2, ServeMoves DEF Commit
<1> HIDE DEF n
<1>4. /\ projects' = Added(r) /\ users' = users \cup {req[r].agent}
      /\ members' = members \cup {<<req[r].id, req[r].user>>, <<req[r].id, req[r].agent>>}
      /\ UNCHANGED <<found, pc, sent, lab, keyfile, bundles, deleted, drawn>>
  BY DEF Commit, client
<1>5. /\ req[r].name \in Name /\ req[r].key \in Id /\ req[r].user \in User
      /\ req[r].user \in users /\ ~Taken(req[r].name) /\ req[r].agent \in Agent
      /\ req[r].id \in drawn /\ req[r].id \notin DOMAIN projects
  BY <1>1 DEF Inv, Handled
<1>6. req[r].id \in Id
  BY <1>1, <1>5 DEF TypeOK
<1>7. /\ DOMAIN projects' = DOMAIN projects \cup {req[r].id}
      /\ projects'[req[r].id] = NewRow(r)
      /\ \A p \in DOMAIN projects : projects'[p] = projects[p]
  BY <1>4, <1>5, AddedRows
<1>8. /\ NewRow(r) \in ProjectRow /\ NewRow(r).name = req[r].name
      /\ NewRow(r).key = req[r].key /\ NewRow(r).owner = req[r].user
  BY <1>5 DEF NewRow, ProjectRow
<1>9. InUse(req[r].id)
  BY <1>1 DEF InUse
<1>10. \A i : InUse(i)' => InUse(i)
  BY <1>1, <1>2, <1>3 DEF InUse, Open
<1>11. \A i : Spare(i) => Spare(i)'
  BY <1>4, <1>7, <1>9, <1>10 DEF Spare
<1>12. TypeOK'
  BY <1>1, <1>3, <1>4, <1>5, <1>6, <1>7, <1>8 DEF TypeOK, Anyone
<1>13. References'
  BY <1>4, <1>5, <1>7, <1>8 DEF Inv, References
<1>14. Apart'
  BY <1>1, <1>2, <1>3 DEF Inv, Apart, Open
<1>15. \A s \in Req \ {r} : req[s].stage \in Open =>
                               req[s].name # req[r].name /\ req[s].id # req[r].id
  BY <1>1 DEF Inv, Apart
<1>16. ASSUME NEW s \in Req, req'[s].stage \in Open
       PROVE  s # r /\ ~Taken(req[s].name)'
  <2>1. s # r
    BY <1>2, <1>3, <1>16 DEF Open
  <2>2. req'[s] = req[s] /\ ~Taken(req[s].name) /\ req[s].name # req[r].name
    BY <1>3, <1>15, <1>16, <2>1 DEF Inv, Handled
  <2> QED
    BY <1>7, <1>8, <2>1, <2>2 DEF Taken
<1>17. Handled'
  <2> SUFFICES ASSUME NEW s \in Req
               PROVE  /\ req'[s].stage \in Open \cup {"sent", "exists", "created"} =>
                           req'[s].name \in Name /\ req'[s].key \in Id /\ req'[s].user \in User
                      /\ req'[s].stage \in Open =>
                           /\ req'[s].user \in users' /\ ~Taken(req[s].name)'
                           /\ req'[s].id \in drawn' /\ req'[s].id \notin DOMAIN projects'
                      /\ req'[s].stage = "peopled" => req'[s].agent \in Agent
                      /\ req'[s].stage = "created" =>
                           /\ req'[s].id \in DOMAIN projects'
                           /\ projects'[req'[s].id].name = req'[s].name
                           /\ projects'[req'[s].id].key = req'[s].key
    BY DEF Handled, Taken
  <2>1. CASE s = r
    BY <1>2, <1>3, <1>5, <1>7, <1>8, <2>1 DEF Open
  <2>2. CASE s # r
    BY <1>3, <1>4, <1>7, <1>15, <1>16, <2>2 DEF Inv, Handled
  <2> QED
    BY <2>1, <2>2
<1>18. Asked'
  BY <1>1, <1>2, <1>3, <1>4, <1>11 DEF Inv, Asked
<1>19. Settled' /\ KeysKept'
  BY <1>4, <1>5, <1>7, <1>10, <1>11 DEF Inv, Settled, KeysKept
<1>20. SecretsReadable'
  BY <1>4, <1>7, <1>9 DEF Inv, Settled, SecretsReadable
<1> QED
  BY <1>12, <1>13, <1>14, <1>17, <1>18, <1>19, <1>20 DEF Inv

LEMMA HandleStep == ASSUME Inv, NEW r \in Req, Handle(r) PROVE Inv'
  BY InsertStep, RelateStep, NewAgentStep, CommitStep, AbortStep DEF Handle

-----------------------------------------------------------------------------
(* Steps of the command in a folder. *)

(* Nothing but what a folder keeps has changed. *)
Local == UNCHANGED <<tables, req, found, deleted>>

LEMMA LocalFacts ==
  ASSUME Inv, Local, drawn \subseteq drawn'
  PROVE  /\ References' /\ Handled' /\ Apart'
         /\ \A i : InUse(i)' <=> InUse(i)
         /\ \A i : Spare(i) => Spare(i)'
<1> USE DEF Local, tables
<1>1. \A i : InUse(i)' <=> InUse(i)
  BY DEF InUse
<1>2. \A i : Spare(i) => Spare(i)'
  BY <1>1 DEF Spare
<1>3. References' /\ Apart'
  BY DEF Inv, References, Apart
<1>4. Handled'
  BY DEF Inv, Handled, Taken
<1> QED
  BY <1>1, <1>2, <1>3, <1>4

(* An id that is drawn only now is nobody's. *)
LEMMA StartStep == ASSUME Inv, NEW f \in Folder, Start(f) PROVE Inv'
<1>1. PICK n \in Name, i \in Id \ drawn :
        lab' = [lab EXCEPT ![f] = [id |-> i, name |-> n]] /\ drawn' = drawn \cup {i}
  BY DEF Start
<1>2. /\ pc' = [pc EXCEPT ![f] = "local"] /\ Local
      /\ UNCHANGED <<sent, keyfile, bundles, projects, members, users, req, found, deleted>>
  BY DEF Start, Local, tables
<1>3. TypeOK
  BY DEF Inv
<1>4. /\ References' /\ Handled' /\ Apart' /\ \A j : InUse(j)' <=> InUse(j)
      /\ \A j : Spare(j) => Spare(j)'
  BY <1>1, <1>2, LocalFacts
<1>5. i \notin DOMAIN projects /\ ~InUse(i)
  BY <1>1 DEF Inv, Settled, Handled, InUse
<1>6. Spare(i)'
  BY <1>1, <1>2, <1>4, <1>5 DEF Spare
<1>7. /\ lab'[f].id = i /\ lab'[f].name = n /\ pc'[f] = "local"
      /\ \A g \in Folder \ {f} : lab'[g] = lab[g] /\ pc'[g] = pc[g]
  BY <1>1, <1>2, <1>3 DEF TypeOK
<1>8. TypeOK'
  BY <1>1, <1>2, <1>3 DEF TypeOK
<1>9. Asked'
  BY <1>1, <1>2, <1>4, <1>6, <1>7 DEF Inv, Asked, Unanswered
<1>10. Settled'
  BY <1>1, <1>2, <1>4, <1>5, <1>7 DEF Inv, Settled
<1>11. KeysKept' /\ SecretsReadable'
  BY <1>2, <1>4 DEF Inv, KeysKept, SecretsReadable
<1> QED
  BY <1>4, <1>8, <1>9, <1>10, <1>11 DEF Inv

(* The command ends, or gives up: what it has written stays. *)
LEMMA EndStep == ASSUME Inv, NEW f \in Folder, Decline(f) \/ GiveUp(f) PROVE Inv'
<1>1. /\ pc' \in [Folder -> {"idle", "local", "waiting", "stored", "done"}]
      /\ pc'[f] \in {"idle", "done"} /\ \A g \in Folder \ {f} : pc'[g] = pc[g]
      /\ Local
      /\ UNCHANGED <<sent, lab, keyfile, bundles, drawn, projects, members, users, req,
                     found, deleted>>
  BY DEF Inv, TypeOK, Decline, GiveUp, Local, tables
<1>2. /\ References' /\ Handled' /\ Apart' /\ \A j : InUse(j)' <=> InUse(j)
      /\ \A j : Spare(j) => Spare(j)'
  BY <1>1, LocalFacts
<1>3. TypeOK'
  BY <1>1 DEF Inv, TypeOK
<1>4. Asked'
  BY <1>1, <1>2 DEF Inv, Asked, Unanswered
<1>5. Settled' /\ KeysKept' /\ SecretsReadable'
  BY <1>1, <1>2 DEF Inv, Settled, KeysKept, SecretsReadable
<1> QED
  BY <1>2, <1>3, <1>4, <1>5 DEF Inv

(* The request carries what the folder has, and is nobody else's. *)
LEMMA PostStep == ASSUME Inv, NEW f \in Folder, Post(f) PROVE Inv'
<1> DEFINE n == [Nothing EXCEPT !.stage = "sent", !.name = lab[f].name,
                                !.key = lab[f].id, !.user = UserOf[f]]
<1>1. PICK r \in Req : req[r].stage = "new" /\ Serve(r, n) /\ sent' = [sent EXCEPT ![f] = r]
  BY DEF Post
<1>2. /\ pc[f] = "local" /\ pc' = [pc EXCEPT ![f] = "waiting"]
      /\ UNCHANGED <<projects, members, users, found, lab, keyfile, bundles, deleted, drawn>>
  BY DEF Post, tables
<1>3. TypeOK /\ lab[f].id \in Id /\ lab[f].name \in Name
  BY <1>2 DEF Inv, Asked, Unanswered
<1>4. UserOf[f] \in User
  BY ProjectsAssumption
<1>5. /\ n \in Request /\ n.stage = "sent" /\ n.name = lab[f].name
      /\ n.key = lab[f].id /\ n.user = UserOf[f]
  BY <1>3, <1>4, NothingType DEF Request, Stage, Nothing
<1>6. req' \in [Req -> Request] /\ req'[r] = n /\ \A s \in Req \ {r} : req'[s] = req[s]
  BY <1>1, <1>3, <1>5, ServeMoves
<1> HIDE DEF n
<1>7. \A i : InUse(i)' <=> InUse(i)
  BY <1>1, <1>5, <1>6 DEF InUse, Open
<1>8. \A i : Spare(i) => Spare(i)'
  BY <1>2, <1>7 DEF Spare
<1>9. /\ pc'[f] = "waiting" /\ sent'[f] = r
      /\ \A g \in Folder \ {f} : pc'[g] = pc[g] /\ sent'[g] = sent[g]
  BY <1>1, <1>2, <1>3 DEF TypeOK
<1>10. TypeOK'
  BY <1>1, <1>2, <1>3, <1>6 DEF TypeOK
<1>11. References' /\ SecretsReadable'
  BY <1>2 DEF Inv, References, SecretsReadable
<1>12. Handled'
  BY <1>2, <1>3, <1>4, <1>5, <1>6 DEF Inv, Handled, Open, Taken
<1>13. Apart'
  BY <1>5, <1>6 DEF Inv, Apart, Open
<1>14. Asked'
  <2> SUFFICES ASSUME NEW g \in Folder
               PROVE  /\ pc'[g] \in Unanswered =>
                           lab'[g].id \in Id /\ lab'[g].name \in Name /\ Spare(lab[g].id)'
                      /\ pc'[g] \in {"waiting", "stored"} =>
                           /\ sent'[g] \in Req /\ req'[sent'[g]].stage # "new"
                           /\ req'[sent'[g]].stage # "failed" =>
                                req'[sent'[g]].name = lab'[g].name /\ req'[sent'[g]].key = lab'[g].id
                      /\ pc'[g] = "stored" =>
                           /\ req'[sent'[g]].stage = "created"
                           /\ keyfile'[UserOf[g]][lab'[g].id] = lab'[g].id
    BY DEF Asked
  <2>1. CASE g = f
    BY <1>2, <1>3, <1>5, <1>6, <1>8, <1>9, <2>1 DEF Inv, Asked, Unanswered
  <2>2. CASE g # f
    BY <1>1, <1>2, <1>6, <1>8, <1>9, <2>2 DEF Inv, Asked
  <2> QED
    BY <2>1, <2>2
<1>15. Settled' /\ KeysKept'
  BY <1>2, <1>7, <1>8 DEF Inv, Settled, KeysKept
<1> QED
  BY <1>10, <1>11, <1>12, <1>13, <1>14, <1>15 DEF Inv

(* The key that is stored is the one made for the id of the folder. *)
LEMMA AnswerStep == ASSUME Inv, NEW f \in Folder, Answer(f) PROVE Inv'
<1>1. /\ pc[f] = "waiting" /\ Local
      /\ UNCHANGED <<projects, members, users, req, found, sent, lab, bundles, deleted, drawn>>
  BY DEF Answer, Local, tables
<1>2. TypeOK /\ UserOf[f] \in User
  BY ProjectsAssumption DEF Inv
<1>3. /\ lab[f].id \in Id /\ Spare(lab[f].id) /\ sent[f] \in Req
      /\ req[sent[f]].stage # "failed" => req[sent[f]].key = lab[f].id
  BY <1>1 DEF Inv, Asked, Unanswered
<1>4. /\ References' /\ Handled' /\ Apart' /\ \A j : InUse(j)' <=> InUse(j)
      /\ \A j : Spare(j) => Spare(j)'
  BY <1>1, LocalFacts
<1>5. CASE req[sent[f]].stage = "created" /\ StoreKey(f) /\ pc' = [pc EXCEPT ![f] = "stored"]
  <2>1. keyfile' = [keyfile EXCEPT ![UserOf[f]][lab[f].id] = lab[f].id]
    BY <1>3, <1>5 DEF StoreKey
  <2>2. /\ keyfile' \in [User -> [Id -> Id \cup {NoId}]]
        /\ keyfile'[UserOf[f]][lab[f].id] = lab[f].id
        /\ \A u \in User, i \in Id :
             keyfile'[u][i] = keyfile[u][i] \/ (i = lab[f].id /\ keyfile'[u][i] = i)
    BY <1>2, <1>3, <2>1 DEF TypeOK
  <2>3. pc'[f] = "stored" /\ \A g \in Folder \ {f} : pc'[g] = pc[g]
    BY <1>2, <1>5 DEF TypeOK
  <2>4. TypeOK'
    BY <1>1, <1>2, <1>5, <2>2 DEF TypeOK
  <2>5. KeysKept'
    BY <1>3, <1>4, <2>2 DEF Inv, KeysKept
  <2>6. \A g \in Folder : UserOf[g] \in User
    BY ProjectsAssumption
  <2>7. Asked'
    BY <1>1, <1>3, <1>4, <1>5, <2>2, <2>3, <2>6 DEF Inv, Asked, Unanswered
  <2>8. Settled' /\ SecretsReadable'
    BY <1>1, <1>4 DEF Inv, Settled, SecretsReadable
  <2> QED
    BY <1>4, <2>4, <2>5, <2>7, <2>8 DEF Inv
<1>6. CASE pc' = [pc EXCEPT ![f] = "idle"] /\ UNCHANGED keyfile
  <2>1. pc'[f] = "idle" /\ \A g \in Folder \ {f} : pc'[g] = pc[g]
    BY <1>2, <1>6 DEF TypeOK
  <2>2. TypeOK'
    BY <1>1, <1>2, <1>6 DEF TypeOK
  <2>3. Asked'
    BY <1>1, <1>4, <1>6, <2>1 DEF Inv, Asked, Unanswered
  <2>4. Settled' /\ KeysKept' /\ SecretsReadable'
    BY <1>1, <1>4, <1>6 DEF Inv, Settled, KeysKept, SecretsReadable
  <2> QED
    BY <1>4, <2>2, <2>3, <2>4 DEF Inv
<1> QED
  BY <1>5, <1>6 DEF Answer

(* The id the labfile gets is a project's, and so no open transaction's. *)
LEMMA RefreshStep == ASSUME Inv, NEW f \in Folder, Refresh(f) PROVE Inv'
<1>1. /\ pc[f] = "stored" /\ pc' = [pc EXCEPT ![f] = "done"] /\ Local
      /\ lab' = [lab EXCEPT ![f] = [id |-> req[sent[f]].id, name |-> req[sent[f]].name]]
      /\ UNCHANGED <<projects, members, users, req, found, sent, keyfile, bundles, deleted, drawn>>
  BY DEF Refresh, CreatedProject, Local, tables
<1>2. TypeOK /\ sent[f] \in Req /\ req[sent[f]].stage = "created"
  BY <1>1 DEF Inv, Asked
<1>3. req[sent[f]].id \in DOMAIN projects /\ req[sent[f]].name \in Name
  BY <1>2 DEF Inv, Handled
<1>4. req[sent[f]].id \in Id /\ req[sent[f]].id \in drawn /\ ~InUse(req[sent[f]].id)
  BY <1>2, <1>3 DEF Inv, TypeOK, Settled, Handled, InUse
<1>5. /\ References' /\ Handled' /\ Apart' /\ \A j : InUse(j)' <=> InUse(j)
      /\ \A j : Spare(j) => Spare(j)'
  BY <1>1, LocalFacts
<1>6. /\ pc'[f] = "done" /\ lab'[f].id = req[sent[f]].id
      /\ \A g \in Folder \ {f} : pc'[g] = pc[g] /\ lab'[g] = lab[g]
  BY <1>1, <1>2 DEF TypeOK
<1>7. TypeOK'
  BY <1>1, <1>2, <1>3, <1>4 DEF TypeOK
<1>8. Asked'
  BY <1>1, <1>5, <1>6 DEF Inv, Asked, Unanswered
<1>9. Settled'
  BY <1>1, <1>4, <1>5, <1>6 DEF Inv, Settled
<1>10. KeysKept' /\ SecretsReadable'
  BY <1>1, <1>5 DEF Inv, KeysKept, SecretsReadable
<1> QED
  BY <1>5, <1>7, <1>8, <1>9, <1>10 DEF Inv

(* A key kept here is for an id no project has; otherwise it is the server's. *)
LEMMA BundleStep == ASSUME Inv, NEW f \in Folder, Bundle(f) PROVE Inv'
<1>1. /\ lab[f].id # NoId /\ PrivateKey(f) # NoId /\ Local
      /\ bundles' = bundles \cup {<<lab[f].id, PrivateKey(f)>>}
      /\ UNCHANGED <<projects, members, users, req, found, pc, sent, lab, keyfile, deleted, drawn>>
  BY DEF Bundle, Local, tables
<1>2. TypeOK /\ UserOf[f] \in User
  BY ProjectsAssumption DEF Inv
<1>3. lab[f].id \in Id /\ lab[f].id \in drawn /\ ~InUse(lab[f].id)
  BY <1>1, <1>2 DEF Inv, TypeOK, Settled
<1>4. /\ References' /\ Handled' /\ Apart' /\ \A j : InUse(j)' <=> InUse(j)
      /\ \A j : Spare(j) => Spare(j)'
  BY <1>1, LocalFacts
<1>5. /\ PrivateKey(f) \in Id
      /\ lab[f].id \in DOMAIN projects => PrivateKey(f) = projects[lab[f].id].key
  <2>1. CASE keyfile[UserOf[f]][lab[f].id] # NoId
    BY <1>2, <1>3, <2>1 DEF Inv, TypeOK, KeysKept, Spare, PrivateKey
  <2>2. CASE keyfile[UserOf[f]][lab[f].id] = NoId
    BY <1>1, <1>2, <1>3, <2>2 DEF TypeOK, PrivateKey, ServerKey, StoredKey, ProjectRow
  <2> QED
    BY <2>1, <2>2
<1>6. TypeOK'
  BY <1>1, <1>2, <1>3, <1>5 DEF TypeOK
<1>7. Asked' /\ KeysKept'
  BY <1>1, <1>4 DEF Inv, Asked, KeysKept
<1>8. Settled'
  BY <1>1, <1>3, <1>4 DEF Inv, Settled
<1>9. SecretsReadable'
  BY <1>1, <1>5 DEF Inv, SecretsReadable
<1> QED
  BY <1>4, <1>6, <1>7, <1>8, <1>9 DEF Inv

LEMMA StartprojectStep == ASSUME Inv, NEW f \in Folder, Startproject(f) PROVE Inv'
  BY StartStep, EndStep, PostStep, AnswerStep, RefreshStep, BundleStep DEF Startproject

-----------------------------------------------------------------------------
(* Steps of the administrators: the projects keep their ids, names and keys,
   and a user whom an open transaction refers to is locked. *)

LEMMA TableStep ==
  ASSUME Inv, TypeOK', References', DOMAIN projects' = DOMAIN projects,
         \A p \in DOMAIN projects :
           projects'[p].name = projects[p].name /\ projects'[p].key = projects[p].key,
         \A r \in Req : req[r].stage \in Open => req[r].user \in users',
         UNCHANGED <<req, client, drawn>>
  PROVE  Inv'
<1> USE DEF client
<1>1. \A i : InUse(i)' <=> InUse(i)
  BY DEF InUse
<1>2. \A i : Spare(i) => Spare(i)'
  BY <1>1 DEF Spare
<1>3. \A n : Taken(n)' => Taken(n)
  BY DEF Taken
<1>4. Handled'
  <2>1. \A r \in Req : req[r].stage \in Open => ~Taken(req[r].name)'
    BY <1>3 DEF Inv, Handled, Taken
  <2> QED
    BY <2>1 DEF Inv, Handled, Taken
<1>5. Apart' /\ Asked'
  BY <1>2 DEF Inv, Apart, Asked
<1>6. Settled' /\ KeysKept'
  BY <1>1, <1>2 DEF Inv, Settled, KeysKept
<1>7. SecretsReadable'
  BY DEF Inv, SecretsReadable
<1> QED
  BY <1>4, <1>5, <1>6, <1>7 DEF Inv

LEMMA AgentCreateStep == ASSUME Inv, NEW p \in Id, AgentCreate(p) PROVE Inv'
<1>1. PICK a \in FreshAgent : users' = users \cup {a} /\ members' = members \cup {<<p, a>>}
  BY DEF AgentCreate
<1>2. /\ p \in DOMAIN projects
      /\ UNCHANGED <<projects, req, found, pc, sent, lab, keyfile, bundles, deleted, drawn>>
  BY DEF AgentCreate, client
<1>3. TypeOK'
  BY <1>1, <1>2, FreshIsAgent DEF Inv, TypeOK, Anyone
<1>4. References'
  BY <1>1, <1>2 DEF Inv, References
<1>5. \A r \in Req : req[r].stage \in Open => req[r].user \in users'
  BY <1>1 DEF Inv, Handled
<1> QED
  BY <1>2, <1>3, <1>4, <1>5, TableStep DEF client

LEMMA AgentFindStep ==
  ASSUME Inv, NEW d \in Admin, NEW u \in Anyone, AgentFind(d, u) PROVE Inv'
<1>1. /\ found' = [found EXCEPT ![d] = [user |-> u, projects |-> ProjectsOf(u)]]
      /\ UNCHANGED <<projects, members, users, req, pc, sent, lab, keyfile, bundles, deleted, drawn>>
  BY DEF AgentFind, client, tables
<1>2. ProjectsOf(u) \subseteq Id
  BY DEF Inv, TypeOK, ProjectsOf
<1>3. TypeOK'
  BY <1>1, <1>2 DEF Inv, TypeOK
<1>4. References'
  BY <1>1 DEF Inv, References
<1>5. \A r \in Req : req[r].stage \in Open => req[r].user \in users'
  BY <1>1 DEF Inv, Handled
<1> QED
  BY <1>1, <1>3, <1>4, <1>5, TableStep DEF client

(* A user goes with its memberships; the projects it owned have no owner. *)
LEMMA UserGoes ==
  ASSUME Inv, NEW u \in Anyone, ~Locked(u),
         users' = users \ {u}, projects' = Orphaned(u),
         members' \subseteq members, \A m \in members' : m[2] # u,
         found' \in [Admin -> [user : Anyone \cup {NoOne}, projects : SUBSET Id]],
         UNCHANGED <<req, client, deleted, drawn>>
  PROVE  Inv'
<1>1. TypeOK
  BY DEF Inv
<1>2. /\ DOMAIN projects' = DOMAIN projects
      /\ \A p \in DOMAIN projects :
           /\ projects'[p] \in ProjectRow /\ projects'[p].name = projects[p].name
           /\ projects'[p].key = projects[p].key
           /\ \/ projects'[p].owner = NoOne
              \/ projects'[p].owner = projects[p].owner /\ projects[p].owner # u
  BY <1>1, OrphanedRows
<1>3. TypeOK'
  BY <1>1, <1>2 DEF TypeOK, client
<1>4. References'
  BY <1>2 DEF Inv, References
<1>5. \A r \in Req : req[r].stage \in Open => req[r].user \in users'
  BY DEF Inv, Handled, Locked
<1> QED
  BY <1>2, <1>3, <1>4, <1>5, TableStep

LEMMA AgentDeleteStep == ASSUME Inv, NEW d \in Admin, AgentDelete(d) PROVE Inv'
<1> DEFINE u == found[d].user
<1>1. /\ u # NoOne /\ ~Locked(u)
      /\ found' = [found EXCEPT ![d] = [user |-> NoOne, projects |-> {}]]
      /\ UNCHANGED <<req, client, deleted, drawn>>
  BY DEF AgentDelete
<1>2. u \in Anyone /\ found' \in [Admin -> [user : Anyone \cup {NoOne}, projects : SUBSET Id]]
  BY <1>1 DEF Inv, TypeOK
<1>3. CASE users' = users \ {u} /\ projects' = Orphaned(u) /\ members' = {m \in members : m[2] # u}
  BY <1>1, <1>2, <1>3, UserGoes
<1>4. CASE UNCHANGED tables
  <2>1. TypeOK' /\ References'
    BY <1>1, <1>2, <1>4 DEF Inv, TypeOK, References, tables, client
  <2> QED
    BY <1>1, <1>4, <2>1, TableStep DEF Inv, Handled, tables
<1> QED
  BY <1>3, <1>4 DEF AgentDelete

LEMMA ManagerDeleteStep == ASSUME Inv, NEW u \in Anyone, ManagerDelete(u) PROVE Inv'
<1>1. /\ ~Locked(u) /\ ~HasProjects(u) /\ users' = users \ {u} /\ projects' = Orphaned(u)
      /\ UNCHANGED <<members, req, found, client, deleted, drawn>>
  BY DEF ManagerDelete
<1>2. \A m \in members : m[2] # u
  BY <1>1 DEF HasProjects
<1>3. found' \in [Admin -> [user : Anyone \cup {NoOne}, projects : SUBSET Id]]
  BY <1>1 DEF Inv, TypeOK
<1> QED
  BY <1>1, <1>2, <1>3, UserGoes

(* A user is added, or a project's deletion answered and not committed. *)
LEMMA OtherSteps ==
  ASSUME Inv, \/ ManagerAgent \/ \E u \in Anyone : ManagerUser(u)
              \/ \E p \in Id : ProjectDelete(p)
  PROVE  Inv'
<1>1. /\ users \subseteq users' /\ users' \subseteq Anyone /\ deleted' \subseteq Id
      /\ UNCHANGED <<projects, members, req, found, client, drawn>>
  <2>1. CASE ManagerAgent
    BY <2>1, FreshIsAgent DEF Inv, TypeOK, ManagerAgent, Anyone
  <2>2. CASE \E u \in Anyone : ManagerUser(u)
    BY <2>2 DEF Inv, TypeOK, ManagerUser, CreateUser, Anyone
  <2>3. CASE \E p \in Id : ProjectDelete(p)
    BY <2>3 DEF Inv, TypeOK, ProjectDelete, tables
  <2> QED
    BY <2>1, <2>2, <2>3
<1>2. TypeOK' /\ References'
  BY <1>1 DEF Inv, TypeOK, References, client
<1> QED
  BY <1>1, <1>2, TableStep DEF Inv, Handled

-----------------------------------------------------------------------------
LEMMA NextInv == Inv /\ [Next]_vars => Inv'
<1> SUFFICES ASSUME Inv, [Next]_vars PROVE Inv'
  OBVIOUS
<1>1. CASE \E r \in Req : Handle(r)
  BY <1>1, HandleStep
<1>2. CASE \E f \in Folder : Startproject(f)
  BY <1>2, StartprojectStep
<1>3. CASE \E p \in Id : AgentCreate(p)
  BY <1>3, AgentCreateStep
<1>4. CASE \E d \in Admin : DeleteAgent(d)
  BY <1>4, AgentDeleteStep, AgentFindStep DEF DeleteAgent
<1>5. CASE ManagerAgent \/ (\E u \in Anyone : ManagerUser(u)) \/ \E p \in Id : ProjectDelete(p)
  BY <1>5, OtherSteps
<1>6. CASE \E u \in Anyone : ManagerDelete(u)
  BY <1>6, ManagerDeleteStep
<1>7. CASE UNCHANGED vars
  BY <1>7, TableStep DEF vars, Inv, tables, client, TypeOK, References, Handled
<1> QED
  BY <1>1, <1>2, <1>3, <1>4, <1>5, <1>6, <1>7 DEF Next

LEMMA Invariance == Spec => []Inv
<1>1. Init => Inv
  BY InitInv
<1>2. Inv /\ [Next]_vars => Inv'
  BY NextInv
<1> QED
  BY <1>1, <1>2, PTL DEF Spec

(* The tables, the requests and what the folders keep stay of their types. *)
THEOREM TypeCorrect == Spec => []TypeOK
<1>1. Inv => TypeOK
  BY DEF Inv
<1> QED
  BY <1>1, Invariance, PTL

(* Whatever is deleted meanwhile, memberships and owners name rows that exist. *)
THEOREM ReferencesHold == Spec => []References
<1>1. Inv => References
  BY DEF Inv
<1> QED
  BY <1>1, Invariance, PTL

(* The secrets bundled for a project of the server are encrypted with the key
   its containers get, although lab startproject stores a key under an id that
   is not the project's and answers may be lost. *)
THEOREM SecretsAreReadable == Spec => []SecretsReadable
<1>1. Inv => SecretsReadable
  BY DEF Inv
<1> QED
  BY <1>1, Invariance, PTL

(* Who is congratulated has the project on the server, with the key he keeps. *)
THEOREM CongratsAreTrue == Spec => []CongratsIsTrue
<1>1. Inv => CongratsIsTrue
  BY DEF Inv, Asked, Handled, CongratsIsTrue
<1> QED
  BY <1>1, Invariance, PTL

-----------------------------------------------------------------------------
(* What a step does to the table: a commit adds one project, under a new id
   and a new name, and with its members; no other step adds one or changes a
   name or a key. *)
Grows(r) ==
  /\ req[r].id \in Id /\ req[r].name \in Name /\ req[r].key \in Id
  /\ req[r].id \notin DOMAIN projects /\ ~Taken(req[r].name)
  /\ DOMAIN projects' = DOMAIN projects \cup {req[r].id}
  /\ \A p \in DOMAIN projects : projects'[p] = projects[p]
  /\ projects'[req[r].id].name = req[r].name /\ projects'[req[r].id].key = req[r].key
  /\ <<req[r].id, projects'[req[r].id].owner>> \in members'
  /\ req[r].agent \in Agent /\ <<req[r].id, req[r].agent>> \in members'
  /\ req[r].agent \in users'

Keeps ==
  /\ DOMAIN projects' = DOMAIN projects
  /\ \A p \in DOMAIN projects :
       projects'[p].name = projects[p].name /\ projects'[p].key = projects[p].key

LEMMA CommitGrows == ASSUME Inv, NEW r \in Req, Commit(r) PROVE Grows(r)
<1>1. req[r].stage = "peopled" /\ req[r].stage \in Open /\ TypeOK
  BY DEF Inv, Commit, Open
<1>2. /\ projects' = Added(r) /\ users' = users \cup {req[r].agent}
      /\ members' = members \cup {<<req[r].id, req[r].user>>, <<req[r].id, req[r].agent>>}
  BY DEF Commit
<1>3. /\ req[r].name \in Name /\ req[r].key \in Id /\ ~Taken(req[r].name)
      /\ req[r].agent \in Agent /\ req[r].id \in drawn /\ req[r].id \notin DOMAIN projects
  BY <1>1 DEF Inv, Handled
<1>4. req[r].id \in Id
  BY <1>1, <1>3 DEF TypeOK
<1>5. /\ DOMAIN projects' = DOMAIN projects \cup {req[r].id}
      /\ projects'[req[r].id] = NewRow(r)
      /\ \A p \in DOMAIN projects : projects'[p] = projects[p]
  BY <1>2, <1>3, AddedRows
<1> QED
  BY <1>2, <1>3, <1>4, <1>5 DEF Grows, NewRow

LEMMA StepOnTable ==
  ASSUME Inv, [Next]_vars PROVE Keeps \/ \E r \in Req : Grows(r)
<1>1. CASE \E r \in Req : Commit(r)
  BY <1>1, CommitGrows
<1>2. CASE \E r \in Req : Insert(r) \/ Relate(r) \/ NewAgent(r) \/ Abort(r)
  BY <1>2 DEF Keeps, Insert, Relate, NewAgent, Abort, tables
<1>3. CASE \E f \in Folder : Startproject(f)
  BY <1>3 DEF Keeps, Startproject, Start, Decline, Post, Answer, Refresh, GiveUp, Bundle, tables
<1>4. CASE \E p \in Id : AgentCreate(p) \/ ProjectDelete(p)
  BY <1>4 DEF Keeps, AgentCreate, ProjectDelete, tables
<1>5. CASE ManagerAgent \/ \E u \in Anyone : ManagerUser(u)
  BY <1>5 DEF Keeps, ManagerAgent, ManagerUser
<1>6. CASE UNCHANGED projects \/ \E u : projects' = Orphaned(u)
  <2>1. TypeOK
    BY DEF Inv
  <2> QED
    BY <1>6, <2>1, OrphanedRows DEF Keeps
<1>7. CASE \E u \in Anyone : ManagerDelete(u)
  BY <1>6, <1>7 DEF ManagerDelete
<1>8. CASE \E d \in Admin : DeleteAgent(d)
  <2>1. UNCHANGED projects \/ \E u : projects' = Orphaned(u)
    BY <1>8 DEF DeleteAgent, AgentDelete, AgentFind, tables
  <2> QED
    BY <1>6, <2>1
<1>9. CASE UNCHANGED vars
  BY <1>9 DEF vars, tables, Keeps
<1> QED
  BY <1>1, <1>2, <1>3, <1>4, <1>5, <1>7, <1>8, <1>9 DEF Next, Handle

(* A project that appears has its owner and an agent in the same commit. *)
THEOREM ProjectsAppearWhole == Spec => AppearsWhole
<1>1. Inv /\ [Next]_vars =>
        [\A p \in DOMAIN projects' \ DOMAIN projects :
           /\ <<p, projects'[p].owner>> \in members'
           /\ \E a \in Agent : <<p, a>> \in members' /\ a \in users']_vars
  <2> SUFFICES ASSUME Inv, [Next]_vars, NEW p \in DOMAIN projects' \ DOMAIN projects
               PROVE  /\ <<p, projects'[p].owner>> \in members'
                      /\ \E a \in Agent : <<p, a>> \in members' /\ a \in users'
    OBVIOUS
  <2>1. PICK r \in Req : Grows(r)
    BY StepOnTable DEF Keeps
  <2> QED
    BY <2>1 DEF Grows
<1> QED
  BY <1>1, Invariance, PTL DEF Spec, AppearsWhole

(* The statements and commits of the handlers implement the abstract registry:
   projects are created, one at a time and under names of their own, and
   neither changed nor deleted. *)
THEOREM RegistryImplemented == Spec => ImplementsRegistry
<1> DEFINE R == [p \in DOMAIN projects |-> [name |-> projects[p].name, key |-> projects[p].key]]
<1>1. Init => Registry!Init
  BY DEF Init, Registry!Init
<1>2. Inv /\ [Next]_vars => [Registry!Next]_R
  <2> SUFFICES ASSUME Inv, [Next]_vars PROVE Registry!Next \/ UNCHANGED R
    OBVIOUS
  <2>1. CASE Keeps
    BY <2>1 DEF Keeps
  <2>2. ASSUME NEW r \in Req, Grows(r) PROVE Registry!Next
    <3>1. req[r].id \notin DOMAIN R
      BY <2>2 DEF Grows
    <3>2. \A q \in DOMAIN R : R[q].name # req[r].name
      BY <2>2 DEF Grows, Taken
    <3>3. R' = [q \in DOMAIN R \cup {req[r].id} |->
                  IF q = req[r].id THEN [name |-> req[r].name, key |-> req[r].key] ELSE R[q]]
      BY <2>2 DEF Grows
    <3>4. req[r].id \in Id /\ req[r].name \in Name /\ req[r].key \in Id
      BY <2>2 DEF Grows
    <3> QED
      BY <3>1, <3>2, <3>3, <3>4 DEF Registry!Next, Registry!Create
  <2> QED
    BY <2>1, <2>2, StepOnTable
<1> QED
  BY <1>1, <1>2, Invariance, PTL DEF Spec, ImplementsRegistry, Registry!Spec

-----------------------------------------------------------------------------
(***************************************************************************)
(* Building a runtime (RuntimeBuild), for every set of commands and        *)
(* versions and whatever fails: the bundles it makes carry the secrets     *)
(* that Projects!Bundle encrypts.  The invariant follows a bundle from the *)
(* command that zips it to the image that is registered.                   *)
(***************************************************************************)
(* The secrets file of the working area is that of a command which has not
   removed it yet, or never will. *)
Left == secrets # NoCmd => at[secrets] \in {"written", "zipped", "failed"}

(* Commands that bundle, and builds that build, at the same time have met. *)
Together ==
  /\ \A c, d \in Cmd : c # d /\ at[c] \in Bundling /\ at[d] \in Bundling => {c, d} \in met
  /\ \A c, d \in Cmd : c # d /\ job[c] \in Building /\ job[d] \in Building => {c, d} \in raced

(* A bundle is there from its zipping to the image that is made of it. *)
There ==
  /\ \A c \in Cmd : at[c] \in {"zipped", "bundled"} => zip[ver[c]] # NoZip
  /\ \A c \in Cmd : at[c] = "sending" => opened[c] # NoZip
  /\ \A v \in Version : store[v].whole => store[v].bytes # NoZip
  /\ \A c \in Cmd : job[c] \in Building => src[c] # NoZip
  /\ \A c \in Cmd : job[c] = "built" => latest # NoZip
  /\ \A c \in Cmd : job[c] = "found" => img[c] # NoZip
  /\ \A c \in Cmd : job[c] = "tagged" => tagged[ver[c]] # NoZip \/ c \in bad
  /\ \A c \in Cmd : job[c] = "pushed" => Held(ver[c]) # NoZip \/ c \in bad

(* z is of version v; and the versions of which a build met one of another. *)
For(z, v) == z # NoZip => ver[z.cmd] = v
Crossed   == {v \in Version : \E c, d \in Cmd : {c, d} \in raced /\ ver[c] = v /\ ver[d] # v}

(* A bundle stays with its version up to the image called latest. *)
OfVersion ==
  /\ \A v \in Version : For(zip[v], v) /\ For(store[v].bytes, v)
  /\ \A c \in Cmd : For(opened[c], ver[c]) /\ For(src[c], ver[c])
  /\ \A c \in Cmd : job[c] = "built" => For(latest, ver[c]) \/ ver[c] \in Crossed
  /\ \A c \in Cmd : job[c] = "found" => For(img[c], ver[c]) \/ ver[c] \in Crossed

BuildInv == /\ BuildTypeOK /\ Left /\ Together /\ There /\ OfVersion
            /\ BrokenNeedsFailure /\ MixedNeedsOverlap /\ SecretsHaveCause

-----------------------------------------------------------------------------
(* What the two sides leave alone. *)
LEMMA Sides ==
  ASSUME [BuildNext]_buildVars
  PROVE  /\ UNCHANGED <<registry, ver>>
         /\ \/ \E c \in Cmd : BuildCommand(c)
            \/ UNCHANGED <<at, secrets, zip, opened, store, met>>
         /\ \/ \E c \in Cmd : BuildTask(c) \/ Die(c)
            \/ /\ UNCHANGED <<src, img, bad, latest, tagged, pushed, raced>>
               /\ rows' \subseteq rows
               /\ UNCHANGED job \/ \E c \in Cmd : job' = [job EXCEPT ![c] = "queued"]
  <1>1. ASSUME NEW c \in Cmd, BuildCommand(c)
        PROVE  /\ UNCHANGED <<registry, ver, src, img, bad, latest, tagged, pushed, raced, rows>>
               /\ UNCHANGED job \/ job' = [job EXCEPT ![c] = "queued"]
    BY <1>1 DEF BuildCommand, StartBuild, BundleProject, WriteSecrets, ZipFiles, ZipFails,
                Unlink, Upload, Uploaded, AbandonBuild, ProjectBuild, EnqueueBuild, Step,
                worker, docker
  <1>2. ASSUME NEW c \in Cmd, BuildTask(c) \/ Die(c)
        PROVE  UNCHANGED <<registry, ver, at, secrets, zip, opened, store, met>>
    BY <1>2 DEF BuildTask, Die, Fetch, DockerBuild, Build, FindImage, Tag, PushImage,
                Register, local
  <1>3. ASSUME NEW v \in Version, RuntimeDelete(v)
        PROVE  /\ UNCHANGED <<registry, ver, at, secrets, zip, opened, store, met>>
               /\ UNCHANGED <<job, src, img, bad, latest, tagged, pushed, raced>> /\ rows' \subseteq rows
    BY <1>3 DEF RuntimeDelete, local, worker, docker
  <1>. QED BY <1>1, <1>2, <1>3 DEF BuildNext, buildVars, local, worker, docker

LEMMA LeftKept ==
  ASSUME BuildTypeOK, Left, [BuildNext]_buildVars
  PROVE  Left'
  <1>1. ASSUME NEW c \in Cmd, BuildCommand(c) PROVE Left'
    BY <1>1 DEF Left, BuildTypeOK, BuildCommand, StartBuild, BundleProject, WriteSecrets, ZipFiles,
                ZipFails, Unlink, Upload, Uploaded, AbandonBuild, ProjectBuild, Goto
  <1>. QED BY <1>1, Sides DEF Left

LEMMA TogetherKept ==
  ASSUME BuildTypeOK, Together, [BuildNext]_buildVars
  PROVE  Together'
  <1>1. ASSUME NEW c \in Cmd, BuildCommand(c) PROVE Together'
    BY <1>1 DEF Together, BuildTypeOK, BuildCommand, StartBuild, BundleProject, WriteSecrets, ZipFiles,
                ZipFails, Unlink, Upload, Uploaded, AbandonBuild, ProjectBuild, Goto,
                Bundling, Building, With, EnqueueBuild, Step, worker
  <1>2. ASSUME NEW c \in Cmd, BuildTask(c) \/ Die(c) PROVE Together'
    BY <1>2 DEF Together, BuildTypeOK, BuildTask, Die, Fetch, DockerBuild, Build, FindImage,
                Tag, PushImage, Register, Bundling, Building, With, Step, local, worker
  <1>. QED BY <1>1, <1>2, Sides DEF Together, Building, BuildTypeOK

LEMMA ThereKept ==
  ASSUME BuildTypeOK, There, [BuildNext]_buildVars
  PROVE  There'
  <1>1. ASSUME NEW c \in Cmd, StartBuild(c) \/ BundleProject(c) \/ AbandonBuild(c) \/ ProjectBuild(c)
        PROVE  There'
    BY BuildAssumption, <1>1 DEF There, BuildTypeOK, StartBuild, BundleProject, WriteSecrets, ZipFiles,
                ZipFails, Unlink, AbandonBuild, ProjectBuild, Goto, Held, MaybeZip, Zip,
                Building, EnqueueBuild, Step, worker, docker
  <1>2. ASSUME NEW c \in Cmd, Upload(c) \/ Uploaded(c) PROVE There'
    <2>1. ASSUME NEW v \in Version, store'[v].whole PROVE store'[v].bytes # NoZip
      <3>1. ver[c] \in Version /\ store \in [Version -> Object]
        BY DEF BuildTypeOK
      <3>2. CASE Upload(c)
        BY <2>1, <3>1, <3>2 DEF There, Upload, Uri
      <3>3. CASE Uploaded(c)
        BY <2>1, <3>1, <3>3 DEF There, Uploaded, Uri
      <3>. QED BY <1>2, <3>2, <3>3
    <2>2. /\ \A d \in Cmd : at'[d] = "sending" => opened'[d] # NoZip
          /\ \A d \in Cmd : at'[d] \in {"zipped", "bundled"} => zip'[ver'[d]] # NoZip
      BY <1>2 DEF There, BuildTypeOK, Upload, Uploaded, Goto
    <2>. QED
      BY <1>2, <2>1, <2>2 DEF There, Upload, Uploaded, Held, worker, docker
  <1>3. ASSUME NEW c \in Cmd, Fetch(c) \/ DockerBuild(c) PROVE There'
    BY <1>3 DEF There, BuildTypeOK, Fetch, DockerBuild, Build, FindImage, Tag, PushImage,
                Held, Stored, CreateBuildCtx, Uri, Building, Step, local, worker, docker
  <1>4. ASSUME NEW c \in Cmd, Register(c) \/ Die(c) PROVE There'
    BY <1>4 DEF There, BuildTypeOK, Register, Die, Held, Building, Step, local, worker, docker
  <1>. QED BY <1>1, <1>2, <1>3, <1>4, Sides DEF There, Held, Building, BuildNext, BuildCommand, BuildTask,
     RuntimeDelete, buildVars, local, worker, docker

LEMMA CrossedGrows ==
  ASSUME [BuildNext]_buildVars
  PROVE  Crossed \subseteq Crossed'
  <1>1. raced \subseteq raced' /\ UNCHANGED ver
    BY Sides DEF BuildTask, Die, Fetch, DockerBuild, Build, FindImage, Tag, PushImage,
       Register, worker
  <1>. QED BY <1>1 DEF Crossed

(* Two builds on their way, of different versions, have crossed. *)
LEMMA CrossedBuilds ==
  ASSUME BuildTypeOK, Together, NEW c \in Cmd, NEW d \in Cmd,
         job[c] \in Building, job[d] \in Building, ver[c] # ver[d]
  PROVE  ver[c] \in Crossed
  BY DEF Crossed, Together, BuildTypeOK

LEMMA MixedIsCrossed ==
  MixedNeedsOverlap <=> \A v \in Version : For(tagged[v], v) \/ v \in Crossed
  BY DEF MixedNeedsOverlap, For, Crossed

LEMMA BuildTypeKept ==
  ASSUME BuildTypeOK, [BuildNext]_buildVars
  PROVE  BuildTypeOK'
  <1>1. ASSUME NEW c \in Cmd, BuildCommand(c) PROVE BuildTypeOK'
    <2>1. CASE StartBuild(c) \/ ProjectBuild(c)
      BY <1>1, <2>1 DEF BuildTypeOK, StartBuild, ProjectBuild, EnqueueBuild, Goto, Step, With, Pairs,
                        Bundling, CreateBuildCtx, BuildCtx, worker, docker
    <2>2. CASE BundleProject(c) \/ AbandonBuild(c)
      BY <1>1, <2>2 DEF BuildTypeOK, BundleProject, WriteSecrets, ZipFiles, ZipFails, Unlink, AbandonBuild,
                        Goto, Bundling, Zip, MaybeZip, CreateBuildCtx, BuildCtx, worker, docker
    <2>3. CASE Upload(c)
      <3> DEFINE o == [bytes |-> NoZip, whole |-> FALSE,
                       dirty |-> \E d \in Cmd : at[d] = "sending" /\ ver[d] = ver[c]]
      <3>1. o \in Object
        BY DEF Object, MaybeZip
      <3>2. store' = [store EXCEPT ![ver[c]] = o]
        BY <2>3 DEF Upload, Uri
      <3>3. store' \in [Version -> Object]
        <4> HIDE DEF o
        <4>. QED BY <3>1, <3>2 DEF BuildTypeOK
      <3>. QED BY <2>3, <3>3 DEF BuildTypeOK, Upload, Goto, Bundling, MaybeZip, CreateBuildCtx,
                                 BuildCtx, Uri, worker, docker
    <2>4. CASE Uploaded(c)
      <3>1. store' \in [Version -> Object]
        <4>1. ASSUME NEW z \in MaybeZip, NEW w \in BOOLEAN
              PROVE  [bytes |-> z, whole |-> w, dirty |-> store[ver[c]].dirty] \in Object
          BY <2>4 DEF BuildTypeOK, Object
        <4>2. NoZip \in MaybeZip /\ opened[c] \in MaybeZip
          BY <2>4 DEF BuildTypeOK, MaybeZip
        <4>3. PICK o \in Object : store' = [store EXCEPT ![ver[c]] = o]
          BY <2>4, <4>1, <4>2 DEF Uploaded, Uri, BuildTypeOK
        <4>. QED BY <4>3 DEF BuildTypeOK
      <3>. QED BY <2>4, <3>1 DEF BuildTypeOK, Uploaded, Goto, Bundling, MaybeZip, CreateBuildCtx,
                                 BuildCtx, Uri, worker, docker
    <2>. QED BY <1>1, <2>1, <2>2, <2>3, <2>4 DEF BuildCommand
  <1>2. ASSUME NEW c \in Cmd, BuildTask(c) \/ Die(c) PROVE BuildTypeOK'
    <2>1. CASE Fetch(c)
      <3>1. With(c, {d \in Cmd : job[d] \in Building}) \subseteq Pairs
        BY DEF With, Pairs
      <3>2. raced' \subseteq Pairs
        BY <2>1, <3>1 DEF Fetch, BuildTypeOK
      <3>. QED BY <2>1, <3>2 DEF BuildTypeOK, Fetch, Stored, CreateBuildCtx, BuildCtx, Uri,
                                 Object, Building, Step, local, worker, docker
    <2>3. CASE Register(c) \/ Die(c)
      BY <2>3 DEF BuildTypeOK, Register, Die, CreateBuildCtx, BuildCtx, Uri, Step, Building,
                  RuntimeCreate, Registered, local, worker, docker
    <2>2. CASE DockerBuild(c)
      BY <1>2, <2>2 DEF BuildTypeOK, DockerBuild, Build, FindImage, Tag, PushImage, CreateBuildCtx,
                        BuildCtx, Uri, Building, Step, local, worker, docker
    <2>. QED BY <1>2, <2>1, <2>2, <2>3 DEF BuildTask
  <1>3. ASSUME NEW v \in Version, RuntimeDelete(v) PROVE BuildTypeOK'
    BY <1>3 DEF BuildTypeOK, RuntimeDelete, CreateBuildCtx, BuildCtx, local, worker, docker
  <1>4. CASE UNCHANGED buildVars
    BY <1>4 DEF BuildTypeOK, CreateBuildCtx, BuildCtx, buildVars, local, worker, docker
  <1>. QED BY <1>1, <1>2, <1>3, <1>4 DEF BuildNext

LEMMA OfVersionKept ==
  ASSUME BuildTypeOK, Together, There, OfVersion, [BuildNext]_buildVars
  PROVE  OfVersion'
  <1>1. ASSUME NEW c \in Cmd, BuildCommand(c) PROVE OfVersion'
    <2>1. CASE StartBuild(c) \/ BundleProject(c) \/ AbandonBuild(c) \/ ProjectBuild(c)
      BY CrossedGrows, <1>1, <2>1 DEF OfVersion, For, BuildTypeOK, StartBuild, BundleProject, WriteSecrets, ZipFiles,
                        ZipFails, Unlink, AbandonBuild, ProjectBuild, EnqueueBuild, Step, worker, docker
    <2>2. CASE Upload(c)
      <3>1. \A v \in Version : For(store[v].bytes, v)'
        BY <2>2 DEF OfVersion, For, BuildTypeOK, Upload, Uri
      <3>. QED BY CrossedGrows, <2>2, <3>1 DEF OfVersion, For, BuildTypeOK, Upload, worker, docker
    <2>3. CASE Uploaded(c)
      <3>1. \A v \in Version : For(store[v].bytes, v)'
        BY <2>3 DEF OfVersion, For, BuildTypeOK, Uploaded, Uri
      <3>. QED BY CrossedGrows, <2>3, <3>1 DEF OfVersion, For, BuildTypeOK, Uploaded, worker, docker
    <2>. QED BY <1>1, <2>1, <2>2, <2>3 DEF BuildCommand
  <1>2. ASSUME NEW c \in Cmd, BuildTask(c) \/ Die(c) PROVE OfVersion'
    <2>1. CASE Fetch(c) \/ Register(c) \/ Die(c)
      BY CrossedGrows, <1>2, <2>1 DEF OfVersion, For, BuildTypeOK, Fetch, Register, Die, Stored, CreateBuildCtx,
                        Uri, Building, Step, local, worker, docker
    <2>2. CASE DockerBuild(c)
      BY CrossedGrows, CrossedBuilds, <1>2, <2>2 DEF OfVersion, There, For, BuildTypeOK, DockerBuild, Build, FindImage,
                        Tag, PushImage, Building, Step, local, worker, docker
    <2>. QED BY <1>2, <2>1, <2>2 DEF BuildTask
  <1>3. ASSUME NEW v \in Version, RuntimeDelete(v) PROVE OfVersion'
    BY CrossedGrows, <1>3 DEF OfVersion, For, RuntimeDelete, local, worker, docker
  <1>4. CASE UNCHANGED buildVars
    BY CrossedGrows, <1>4 DEF OfVersion, For, buildVars, local, worker, docker
  <1>. QED BY <1>1, <1>2, <1>3, <1>4 DEF BuildNext

(* What is registered had an image when it was, and images do not go. *)
LEMMA BrokenKept ==
  ASSUME BuildTypeOK, There, BrokenNeedsFailure, [BuildNext]_buildVars
  PROVE  BrokenNeedsFailure'
  <1>1. ASSUME NEW c \in Cmd, BuildTask(c) \/ Die(c) PROVE BrokenNeedsFailure'
    BY <1>1 DEF BrokenNeedsFailure, There, BuildTypeOK, Held, BuildTask, Die, Fetch, DockerBuild,
                Build, FindImage, Tag, PushImage, Register, RuntimeCreate, Registered,
                Step, local, worker, docker
  <1>. QED BY <1>1, Sides DEF BrokenNeedsFailure, Held

LEMMA MixedKept ==
  ASSUME BuildTypeOK, There, OfVersion, MixedNeedsOverlap, [BuildNext]_buildVars
  PROVE  MixedNeedsOverlap'
  <1>1. ASSUME NEW c \in Cmd, BuildTask(c) \/ Die(c)
        PROVE  \A v \in Version : For(tagged[v], v)' \/ v \in Crossed'
    BY <1>1, CrossedGrows, MixedIsCrossed DEF There, OfVersion, For, BuildTypeOK, BuildTask, Die, Fetch,
                DockerBuild, Build, FindImage, Tag, PushImage, Register, Step,
                local, worker, docker
  <1>2. (\A v \in Version : For(tagged[v], v) \/ v \in Crossed)'
    BY <1>1, Sides, CrossedGrows, MixedIsCrossed DEF For
  <1>. QED BY <1>2, MixedIsCrossed, PTL

LEMMA SecretsKept ==
  ASSUME BuildTypeOK, Left, Together, SecretsHaveCause, [BuildNext]_buildVars
  PROVE  SecretsHaveCause'
  <1>1. ASSUME NEW c \in Cmd, BuildCommand(c) PROVE SecretsHaveCause'
    <2>1. CASE ZipFiles(c)
      BY <1>1, <2>1 DEF SecretsHaveCause, Left, Together, BuildTypeOK, MaybeZip, Zip, ZipFiles, Goto,
                        Bundling
    <2>2. CASE ~ZipFiles(c)
      <3>1. UNCHANGED zip /\ met \subseteq met'
        BY <1>1, <2>2 DEF BuildCommand, StartBuild, BundleProject, WriteSecrets, ZipFails, Unlink,
                          Upload, Uploaded, AbandonBuild, ProjectBuild
      <3>2. \A d \in Cmd : at[d] = "failed" => at'[d] = "failed"
        BY <1>1, <2>2 DEF BuildTypeOK, BuildCommand, StartBuild, BundleProject, WriteSecrets, ZipFails,
                          Unlink, Upload, Uploaded, AbandonBuild, ProjectBuild, Goto
      <3>. QED BY <3>1, <3>2 DEF SecretsHaveCause, BuildTypeOK, MaybeZip, Zip
    <2>. QED BY <2>1, <2>2
  <1>. QED BY <1>1, Sides DEF SecretsHaveCause

LEMMA BuildInvariant == BuildSpec => []BuildInv
  <1>1. BuildInit => BuildInv
    BY DEF BuildInit, BuildInv, BuildTypeOK, Left, Together, There, OfVersion, For, BrokenNeedsFailure,
           MixedNeedsOverlap, SecretsHaveCause, Bundling, Building, MaybeZip, Object,
           CreateBuildCtx, BuildCtx, Uri
  <1>2. BuildInv /\ [BuildNext]_buildVars => BuildInv'
    BY BuildTypeKept, LeftKept, TogetherKept, ThereKept, OfVersionKept, BrokenKept, MixedKept, SecretsKept
       DEF BuildInv
  <1>. QED BY <1>1, <1>2, PTL DEF BuildSpec

(* The tables, files and names of a build keep their types. *)
THEOREM BuildsTyped == BuildSpec => []BuildTypeOK
  <1>1. BuildInv => BuildTypeOK
    BY DEF BuildInv
  <1>. QED BY <1>1, BuildInvariant, PTL

(* BuildTask.register does not look at the log: it is docker's failures alone
   that register a runtime without an image. *)
THEOREM BrokenHaveFailures == BuildSpec => []BrokenNeedsFailure
  <1>1. BuildInv => BrokenNeedsFailure
    BY DEF BuildInv
  <1>. QED BY <1>1, BuildInvariant, PTL

(* DockerCommand.build finds its image by the tag latest: only builds of
   different versions that overlap give one the image of another. *)
THEOREM MixedHaveOverlaps == BuildSpec => []MixedNeedsOverlap
  <1>1. BuildInv => MixedNeedsOverlap
    BY DEF BuildInv
  <1>. QED BY <1>1, BuildInvariant, PTL

(* bundle_project passes the secrets through one file: the wrong ones get into
   a bundle only from a command that bundles too or that failed to remove it. *)
THEOREM SecretsAreExplained == BuildSpec => []SecretsHaveCause
  <1>1. BuildInv => SecretsHaveCause
    BY DEF BuildInv
  <1>. QED BY <1>1, BuildInvariant, PTL

=============================================================================
