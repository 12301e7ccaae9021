------------------------------ MODULE Projects ------------------------------
(***************************************************************************)
(* Projects, users and agents.  `lab startproject` draws a project id of   *)
(* its own for the folder, asks the server to create the project, stores   *)
(* the private key and writes the labfile again with the id the server     *)
(* drew.  The server creates a project in several statements of one        *)
(* transaction, next to handlers and to `lab manager`, which add and       *)
(* delete agents and users.  A client may give up, or die, while its       *)
(* handler goes on.                                                        *)
(***************************************************************************)
EXTENDS Integers, FiniteSets

CONSTANTS
  Folder,    \* directories in which a user runs lab startproject
  User,      \* people
  UserOf,    \* UserOf[f]: who works in f
  Agent,     \* names for agents, drawn at random
  Name,      \* names for projects
  Id,        \* project ids drawn at random, by clients and by the server
  Req,       \* requests to create a project; each is sent once
  Admin,     \* requests to delete an agent
  Faults,    \* what may fail, a subset of {"server", "client"}
  NoOne, NoId, NoReq

ASSUME ProjectsAssumption ==
  /\ UserOf \in [Folder -> User] /\ User \cap Agent = {}
  /\ NoOne \notin User \cup Agent /\ NoId \notin Id /\ NoReq \notin Req
  /\ Faults \subseteq {"server", "client"}

VARIABLES
  projects,  \* lf_project: a function of the project ids with a committed row
  members,   \* lf_projects_users: pairs of a project id and a user
  users,     \* lf_user: people and agents with a row
  req,       \* req[r]: a request and the transaction of its handler
  found,     \* found[d]: the user a deletion has selected, with its projects
  pc,        \* pc[f]: where lab startproject stands
  sent,      \* sent[f]: the last request of f
  lab,       \* lab[f]: the project in the labfile of f
  keyfile,   \* keyfile[u][i]: the private key in the working area i of u's home
  bundles,   \* pairs of a project id and the key its secrets were encrypted with
  deleted,   \* the projects whose deletion was answered "deleted"
  drawn      \* the ids drawn so far

tables == <<projects, members, users>>
client == <<pc, sent, lab, keyfile, bundles>>
vars == <<tables, req, found, client, deleted, drawn>>

Anyone == User \cup Agent
Open   == {"inserted", "related", "peopled"}   \* a transaction that has written
Stage  == {"new", "sent", "created", "exists", "failed"} \cup Open

(* The tables: a project's columns (id, name, private_key, owner_id). *)
ProjectRow == [name : Name, key : Id, owner : User \cup {NoOne}]

Request == [stage : Stage, name : Name \cup {NoId}, key : Id \cup {NoId},
            user : User \cup {NoOne}, id : Id \cup {NoId}, agent : Agent \cup {NoOne}]

TypeOK ==
  /\ DOMAIN projects \subseteq Id /\ \A p \in DOMAIN projects : projects[p] \in ProjectRow
  /\ members \subseteq Id \X Anyone /\ users \subseteq Anyone
  /\ req \in [Req -> Request]
  /\ found \in [Admin -> [user : Anyone \cup {NoOne}, projects : SUBSET Id]]
  /\ pc \in [Folder -> {"idle", "local", "waiting", "stored", "done"}]
  /\ sent \in [Folder -> Req \cup {NoReq}]
  /\ lab \in [Folder -> [id : Id \cup {NoId}, name : Name \cup {NoId}]]
  /\ keyfile \in [User -> [Id -> Id \cup {NoId}]]
  /\ bundles \subseteq Id \X Id
  /\ deleted \subseteq Id /\ drawn \subseteq Id

-----------------------------------------------------------------------------
(* Helpers.  A definition called Operator_Something right before Operator is
   a fault: the operator with one plausible mistake. *)

Nothing == [stage |-> "new", name |-> NoId, key |-> NoId, user |-> NoOne,
            id |-> NoId, agent |-> NoOne]

ProjectsOf(u) == {p \in DOMAIN projects : <<p, u>> \in members}

(* The unique index on the name: an insert fails when a committed row has the
   name and waits while another transaction has inserted it. *)
Taken(n) == \E p \in DOMAIN projects : projects[p].name = n
Busy(n)  == \E r \in Req : req[r].stage \in Open /\ req[r].name = n

(* inject_user: a request by a user who has no row any more is refused. *)
Known(r) == req[r].user \in users

(* A project a request is about to add, and the table with it. *)
NewRow(r) == [name |-> req[r].name, key |-> req[r].key, owner |-> req[r].user]
Added(r)  == [p \in DOMAIN projects \cup {req[r].id} |->
                IF p = req[r].id THEN NewRow(r) ELSE projects[p]]

(* The association table refers to both sides: a row it names cannot go. *)
HasUsers(p)    == \E m \in members : m[1] = p
HasProjects(u) == \E m \in members : m[2] = u

(* An insert that refers to a user locks the user's row until the commit. *)
Locked(u) == \E r \in Req : req[r].stage \in Open /\ req[r].user = u

FreshAgent == Agent \ (users \cup {req[r].agent : r \in Req})

Serve(r, rec) == req' = [req EXCEPT ![r] = rec]

(* A user's row goes away: owner_id is set to NULL by the database. *)
Orphaned(u) == [p \in DOMAIN projects |->
                  IF projects[p].owner = u THEN [projects[p] EXCEPT !.owner = NoOne]
                  ELSE projects[p]]

-----------------------------------------------------------------------------
Init ==
  /\ projects = [p \in {} |-> Nothing] /\ members = {}
  /\ users = User
  /\ req = [r \in Req |-> Nothing]
  /\ found = [d \in Admin |-> [user |-> NoOne, projects |-> {}]]
  /\ pc = [f \in Folder |-> "idle"] /\ sent = [f \in Folder |-> NoReq]
  /\ lab = [f \in Folder |-> [id |-> NoId, name |-> NoId]]
  /\ keyfile = [u \in User |-> [i \in Id |-> NoId]]
  /\ bundles = {} /\ deleted = {} /\ drawn = {}

(* lab startproject: a name is asked for, the files and a labfile with an id
   drawn here are written. *)
MayStart(f) == pc[f] \in {"idle", "done"}   \* a labfile that is there is replaced

Start(f) ==
  /\ MayStart(f)
  /\ \E n \in Name, i \in Id \ drawn :
       /\ lab' = [lab EXCEPT ![f] = [id |-> i, name |-> n]]
       /\ drawn' = drawn \cup {i}
  /\ pc' = [pc EXCEPT ![f] = "local"]
  /\ UNCHANGED <<tables, req, found, sent, keyfile, bundles, deleted>>

(* The user keeps the project off the server. *)
Decline(f) ==
  /\ pc[f] = "local" /\ pc' = [pc EXCEPT ![f] = "done"]
  /\ UNCHANGED <<tables, req, found, sent, lab, keyfile, bundles, deleted, drawn>>

(* projects_create generates a key, named here by the id of the folder at the
   time, and posts the project. *)
Post(f) ==
  /\ pc[f] = "local"
  /\ \E r \in Req :
       /\ req[r].stage = "new"
       /\ Serve(r, [Nothing EXCEPT !.stage = "sent", !.name = lab[f].name,
                                   !.key = lab[f].id, !.user = UserOf[f]])
       /\ sent' = [sent EXCEPT ![f] = r]
  /\ pc' = [pc EXCEPT ![f] = "waiting"]
  /\ UNCHANGED <<tables, found, lab, keyfile, bundles, deleted, drawn>>

(* inject_user, then the INSERT of projects_mg.create. *)
Insert_Commits(r) ==
  /\ req[r].stage = "sent" /\ Known(r)
  /\ ~Taken(req[r].name) /\ ~Busy(req[r].name)
  /\ \E i \in Id \ drawn :
       /\ Serve(r, [req[r] EXCEPT !.stage = "inserted", !.id = i])
       /\ drawn' = drawn \cup {i}
       /\ projects' = [p \in DOMAIN projects \cup {i} |-> IF p = i THEN NewRow(r) ELSE projects[p]]
  /\ UNCHANGED <<members, users, found, client, deleted>>
Insert(r) ==
  /\ req[r].stage = "sent"
  /\ \/ ~Known(r)
        /\ Serve(r, [req[r] EXCEPT !.stage = "failed"]) /\ UNCHANGED drawn
     \/ /\ Known(r) /\ ~Busy(req[r].name) /\ Taken(req[r].name)
        /\ Serve(r, [req[r] EXCEPT !.stage = "exists"]) /\ UNCHANGED drawn
     \/ /\ Known(r) /\ ~Busy(req[r].name) /\ ~Taken(req[r].name)
        /\ \E i \in Id \ drawn :
             /\ Serve(r, [req[r] EXCEPT !.stage = "inserted", !.id = i])
             /\ drawn' = drawn \cup {i}
  /\ UNCHANGED <<tables, found, client, deleted>>

(* The membership of the owner, the project's agent, the commit. *)
Relate(r) ==
  /\ req[r].stage = "inserted" /\ Serve(r, [req[r] EXCEPT !.stage = "related"])
  /\ UNCHANGED <<tables, found, client, deleted, drawn>>

NewAgent(r) ==
  /\ req[r].stage = "related"
  /\ \E a \in FreshAgent : Serve(r, [req[r] EXCEPT !.stage = "peopled", !.agent = a])
  /\ UNCHANGED <<tables, found, client, deleted, drawn>>

Commit(r) ==
  /\ req[r].stage = "peopled" /\ Serve(r, [req[r] EXCEPT !.stage = "created"])
  /\ projects' = Added(r)
  /\ members' = members \cup {<<req[r].id, req[r].user>>, <<req[r].id, req[r].agent>>}
  /\ users' = users \cup {req[r].agent}
  /\ UNCHANGED <<found, client, deleted, drawn>>

(* The handler's process dies, or one of its statements fails: the session is
   closed, which rolls back. *)
Abort(r) ==
  /\ "server" \in Faults /\ req[r].stage \in {"sent"} \cup Open
  /\ Serve(r, [Nothing EXCEPT !.stage = "failed"])
  /\ UNCHANGED <<tables, found, client, deleted, drawn>>

(* The answer: 201 stores the key in the working area of the id the folder
   has until now; 200 and any error leave the folder as it is. *)
StoreKey(f) == keyfile' = [keyfile EXCEPT ![UserOf[f]][lab[f].id] = req[sent[f]].key]

Answer(f) ==
  /\ pc[f] = "waiting"
  /\ \/ /\ req[sent[f]].stage = "created"
        /\ StoreKey(f) /\ pc' = [pc EXCEPT ![f] = "stored"]
     \/ /\ req[sent[f]].stage \in {"exists", "failed"}
        /\ pc' = [pc EXCEPT ![f] = "idle"] /\ UNCHANGED keyfile
  /\ UNCHANGED <<tables, req, found, sent, lab, bundles, deleted, drawn>>

(* final_words, then refresh_project: the labfile gets the server's id. *)
CreatedProject(f) == [id |-> req[sent[f]].id, name |-> req[sent[f]].name]

Refresh(f) ==
  /\ pc[f] = "stored" /\ lab' = [lab EXCEPT ![f] = CreatedProject(f)]
  /\ pc' = [pc EXCEPT ![f] = "done"]
  /\ UNCHANGED <<tables, req, found, sent, keyfile, bundles, deleted, drawn>>

(* The client times out or is killed; its handler does not notice. *)
GiveUp(f) ==
  /\ "client" \in Faults /\ pc[f] \in {"local", "waiting", "stored"}
  /\ pc' = [pc EXCEPT ![f] = "idle"]
  /\ UNCHANGED <<tables, req, found, sent, lab, keyfile, bundles, deleted, drawn>>

(* lab runtimes build: the key in the working area, or else the server's, and
   none when the server does not know the project. *)
StoredKey(i) == IF i \in DOMAIN projects THEN projects[i].key ELSE NoId
ServerKey(f) == StoredKey(lab[f].id)

PrivateKey_OneArea(f) ==
  LET keys == {keyfile[UserOf[f]][i] : i \in Id} \ {NoId}
  IN  IF keys # {} THEN CHOOSE k \in keys : TRUE ELSE ServerKey(f)
PrivateKey(f) ==
  LET mine == keyfile[UserOf[f]][lab[f].id]
  IN  IF mine # NoId THEN mine ELSE ServerKey(f)

Bundle(f) ==
  /\ pc[f] \in {"idle", "done"} /\ lab[f].id # NoId /\ PrivateKey(f) # NoId
  /\ bundles' = bundles \cup {<<lab[f].id, PrivateKey(f)>>}
  /\ UNCHANGED <<tables, req, found, pc, sent, lab, keyfile, deleted, drawn>>

-----------------------------------------------------------------------------
(* POST and DELETE of a project's agent.  The deletion selects a user by its
   name and any membership it has; the rows it deletes are the ones it saw. *)
AgentCreate(p) ==
  /\ p \in DOMAIN projects
  /\ \E a \in FreshAgent :
       users' = users \cup {a} /\ members' = members \cup {<<p, a>>}
  /\ UNCHANGED <<projects, req, found, client, deleted, drawn>>

AgentFind(d, u) ==
  /\ found[d].user = NoOne /\ u \in users /\ ProjectsOf(u) # {}
  /\ found' = [found EXCEPT ![d] = [user |-> u, projects |-> ProjectsOf(u)]]
  /\ UNCHANGED <<tables, req, client, deleted, drawn>>

AgentDelete(d) ==
  LET u == found[d].user IN
  /\ u # NoOne /\ ~Locked(u)
  /\ \/ /\ u \in users /\ ProjectsOf(u) = found[d].projects
        /\ users' = users \ {u} /\ projects' = Orphaned(u)
        /\ members' = {m \in members : m[2] # u}
     \/ /\ ~(u \in users /\ ProjectsOf(u) = found[d].projects)
        /\ UNCHANGED tables
  /\ found' = [found EXCEPT ![d] = [user |-> NoOne, projects |-> {}]]
  /\ UNCHANGED <<req, client, deleted, drawn>>

(* DELETE of a project: the statement fails while the project has a member and
   is not committed otherwise. *)
ProjectDelete_Commits(p) ==
  /\ p \in DOMAIN projects /\ ~HasUsers(p)
  /\ deleted' = deleted \cup {p}
  /\ projects' = [q \in DOMAIN projects \ {p} |-> projects[q]]
  /\ UNCHANGED <<members, users, req, found, client, drawn>>
ProjectDelete(p) ==
  /\ p \in DOMAIN projects /\ ~HasUsers(p)
  /\ deleted' = deleted \cup {p}
  /\ UNCHANGED <<tables, req, found, client, drawn>>

-----------------------------------------------------------------------------
(* lab manager: users and agents without a project.  Its deletion is a single
   DELETE, which the database refuses while a membership refers to the user. *)
ManagerAgent ==
  /\ \E a \in FreshAgent : users' = users \cup {a}
  /\ UNCHANGED <<projects, members, req, found, client, deleted, drawn>>

CreateUser(u) == users' = users \cup {u}   \* a name that is taken adds nothing

ManagerUser(u) ==
  /\ u \in User /\ CreateUser(u)
  /\ UNCHANGED <<projects, members, req, found, client, deleted, drawn>>

ManagerDelete(u) ==
  /\ u \in users /\ ~Locked(u) /\ ~HasProjects(u)
  /\ users' = users \ {u} /\ projects' = Orphaned(u)
  /\ UNCHANGED <<members, req, found, client, deleted, drawn>>

DeleteAgent(d) == AgentDelete(d) \/ \E u \in Anyone : AgentFind(d, u)

Handle(r) == Insert(r) \/ Relate(r) \/ NewAgent(r) \/ Commit(r) \/ Abort(r)

Startproject(f) ==
  Start(f) \/ Decline(f) \/ Post(f) \/ Answer(f) \/ Refresh(f) \/ GiveUp(f) \/ Bundle(f)

Next ==
  \/ \E r \in Req : Handle(r)
  \/ \E f \in Folder : Startproject(f)
  \/ \E p \in Id : AgentCreate(p) \/ ProjectDelete(p)
  \/ \E d \in Admin : DeleteAgent(d)
  \/ ManagerAgent
  \/ \E u \in Anyone : ManagerUser(u) \/ ManagerDelete(u)

Spec == Init /\ [][Next]_vars

-----------------------------------------------------------------------------
(* A project appears whole and at once, its name is its own, and it stays as
   it is: what the table promises (ProjectRegistry), whatever the statements
   of projects_mg.create and a delete that is answered "deleted" do. *)
Registry == INSTANCE ProjectRegistry WITH
  registry <- [p \in DOMAIN projects |-> [name |-> projects[p].name, key |-> projects[p].key]]
ImplementsRegistry == Registry!Spec

(* A project that appears has its owner and an agent of its own as members in
   the same commit: there is none that only its database row knows. *)
AppearsWhole ==
  [][\A p \in DOMAIN projects' \ DOMAIN projects :
       /\ <<p, projects'[p].owner>> \in members'
       /\ \E a \in Agent : <<p, a>> \in members' /\ a \in users']_vars

(* Whatever is deleted meanwhile, a membership names a project and a user that
   exist, and so does an owner. *)
References ==
  /\ \A m \in members : m[1] \in DOMAIN projects /\ m[2] \in users
  /\ \A p \in DOMAIN projects : projects[p].owner \in users \cup {NoOne}

(* Secrets bundled for a project the server knows were encrypted with the key
   the server gives to its containers: wherever the client took it from. *)
SecretsReadable ==
  \A b \in bundles : b[1] \in DOMAIN projects => b[2] = projects[b[1]].key

(* A folder whose user was congratulated has a project of that name on the
   server, created with the key this folder has stored. *)
CongratsIsTrue ==
  \A f \in Folder :
    pc[f] = "stored" =>
      LET r == req[sent[f]] IN
      /\ r.id \in DOMAIN projects /\ projects[r.id].name = lab[f].name
      /\ projects[r.id].key = keyfile[UserOf[f]][lab[f].id]
=============================================================================
