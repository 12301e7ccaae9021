------------------------------ MODULE Accounts ------------------------------
(***************************************************************************)
(* The people and agents of a server.  The rows of lf_user are written by  *)
(* the manager's commands (users create, disable and reset; agent create,  *)
(* get-token and delete), each in a session of its own: it reads a row,    *)
(* changes a column of what it read and commits.  The login handler reads  *)
(* a row in one transaction and makes the tokens after it.  A token holds  *)
(* the name and the scopes its row had; a protected handler trusts those   *)
(* and looks the name up again (inject_user).  How a pair of tokens is     *)
(* exchanged step by step is in TokenRefresh; here an exchange is one step *)
(* that carries the claims over.                                           *)
(***************************************************************************)
EXTENDS Integers, FiniteSets, Sequences, SequencesExt

CONSTANTS
  Name,        \* what an operator may call a user
  AgentName,   \* random names: none is drawn twice
  Password,
  Lists,       \* the lists of scopes an operator may give
  Needs,       \* the lists of scopes a handler may require
  Request,     \* logins and tokens printed by the manager
  Command,     \* runs of the manager's users command
  MaxRows,     \* bound on the rows ever created
  NoPassword

(* A scope is written "namespace:action:action", its parts possibly empty. *)
ASSUME AccountsAssumption ==
  /\ MaxRows \in Nat /\ Name \cap AgentName = {} /\ NoPassword \notin Password
  /\ Lists \cup Needs \subseteq Seq([ns : STRING, acts : SUBSET STRING])

VARIABLES
  users,    \* the rows of lf_user, by id
  created,  \* how many ids the sequence has given
  drawn,    \* the random names drawn so far
  req,      \* req[r]: a request for tokens, and then the session it opened
  acts,     \* history: acts[r]: the rows that session r has acted as
  cmd,      \* cmd[c]: a disable or reset
  told      \* history: told[i]: what commands have told of row i

accountsVars == <<users, created, drawn, req, acts, cmd, told>>

Id == 1..MaxRows
NoOne == 0

(* A row, of a user (super or not) or of an agent (of the project or not). *)
Row(n, p, l, s) == [name |-> n, pass |-> p, active |-> TRUE, scopes |-> l, super |-> s,
                    project |-> FALSE]
AgentRow(n, l, prj) == [Row(n, NoPassword, l, FALSE) EXCEPT !.project = prj]
Named(n) == {i \in DOMAIN users : users[i].name = n}

IdleReq == [pc |-> "none", via |-> "login", row |-> NoOne, name |-> NoPassword,
            pass |-> NoPassword, scopes |-> <<>>, fresh |-> FALSE, key |-> FALSE, late |-> {}]
IdleCmd == [pc |-> "none", kind |-> "disable", row |-> NoOne, was |-> NoPassword,
            pass |-> NoPassword]

(* Of a row its commands have told whether it is off, and its password: one,
   or one of several where they do not say. *)
Untold == [off |-> FALSE, pass |-> {NoPassword}]

(* PasswordScript: a key derived from the password and the server's salt.
   Against no key nothing verifies. *)
Encrypt(p) == <<"scrypt", p>>
Verifies(p, key) == key = Encrypt(p)

-----------------------------------------------------------------------------
(* Scopes. *)

Namespace(s) == IF s.ns = "" THEN "any" ELSE s.ns
Actions(s) == IF s.acts = {} THEN {"any"} ELSE s.acts

(* One turn of scope2dict's loop, the dictionary after n of them, and after
   all: a namespace that comes twice keeps the actions it came with last. *)
Assign_First(d, ns, actions) ==
  [m \in DOMAIN d \cup {ns} |-> IF m \in DOMAIN d THEN d[m] ELSE actions]
Assign(d, ns, actions) ==
  [m \in DOMAIN d \cup {ns} |-> IF m = ns THEN actions ELSE d[m]]
Permissions(l) ==
  LET after[n \in 0..Len(l)] ==
        IF n = 0 THEN <<>> ELSE Assign(after[n - 1], Namespace(l[n]), Actions(l[n]))
  IN  after
Scope2dict(l) == Permissions(l)[Len(l)]

(* scopes.validate.  The branch for require_all=False compares a set with 0
   and refuses nothing. *)
Validate(need, have, all) ==
  LET required == Scope2dict(need)
      perms    == Scope2dict(have)
      shared   == DOMAIN required \cap DOMAIN perms
  IN  /\ ~(/\ all /\ Cardinality(DOMAIN required) # Cardinality(shared)
           /\ "any" \notin DOMAIN required)
      /\ \E n \in shared : required[n] \cap perms[n] # {} \/ "any" \in required[n]

(* users_mg.create: a superuser is given a scope, after those he has. *)
Admin == [ns |-> "admin", acts |-> {"r", "w"}]
AdminRW == [ns |-> "admin", acts |-> {"read", "write"}]
Granted(l, super) == IF super /\ ~Contains(l, AdminRW) THEN Append(l, Admin) ELSE l

-----------------------------------------------------------------------------
AccountsInit ==
  /\ users = <<>> /\ created = 0 /\ drawn = {}
  /\ req = [r \in Request |-> IdleReq] /\ acts = [r \in Request |-> {}]
  /\ cmd = [c \in Command |-> IdleCmd]
  /\ told = [i \in Id |-> Untold]

(* A new row: the id is the sequence's next, the name is unique. *)
With(row) == [i \in DOMAIN users \cup {created + 1} |->
                IF i = created + 1 THEN row ELSE users[i]]
Insert(row) ==
  /\ created < MaxRows /\ Named(row.name) = {}
  /\ created' = created + 1 /\ users' = With(row)

(* users create.  For a name that is taken the flush fails, and with it the
   commit: nothing is written. *)
UsersCreate(n, p, l, s) ==
  /\ Insert(Row(n, Encrypt(p), Granted(l, s), s))
  /\ told' = [told EXCEPT ![created + 1].pass = {Encrypt(p)}]
  /\ UNCHANGED <<drawn, req, acts, cmd>>

(* Who has read the row and not yet made his tokens learns nothing. *)
Late(i, what) ==
  req' = [r \in Request |-> IF req[r].pc = "read" /\ req[r].row = i
                            THEN [req[r] EXCEPT !.late = @ \cup {what}] ELSE req[r]]

(* agent delete, of the manager, deletes the row of any name that is in no
   project; the project's agent del deletes a member. *)
AgentDelete(n) ==
  /\ Named(n) # {}
  /\ users' = [i \in DOMAIN users \ Named(n) |-> users[i]]
  /\ \E i \in Named(n) : Late(i, "deleted")
  /\ UNCHANGED <<created, drawn, acts, cmd, told>>

-----------------------------------------------------------------------------
(* users disable and users reset. *)

(* get_user. *)
GetUser(c, kind, n, p) ==
  /\ cmd[c].pc = "none"
  /\ \/ \E i \in Named(n) :
          cmd' = [cmd EXCEPT ![c] =
            [pc |-> "read", kind |-> kind, row |-> i, was |-> users[i].pass, pass |-> p]]
     \/ Named(n) = {} /\ cmd' = [cmd EXCEPT ![c].pc = "notfound"]
  /\ UNCHANGED <<users, created, drawn, req, acts, told>>

(* What the session writes when it commits: of the columns that were set, those
   whose value is not the one it read.  The key is derived without chance, so
   that a reset to the password that was read writes none. *)
DisableUser(row) == [row EXCEPT !.active = FALSE]
ChangePass_Row(row, was, p) == [row EXCEPT !.pass = Encrypt(p), !.active = TRUE]
ChangePass(row, was, p) == IF Encrypt(p) = was THEN row ELSE [row EXCEPT !.pass = Encrypt(p)]

(* disable_user and change_pass, and the commit of their command: a row that
   has been deleted since makes it fail.  A reset that wrote none while another
   had changed the password does not say which of them it is. *)
Says(c, t) ==
  LET key == Encrypt(cmd[c].pass)
      silent == key = cmd[c].was /\ users[cmd[c].row].pass # cmd[c].was
  IN  IF cmd[c].kind = "disable" THEN [t EXCEPT !.off = TRUE]
      ELSE [t EXCEPT !.pass = IF silent THEN @ \cup {key} ELSE {key}]
CommitUser(c) ==
  /\ cmd[c].pc = "read"
  /\ IF cmd[c].row \in DOMAIN users
       THEN /\ users' = [users EXCEPT ![cmd[c].row] =
                 IF cmd[c].kind = "disable" THEN DisableUser(@)
                 ELSE ChangePass(@, cmd[c].was, cmd[c].pass)]
            /\ cmd' = [cmd EXCEPT ![c].pc = "done"]
            /\ told' = [told EXCEPT ![cmd[c].row] = Says(c, @)]
            /\ Late(cmd[c].row, cmd[c].kind)
       ELSE /\ cmd' = [cmd EXCEPT ![c].pc = "failed"] /\ UNCHANGED <<users, told, req>>
  /\ UNCHANGED <<created, drawn, acts>>

-----------------------------------------------------------------------------
(* Tokens. *)

(* users_mg.verify_password. *)
VerifyPassword_Disabled(row, p) == Verifies(p, row.pass)
VerifyPassword(row, p) == Verifies(p, row.pass) /\ row.active

(* What the tokens are made from: the row as it was read. *)
Read(r, via, i, p) ==
  req' = [req EXCEPT ![r] =
    [IdleReq EXCEPT !.pc = "read", !.via = via, !.row = i, !.name = users[i].name,
                    !.pass = p, !.scopes = users[i].scopes]]

(* users_mg.authenticate: one transaction. *)
Authenticate(r, n, p) ==
  /\ req[r].pc = "none"
  /\ \/ \E i \in Named(n) : VerifyPassword(users[i], p) /\ Read(r, "login", i, p)
     \/ /\ \A i \in Named(n) : ~VerifyPassword(users[i], p)
        /\ req' = [req EXCEPT ![r].pc = "refused"]
  /\ UNCHANGED <<users, created, drawn, acts, cmd, told>>

(* agent get-token reads a row, whoever's. *)
GetToken(r, n) ==
  /\ req[r].pc = "none" /\ \E i \in Named(n) : Read(r, "manager", i, NoPassword)
  /\ UNCHANGED <<users, created, drawn, acts, cmd, told>>

(* Auth.encode and store_refresh_token. *)
Encode(r) ==
  /\ req[r].pc = "read"
  /\ req' = [req EXCEPT ![r].pc = "granted", ![r].fresh = TRUE, ![r].key = TRUE]
  /\ UNCHANGED <<users, created, drawn, acts, cmd, told>>

(* project agent create: the row, in the project, and no token. *)
ProjectAgent(n, l) ==
  /\ n \notin drawn /\ drawn' = drawn \cup {n}
  /\ Insert(AgentRow(n, l, TRUE))
  /\ UNCHANGED <<req, acts, cmd, told>>

(* Tokens for an agent of the project: of a name, which is looked up among
   the members of projects, or of the first that is found.  Whether the row
   is active is not asked. *)
Agents == {i \in DOMAIN users : users[i].name \in AgentName}
GetAgent(n) == {i \in Named(n) : users[i].project}
GetAgentProject == {i \in Agents : users[i].project}
AgentToken(r, n) ==
  /\ req[r].pc = "none"
  /\ \/ \E i \in GetAgent(n) : Read(r, "project", i, NoPassword)
     \/ GetAgent(n) = {} /\ req' = [req EXCEPT ![r].pc = "refused"]
  /\ UNCHANGED <<users, created, drawn, acts, cmd, told>>
LastAgentToken(r) ==
  /\ req[r].pc = "none"
  /\ \/ \E i \in GetAgentProject : Read(r, "project", i, NoPassword)
     \/ GetAgentProject = {} /\ req' = [req EXCEPT ![r].pc = "refused"]
  /\ UNCHANGED <<users, created, drawn, acts, cmd, told>>
ProjectsAgentToken(r) == LastAgentToken(r) \/ \E n \in AgentName : AgentToken(r, n)

(* manager agent create: the row and its tokens, which are stored before the commit. *)
AgentCreate(r, n, l) ==
  /\ req[r].pc = "none" /\ n \notin drawn /\ drawn' = drawn \cup {n}
  /\ Insert(AgentRow(n, l, FALSE))
  /\ req' = [req EXCEPT ![r] =
       [IdleReq EXCEPT !.pc = "granted", !.via = "manager", !.row = created + 1,
                       !.name = n, !.scopes = l, !.fresh = TRUE, !.key = TRUE]]
  /\ UNCHANGED <<acts, cmd, told>>

Lapse(r) ==
  /\ req[r].fresh /\ req' = [req EXCEPT ![r].fresh = FALSE]
  /\ UNCHANGED <<users, created, drawn, acts, cmd, told>>

(* Auth.refresh_token: a new token with the claims of the old one; no one
   looks at the row. *)
Refresh_Default(r) ==
  /\ req[r].pc = "granted" /\ req[r].key /\ ~req[r].fresh
  /\ req' = [req EXCEPT ![r].fresh = TRUE, ![r].scopes = <<[ns |-> "user", acts |-> {"r", "w"}]>>]
  /\ UNCHANGED <<users, created, drawn, acts, cmd, told>>
Refresh(r) ==
  /\ req[r].pc = "granted" /\ req[r].key /\ ~req[r].fresh
  /\ req' = [req EXCEPT ![r].fresh = TRUE]
  /\ UNCHANGED <<users, created, drawn, acts, cmd, told>>

(* Auth.decode and Auth.validate. *)
Decoded(r) == req[r].pc = "granted" /\ req[r].fresh
Valid(r, need, all) == Decoded(r) /\ (need # <<>> => Validate(need, req[r].scopes, all))

(* protected and inject_user: the name of a valid token is looked up, and the
   handler goes on as the user who has it. *)
ActsAs(r) == Named(req[r].name)
Protected(r, need, all) ==
  /\ Valid(r, need, all) /\ acts' = [acts EXCEPT ![r] = @ \cup ActsAs(r)]
  /\ UNCHANGED <<users, created, drawn, req, cmd, told>>

-----------------------------------------------------------------------------
Handle(r) ==
  \/ \E n \in Name \cup AgentName, p \in Password : Authenticate(r, n, p)
  \/ \E n \in Name \cup AgentName : GetToken(r, n)
  \/ \E n \in AgentName, l \in Lists : AgentCreate(r, n, l)
  \/ ProjectsAgentToken(r)
  \/ Encode(r) \/ Lapse(r) \/ Refresh(r)
  \/ \E need \in Needs, all \in BOOLEAN : Protected(r, need, all)

Users(c) ==
  \/ \E n \in Name \cup AgentName, k \in {"disable", "reset"}, p \in Password : GetUser(c, k, n, p)
  \/ CommitUser(c)

(* lab project agent, besides its tokens. *)
ProjectAgentCommand ==
  \E n \in AgentName : AgentDelete(n) \/ \E l \in Lists : ProjectAgent(n, l)

AccountsNext ==
  \/ \E r \in Request : Handle(r)
  \/ \E c \in Command : Users(c)
  \/ \E n \in Name, p \in Password, l \in Lists, s \in BOOLEAN : UsersCreate(n, p, l, s)
  \/ \E n \in Name : AgentDelete(n)
  \/ ProjectAgentCommand

AccountsSpec == AccountsInit /\ [][AccountsNext]_accountsVars

-----------------------------------------------------------------------------
(* Properties. *)

AccountsTypeOK ==
  /\ created \in 0..MaxRows /\ DOMAIN users \subseteq 1..created /\ drawn \subseteq AgentName
  /\ \A i \in DOMAIN users :
       /\ users[i].name \in Name \cup AgentName /\ users[i].active \in BOOLEAN
       /\ users[i].pass \in {Encrypt(p) : p \in Password} \cup {NoPassword}
  /\ \A i, j \in DOMAIN users : users[i].name = users[j].name => i = j
  /\ \A r \in Request :
       /\ req[r].pc \in {"none", "read", "granted", "refused"}
       /\ req[r].row \in 0..created /\ acts[r] \subseteq 1..created
  /\ \A c \in Command :
       /\ cmd[c].pc \in {"none", "read", "done", "failed", "notfound"}
       /\ cmd[c].row \in 0..created
  /\ told \in [Id -> [off : BOOLEAN, pass : SUBSET ({Encrypt(p) : p \in Password} \cup {NoPassword})]]

(* What a command has told stays so, whatever else was being changed when it
   committed: a user told to be disabled does not log in again, and the
   password is the one told last, unless that reset set the password it had
   read while another was committed: then it is one of theirs. *)
CommandsStick ==
  \A i \in DOMAIN users : /\ told[i].off => ~users[i].active
                          /\ users[i].pass \in told[i].pass

(* A login that is granted to a user who is by then disabled or deleted, or
   with a password that is by then another one, read the row before that
   change was committed: one that begins after it is refused. *)
GrantReflectsRow ==
  [][\A r \in Request :
       req[r].pc = "read" /\ req'[r].pc = "granted" /\ req[r].via = "login" =>
         LET i == req[r].row IN
           \/ i \in DOMAIN users /\ users[i].active /\ users[i].pass = Encrypt(req[r].pass)
           \/ req[r].late # {}]_accountsVars

(* A session acts with the scopes of the row it acts as, however often it was
   refreshed, unless the user was deleted and one of that name made later. *)
StaleClaims ==
  \A r \in Request : \A i \in acts[r] \cap DOMAIN users :
    users[i].scopes = req[r].scopes \/ i > req[r].row

(* scopes.validate against its definition without dictionaries: some scope
   required meets one of the user's, each the last of its namespace in its
   list, and with require_all every namespace required is one of the user's,
   unless "any" is among them. *)
LastOf(l, i) == \A j \in (i + 1)..Len(l) : Namespace(l[j]) # Namespace(l[i])
Meets(s, t) == Namespace(s) = Namespace(t) /\
               (Actions(s) \cap Actions(t) # {} \/ "any" \in Actions(s))
Allowed(need, have, all) ==
  /\ \E i \in DOMAIN need, j \in DOMAIN have :
       LastOf(need, i) /\ LastOf(have, j) /\ Meets(need[i], have[j])
  /\ all => \/ \A i \in DOMAIN need : \E j \in DOMAIN have : Namespace(need[i]) = Namespace(have[j])
            \/ \E i \in DOMAIN need : Namespace(need[i]) = "any"
ValidateIsAllowed ==
  \A r \in Request : req[r].pc = "granted" =>
    \A need \in Needs \ {<<>>}, all \in BOOLEAN :
      Validate(need, req[r].scopes, all) <=> Allowed(need, req[r].scopes, all)

=============================================================================
