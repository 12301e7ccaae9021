---------------------------- MODULE WorkflowPush ----------------------------
(***************************************************************************)
(* The labfile of a project and the workflows of its server: lab wf        *)
(* create, push, push --update and delete, each a command that reads a     *)
(* labfile, sends its requests one by one, and writes a labfile at its     *)
(* end.  Requests may outlive the command that sent them; a command may    *)
(* stop anywhere; two may run at once.                                     *)
(***************************************************************************)
EXTENDS Integers, FiniteSets

CONSTANTS
  Alias,    \* aliases of workflows
  Id,       \* the wfids the server may still draw
  Def,      \* workflows, as their author means them: the notebook that is run
  Cmd,      \* commands that may run at the same time
  File,     \* labfiles
  Default,  \* the one in the current folder, which create and delete write
  MaxCommands, \* a bound on the commands that are started
  MaxEdits, \* a bound on what is written by hand
  Faults,   \* subset of {"stop", "timeout", "error"}
  NoId, Nobody

ASSUME PushAssumption ==
  /\ MaxCommands \in Nat /\ MaxEdits \in Nat /\ Default \in File /\ NoId \notin Id
  /\ Nobody \notin Cmd \cup Alias \cup Def
  /\ Faults \subseteq {"stop", "timeout", "error"}

VARIABLES
  file,     \* file[f]: the workflows of a labfile, by alias
  torn,     \* the labfiles that were opened for writing and hold nothing readable
  rows,     \* the server's workflows, by wfid
  owner,    \* owner[i]: the workflow the server has drawn i for
  cmd,      \* cmd[c]: what a command does and knows
  wire,     \* the requests under way
  begun,    \* how many commands were started
  edited,   \* how often a labfile was changed by hand
  cut,      \* workflows whose command stopped or failed before it wrote what it knew
  blame     \* has anything else happened that can make a labfile forget?

vars == <<file, torn, rows, owner, cmd, wire, begun, edited, cut, blame>>

Entry   == [id : Id \cup {NoId}, def : Def]
Labfile == UNION {[S -> Entry] : S \in SUBSET Alias}
Row     == [alias : Alias, def : Def]
Op      == {"push", "update", "delete", "create"}
Command == [pc : {"idle", "loop", "asked", "write", "open"}, op : Op, from : File,
            labs : Labfile, todo : SUBSET Alias]
Request == [cmd : Cmd \cup {Nobody}, op : {"push", "update", "delete"},
            alias : Alias \cup {Nobody}, id : Id \cup {NoId}, def : Def]

TypeOK ==
  /\ file \in [File -> Labfile] /\ torn \subseteq File
  /\ rows \in UNION {[S -> Row] : S \in SUBSET Id} /\ owner \in [Id -> Def \cup {Nobody}]
  /\ cmd \in [Cmd -> Command] /\ wire \subseteq Request
  /\ begun \in 0..MaxCommands /\ edited \in 0..MaxEdits /\ cut \subseteq Def /\ blame \in BOOLEAN

-----------------------------------------------------------------------------
(* Helpers.  A definition called Operator_Something right before Operator is
   a fault: the operator with one plausible mistake. *)

Empty       == [a \in {} |-> NoId]
With(m, k, v) == [a \in DOMAIN m \cup {k} |-> IF a = k THEN v ELSE m[a]]
Without(m, k) == [a \in DOMAIN m \ {k} |-> m[a]]

Idle        == [pc |-> "idle", op |-> "push", from |-> Default, labs |-> Empty,
                todo |-> {}]
Busy        == {c \in Cmd : cmd[c].pc # "idle"}
Listed(m, i) == \E a \in DOMAIN m : m[a].id = i
Named(a)    == {i \in DOMAIN rows : rows[i].alias = a}
Unused      == {i \in Id : owner[i] = Nobody}
Target(k)   == IF k.op \in {"push", "update"} THEN k.from ELSE Default

(* What a command knows and its labfile does not have yet. *)
Unsaved(k) ==
  {k.labs[a].def : a \in {b \in DOMAIN k.labs : /\ k.labs[b].id # NoId
                                               /\ ~Listed(file[k.from], k.labs[b].id)}}

Become(c, k) == cmd' = [cmd EXCEPT ![c] = k]

(* The author has written some workflows, and none was pushed. *)
Init ==
  /\ \E m \in {l \in Labfile : \A a \in DOMAIN l : l[a].id = NoId} :
       file = [f \in File |-> IF f = Default THEN m ELSE Empty]
  /\ torn = {} /\ rows = [i \in {} |-> 0]
  /\ owner = [i \in Id |-> Nobody] /\ cmd = [c \in Cmd |-> Idle]
  /\ wire = {} /\ begun = 0 /\ edited = 0 /\ cut = {} /\ blame = FALSE

(* The author writes a workflow into a labfile by hand, under a free alias or
   in the place of one that was not pushed yet. *)
Edit(f, a, d) ==
  /\ f \notin torn /\ edited < MaxEdits /\ edited' = edited + 1
  /\ a \in DOMAIN file[f] => file[f][a].id = NoId /\ file[f][a].def # d
  /\ file' = [file EXCEPT ![f] = With(@, a, [id |-> NoId, def |-> d])]
  /\ UNCHANGED <<torn, rows, owner, cmd, wire, begun, cut, blame>>

(* The author gives a workflow another alias; two may change theirs. *)
Renamed(m, a, b) ==
  LET was(x) == IF x = a THEN b ELSE IF x = b THEN a ELSE x IN
  [x \in {y \in Alias : was(y) \in DOMAIN m} |-> m[was(x)]]
Rename(f, a, b) ==
  /\ f \notin torn /\ edited < MaxEdits /\ edited' = edited + 1 /\ a # b /\ a \in DOMAIN file[f]
  /\ file' = [file EXCEPT ![f] = Renamed(@, a, b)]
  /\ UNCHANGED <<torn, rows, owner, cmd, wire, begun, cut, blame>>

Loaded(f) == file[f]

(* from_file: a labfile that cannot be read leaves the client without a
   state, and the command fails at its first use of it. *)
Begin(c, f, op, labs, todo, also) ==
  /\ cmd[c].pc = "idle" /\ f \notin torn /\ begun < MaxCommands /\ begun' = begun + 1
  /\ Become(c, [pc |-> IF op = "create" THEN "write" ELSE "loop", op |-> op, from |-> f,
                labs |-> labs, todo |-> todo])
  /\ blame' = (blame \/ also \/ Busy # {})
  /\ UNCHANGED <<file, torn, rows, owner, wire, edited, cut>>

(* push asks for the workflows without a wfid, push --update for all. *)
Push(c, f, update) ==
  Begin(c, f, IF update THEN "update" ELSE "push", Loaded(f),
        {a \in DOMAIN Loaded(f) : update \/ Loaded(f)[a].id = NoId}, FALSE)

(* create_workflow replaces the alias in the state and writes the default file. *)
CreateWorkflow(c, f, a, d) ==
  Begin(c, f, "create", With(Loaded(f), a, [id |-> NoId, def |-> d]), {},
        f # Default \/ a \in DOMAIN file[f])

(* delete takes a workflow out of the state, if it is there, before it asks
   the server; a wfid its labfile does not have is sent all the same. *)
Delete(c, f, i) ==
  LET found == {a \in DOMAIN Loaded(f) : Loaded(f)[a].id = i} IN
  /\ owner[i] # Nobody
  /\ cmd[c].pc = "idle" /\ f \notin torn /\ begun < MaxCommands /\ begun' = begun + 1
  /\ \E labs \in IF found = {} THEN {Loaded(f)} ELSE {Without(Loaded(f), a) : a \in found} :
       Become(c, [pc |-> "asked", op |-> "delete", from |-> f, labs |-> labs, todo |-> {}])
  /\ wire' = wire \cup {[cmd |-> c, op |-> "delete", alias |-> Nobody, id |-> i,
                          def |-> owner[i]]}
  /\ blame' = (blame \/ f # Default \/ Busy # {})
  /\ UNCHANGED <<file, torn, rows, owner, edited, cut>>

-----------------------------------------------------------------------------
(* workflows_push: one request after the other. *)
Ask(c) ==
  /\ cmd[c].pc = "loop"
  /\ \E a \in cmd[c].todo :
       /\ wire' = wire \cup {[cmd |-> c, op |-> cmd[c].op, alias |-> a,
                               id |-> cmd[c].labs[a].id, def |-> cmd[c].labs[a].def]}
       /\ Become(c, [cmd[c] EXCEPT !.pc = "asked", !.todo = @ \ {a}])
  /\ UNCHANGED <<file, torn, rows, owner, begun, edited, cut, blame>>

EndLoop(c) ==
  /\ cmd[c].pc = "loop" /\ cmd[c].todo = {} /\ Become(c, [cmd[c] EXCEPT !.pc = "write"])
  /\ UNCHANGED <<file, torn, rows, owner, wire, begun, edited, cut, blame>>

(* The answer to request r reaches its command, if that still waits: a new
   wfid enters the state. *)
Told(r, id) ==
  cmd' = [c \in Cmd |->
            IF c # r.cmd THEN cmd[c]
            ELSE [cmd[c] EXCEPT
                    !.pc = IF r.op = "delete" THEN "write" ELSE "loop",
                    !.labs = IF id = NoId THEN @ ELSE [@ EXCEPT ![r.alias].id = id]]]

(* The server's create: an alias that is there is answered without its wfid. *)
WorkflowCreate_TellsTheOther(r) ==
  /\ r.op = "push"
  /\ IF Named(r.alias) # {}
     THEN (\E i \in Named(r.alias) : Told(r, i)) /\ UNCHANGED <<rows, owner>>
     ELSE \E i \in Unused :
            /\ rows' = With(rows, i, [alias |-> r.alias, def |-> r.def])
            /\ owner' = [owner EXCEPT ![i] = r.def] /\ Told(r, i)
WorkflowCreate(r) ==
  /\ r.op = "push"
  /\ IF Named(r.alias) # {}
     THEN Told(r, NoId) /\ UNCHANGED <<rows, owner>>
     ELSE \E i \in Unused :
            /\ rows' = With(rows, i, [alias |-> r.alias, def |-> r.def])
            /\ owner' = [owner EXCEPT ![i] = r.def] /\ Told(r, i)

(* The server's update, alias and all, of the row of a wfid: 400 without one,
   201 when no row has it, 500 when another row has the alias. *)
WorkflowUpdate(r) ==
  /\ r.op = "update" /\ Told(r, NoId)
  /\ rows' = IF r.id \in DOMAIN rows /\ Named(r.alias) \subseteq {r.id}
             THEN With(rows, r.id, [alias |-> r.alias, def |-> r.def]) ELSE rows
  /\ UNCHANGED owner

WorkflowDelete(r) ==
  /\ r.op = "delete" /\ Told(r, NoId) /\ rows' = Without(rows, r.id)
  /\ UNCHANGED owner

Handle(r) ==
  /\ WorkflowCreate(r) \/ WorkflowUpdate(r) \/ WorkflowDelete(r)
  /\ wire' = wire \ {r} /\ UNCHANGED <<file, torn, begun, edited, cut, blame>>

(* A request that fails on the server: push logs it and goes on, delete
   writes a labfile without the workflow it had all the same. *)
HandlerError(r) ==
  /\ "error" \in Faults /\ Told(r, NoId) /\ wire' = wire \ {r}
  /\ cut' = IF r.op = "delete" /\ r.cmd # Nobody /\ Listed(file[cmd[r.cmd].from], r.id)
            THEN cut \cup {r.def} ELSE cut
  /\ UNCHANGED <<file, torn, rows, owner, begun, edited, blame>>

-----------------------------------------------------------------------------
(* write_yaml opens the file, which empties it, and then writes it. *)
Open(c) ==
  LET f == Target(cmd[c]) IN
  /\ cmd[c].pc = "write" /\ Become(c, [cmd[c] EXCEPT !.pc = "open"])
  /\ file' = [file EXCEPT ![f] = Empty] /\ torn' = torn \cup {f}
  /\ UNCHANGED <<rows, owner, wire, begun, edited, cut, blame>>

Write_NoIds(c) ==
  LET f == Target(cmd[c]) IN
  /\ cmd[c].pc = "open" /\ Become(c, Idle)
  /\ file' = [file EXCEPT ![f] = [a \in DOMAIN cmd[c].labs |->
                                    [cmd[c].labs[a] EXCEPT !.id = NoId]]]
  /\ torn' = torn \ {f}
  /\ UNCHANGED <<rows, owner, wire, begun, edited, cut, blame>>
Write(c) ==
  LET f == Target(cmd[c]) IN
  /\ cmd[c].pc = "open" /\ Become(c, Idle)
  /\ file' = [file EXCEPT ![f] = cmd[c].labs] /\ torn' = torn \ {f}
  /\ UNCHANGED <<rows, owner, wire, begun, edited, cut, blame>>

(* The command ends before its time: nothing it learned is written, and a
   request under way goes on without it. *)
Abandon(c) ==
  /\ Become(c, Idle)
  /\ wire' = {IF r.cmd = c THEN [r EXCEPT !.cmd = Nobody] ELSE r : r \in wire}
  /\ cut' = cut \cup Unsaved(cmd[c])
                 \cup {r.def : r \in {q \in wire : q.cmd = c /\ q.op = "push"}}
  /\ UNCHANGED <<file, torn, rows, owner, begun, edited, blame>>

(* A request that is not answered in CLIENT_TIMEOUT ends the command. *)
Timeout(c) == "timeout" \in Faults /\ cmd[c].pc = "asked" /\ Abandon(c)

Stop(c) == "stop" \in Faults /\ cmd[c].pc # "idle" /\ Abandon(c)

-----------------------------------------------------------------------------
WorkflowsPush(c) == Ask(c) \/ EndLoop(c) \/ Open(c) \/ Write(c)

Next ==
  \/ \E f \in File, a \in Alias : (\E d \in Def : Edit(f, a, d)) \/ (\E b \in Alias : Rename(f, a, b))
  \/ \E c \in Cmd, f \in File :
       \/ \E update \in BOOLEAN : Push(c, f, update)
       \/ \E a \in Alias, d \in Def : CreateWorkflow(c, f, a, d)
       \/ \E i \in Id : Delete(c, f, i)
  \/ \E c \in Cmd : WorkflowsPush(c) \/ Timeout(c) \/ Stop(c)
  \/ \E r \in wire : Handle(r) \/ HandlerError(r)

Spec == Init /\ [][Next]_vars

-----------------------------------------------------------------------------
Known(i) ==
  \/ \E f \in File : Listed(file[f], i)
  \/ \E c \in Busy : Listed(cmd[c].labs, i)

(* A wfid means the same workflow to the server, to every labfile and to every
   running command, whatever aliases workflows have and exchange: no answer
   and no late request puts it beside another notebook. *)
IdsAgree ==
  /\ \A i \in DOMAIN rows : owner[i] = rows[i].def
  /\ \A f \in File : \A a \in DOMAIN file[f] :
       file[f][a].id # NoId => owner[file[f][a].id] = file[f][a].def
  /\ \A c \in Cmd : \A a \in DOMAIN cmd[c].labs :
       cmd[c].labs[a].id # NoId => owner[cmd[c].labs[a].id] = cmd[c].labs[a].def

(* A workflow that no labfile knows by its wfid, which neither push nor
   update can reach again, had a command that was cut short or a request that
   failed, two commands at once, a create or a delete of another labfile than
   the one they write, or a create of an alias that was there. *)
StrandedNeedsCause ==
  \A i \in DOMAIN rows :
    ~Known(i) => rows[i].def \in cut \/ blame

(* Deleted stays deleted: no push, retried or late, brings a wfid back. *)
NoResurrection == [][\A i \in Id : owner[i] # Nobody /\ i \notin DOMAIN rows => i \notin DOMAIN rows']_vars
=============================================================================
