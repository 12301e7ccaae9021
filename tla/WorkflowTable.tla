---------------------------- MODULE WorkflowTable ----------------------------
(***************************************************************************)
(* What the lf_workflow table promises to the clients that change it: a    *)
(* request takes effect as a whole, in the step that answers it, or never; *)
(* an id is given once; an alias names one workflow of its project; and a  *)
(* workflow stays with the project it was created for.                     *)
(***************************************************************************)
CONSTANTS Request, Wfid, Project, Row, Existing, NoRow, NoCall

VARIABLES
  table,   \* table[w]: the row of workflow w
  asked,   \* asked[r]: what request r asks to be written
  done     \* the requests that were answered "ok"

Written == [op : {"create", "update", "delete"}, prj : Project, wfid : Wfid, def : Row]

Free(w, p, a) ==
  \A v \in Wfid \ {w} : table[v] # NoRow /\ table[v].prj = p => table[v].def.alias # a

Init ==
  /\ table \in [Wfid -> [prj : Project, def : Row] \cup {NoRow}]
  /\ \A w \in Wfid : table[w] # NoRow <=> w \in Existing
  /\ \A w \in Existing : Free(w, table[w].prj, table[w].def.alias)
  /\ asked = [r \in Request |-> NoCall]
  /\ done = {}

Ask(r) ==
  /\ asked[r] = NoCall
  /\ \E c \in Written : asked' = [asked EXCEPT ![r] = c]
  /\ UNCHANGED <<table, done>>

(* An id that no workflow has or had gets a row, as asked for. *)
Create(r) ==
  LET c == asked[r] IN
  /\ c.wfid \notin Existing
  /\ \A q \in done : ~(asked[q].op = "create" /\ asked[q].wfid = c.wfid)
  /\ Free(c.wfid, c.prj, c.def.alias)
  /\ table' = [table EXCEPT ![c.wfid] = [prj |-> c.prj, def |-> c.def]]

(* A row gets another definition; that there is none is not told. *)
Update(r) ==
  LET c == asked[r]  row == table[c.wfid] IN
  \/ /\ row # NoRow /\ Free(c.wfid, row.prj, c.def.alias)
     /\ table' = [table EXCEPT ![c.wfid] = [prj |-> row.prj, def |-> c.def]]
  \/ row = NoRow /\ UNCHANGED table

(* Only its own project removes a row. *)
Delete(r) ==
  LET c == asked[r]  row == table[c.wfid] IN
  \/ /\ row # NoRow /\ row.prj = c.prj
     /\ table' = [table EXCEPT ![c.wfid] = NoRow]
  \/ (row = NoRow \/ row.prj # c.prj) /\ UNCHANGED table

Answer(r) ==
  /\ asked[r] # NoCall /\ r \notin done
  /\ done' = done \cup {r} /\ UNCHANGED asked
  /\ \/ asked[r].op = "create" /\ Create(r)
     \/ asked[r].op = "update" /\ Update(r)
     \/ asked[r].op = "delete" /\ Delete(r)

Next == \E r \in Request : Ask(r) \/ Answer(r)

Spec == Init /\ [][Next]_<<table, asked, done>>
=============================================================================
