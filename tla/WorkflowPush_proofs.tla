------------------------- MODULE WorkflowPush_proofs -------------------------
(***************************************************************************)
(* Proofs about WorkflowPush, for any number of commands, labfiles,        *)
(* workflows and aliases, whatever is cut short and however often.  A wfid *)
(* is said of one workflow wherever it stands; a request under way has a   *)
(* command that waits for it, or none that will ever write what it does;   *)
(* and while nothing else has happened, the one running command holds      *)
(* every wfid that the labfile it will write over holds.                   *)
(***************************************************************************)
EXTENDS WorkflowPush, TLAPS

Means(m) == \A a \in DOMAIN m : m[a].id # NoId => owner[m[a].id] = m[a].def

Ids ==
  /\ \A i \in DOMAIN rows : owner[i] = rows[i].def
  /\ \A f \in File : Means(file[f])
  /\ \A c \in Cmd : Means(cmd[c].labs)
  /\ \A r \in wire : r.id # NoId => owner[r.id] = r.def

Unpushed(m, a) == a \in DOMAIN m /\ m[a].id = NoId

Asking(c) ==
  \A a \in cmd[c].todo : /\ a \in DOMAIN cmd[c].labs /\ cmd[c].op \in {"push", "update"}
                         /\ cmd[c].op = "push" => Unpushed(cmd[c].labs, a)

Waited(r) ==
  /\ r.op # "delete" => r.alias \in Alias
  /\ r.cmd = Nobody /\ r.op = "push" => r.def \in cut
  /\ r.cmd # Nobody =>
       /\ cmd[r.cmd].pc = "asked" /\ cmd[r.cmd].op = r.op /\ r.alias \notin cmd[r.cmd].todo
       /\ r.op = "push" => /\ Unpushed(cmd[r.cmd].labs, r.alias)
                           /\ cmd[r.cmd].labs[r.alias].def = r.def

Wired ==
  /\ \A c \in Cmd : Asking(c)
  /\ \A r \in wire : Waited(r)
  /\ \A r, q \in wire : r.cmd = q.cmd /\ r.cmd # Nobody => r = q

Going(c, i) == \E r \in wire : r.cmd = c /\ r.op = "delete" /\ r.id = i

Keeps(c) ==
  /\ cmd[c].from = Target(cmd[c])
  /\ \A i \in Id :
       Listed(file[cmd[c].from], i) =>
         Listed(cmd[c].labs, i) \/ i \notin DOMAIN rows \/ owner[i] \in cut \/ Going(c, i)

Safe ==
  ~blame => /\ \A c, d \in Busy : c = d
            /\ \A c \in Busy : Keeps(c)
            /\ \A i \in DOMAIN rows : Known(i) \/ owner[i] \in cut

Inv == TypeOK /\ Ids /\ Wired /\ Safe

-----------------------------------------------------------------------------
(* Partial functions, of which labfiles and the server's table are two. *)
Partial(K, V) == UNION {[S -> V] : S \in SUBSET K}

LEMMA PartialFacts ==
  ASSUME NEW K, NEW V, NEW m \in Partial(K, V)
  PROVE  DOMAIN m \subseteq K /\ \A k \in DOMAIN m : m[k] \in V
  BY DEF Partial

LEMMA WithFacts ==
  ASSUME NEW K, NEW V, NEW m \in Partial(K, V), NEW k \in K, NEW v \in V
  PROVE  /\ With(m, k, v) \in Partial(K, V) /\ DOMAIN With(m, k, v) = DOMAIN m \cup {k}
         /\ With(m, k, v)[k] = v /\ \A a \in DOMAIN m \ {k} : With(m, k, v)[a] = m[a]
<1> DEFINE S == DOMAIN m \cup {k}
<1>1. S \in SUBSET K /\ \A a \in S : (IF a = k THEN v ELSE m[a]) \in V
  BY PartialFacts
<1>2. With(m, k, v) \in [S -> V]
  BY <1>1 DEF With
<1> QED
  BY <1>1, <1>2 DEF Partial, With

LEMMA WithoutFacts ==
  ASSUME NEW K, NEW V, NEW m \in Partial(K, V), NEW k
  PROVE  /\ Without(m, k) \in Partial(K, V) /\ DOMAIN Without(m, k) = DOMAIN m \ {k}
         /\ \A a \in DOMAIN m \ {k} : Without(m, k)[a] = m[a]
<1> DEFINE S == DOMAIN m \ {k}
<1>1. S \in SUBSET K /\ \A a \in S : m[a] \in V
  BY PartialFacts
<1>2. Without(m, k) \in [S -> V]
  BY <1>1 DEF Without
<1> QED
  BY <1>1, <1>2 DEF Partial, Without

LEMMA TableTypes ==
  /\ Labfile = Partial(Alias, Entry) /\ (TypeOK => rows \in Partial(Id, Row))
  /\ (rows' \in Partial(Id, Row) <=> rows' \in UNION {[S -> Row] : S \in SUBSET Id})
  BY DEF Labfile, Partial, TypeOK

LEMMA Apart == NoId \notin Id /\ Nobody \notin Cmd /\ Nobody \notin Alias /\ Nobody \notin Def
               /\ Default \in File /\ MaxCommands \in Nat /\ MaxEdits \in Nat
  BY PushAssumption

LEMMA LabfileFacts ==
  ASSUME NEW m \in Labfile
  PROVE  /\ DOMAIN m \subseteq Alias
         /\ \A a \in DOMAIN m : m[a] \in Entry /\ m[a].id \in Id \cup {NoId} /\ m[a].def \in Def
<1>1. DOMAIN m \subseteq Alias /\ \A a \in DOMAIN m : m[a] \in Entry
  BY PartialFacts, TableTypes
<1> QED
  BY <1>1 DEF Entry

LEMMA LabWith ==
  ASSUME NEW m \in Labfile, NEW k \in Alias, NEW v \in Entry
  PROVE  /\ With(m, k, v) \in Labfile /\ DOMAIN With(m, k, v) = DOMAIN m \cup {k}
         /\ With(m, k, v)[k] = v /\ \A a \in DOMAIN m \ {k} : With(m, k, v)[a] = m[a]
  BY WithFacts, TableTypes

LEMMA LabWithout ==
  ASSUME NEW m \in Labfile, NEW k
  PROVE  /\ Without(m, k) \in Labfile /\ DOMAIN Without(m, k) = DOMAIN m \ {k}
         /\ \A a \in DOMAIN m \ {k} : Without(m, k)[a] = m[a]
<1> DEFINE w == Without(m, k)
<1>1. m \in Partial(Alias, Entry)
  BY TableTypes
<1>2. w \in Partial(Alias, Entry)
  BY <1>1, WithoutFacts, Zenon
<1>3. DOMAIN w = DOMAIN m \ {k} /\ \A a \in DOMAIN m \ {k} : w[a] = m[a]
  BY DEF Without
<1> QED
  BY <1>2, <1>3, TableTypes

LEMMA LabGiven ==
  ASSUME NEW m \in Labfile, NEW k \in DOMAIN m, NEW n \in Id
  PROVE  LET g == [m EXCEPT ![k].id = n] IN
         /\ g \in Labfile /\ DOMAIN g = DOMAIN m /\ g[k].id = n /\ g[k].def = m[k].def
         /\ \A a \in DOMAIN m \ {k} : g[a] = m[a]
<1> DEFINE e == [m[k] EXCEPT !.id = n]
           g == [m EXCEPT ![k] = e]
<1>1. PICK S \in SUBSET Alias : m \in [S -> Entry]
  BY DEF Labfile
<1>2. m[k] \in Entry /\ k \in S
  BY <1>1
<1>3. e \in Entry /\ e.id = n /\ e.def = m[k].def
  BY <1>2 DEF Entry
<1>4. [m EXCEPT ![k].id = n] = g
  OBVIOUS
<1> HIDE DEF e
<1>5. g \in [S -> Entry] /\ g[k] = e /\ \A a \in S \ {k} : g[a] = m[a]
  BY <1>1, <1>2, <1>3
<1>6. g \in Labfile /\ DOMAIN g = DOMAIN m
  BY <1>1, <1>5 DEF Labfile
<1> QED
  BY <1>1, <1>3, <1>4, <1>5, <1>6

(* Two workflows of a labfile exchange their aliases: the labfile has the same
   entries, under other names. *)
LEMMA LabRenamed ==
  ASSUME NEW m \in Labfile, NEW a \in Alias, NEW b \in Alias
  PROVE  LET n == Renamed(m, a, b) IN
         /\ n \in Labfile
         /\ \A x \in DOMAIN n : \E y \in DOMAIN m : n[x] = m[y]
         /\ \A y \in DOMAIN m : \E x \in DOMAIN n : n[x] = m[y]
<1> DEFINE was(x) == IF x = a THEN b ELSE IF x = b THEN a ELSE x
           S == {y \in Alias : was(y) \in DOMAIN m}
           n == [x \in S |-> m[was(x)]]
<1>1. Renamed(m, a, b) = n
  BY DEF Renamed
<1>2. DOMAIN n = S /\ \A x \in S : n[x] = m[was(x)] /\ was(x) \in DOMAIN m
  OBVIOUS
<1>3. \A y \in DOMAIN m : was(y) \in Alias /\ was(was(y)) = y
  BY LabfileFacts
<1>4. \A x \in S : m[was(x)] \in Entry
  BY LabfileFacts
<1>5. n \in [S -> Entry] /\ S \in SUBSET Alias
  BY <1>4
<1>6. n \in Labfile
  BY <1>5 DEF Labfile
<1>7. \A y \in DOMAIN m : was(y) \in S /\ n[was(y)] = m[y]
  BY <1>3
<1> HIDE DEF n, S, was
<1> QED
  BY <1>1, <1>2, <1>6, <1>7

LEMMA EmptyFacts == Empty \in Labfile /\ DOMAIN Empty = {} /\ \A i : ~Listed(Empty, i)
<1>1. DOMAIN Empty = {} /\ Empty \in [{} -> Entry]
  BY DEF Empty
<1> QED
  BY <1>1 DEF Labfile, Listed

LEMMA IdleFacts ==
  Idle \in Command /\ Idle.pc = "idle" /\ Idle.todo = {} /\ Idle.labs = Empty
  BY EmptyFacts, Apart DEF Idle, Command, Op

LEMMA InitInv == Init => Inv
<1> SUFFICES ASSUME Init PROVE Inv
  OBVIOUS
<1>1. rows \in UNION {[S -> Row] : S \in SUBSET Id} /\ DOMAIN rows = {}
  <2>1. rows \in [{} -> Row] /\ DOMAIN rows = {}
    BY DEF Init
  <2> QED
    BY <2>1
<1>2. TypeOK
  <2>1. file \in [File -> Labfile]
    BY EmptyFacts DEF Init
  <2>4. cmd \in [Cmd -> Command]
    BY IdleFacts DEF Init
  <2>2. owner \in [Id -> Def \cup {Nobody}] /\ torn \subseteq File /\ wire \subseteq Request
    BY DEF Init
  <2>3. begun \in 0..MaxCommands /\ edited \in 0..MaxEdits /\ cut \subseteq Def /\ blame \in BOOLEAN
    <3>1. begun = 0 /\ edited = 0 /\ cut = {} /\ blame = FALSE
      BY DEF Init
    <3>2. blame \in BOOLEAN
      BY <3>1, Zenon
    <3> QED
      BY <3>1, <3>2, Apart
  <2> QED
    BY <1>1, <2>1, <2>2, <2>3, <2>4 DEF TypeOK
<1>3. \A c \in Cmd : cmd[c] = Idle
  BY DEF Init
<1>4. Ids
  <2>1. \A f \in File : Means(file[f])
    BY EmptyFacts DEF Init, Means
  <2> QED
    BY <1>1, <1>3, <2>1, EmptyFacts, IdleFacts DEF Init, Ids, Means
<1>5. Wired
  BY <1>3, IdleFacts DEF Init, Wired, Asking
<1>6. Safe
  BY <1>1, <1>3, IdleFacts DEF Init, Safe, Busy
<1> QED
  BY <1>2, <1>4, <1>5, <1>6 DEF Inv

(* What an idle command is not: busy, or waited for by a request. *)
LEMMA NoRequest ==
  ASSUME Inv, NEW c \in Cmd, cmd[c].pc # "asked" PROVE \A r \in wire : r.cmd # c
  BY Apart DEF Inv, Wired, Waited

-----------------------------------------------------------------------------
(* The author's hand gives no wfid and takes none away. *)
LEMMA HandStep ==
  ASSUME Inv, NEW f \in File, NEW m \in Labfile, file' = [file EXCEPT ![f] = m],
         edited' \in 0..MaxEdits, UNCHANGED <<torn, rows, owner, cmd, wire, begun, cut, blame>>,
         Means(m), \A i \in Id : Listed(m, i) <=> Listed(file[f], i)
  PROVE  Inv'
<1>1. TypeOK'
  BY DEF Inv, TypeOK
<1>2. \A g \in File : file'[g] = IF g = f THEN m ELSE file[g]
  BY DEF Inv, TypeOK
<1>3. \A g \in File, i \in Id : Listed(file'[g], i) <=> Listed(file[g], i)
  BY <1>2
<1>4. Ids'
  BY <1>2 DEF Inv, Ids, Means
<1>5. Wired'
  BY DEF Inv, Wired, Asking, Waited, Unpushed
<1>6. Safe'
  <2> SUFFICES ASSUME ~blame
               PROVE  /\ \A c1, d1 \in Busy : c1 = d1
                      /\ \A c \in Busy : Keeps(c)'
                      /\ \A i \in DOMAIN rows : Known(i)' \/ owner[i] \in cut
    BY DEF Safe, Busy
  <2>1. \A c1, d1 \in Busy : c1 = d1
    BY DEF Inv, Safe
  <2>2. ASSUME NEW c \in Busy PROVE Keeps(c)'
    <3>1. cmd[c].from \in File /\ Keeps(c)
      BY DEF Inv, TypeOK, Safe, Busy, Command
    <3> QED
      BY <1>3, <3>1 DEF Keeps, Target, Going
  <2>3. ASSUME NEW i \in DOMAIN rows PROVE Known(i)' \/ owner[i] \in cut
    <3>1. i \in Id
      BY TableTypes, PartialFacts DEF Inv
    <3> QED
      BY <1>3, <3>1 DEF Inv, Safe, Known, Busy
  <2> QED
    BY <2>1, <2>2, <2>3
<1> QED
  BY <1>1, <1>4, <1>5, <1>6 DEF Inv

LEMMA EditStep ==
  ASSUME Inv, NEW f \in File, NEW a \in Alias, NEW d \in Def, Edit(f, a, d) PROVE Inv'
<1> DEFINE e == [id |-> NoId, def |-> d]
           m == With(file[f], a, e)
<1>1. /\ file' = [file EXCEPT ![f] = m] /\ file[f] \in Labfile
      /\ edited < MaxEdits /\ edited' = edited + 1 /\ edited \in 0..MaxEdits
      /\ a \in DOMAIN file[f] => file[f][a].id = NoId
      /\ UNCHANGED <<torn, rows, owner, cmd, wire, begun, cut, blame>>
  BY DEF Inv, TypeOK, Edit
<1>2. edited' \in 0..MaxEdits
  BY <1>1, Apart
<1>3. e \in Entry /\ e.id = NoId
  BY DEF Entry
<1> HIDE DEF e
<1>4. /\ m \in Labfile /\ DOMAIN m = DOMAIN file[f] \cup {a} /\ m[a] = e
      /\ \A b \in DOMAIN file[f] \ {a} : m[b] = file[f][b]
  BY <1>1, <1>3, LabWith
<1> HIDE DEF m
<1>5. Means(m)
  BY <1>3, <1>4 DEF Inv, Ids, Means
<1>6. \A i \in Id : Listed(m, i) <=> Listed(file[f], i)
  BY <1>1, <1>3, <1>4, Apart DEF Listed
<1> QED
  BY <1>1, <1>2, <1>4, <1>5, <1>6, HandStep

LEMMA RenameStep ==
  ASSUME Inv, NEW f \in File, NEW a \in Alias, NEW b \in Alias, Rename(f, a, b) PROVE Inv'
<1> DEFINE m == Renamed(file[f], a, b)
<1>1. /\ file' = [file EXCEPT ![f] = m] /\ file[f] \in Labfile
      /\ edited < MaxEdits /\ edited' = edited + 1 /\ edited \in 0..MaxEdits
      /\ UNCHANGED <<torn, rows, owner, cmd, wire, begun, cut, blame>>
  BY DEF Inv, TypeOK, Rename
<1>2. edited' \in 0..MaxEdits
  BY <1>1, Apart
<1>3. /\ m \in Labfile
      /\ \A x \in DOMAIN m : \E y \in DOMAIN file[f] : m[x] = file[f][y]
      /\ \A y \in DOMAIN file[f] : \E x \in DOMAIN m : m[x] = file[f][y]
  BY <1>1, LabRenamed
<1> HIDE DEF m
<1>4. Means(m)
  BY <1>3 DEF Inv, Ids, Means
<1>5. \A i \in Id : Listed(m, i) <=> Listed(file[f], i)
  BY <1>3 DEF Listed
<1> QED
  BY <1>1, <1>2, <1>3, <1>4, <1>5, HandStep

(* A command begins: it is the only one, or that is noted. *)
LEMMA LaunchStep ==
  ASSUME Inv, TypeOK', NEW c \in Cmd, NEW k \in Command, NEW W,
         cmd[c].pc = "idle", k.pc # "idle", Become(c, k), wire' = wire \cup W,
         UNCHANGED <<file, rows, owner, cut>>,
         ~blame' => ~blame /\ Busy = {},
         Means(k.labs),
         \A a \in k.todo : /\ a \in DOMAIN k.labs /\ k.op \in {"push", "update"}
                           /\ k.op = "push" => Unpushed(k.labs, a),
         \A r \in W : /\ r.cmd = c /\ r.op = "delete" /\ k.op = "delete" /\ k.pc = "asked"
                      /\ r.alias \notin k.todo /\ (r.id # NoId => owner[r.id] = r.def),
         \A r, q \in W : r = q,
         ~blame' => /\ k.from = Target(k)
                    /\ \A i \in Id : Listed(file[k.from], i) =>
                         Listed(k.labs, i) \/ \E r \in W : r.id = i
  PROVE  Inv'
<1>1. cmd'[c] = k /\ \A d \in Cmd \ {c} : cmd'[d] = cmd[d]
  BY DEF Inv, TypeOK, Become
<1>2. \A r \in wire : r.cmd # c
  BY NoRequest
<1>3. Ids'
  BY <1>1 DEF Inv, Ids, Means
<1>4. Wired'
  <2>1. ASSUME NEW d \in Cmd PROVE Asking(d)'
    BY <1>1 DEF Inv, Wired, Asking
  <2>2. ASSUME NEW r \in wire PROVE Waited(r)'
    <3>1. r.cmd \in Cmd \cup {Nobody} /\ r.cmd # c
      BY <1>2 DEF Inv, TypeOK, Request
    <3> QED
      BY <1>1, <3>1 DEF Inv, Wired, Waited, Unpushed
  <2>3. ASSUME NEW r \in W PROVE Waited(r)'
    BY <1>1, Apart DEF Waited
  <2>4. \A r, q \in wire' : r.cmd = q.cmd /\ r.cmd # Nobody => r = q
    BY <1>2 DEF Inv, Wired
  <2> QED
    BY <2>1, <2>2, <2>3, <2>4 DEF Wired
<1>5. Safe'
  <2> SUFFICES ASSUME ~blame'
               PROVE  /\ \A c1, d1 \in Busy' : c1 = d1
                      /\ \A d \in Busy' : Keeps(d)'
                      /\ \A i \in DOMAIN rows : Known(i)' \/ owner[i] \in cut
    BY DEF Safe
  <2>1. Busy' = {c}
    BY <1>1 DEF Busy
  <2>2. Keeps(c)'
    <3>1. k.from = Target(k) /\ Target(k)' = Target(k)
      BY DEF Target
    <3>2. Target(cmd[c])' = Target(k)
      BY <1>1 DEF Target
    <3>3. ASSUME NEW i \in Id, Listed(file[k.from], i), ~Listed(k.labs, i)
          PROVE  Going(c, i)'
      BY <3>3 DEF Going
    <3> QED
      BY <1>1, <3>1, <3>2, <3>3 DEF Keeps
  <2>3. ASSUME NEW i \in DOMAIN rows PROVE Known(i)' \/ owner[i] \in cut
    BY DEF Inv, Safe, Known
  <2> QED
    BY <2>1, <2>2, <2>3
<1> QED
  BY <1>3, <1>4, <1>5 DEF Inv

LEMMA PushStep ==
  ASSUME Inv, NEW c \in Cmd, NEW f \in File, NEW update \in BOOLEAN, Push(c, f, update) PROVE Inv'
<1> DEFINE T == {a \in DOMAIN Loaded(f) : update \/ Loaded(f)[a].id = NoId}
           k == [pc |-> "loop", op |-> IF update THEN "update" ELSE "push", from |-> f,
                 labs |-> Loaded(f), todo |-> T]
<1>1. /\ TypeOK /\ cmd[c].pc = "idle" /\ Become(c, k) /\ wire' = wire \cup {}
      /\ blame' = (blame \/ FALSE \/ Busy # {})
      /\ begun' = begun + 1 /\ begun < MaxCommands
      /\ UNCHANGED <<file, torn, rows, owner, edited, cut>>
  BY DEF Inv, Push, Begin
<1>2. file[f] \in Labfile /\ DOMAIN file[f] \subseteq Alias /\ Loaded(f) = file[f]
  BY <1>1, PartialFacts, TableTypes DEF TypeOK, Loaded
<1>3. k \in Command
  BY <1>2 DEF Command, Op
<1>4. \A a \in T : a \in DOMAIN file[f] /\ (k.op = "push" => Unpushed(file[f], a))
  BY <1>2 DEF Unpushed
<1>5. /\ k.pc = "loop" /\ k.op \in {"push", "update"} /\ k.from = f /\ k.labs = file[f]
      /\ k.todo = T
  BY <1>2
<1> HIDE DEF k, T
<1>6. TypeOK'
  BY <1>1, <1>3, Apart DEF TypeOK, Become
<1>7. Means(k.labs)
  BY <1>5 DEF Inv, Ids
<1>8. k.from = Target(k)
  BY <1>5 DEF Target
<1>9. ~blame' => ~blame /\ Busy = {}
  BY <1>1
<1>10. \A a \in k.todo : /\ a \in DOMAIN k.labs /\ k.op \in {"push", "update"}
                         /\ k.op = "push" => Unpushed(k.labs, a)
  BY <1>4, <1>5
<1>11. ~blame' => /\ k.from = Target(k)
                  /\ \A i \in Id : Listed(file[k.from], i) => Listed(k.labs, i)
  BY <1>5, <1>8
<1>12. k.pc # "idle" /\ UNCHANGED <<file, rows, owner, cut>>
  BY <1>1, <1>5
<1> DEFINE W == {}
<1>13. wire' = wire \cup W /\ W = {}
  BY <1>1
<1> HIDE DEF W
<1> QED
  BY <1>1, <1>3, <1>6, <1>7, <1>9, <1>10, <1>11, <1>12, <1>13, LaunchStep

LEMMA CreateStep ==
  ASSUME Inv, NEW c \in Cmd, NEW f \in File, NEW a \in Alias, NEW d \in Def,
         CreateWorkflow(c, f, a, d)
  PROVE  Inv'
<1> DEFINE e == [id |-> NoId, def |-> d]
           L == With(Loaded(f), a, e)
           k == [pc |-> "write", op |-> "create", from |-> f, labs |-> L, todo |-> {}]
<1>1. /\ TypeOK /\ cmd[c].pc = "idle" /\ Become(c, k) /\ wire' = wire \cup {}
      /\ begun' = begun + 1 /\ begun < MaxCommands
      /\ UNCHANGED <<file, torn, rows, owner, edited, cut>>
  BY DEF Inv, CreateWorkflow, Begin
<1>2. blame' = (blame \/ (f # Default \/ a \in DOMAIN file[f]) \/ Busy # {})
  BY DEF CreateWorkflow, Begin
<1>3. file[f] \in Labfile /\ Loaded(f) = file[f] /\ e \in Entry /\ e.id = NoId
  BY <1>1, Apart DEF TypeOK, Loaded, Entry
<1> HIDE DEF e
<1> HIDE DEF L
<1>4. /\ L \in Labfile /\ DOMAIN L = DOMAIN file[f] \cup {a} /\ L[a] = e
      /\ \A b \in DOMAIN file[f] \ {a} : L[b] = file[f][b]
  <2>1. L = With(file[f], a, e)
    BY <1>3 DEF L
  <2>2. /\ With(file[f], a, e) \in Labfile
        /\ DOMAIN With(file[f], a, e) = DOMAIN file[f] \cup {a} /\ With(file[f], a, e)[a] = e
        /\ \A b \in DOMAIN file[f] \ {a} : With(file[f], a, e)[b] = file[f][b]
    BY <1>3, LabWith, Zenon
  <2> QED
    BY <2>1, <2>2
<1>5. /\ k \in Command /\ k.pc = "write" /\ k.op = "create" /\ k.from = f /\ k.labs = L
      /\ k.todo = {}
  BY <1>4 DEF Command, Op
<1> HIDE DEF k
<1>6. blame' \in BOOLEAN
  BY <1>2
<1>7. TypeOK'
  BY <1>1, <1>5, <1>6, Apart DEF TypeOK, Become
<1>8. Means(k.labs)
  BY <1>3, <1>4, <1>5 DEF Inv, Ids, Means
<1>9. ~blame' => ~blame /\ Busy = {} /\ f = Default /\ a \notin DOMAIN file[f]
  BY <1>2
<1>10. ~blame' => /\ k.from = Target(k)
                  /\ \A i \in Id : Listed(file[k.from], i) => Listed(k.labs, i)
  BY <1>4, <1>5, <1>9 DEF Target, Listed
<1>11. k.pc # "idle" /\ UNCHANGED <<file, rows, owner, cut>>
  BY <1>1, <1>5
<1> DEFINE W == {}
<1>12. wire' = wire \cup W /\ W = {}
  BY <1>1
<1> HIDE DEF W
<1> QED
  BY <1>1, <1>5, <1>7, <1>8, <1>9, <1>10, <1>11, <1>12, LaunchStep

LEMMA DeleteStep ==
  ASSUME Inv, NEW c \in Cmd, NEW f \in File, NEW i \in Id, Delete(c, f, i) PROVE Inv'
<1> DEFINE r == [cmd |-> c, op |-> "delete", alias |-> Nobody, id |-> i, def |-> owner[i]]
           W == {r}
           found == {a \in DOMAIN Loaded(f) : Loaded(f)[a].id = i}
<1>1. /\ TypeOK /\ cmd[c].pc = "idle" /\ wire' = wire \cup W /\ owner[i] # Nobody
      /\ begun' = begun + 1 /\ begun < MaxCommands
      /\ UNCHANGED <<file, torn, rows, owner, edited, cut>>
      /\ blame' = (blame \/ f # Default \/ Busy # {})
  BY DEF Inv, Delete
<1>2. PICK L \in IF found = {} THEN {Loaded(f)} ELSE {Without(Loaded(f), a) : a \in found} :
        Become(c, [pc |-> "asked", op |-> "delete", from |-> f, labs |-> L, todo |-> {}])
  BY DEF Delete
<1>3. file[f] \in Labfile /\ Loaded(f) = file[f]
  BY <1>1 DEF TypeOK, Loaded
<1>4. /\ L \in Labfile /\ Means(L)
      /\ \A j \in Id : Listed(file[f], j) => Listed(L, j) \/ j = i
  <2>1. Means(file[f])
    BY DEF Inv, Ids
  <2>2. CASE L = file[f]
    BY <1>3, <2>1, <2>2
  <2>3. CASE L # file[f]
    <3>1. PICK a \in DOMAIN file[f] : file[f][a].id = i /\ L = Without(file[f], a)
      BY <1>2, <1>3, <2>3
    <3>2. /\ L \in Labfile /\ DOMAIN L = DOMAIN file[f] \ {a}
          /\ \A b \in DOMAIN file[f] \ {a} : L[b] = file[f][b]
      BY <1>3, <3>1, LabWithout
    <3>3. Means(L)
      BY <2>1, <3>2 DEF Means
    <3>4. \A j \in Id : Listed(file[f], j) => Listed(L, j) \/ j = i
      BY <3>1, <3>2 DEF Listed
    <3> QED
      BY <3>2, <3>3, <3>4
  <2> QED
    BY <2>2, <2>3
<1> DEFINE k == [pc |-> "asked", op |-> "delete", from |-> f, labs |-> L, todo |-> {}]
<1>5. /\ k \in Command /\ k.pc = "asked" /\ k.op = "delete" /\ k.from = f /\ k.labs = L
      /\ k.todo = {} /\ Become(c, k)
  BY <1>2, <1>4 DEF Command, Op
<1>6. r \in Request
  BY <1>1 DEF Request, TypeOK
<1> HIDE DEF k
<1>7. TypeOK'
  BY <1>1, <1>5, <1>6, Apart DEF TypeOK, Become
<1>8. ~blame' => ~blame /\ Busy = {} /\ f = Default
  BY <1>1
<1>9. /\ \A q \in W : /\ q.cmd = c /\ q.op = "delete" /\ k.op = "delete" /\ k.pc = "asked"
                      /\ q.alias \notin k.todo /\ (q.id # NoId => owner[q.id] = q.def)
      /\ \A q, s \in W : q = s
      /\ \E q \in W : q.id = i
  BY <1>5
<1>10. ~blame' => /\ k.from = Target(k)
                  /\ \A j \in Id : Listed(file[k.from], j) =>
                       Listed(k.labs, j) \/ \E q \in W : q.id = j
  BY <1>4, <1>5, <1>8, <1>9 DEF Target
<1>11. \A b \in k.todo : /\ b \in DOMAIN k.labs /\ k.op \in {"push", "update"}
                         /\ k.op = "push" => Unpushed(k.labs, b)
  BY <1>5
<1>12. k.pc # "idle" /\ UNCHANGED <<file, rows, owner, cut>> /\ Means(k.labs)
  BY <1>1, <1>4, <1>5
<1> HIDE DEF W
<1> QED
  BY <1>1, <1>5, <1>7, <1>8, <1>9, <1>10, <1>11, <1>12, LaunchStep

-----------------------------------------------------------------------------
(* A command goes on, with what it knows: it asks, or it has asked for all. *)
LEMMA LoopStep ==
  ASSUME Inv, TypeOK', NEW c \in Cmd, NEW k \in Command, NEW W,
         cmd[c].pc = "loop", k.pc # "idle", Become(c, k), wire' = wire \cup W,
         UNCHANGED <<file, rows, owner, cut, blame>>,
         k.labs = cmd[c].labs, k.op = cmd[c].op, k.from = cmd[c].from, k.todo \subseteq cmd[c].todo,
         \A r \in W : /\ r.cmd = c /\ r.op = k.op /\ k.pc = "asked" /\ r.alias \notin k.todo
                      /\ r.alias \in Alias
                      /\ r.op = "push" => /\ Unpushed(k.labs, r.alias)
                                          /\ k.labs[r.alias].def = r.def
                      /\ r.id # NoId => owner[r.id] = r.def,
         \A r, q \in W : r = q
  PROVE  Inv'
<1>1. cmd'[c] = k /\ \A d \in Cmd \ {c} : cmd'[d] = cmd[d]
  BY DEF Inv, TypeOK, Become
<1>2. \A r \in wire : r.cmd # c
  BY NoRequest
<1>3. Ids'
  BY <1>1 DEF Inv, Ids, Means
<1>4. Wired'
  <2>1. ASSUME NEW d \in Cmd PROVE Asking(d)'
    BY <1>1 DEF Inv, Wired, Asking
  <2>2. ASSUME NEW r \in wire PROVE Waited(r)'
    <3>1. r.cmd \in Cmd \cup {Nobody} /\ r.cmd # c
      BY <1>2 DEF Inv, TypeOK, Request
    <3> QED
      BY <1>1, <3>1 DEF Inv, Wired, Waited
  <2>3. ASSUME NEW r \in W PROVE Waited(r)'
    BY <1>1, Apart DEF Waited
  <2>4. \A r, q \in wire' : r.cmd = q.cmd /\ r.cmd # Nobody => r = q
    BY <1>2 DEF Inv, Wired
  <2> QED
    BY <2>1, <2>2, <2>3, <2>4 DEF Wired
<1>5. Busy' = Busy /\ \A d \in Cmd : cmd'[d].labs = cmd[d].labs /\ cmd'[d].from = cmd[d].from
                                     /\ cmd'[d].op = cmd[d].op
  BY <1>1 DEF Busy
<1>6. Safe'
  <2> SUFFICES ASSUME ~blame
               PROVE  /\ \A c1, d1 \in Busy : c1 = d1
                      /\ \A d \in Busy : Keeps(d)'
                      /\ \A i \in DOMAIN rows : Known(i)' \/ owner[i] \in cut
    BY <1>5 DEF Safe
  <2>1. ASSUME NEW d \in Busy PROVE Keeps(d)'
    <3>1. d \in Cmd /\ Keeps(d) /\ Target(cmd[d])' = Target(cmd[d])
      BY <1>5 DEF Inv, Safe, Busy, Target
    <3>2. \A i : Going(d, i) => Going(d, i)'
      BY DEF Going
    <3> QED
      BY <1>5, <3>1, <3>2 DEF Keeps
  <2>2. ASSUME NEW i \in DOMAIN rows PROVE Known(i)' \/ owner[i] \in cut
    <3>1. Busy \subseteq Cmd
      BY DEF Busy
    <3> QED
      BY <1>5, <3>1 DEF Inv, Safe, Known
  <2> QED
    BY <2>1, <2>2 DEF Inv, Safe
<1> QED
  BY <1>3, <1>4, <1>6 DEF Inv

LEMMA AskStep == ASSUME Inv, NEW c \in Cmd, Ask(c) PROVE Inv'
<1>1. PICK a \in cmd[c].todo :
        /\ wire' = wire \cup {[cmd |-> c, op |-> cmd[c].op, alias |-> a,
                                id |-> cmd[c].labs[a].id, def |-> cmd[c].labs[a].def]}
        /\ Become(c, [cmd[c] EXCEPT !.pc = "asked", !.todo = cmd[c].todo \ {a}])
  BY DEF Ask
<1> DEFINE r == [cmd |-> c, op |-> cmd[c].op, alias |-> a, id |-> cmd[c].labs[a].id,
                 def |-> cmd[c].labs[a].def]
           k == [cmd[c] EXCEPT !.pc = "asked", !.todo = cmd[c].todo \ {a}]
<1>2. /\ TypeOK /\ cmd[c] \in Command /\ cmd[c].pc = "loop" /\ cmd[c].labs \in Labfile
      /\ UNCHANGED <<file, torn, rows, owner, begun, edited, cut, blame>>
  BY DEF Inv, TypeOK, Ask, Command
<1>3. /\ k \in Command /\ k.pc = "asked" /\ k.labs = cmd[c].labs /\ k.op = cmd[c].op
      /\ k.from = cmd[c].from /\ k.todo = cmd[c].todo \ {a}
  BY <1>2 DEF Command
<1>4. /\ a \in DOMAIN cmd[c].labs /\ cmd[c].op \in {"push", "update"}
      /\ cmd[c].op = "push" => Unpushed(cmd[c].labs, a)
  BY <1>2 DEF Inv, Wired, Asking, Op
<1>5. /\ a \in Alias /\ cmd[c].labs[a].id \in Id \cup {NoId} /\ cmd[c].labs[a].def \in Def
      /\ cmd[c].labs[a].id # NoId => owner[cmd[c].labs[a].id] = cmd[c].labs[a].def
  BY <1>2, <1>4, LabfileFacts DEF Inv, Ids, Means
<1>6. /\ r.cmd = c /\ r.op = cmd[c].op /\ r.alias = a /\ r.id = cmd[c].labs[a].id
      /\ r.def = cmd[c].labs[a].def
  OBVIOUS
<1>7. r \in Request
  BY <1>4, <1>5 DEF Request
<1>8. Become(c, k) /\ wire' = wire \cup {r}
  BY <1>1
<1> HIDE DEF k, r
<1>9. TypeOK'
  BY <1>2, <1>3, <1>7, <1>8 DEF TypeOK, Become
<1> DEFINE W == {r}
<1>10. /\ \A q \in W : /\ q.cmd = c /\ q.op = k.op /\ k.pc = "asked" /\ q.alias \notin k.todo
                       /\ q.alias \in Alias
                       /\ q.op = "push" => /\ Unpushed(k.labs, q.alias)
                                           /\ k.labs[q.alias].def = q.def
                       /\ q.id # NoId => owner[q.id] = q.def
       /\ \A q, s \in W : q = s
       /\ wire' = wire \cup W
  BY <1>8, <1>3, <1>4, <1>5, <1>6
<1>11. k.pc # "idle" /\ k.todo \subseteq cmd[c].todo /\ UNCHANGED <<file, rows, owner, cut, blame>>
  BY <1>2, <1>3
<1> HIDE DEF W
<1> QED
  BY <1>2, <1>3, <1>8, <1>9, <1>10, <1>11, LoopStep

LEMMA EndLoopStep == ASSUME Inv, NEW c \in Cmd, EndLoop(c) PROVE Inv'
<1> DEFINE k == [cmd[c] EXCEPT !.pc = "write"]
<1>1. /\ TypeOK /\ cmd[c] \in Command /\ cmd[c].pc = "loop" /\ Become(c, k) /\ wire' = wire \cup {}
      /\ UNCHANGED <<file, torn, rows, owner, begun, edited, cut, blame>>
  BY DEF Inv, TypeOK, EndLoop
<1>2. /\ k \in Command /\ k.pc = "write" /\ k.labs = cmd[c].labs /\ k.op = cmd[c].op
      /\ k.from = cmd[c].from /\ k.todo = cmd[c].todo
  BY <1>1 DEF Command
<1> HIDE DEF k
<1>3. TypeOK'
  BY <1>1, <1>2 DEF TypeOK, Become
<1>4. k.pc # "idle" /\ k.todo \subseteq cmd[c].todo /\ UNCHANGED <<file, rows, owner, cut, blame>>
  BY <1>1, <1>2
<1>5. \A W : W = {} => \A r, q \in W : r = q
  OBVIOUS
<1> QED
  BY <1>1, <1>2, <1>3, <1>4, <1>5, LoopStep

-----------------------------------------------------------------------------
(* What an answer changes in the command that waits for it: the entry that
   was asked for has the wfid, if there is one. *)
Given(m, n, a, id) ==
  /\ DOMAIN n = DOMAIN m /\ n[a].id = id /\ n[a].def = m[a].def
  /\ \A b \in DOMAIN m \ {a} : n[b] = m[b]

LEMMA ToldFacts ==
  ASSUME Inv, NEW r \in wire, NEW id \in Id \cup {NoId}, id # NoId => r.op = "push", Told(r, id)
  PROVE  /\ cmd' \in [Cmd -> Command]
         /\ \A c \in Cmd \ {r.cmd} : cmd'[c] = cmd[c]
         /\ \A c \in Cmd : /\ cmd'[c].op = cmd[c].op /\ cmd'[c].from = cmd[c].from
                           /\ cmd'[c].todo = cmd[c].todo
                           /\ id = NoId => cmd'[c].labs = cmd[c].labs
         /\ r.cmd \in Cmd =>
              /\ cmd[r.cmd].pc = "asked" /\ cmd'[r.cmd].pc \in {"write", "loop"}
              /\ id # NoId => /\ Given(cmd[r.cmd].labs, cmd'[r.cmd].labs, r.alias, id)
                              /\ Unpushed(cmd[r.cmd].labs, r.alias)
                              /\ cmd[r.cmd].labs[r.alias].def = r.def
<1>1. r.cmd \in Cmd => /\ cmd[r.cmd].pc = "asked"
                       /\ r.op = "push" => /\ Unpushed(cmd[r.cmd].labs, r.alias)
                                           /\ cmd[r.cmd].labs[r.alias].def = r.def
  BY Apart DEF Inv, Wired, Waited
<1> DEFINE K(c) == [cmd[c] EXCEPT !.pc = IF r.op = "delete" THEN "write" ELSE "loop",
                      !.labs = IF id = NoId THEN @ ELSE [@ EXCEPT ![r.alias].id = id]]
           L == IF id = NoId THEN cmd[r.cmd].labs ELSE [cmd[r.cmd].labs EXCEPT ![r.alias].id = id]
<1>2. cmd' = [c \in Cmd |-> IF c # r.cmd THEN cmd[c] ELSE K(c)]
  BY DEF Told
<1>3. \A c \in Cmd : cmd[c] \in Command /\ cmd[c].labs \in Labfile
  BY DEF Inv, TypeOK, Command
<1>4. ASSUME r.cmd \in Cmd
      PROVE  /\ L \in Labfile
             /\ id # NoId => Given(cmd[r.cmd].labs, L, r.alias, id)
  <2>1. CASE id = NoId
    BY <1>3, <1>4, <2>1
  <2>2. CASE id # NoId
    <3>1. r.alias \in DOMAIN cmd[r.cmd].labs /\ id \in Id /\ cmd[r.cmd].labs \in Labfile
      BY <1>1, <1>3, <1>4, <2>2 DEF Unpushed
    <3> QED
      BY <2>2, <3>1, LabGiven DEF Given
  <2> QED
    BY <2>1, <2>2
<1>5. ASSUME r.cmd \in Cmd
      PROVE  /\ K(r.cmd) \in Command /\ K(r.cmd).labs = L /\ K(r.cmd).pc \in {"write", "loop"}
             /\ K(r.cmd).op = cmd[r.cmd].op /\ K(r.cmd).from = cmd[r.cmd].from
             /\ K(r.cmd).todo = cmd[r.cmd].todo
  <2>1. cmd[r.cmd] \in Command /\ L \in Labfile
    BY <1>3, <1>4, <1>5
  <2>2. K(r.cmd) = [cmd[r.cmd] EXCEPT !.pc = IF r.op = "delete" THEN "write" ELSE "loop", !.labs = L]
    BY <2>1 DEF Command
  <2> HIDE DEF L, K
  <2> QED
    BY <2>1, <2>2 DEF Command
<1> HIDE DEF K
<1>6. \A c \in Cmd : cmd'[c] = IF c # r.cmd THEN cmd[c] ELSE K(c)
  BY <1>2
<1>7. cmd' \in [Cmd -> Command]
  BY <1>2, <1>3, <1>5
<1>8. \A c \in Cmd : id = NoId => cmd'[c].labs = cmd[c].labs
  BY <1>5, <1>6
<1> HIDE DEF L
<1> QED
  BY <1>1, <1>4, <1>5, <1>6, <1>7, <1>8

(* An answer: a request leaves the wire, and what it did to the table agrees
   with what its command is told. *)
LEMMA AnswerStep ==
  ASSUME Inv, TypeOK', NEW r \in wire, NEW id \in Id \cup {NoId}, Told(r, id),
         wire' = wire \ {r}, UNCHANGED <<file, blame>>, cut \subseteq cut',
         \A i \in Id : owner[i] # Nobody => owner'[i] = owner[i],
         id # NoId => r.op = "push" /\ id \in Unused /\ owner'[id] = r.def,
         \A i \in DOMAIN rows' : owner'[i] = rows'[i].def,
         DOMAIN rows' \subseteq DOMAIN rows \cup {id},
         r.op = "delete" /\ r.cmd # Nobody /\ Listed(file[cmd[r.cmd].from], r.id) =>
           r.id \notin DOMAIN rows' \/ r.def \in cut'
  PROVE  Inv'
<1>1. /\ \A c \in Cmd \ {r.cmd} : cmd'[c] = cmd[c]
      /\ \A c \in Cmd : /\ cmd'[c].op = cmd[c].op /\ cmd'[c].from = cmd[c].from
                        /\ cmd'[c].todo = cmd[c].todo
                        /\ id = NoId => cmd'[c].labs = cmd[c].labs
      /\ r.cmd \in Cmd =>
           /\ cmd[r.cmd].pc = "asked" /\ cmd'[r.cmd].pc \in {"write", "loop"}
           /\ id # NoId => /\ Given(cmd[r.cmd].labs, cmd'[r.cmd].labs, r.alias, id)
                           /\ Unpushed(cmd[r.cmd].labs, r.alias)
                           /\ cmd[r.cmd].labs[r.alias].def = r.def
  BY ToldFacts
<1>2. /\ r.cmd \in Cmd \cup {Nobody} /\ DOMAIN rows \subseteq Id /\ DOMAIN rows' \subseteq Id
  BY TableTypes, PartialFacts DEF Inv, TypeOK, Request
<1>3. /\ \A q \in wire : q.cmd \in Cmd \cup {Nobody} /\ q.id \in Id \cup {NoId} /\ q.def \in Def \cup {Nobody}
      /\ \A c \in Cmd : cmd[c].from \in File /\ cmd[c].labs \in Labfile
      /\ \A f \in File : file[f] \in Labfile
  BY DEF Inv, TypeOK, Request, Command
<1>4. \A q \in wire \ {r} : q.cmd # Nobody => q.cmd # r.cmd
  BY DEF Inv, Wired
<1>5. Ids'
  <2>1. ASSUME NEW m \in Labfile, Means(m) PROVE Means(m)'
    BY <2>1, LabfileFacts, Apart DEF Means
  <2>2. \A f \in File : Means(file[f])'
    BY <1>3, <2>1 DEF Inv, Ids, Means
  <2>3. ASSUME NEW c \in Cmd PROVE Means(cmd[c].labs)'
    <3>1. CASE c # r.cmd \/ id = NoId
      BY <1>1, <1>3, <2>1, <3>1 DEF Inv, Ids, Means
    <3>2. CASE c = r.cmd /\ id # NoId
      <4>1. \A a \in DOMAIN cmd[c].labs : cmd[c].labs[a].id # NoId => owner'[cmd[c].labs[a].id] = cmd[c].labs[a].def
        BY <1>3, <2>1 DEF Inv, Ids, Means
      <4> QED
        BY <1>1, <3>2, <4>1 DEF Means, Given
    <3> QED
      BY <3>1, <3>2
  <2>4. \A q \in wire' : q.id # NoId => owner'[q.id] = q.def
    <3> SUFFICES ASSUME NEW q \in wire, q.id # NoId PROVE owner'[q.id] = q.def
      OBVIOUS
    <3>1. owner[q.id] = q.def /\ q.id \in Id /\ q.def # Nobody
      BY Apart DEF Inv, Ids, TypeOK, Request
    <3> QED
      BY <3>1
  <2> QED
    BY <2>2, <2>3, <2>4 DEF Ids
<1>6. Wired'
  <2>1. ASSUME NEW c \in Cmd PROVE Asking(c)'
    <3> SUFFICES ASSUME NEW a \in cmd[c].todo
                 PROVE  /\ a \in DOMAIN cmd'[c].labs /\ cmd[c].op \in {"push", "update"}
                        /\ cmd[c].op = "push" => Unpushed(cmd'[c].labs, a)
      BY <1>1 DEF Asking
    <3>1. /\ a \in DOMAIN cmd[c].labs /\ cmd[c].op \in {"push", "update"}
          /\ cmd[c].op = "push" => Unpushed(cmd[c].labs, a)
      BY DEF Inv, Wired, Asking
    <3>2. c = r.cmd => r.alias # a
      BY Apart DEF Inv, Wired, Waited
    <3> QED
      BY <1>1, <3>1, <3>2 DEF Unpushed, Given
  <2>2. ASSUME NEW q \in wire \ {r} PROVE Waited(q)'
    BY <1>1, <1>3, <1>4 DEF Inv, Wired, Waited, Unpushed
  <2>3. \A p, q \in wire' : p.cmd = q.cmd /\ p.cmd # Nobody => p = q
    BY DEF Inv, Wired
  <2> QED
    BY <2>1, <2>2, <2>3 DEF Wired
<1>7. Busy' = Busy /\ Busy \subseteq Cmd
  BY <1>1, <1>2, Apart DEF Busy
<1>8. ASSUME NEW c \in Cmd, NEW i \in Id, Listed(cmd[c].labs, i)
      PROVE  Listed(cmd'[c].labs, i)
  <2>1. CASE c # r.cmd \/ id = NoId
    BY <1>1, <1>8, <2>1
  <2>2. CASE c = r.cmd /\ id # NoId
    BY <1>1, <1>8, <2>2, Apart DEF Listed, Given, Unpushed
  <2> QED
    BY <2>1, <2>2
<1>9. Safe'
  <2> SUFFICES ASSUME ~blame
               PROVE  /\ \A c1, d1 \in Busy : c1 = d1
                      /\ \A c \in Busy : Keeps(c)'
                      /\ \A i \in DOMAIN rows' : Known(i)' \/ owner'[i] \in cut'
    BY <1>7 DEF Safe
  <2>1. ASSUME NEW c \in Busy PROVE Keeps(c)'
    <3>1. c \in Cmd /\ Keeps(c) /\ Target(cmd[c])' = Target(cmd[c])
      BY <1>1, <1>7 DEF Inv, Safe, Target
    <3>2. ASSUME NEW i \in Id, Listed(file[cmd[c].from], i)
          PROVE  Listed(cmd'[c].labs, i) \/ i \notin DOMAIN rows' \/ owner'[i] \in cut' \/ Going(c, i)'
      <4>1. owner[i] # Nobody /\ owner'[i] = owner[i] /\ i # id
        <5>1. PICK a \in DOMAIN file[cmd[c].from] : file[cmd[c].from][a].id = i
          BY <3>2 DEF Listed
        <5>2. owner[i] = file[cmd[c].from][a].def /\ file[cmd[c].from][a].def \in Def
          BY <1>3, <3>1, <5>1, LabfileFacts, Apart DEF Inv, Ids, Means
        <5> QED
          BY <5>2, Apart DEF Unused
      <4>2. ASSUME Going(c, i) PROVE i \notin DOMAIN rows' \/ owner'[i] \in cut' \/ Going(c, i)'
        <5>1. PICK q \in wire : q.cmd = c /\ q.op = "delete" /\ q.id = i
          BY <4>2 DEF Going
        <5>2. CASE q = r
          BY <3>1, <3>2, <4>1, <5>1, <5>2, Apart DEF Inv, Ids
        <5>3. CASE q # r
          BY <5>1, <5>3 DEF Going
        <5> QED
          BY <5>2, <5>3
      <4> QED
        BY <1>8, <3>1, <3>2, <4>1, <4>2 DEF Keeps
    <3> QED
      BY <1>1, <3>1, <3>2 DEF Keeps
  <2>2. ASSUME NEW i \in DOMAIN rows' PROVE Known(i)' \/ owner'[i] \in cut'
    <3>1. CASE i = id
      <4>1. id # NoId /\ Waited(r)
        BY <1>2, <3>1, Apart DEF Inv, Wired
      <4>2. CASE r.cmd = Nobody
        BY <3>1, <4>1, <4>2 DEF Waited
      <4>3. CASE r.cmd \in Cmd
        <5>1. Listed(cmd'[r.cmd].labs, id)
          BY <1>1, <4>1, <4>3 DEF Listed, Given, Unpushed
        <5>2. r.cmd \in Busy
          BY <1>1, <4>3 DEF Busy
        <5> QED
          BY <1>2, <1>7, <3>1, <5>1, <5>2 DEF Known
      <4> QED
        BY <1>2, <4>2, <4>3
    <3>2. CASE i # id
      <4>1. i \in DOMAIN rows /\ i \in Id /\ (Known(i) \/ owner[i] \in cut)
        BY <1>2, <3>2 DEF Inv, Safe
      <4>2. Known(i) => Known(i)'
        BY <1>7, <1>8, <4>1 DEF Known
      <4>3. owner[i] \in cut => owner'[i] \in cut'
        BY <4>1, Apart DEF Inv, TypeOK
      <4> QED
        BY <4>1, <4>2, <4>3
    <3> QED
      BY <3>1, <3>2
  <2> QED
    BY <2>1, <2>2 DEF Inv, Safe
<1>10. \A i \in DOMAIN rows' : owner'[i] = rows'[i].def
  OBVIOUS
<1> QED
  BY <1>5, <1>6, <1>9 DEF Inv

LEMMA HandleStep == ASSUME Inv, NEW r \in wire, Handle(r) PROVE Inv'
<1>1. /\ TypeOK /\ wire' = wire \ {r} /\ UNCHANGED <<file, torn, begun, edited, cut, blame>>
      /\ r \in Request /\ r.def \in Def /\ rows \in Partial(Id, Row)
      /\ (r.op # "delete" => r.alias \in Alias)
      /\ \A i \in DOMAIN rows : owner[i] = rows[i].def
  BY TableTypes DEF Inv, Ids, TypeOK, Handle, Request, Wired, Waited
<1> DEFINE v == [alias |-> r.alias, def |-> r.def]
<1>2. v.alias = r.alias /\ v.def = r.def /\ (r.op # "delete" => v \in Row)
  BY <1>1 DEF Row
<1> HIDE DEF v
<1>3. ASSUME NEW id \in Id \cup {NoId}, id # NoId => r.op = "push", Told(r, id),
             rows' \in Partial(Id, Row), owner' \in [Id -> Def \cup {Nobody}]
      PROVE  TypeOK'
  BY <1>1, <1>3, ToldFacts, TableTypes DEF TypeOK
<1>4. CASE WorkflowCreate(r) /\ Named(r.alias) # {}
  <2>1. r.op = "push" /\ Told(r, NoId) /\ UNCHANGED <<rows, owner>>
    BY <1>4 DEF WorkflowCreate
  <2>2. TypeOK'
    BY <1>1, <1>3, <2>1 DEF TypeOK
  <2> QED
    BY <1>1, <2>1, <2>2, AnswerStep
<1>5. CASE WorkflowCreate(r) /\ Named(r.alias) = {}
  <2>1. PICK i \in Unused : /\ rows' = With(rows, i, v)
                            /\ owner' = [owner EXCEPT ![i] = r.def] /\ Told(r, i)
    BY <1>5 DEF WorkflowCreate, v
  <2>2. /\ i \in Id /\ i # NoId /\ r.op = "push" /\ owner' \in [Id -> Def \cup {Nobody}]
        /\ owner'[i] = r.def /\ owner[i] = Nobody /\ \A j \in Id \ {i} : owner'[j] = owner[j]
    BY <1>1, <1>5, <2>1, Apart DEF TypeOK, Unused, WorkflowCreate
  <2>3. /\ rows' \in Partial(Id, Row) /\ DOMAIN rows' = DOMAIN rows \cup {i}
        /\ rows'[i] = v /\ \A j \in DOMAIN rows \ {i} : rows'[j] = rows[j]
    <3>1. With(rows, i, v) \in Partial(Id, Row)
      BY <1>1, <1>2, <2>2, WithFacts, Zenon
    <3> QED
      BY <2>1, <3>1 DEF With
  <2>4. TypeOK'
    BY <1>3, <2>1, <2>2, <2>3
  <2>5. \A j \in DOMAIN rows' : owner'[j] = rows'[j].def
    BY <1>1, <1>2, <2>2, <2>3, PartialFacts
  <2> QED
    BY <1>1, <2>1, <2>2, <2>3, <2>4, <2>5, AnswerStep
<1>6. CASE WorkflowUpdate(r)
  <2>1. r.op = "update" /\ Told(r, NoId) /\ UNCHANGED owner
    BY <1>6 DEF WorkflowUpdate
  <2>2. /\ rows' \in Partial(Id, Row) /\ DOMAIN rows' = DOMAIN rows
        /\ \A j \in DOMAIN rows' : owner[j] = rows'[j].def
    <3>1. CASE ~(r.id \in DOMAIN rows /\ Named(r.alias) \subseteq {r.id})
      BY <1>1, <1>6, <3>1 DEF WorkflowUpdate
    <3>2. CASE r.id \in DOMAIN rows /\ Named(r.alias) \subseteq {r.id}
      <4>1. r.id \in Id /\ r.id # NoId
        BY <1>1, <3>2, PartialFacts, Apart
      <4>2. rows' = With(rows, r.id, v)
        BY <1>6, <3>2 DEF WorkflowUpdate, v
      <4>3. /\ rows' \in Partial(Id, Row) /\ DOMAIN rows' = DOMAIN rows \cup {r.id}
            /\ rows'[r.id] = v /\ \A j \in DOMAIN rows \ {r.id} : rows'[j] = rows[j]
        <5>1. With(rows, r.id, v) \in Partial(Id, Row)
          BY <1>1, <1>2, <2>1, <4>1, WithFacts, Zenon
        <5> QED
          BY <4>2, <5>1 DEF With
      <4>4. owner[r.id] = r.def
        BY <4>1 DEF Inv, Ids
      <4> QED
        BY <1>1, <1>2, <3>2, <4>3, <4>4
    <3> QED
      BY <3>1, <3>2
  <2>3. TypeOK'
    BY <1>1, <1>3, <2>1, <2>2 DEF TypeOK
  <2> QED
    BY <1>1, <2>1, <2>2, <2>3, AnswerStep
<1>7. CASE WorkflowDelete(r)
  <2>1. /\ r.op = "delete" /\ Told(r, NoId) /\ UNCHANGED owner /\ rows' = Without(rows, r.id)
    BY <1>7 DEF WorkflowDelete
  <2>2. rows' \in Partial(Id, Row)
    BY <1>1, <2>1, WithoutFacts, Zenon
  <2>3. DOMAIN rows' = DOMAIN rows \ {r.id} /\ \A j \in DOMAIN rows' : rows'[j] = rows[j]
    BY <2>1 DEF Without
  <2>4. TypeOK'
    BY <1>1, <1>3, <2>1, <2>2 DEF TypeOK
  <2> QED
    BY <1>1, <2>1, <2>3, <2>4, AnswerStep
<1> QED
  BY <1>4, <1>5, <1>6, <1>7 DEF Handle

LEMMA HandlerErrorStep == ASSUME Inv, NEW r \in wire, HandlerError(r) PROVE Inv'
<1>1. /\ TypeOK /\ Told(r, NoId) /\ wire' = wire \ {r}
      /\ UNCHANGED <<file, torn, rows, owner, begun, edited, blame>>
      /\ cut' = IF r.op = "delete" /\ r.cmd # Nobody /\ Listed(file[cmd[r.cmd].from], r.id)
                THEN cut \cup {r.def} ELSE cut
      /\ r.def \in Def
  BY DEF Inv, TypeOK, HandlerError, Request
<1>2. TypeOK'
  BY <1>1, ToldFacts DEF TypeOK
<1>3. \A i \in DOMAIN rows : owner[i] = rows[i].def
  BY DEF Inv, Ids
<1> QED
  BY <1>1, <1>2, <1>3, AnswerStep

-----------------------------------------------------------------------------
(* The labfile is emptied: the command that will write it knows what it held. *)
LEMMA OpenStep == ASSUME Inv, NEW c \in Cmd, Open(c) PROVE Inv'
<1> DEFINE f == Target(cmd[c])
           k == [cmd[c] EXCEPT !.pc = "open"]
<1>1. /\ TypeOK /\ cmd[c] \in Command /\ cmd[c].pc = "write" /\ cmd' = [cmd EXCEPT ![c] = k]
      /\ file' = [file EXCEPT ![f] = Empty] /\ torn' = torn \cup {f}
      /\ UNCHANGED <<rows, owner, wire, begun, edited, cut, blame>>
  BY DEF Inv, TypeOK, Open, Become
<1>2. /\ k \in Command /\ k.pc = "open" /\ k.labs = cmd[c].labs /\ k.op = cmd[c].op
      /\ k.from = cmd[c].from /\ k.todo = cmd[c].todo
  BY <1>1 DEF Command
<1>3. f \in File
  BY <1>1, Apart DEF Target, Command
<1> HIDE DEF k, f
<1>4. /\ \A d \in Cmd : /\ cmd'[d].labs = cmd[d].labs /\ cmd'[d].op = cmd[d].op
                        /\ cmd'[d].from = cmd[d].from /\ cmd'[d].todo = cmd[d].todo
      /\ cmd'[c].pc = "open" /\ \A d \in Cmd \ {c} : cmd'[d] = cmd[d]
  BY <1>1, <1>2 DEF TypeOK
<1>5. /\ file'[f] = Empty /\ \A g \in File \ {f} : file'[g] = file[g]
      /\ file' \in [File -> Labfile]
  BY <1>1, <1>3, EmptyFacts DEF TypeOK
<1>6. TypeOK'
  BY <1>1, <1>2, <1>3, <1>5 DEF TypeOK
<1>7. \A g \in File, i \in Id : Listed(file'[g], i) => g # f /\ Listed(file[g], i)
  BY <1>5, EmptyFacts
<1>8. Ids'
  BY <1>1, <1>4, <1>5, EmptyFacts DEF Inv, Ids, Means
<1>9. Wired'
  <2>1. \A r \in wire : r.cmd # c /\ r.cmd \in Cmd \cup {Nobody}
    BY <1>1, NoRequest DEF TypeOK, Request
  <2> QED
    BY <1>1, <1>4, <2>1 DEF Inv, Wired, Asking, Waited
<1>10. Busy' = Busy /\ c \in Busy /\ Busy \subseteq Cmd
  BY <1>1, <1>4 DEF Busy
<1>11. Safe'
  <2> SUFFICES ASSUME ~blame
               PROVE  /\ \A c1, d1 \in Busy : c1 = d1
                      /\ \A d \in Busy : Keeps(d)'
                      /\ \A i \in DOMAIN rows : Known(i)' \/ owner[i] \in cut
    BY <1>1, <1>10 DEF Safe
  <2>1. ASSUME NEW d \in Busy PROVE Keeps(d)'
    <3>1. d \in Cmd /\ Keeps(d) /\ Target(cmd[d])' = Target(cmd[d]) /\ cmd[d].from \in File
      BY <1>1, <1>4, <1>10 DEF Inv, Safe, Target, TypeOK, Command
    <3> QED
      BY <1>1, <1>4, <1>7, <3>1 DEF Keeps, Going
  <2>2. ASSUME NEW i \in DOMAIN rows PROVE Known(i)' \/ owner[i] \in cut
    <3>1. i \in Id /\ (Known(i) \/ owner[i] \in cut)
      BY <1>1, TableTypes, PartialFacts DEF Inv, Safe
    <3>2. CASE \E d \in Busy : Listed(cmd[d].labs, i)
      BY <1>4, <1>10, <3>2 DEF Known
    <3>3. CASE \E g \in File \ {f} : Listed(file[g], i)
      BY <1>5, <3>3 DEF Known
    <3>4. ASSUME Listed(file[f], i) PROVE Known(i)' \/ owner[i] \in cut
      <4>1. Keeps(c) /\ cmd[c].from = f
        BY <1>10 DEF Inv, Safe, Keeps, f
      <4>2. ~Going(c, i)
        BY <1>1, NoRequest DEF Going
      <4>3. Listed(cmd[c].labs, i) \/ owner[i] \in cut
        BY <3>1, <3>4, <4>1, <4>2 DEF Keeps
      <4> QED
        BY <1>4, <1>10, <4>3 DEF Known
    <3> QED
      BY <3>1, <3>2, <3>3, <3>4 DEF Known
  <2> QED
    BY <2>1, <2>2 DEF Inv, Safe
<1> QED
  BY <1>6, <1>8, <1>9, <1>11 DEF Inv

(* A command ends: nothing is under way any more, if nothing else happened. *)
LEMMA EndStep ==
  ASSUME Inv, TypeOK', NEW c \in Cmd, cmd[c].pc # "idle", Become(c, Idle),
         UNCHANGED <<rows, owner, blame>>, cut \subseteq cut',
         \A g \in File : Means(file[g])',
         \A r \in wire' : \E q \in wire :
           /\ r.op = q.op /\ r.alias = q.alias /\ r.id = q.id /\ r.def = q.def
           /\ \/ r = q /\ r.cmd # c
              \/ q.cmd = c /\ r.cmd = Nobody /\ (r.op = "push" => r.def \in cut'),
         \A i \in Id :
           Listed(cmd[c].labs, i) =>
             owner[i] \in cut' \/ \E g \in File : Listed(file'[g], i),
         \A i \in Id, g \in File :
           Listed(file[g], i) /\ ~blame /\ i \in DOMAIN rows =>
             owner[i] \in cut' \/ \E h \in File : Listed(file'[h], i)
  PROVE  Inv'
<1>1. cmd'[c] = Idle /\ \A d \in Cmd \ {c} : cmd'[d] = cmd[d]
  BY DEF Inv, TypeOK, Become
<1>2. Ids'
  <2>1. ASSUME NEW d \in Cmd PROVE Means(cmd[d].labs)'
    BY <1>1, IdleFacts, EmptyFacts DEF Inv, Ids, Means
  <2>2. \A r \in wire' : r.id # NoId => owner[r.id] = r.def
    BY DEF Inv, Ids
  <2> QED
    BY <2>1, <2>2 DEF Inv, Ids
<1>3. Wired'
  <2>1. ASSUME NEW d \in Cmd PROVE Asking(d)'
    BY <1>1, IdleFacts DEF Inv, Wired, Asking
  <2>2. ASSUME NEW r \in wire' PROVE Waited(r)'
    <3>1. PICK q \in wire : /\ r.op = q.op /\ r.alias = q.alias /\ r.def = q.def
                            /\ \/ r = q /\ r.cmd # c
                               \/ /\ q.cmd = c /\ r.cmd = Nobody
                                  /\ r.op = "push" => r.def \in cut'
      OBVIOUS
    <3>2. CASE r.cmd = Nobody
      BY <3>1, <3>2 DEF Inv, Wired, Waited
    <3>3. CASE r.cmd # Nobody
      <4>1. r = q /\ r.cmd \in Cmd \ {c} /\ Waited(r)
        BY <3>1, <3>3 DEF Inv, TypeOK, Request, Wired
      <4> QED
        BY <1>1, <3>3, <4>1 DEF Waited
    <3> QED
      BY <3>2, <3>3
  <2>3. \A r, q \in wire' : r.cmd = q.cmd /\ r.cmd # Nobody => r = q
    <3>1. \A r \in wire' : r.cmd # Nobody => r \in wire
      OBVIOUS
    <3> QED
      BY <3>1 DEF Inv, Wired
  <2> QED
    BY <2>1, <2>2, <2>3 DEF Wired
<1>4. Safe'
  <2> SUFFICES ASSUME ~blame
               PROVE  /\ Busy' = {}
                      /\ \A i \in DOMAIN rows : Known(i)' \/ owner[i] \in cut'
    BY DEF Safe
  <2>1. \A d \in Busy : d = c
    BY DEF Inv, Safe, Busy
  <2>2. Busy' = {}
    BY <1>1, <2>1, IdleFacts DEF Busy
  <2>3. ASSUME NEW i \in DOMAIN rows PROVE Known(i)' \/ owner[i] \in cut'
    <3>1. i \in Id /\ (Known(i) \/ owner[i] \in cut)
      BY TableTypes, PartialFacts DEF Inv, Safe
    <3>2. ASSUME Listed(cmd[c].labs, i) PROVE Known(i)' \/ owner[i] \in cut'
      BY <3>1, <3>2 DEF Known
    <3>3. ASSUME NEW g \in File, Listed(file[g], i) PROVE Known(i)' \/ owner[i] \in cut'
      BY <3>1, <3>3 DEF Known
    <3> QED
      BY <2>1, <3>1, <3>2, <3>3 DEF Known
  <2> QED
    BY <2>2, <2>3
<1> QED
  BY <1>2, <1>3, <1>4 DEF Inv

LEMMA WriteStep == ASSUME Inv, NEW c \in Cmd, Write(c) PROVE Inv'
<1> DEFINE f == Target(cmd[c])
<1>1. /\ TypeOK /\ cmd[c] \in Command /\ cmd[c].pc = "open" /\ Become(c, Idle)
      /\ file' = [file EXCEPT ![f] = cmd[c].labs] /\ torn' = torn \ {f}
      /\ UNCHANGED <<rows, owner, wire, begun, edited, cut, blame>>
  BY DEF Inv, TypeOK, Write
<1>2. f \in File /\ cmd[c].labs \in Labfile
  BY <1>1, Apart DEF Target, Command
<1> HIDE DEF f
<1>3. file'[f] = cmd[c].labs /\ \A g \in File \ {f} : file'[g] = file[g]
  BY <1>1, <1>2 DEF TypeOK
<1>4. TypeOK'
  BY <1>1, <1>2, IdleFacts DEF TypeOK, Become
<1>5. ASSUME NEW g \in File PROVE Means(file[g])'
  BY <1>1, <1>3 DEF Inv, Ids, Means
<1>6. \A r \in wire : r.cmd # c
  BY <1>1, NoRequest
<1>7. \A i \in Id : Listed(cmd[c].labs, i) => Listed(file'[f], i)
  BY <1>3
<1>8. ASSUME NEW i \in Id, NEW g \in File, Listed(file[g], i), ~blame,
             i \in DOMAIN rows
      PROVE  owner[i] \in cut \/ \E h \in File : Listed(file'[h], i)
  <2>1. CASE g # f
    BY <1>3, <1>8, <2>1
  <2>2. CASE g = f
    <3>1. Keeps(c) /\ cmd[c].from = f
      BY <1>1, <1>8 DEF Inv, Safe, Busy, Keeps, f
    <3>2. ~Going(c, i)
      BY <1>6 DEF Going
    <3> QED
      BY <1>2, <1>7, <1>8, <2>2, <3>1, <3>2 DEF Keeps
  <2> QED
    BY <2>1, <2>2
<1>9. \A i \in Id :
        Listed(cmd[c].labs, i) =>
          owner[i] \in cut' \/ \E g \in File : Listed(file'[g], i)
  BY <1>2, <1>7
<1>10. \A i \in Id, g \in File :
         Listed(file[g], i) /\ ~blame /\ i \in DOMAIN rows =>
           owner[i] \in cut' \/ \E h \in File : Listed(file'[h], i)
  BY <1>1, <1>8
<1>11. \A r \in wire' : \E q \in wire :
         /\ r.op = q.op /\ r.alias = q.alias /\ r.id = q.id /\ r.def = q.def
         /\ \/ r = q /\ r.cmd # c
            \/ q.cmd = c /\ r.cmd = Nobody /\ (r.op = "push" => r.def \in cut')
  BY <1>1, <1>6
<1>12. cmd[c].pc # "idle" /\ cut \subseteq cut' /\ UNCHANGED <<rows, owner, blame>>
  BY <1>1
<1> QED
  BY <1>1, <1>4, <1>5, <1>9, <1>10, <1>11, <1>12, EndStep

(* What a command that is cut short knew is unsaved, and noted. *)
LEMMA AbandonStep ==
  ASSUME Inv, NEW c \in Cmd, cmd[c].pc # "idle", Abandon(c) PROVE Inv'
<1> DEFINE C == Unsaved(cmd[c]) \cup {r.def : r \in {q \in wire : q.cmd = c /\ q.op = "push"}}
           R(r) == IF r.cmd = c THEN [r EXCEPT !.cmd = Nobody] ELSE r
<1>1. /\ TypeOK /\ cmd[c] \in Command /\ Become(c, Idle) /\ cut' = cut \cup C
      /\ wire' = {R(r) : r \in wire}
      /\ UNCHANGED <<file, torn, rows, owner, begun, edited, blame>>
  BY DEF Inv, TypeOK, Abandon
<1>2. ASSUME NEW r \in wire
      PROVE  /\ r \in Request /\ R(r) \in Request /\ R(r).op = r.op /\ R(r).alias = r.alias
             /\ R(r).id = r.id /\ R(r).def = r.def
             /\ ((R(r) = r /\ R(r).cmd # c) \/ (r.cmd = c /\ R(r).cmd = Nobody))
  <2>1. r \in Request
    BY <1>1 DEF TypeOK
  <2>2. CASE r.cmd # c
    BY <2>1, <2>2
  <2>3. CASE r.cmd = c
    BY <2>1, <2>3 DEF Request
  <2> QED
    BY <2>2, <2>3
<1>3. cmd[c].labs \in Labfile /\ cmd[c].from \in File
  BY <1>1 DEF Command
<1>4. Unsaved(cmd[c]) \subseteq Def /\ \A r \in wire : r.def \in Def
  BY <1>1, <1>3, LabfileFacts DEF Unsaved, TypeOK, Request
<1>5. C \subseteq Def /\ \A r \in wire : r.cmd = c /\ r.op = "push" => r.def \in C
  BY <1>4
<1>6. TypeOK'
  <2> HIDE DEF C, R
  <2>1. wire' \subseteq Request
    BY <1>1, <1>2
  <2>2. cut' \subseteq Def
    BY <1>1, <1>5 DEF TypeOK
  <2>3. cmd' \in [Cmd -> Command]
    BY <1>1, IdleFacts DEF TypeOK, Become
  <2> QED
    BY <1>1, <2>1, <2>2, <2>3 DEF TypeOK
<1>7. ASSUME NEW i \in Id, Listed(cmd[c].labs, i)
      PROVE  owner[i] \in C \/ \E g \in File : Listed(file[g], i)
  <2>1. PICK a \in DOMAIN cmd[c].labs : cmd[c].labs[a].id = i
    BY <1>7 DEF Listed
  <2>2. owner[i] = cmd[c].labs[a].def
    BY <2>1, Apart DEF Inv, Ids, Means
  <2> QED
    BY <1>3, <2>1, <2>2, Apart DEF Unsaved
<1> HIDE DEF C, R
<1>8. \A g \in File : Means(file[g])'
  BY <1>1 DEF Inv, Ids, Means
<1>9. ASSUME NEW r \in wire'
      PROVE  \E q \in wire :
               /\ r.op = q.op /\ r.alias = q.alias /\ r.id = q.id /\ r.def = q.def
               /\ \/ r = q /\ r.cmd # c
                  \/ q.cmd = c /\ r.cmd = Nobody /\ (r.op = "push" => r.def \in cut')
  <2>1. PICK q \in wire : r = R(q)
    BY <1>1
  <2>2. q.cmd = c /\ q.op = "push" => q.def \in cut'
    BY <1>1, <1>5
  <2> QED
    BY <1>2, <2>1, <2>2
<1> QED
  BY <1>1, <1>6, <1>7, <1>8, <1>9, EndStep

-----------------------------------------------------------------------------
-----------------------------------------------------------------------------
LEMMA NextInv == Inv /\ [Next]_vars => Inv'
<1> SUFFICES ASSUME Inv, [Next]_vars PROVE Inv'
  OBVIOUS
<1>1. ASSUME NEW f \in File, NEW a \in Alias,
             (\E d \in Def : Edit(f, a, d)) \/ (\E b \in Alias : Rename(f, a, b))
      PROVE  Inv'
  BY <1>1, EditStep, RenameStep
<1>2. ASSUME NEW c \in Cmd, NEW f \in File, NEW update \in BOOLEAN, Push(c, f, update) PROVE Inv'
  BY <1>2, PushStep
<1>3. ASSUME NEW c \in Cmd, NEW f \in File,
             \/ \E a \in Alias, d \in Def : CreateWorkflow(c, f, a, d)
             \/ \E i \in Id : Delete(c, f, i)
      PROVE  Inv'
  BY <1>3, DeleteStep, CreateStep
<1>4. ASSUME NEW c \in Cmd, WorkflowsPush(c) PROVE Inv'
  BY <1>4, AskStep, EndLoopStep, OpenStep, WriteStep DEF WorkflowsPush
<1>5. ASSUME NEW c \in Cmd, Timeout(c) \/ Stop(c) PROVE Inv'
  BY <1>5, AbandonStep DEF Timeout, Stop
<1>6. ASSUME NEW r \in wire, Handle(r) \/ HandlerError(r) PROVE Inv'
  BY <1>6, HandleStep, HandlerErrorStep
<1>7. CASE UNCHANGED vars
  BY <1>7 DEF vars, Inv, TypeOK, Ids, Means, Wired, Asking, Waited, Unpushed, Safe, Busy, Keeps,
              Going, Known, Target
<1> QED
  BY <1>1, <1>2, <1>3, <1>4, <1>5, <1>6, <1>7 DEF Next

LEMMA Invariance == Spec => []Inv
<1> QED
  BY InitInv, NextInv, PTL DEF Spec

(* Every variable keeps its type: labfiles and the table are maps, and what
   is under way is a request of the client. *)
THEOREM TypeCorrect == Spec => []TypeOK
<1>1. Inv => TypeOK
  BY DEF Inv
<1> QED
  BY <1>1, Invariance, PTL

(* workflows_push puts an answer's wfid beside the entry it asked for, and the
   author takes it along when it gets another alias: server, labfiles and
   commands never disagree about what workflow a wfid is. *)
THEOREM IdsAlwaysAgree == Spec => []IdsAgree
<1>1. Inv => IdsAgree
  BY DEF Inv, Ids, Means, IdsAgree
<1> QED
  BY <1>1, Invariance, PTL

(* push, push --update, create and delete of one labfile, one after the other
   and to their ends, leave no workflow that no labfile knows, whatever their
   author renames and whichever wfids are deleted. *)
THEOREM StrandedHaveCauses == Spec => []StrandedNeedsCause
<1>1. Inv => StrandedNeedsCause
  BY DEF Inv, Ids, Safe, StrandedNeedsCause
<1> QED
  BY <1>1, Invariance, PTL

(* A deleted workflow stays deleted: no push, retried or late, and no update
   brings its wfid back. *)
THEOREM DeletedStaysDeleted == Spec => NoResurrection
<1>1. ASSUME TypeOK, [Next]_vars, NEW i \in Id, owner[i] # Nobody, i \notin DOMAIN rows
      PROVE  i \notin DOMAIN rows'
  <2>1. ASSUME NEW r \in wire, Handle(r) PROVE i \notin DOMAIN rows'
    <3>1. CASE WorkflowCreate(r)
      <4>1. \/ rows' = rows
            \/ \E j \in Unused : rows' = With(rows, j, [alias |-> r.alias, def |-> r.def])
        BY <3>1 DEF WorkflowCreate
      <4> QED
        BY <1>1, <4>1 DEF With, Unused
    <3>2. CASE WorkflowUpdate(r)
      BY <1>1, <3>2 DEF WorkflowUpdate, With
    <3>3. CASE WorkflowDelete(r)
      BY <1>1, <3>3 DEF WorkflowDelete, Without
    <3> QED
      BY <2>1, <3>1, <3>2, <3>3 DEF Handle
  <2>2. CASE UNCHANGED rows
    BY <1>1, <2>2
  <2> QED
    BY <1>1, <2>1, <2>2 DEF Next, vars, Edit, Rename, Push, Delete, CreateWorkflow, Begin, WorkflowsPush,
       Ask, EndLoop, Open, Write, Timeout, Stop, Abandon, HandlerError
<1>2. TypeOK /\ [Next]_vars =>
        [\A i \in Id : owner[i] # Nobody /\ i \notin DOMAIN rows => i \notin DOMAIN rows']_vars
  BY <1>1
<1> QED
  BY <1>2, TypeCorrect, PTL DEF Spec, NoResurrection

=============================================================================
