----------------------------- MODULE RunHistory -----------------------------
(***************************************************************************)
(* What the history and the outputs of a project promise of a run.  Two    *)
(* report on it, in any order and each at most once: its container, a row  *)
(* with what became of the notebook and, when that is answered, the        *)
(* notebook itself, and its worker, a failure.  A worker is silent only    *)
(* about a success that is in the history or was refused; and when it      *)
(* reports, its container has nothing more to say than what it has sent,   *)
(* unless docker has failed the worker.                                    *)
(***************************************************************************)
EXTENDS Integers

CONSTANTS
  Exec, NoExec,
  Row,       \* rows; x.exec, x.by and x.status of row x matter here
  Key,       \* where notebooks are stored; k.dir of key k matters here
  Unsure,    \* whether a request may be refused, or its answer not be waited for
  Mortal,    \* whether a worker may die without a word
  Failing    \* whether docker may fail a worker

VARIABLES
  rows, store,
  wire,    \* the requests on their way
  stage,   \* stage[e]: what the container of e has yet to say
  code,    \* code[e]: 0 for a notebook that succeeded, -1; Unknown at first
  refused, \* whose row was refused
  adrift,  \* the runs whose container may go on although its worker gave it up
  closed   \* the runs whose worker has reported, or died

vars == <<rows, store, wire, stage, code, refused, adrift, closed>>
Unknown == 1

Init ==
  /\ rows = {} /\ store = [k \in Key |-> NoExec]
  /\ wire = {} /\ refused = {} /\ adrift = {} /\ closed = {}
  /\ stage = [e \in Exec |-> "none"] /\ code = [e \in Exec |-> Unknown]

StageAt(e, l) == stage' = [stage EXCEPT ![e] = l]

Start(e) ==
  /\ stage[e] = "none" /\ e \notin closed /\ StageAt(e, "open")
  /\ UNCHANGED <<rows, store, wire, code, refused, adrift, closed>>

(* The notebook ends; a container that fails with it says nothing. *)
Settle(e) ==
  /\ stage[e] = "open" /\ code[e] = Unknown
  /\ \E c \in {0, -1} : code' = [code EXCEPT ![e] = c]
  /\ UNCHANGED stage \/ (code'[e] = -1 /\ StageAt(e, "shut"))
  /\ UNCHANGED <<rows, store, wire, refused, adrift, closed>>

(* The container sends its row, and after the answer its notebook. *)
Say(e) ==
  /\ \/ /\ stage[e] = "open" /\ code[e] # Unknown
        /\ StageAt(e, "posting") /\ wire' = wire \cup {<<e, "container">>}
     \/ /\ stage[e] = "posted"
        /\ StageAt(e, "uploading") /\ wire' = wire \cup {<<e, "notebook">>}
  /\ UNCHANGED <<rows, store, code, refused, adrift, closed>>

(* A row arrives, and is entered or refused. *)
Arrive(e, side, c) ==
  /\ <<e, side>> \in wire /\ wire' = wire \ {<<e, side>>}
  /\ \/ /\ UNCHANGED refused
        /\ \E x \in Row : x.exec = e /\ x.by = side /\ x.status = c /\ rows' = rows \cup {x}
     \/ Unsure /\ refused' = refused \cup {<<e, side>>} /\ UNCHANGED rows
  /\ IF side = "container" /\ stage[e] = "posting" THEN StageAt(e, "posted") ELSE UNCHANGED stage
  /\ UNCHANGED <<store, code, adrift, closed>>

Keep(e) ==
  /\ <<e, "notebook">> \in wire /\ wire' = wire \ {<<e, "notebook">>}
  /\ \/ \E k \in Key : /\ k.dir = IF code[e] = 0 THEN "ok" ELSE "errors"
                       /\ store' = [store EXCEPT ![k] = e]
     \/ Unsure /\ UNCHANGED store
  /\ IF stage[e] = "uploading" THEN StageAt(e, "shut") ELSE UNCHANGED stage
  /\ UNCHANGED <<rows, code, refused, adrift, closed>>

(* The container ends before it has said all: it is killed, by a worker that
   has not reported yet, or does not wait for an answer. *)
Cut(e) ==
  /\ \/ stage[e] \notin {"none", "shut"} /\ e \notin closed
     \/ Unsure /\ stage[e] \in {"posting", "uploading"}
  /\ StageAt(e, "shut")
  /\ UNCHANGED <<rows, store, wire, code, refused, adrift, closed>>

(* A call of the worker to docker fails, as one to kill a container that has
   ended does. *)
Drift(e) ==
  /\ e \notin closed
  /\ Failing \/ stage[e] = "shut"
  /\ adrift' = adrift \cup {e}
  /\ UNCHANGED <<rows, store, wire, stage, code, refused, closed>>

Report(e) ==
  /\ e \notin closed /\ closed' = closed \cup {e}
  /\ stage[e] = "shut" \/ e \in adrift
  /\ \/ wire' = wire \cup {<<e, "worker">>}
     \/ /\ \/ \E x \in rows : x.exec = e /\ x.by = "container" /\ x.status = 0
           \/ <<e, "container">> \in refused
        /\ UNCHANGED wire
  /\ UNCHANGED <<rows, store, stage, code, refused, adrift>>

Vanish(e) ==
  /\ Mortal /\ e \notin closed /\ closed' = closed \cup {e}
  /\ UNCHANGED <<rows, store, wire, stage, code, refused, adrift>>

Next == \E e \in Exec :
  \/ Start(e) \/ Settle(e) \/ Say(e) \/ Keep(e) \/ Cut(e) \/ Drift(e) \/ Report(e) \/ Vanish(e)
  \/ Arrive(e, "container", code[e]) \/ Arrive(e, "worker", -1)

Spec == Init /\ [][Next]_vars
=============================================================================
