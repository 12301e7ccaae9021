------------------------------ MODULE Sessions ------------------------------
(***************************************************************************)
(* What the tokens of a server promise, whoever fails and however their    *)
(* requests cross: a token can be exchanged while it is open; an exchange  *)
(* that ends closes it and opens one successor, at once.  A token has two  *)
(* only when it was contested: a second exchange of it began before the    *)
(* first had ended.  One is lost only by an exchange that was abandoned.   *)
(***************************************************************************)
CONSTANTS Token, NoToken, Lossy

VARIABLES
  issued,     \* the tokens handed out
  open,       \* those that can be exchanged, or are being exchanged
  begun,      \* those of which an exchange has begun and not ended
  contested,  \* those of which two were going on at a time
  from        \* from[t]: the token t was handed out for

vars == <<issued, open, begun, contested, from>>

Init ==
  /\ issued \in SUBSET Token /\ open = issued
  /\ begun = {} /\ contested = {} /\ from = [t \in Token |-> NoToken]

Issue(t, p) ==
  /\ t \in Token \ issued /\ issued' = issued \cup {t}
  /\ from' = [from EXCEPT ![t] = p]

Login ==
  /\ \E t \in Token : Issue(t, NoToken) /\ open' = open \cup {t}
  /\ UNCHANGED <<begun, contested>>

Begin(p) ==
  /\ p \in open \ begun /\ begun' = begun \cup {p}
  /\ UNCHANGED <<issued, open, contested, from>>

Contest(p) ==
  /\ p \in open \cap begun /\ contested' = contested \cup {p}
  /\ UNCHANGED <<issued, open, begun, from>>

(* An exchange ends; another of the same token may go on. *)
Leave(p) == begun' = begun \ {p} \/ (p \in contested /\ UNCHANGED begun)

Exchange(p) ==
  /\ p \in open \cap begun /\ Leave(p)
  /\ \E t \in Token : Issue(t, p) /\ open' = (open \ {p}) \cup {t}
  /\ UNCHANGED contested

Fork(p) ==
  /\ p \in (begun \cap contested) \ open /\ Leave(p)
  /\ \E t \in Token : Issue(t, p) /\ open' = open \cup {t}
  /\ UNCHANGED contested

(* The last exchange of a token fails, and may take it along. *)
Abandon(p) ==
  /\ Lossy /\ p \in begun /\ begun' = begun \ {p}
  /\ open' = open \/ open' = open \ {p}
  /\ UNCHANGED <<issued, contested, from>>

Next == Login \/ \E p \in Token : Begin(p) \/ Contest(p) \/ Exchange(p) \/ Fork(p) \/ Abandon(p)

Spec == Init /\ [][Next]_vars
=============================================================================
