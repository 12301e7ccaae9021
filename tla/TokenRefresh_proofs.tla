------------------------ MODULE TokenRefresh_proofs ------------------------
(***************************************************************************)
(* Proofs about TokenRefresh, for every set of tokens, clients and homes   *)
(* and every combination of faults.  The inductive invariant adds where a  *)
(* client can hold which token (Placed), that all that hold a token share  *)
(* a home (Owned), and what a handler between its three awaits knows of    *)
(* the token it exchanges (Exchanging).  Proofs about the accounts behind  *)
(* the tokens (Accounts) follow.                                           *)
(***************************************************************************)
EXTENDS TokenRefresh, Accounts, FiniteSetTheorems, WellFoundedInduction, TLAPS

Refreshing == {"get", "delete", "put"}

Placed ==
  \A c \in Client :
    /\ pc[c] = "none" => /\ home[c] = NoHome /\ ref[c] = NoToken /\ new[c] = NoToken
                         /\ \A t \in Token : c \notin spent[t]
    /\ pc[c] # "none" => home[c] \in Home
    /\ pc[c] \in Refreshing \cup {"loaded", "answered", "resent", "served"} => ref[c] \in issued
    /\ pc[c] \in {"answered", "granted"} => new[c] \in issued
    /\ \A t \in Token : c \in spent[t] => t \in issued

(* A home holds a token: it is saved there, or a client of it has it or has
   spent it. *)
Holds(h, t) ==
  \/ saved[h] = t
  \/ \E c \in Client : home[c] = h /\ (ref[c] = t \/ new[c] = t \/ c \in spent[t])
Owned == \A g, h \in Home, t \in issued : Holds(g, t) /\ Holds(h, t) => g = h

(* Between the get and the put. *)
Exchanging ==
  \A c \in Client :
    /\ pc[c] = "put" => ref[c] \notin live /\ c \in spent[ref[c]]
    /\ pc[c] \in {"delete", "put"} =>
         /\ \A s \in issued : parent[s] = ref[c] => ref[c] \in raced
         /\ \A d \in Client \ {c} :
              pc[d] \in {"delete", "put"} /\ ref[d] = ref[c] => ref[c] \in raced

IInv == TypeOK /\ Placed /\ Owned /\ Exchanging
Safe == ReplacedIsDead /\ ForkNeedsRace /\ OnlySharersSpend /\ SpentIsReplaced

-----------------------------------------------------------------------------
LEMMA InitInv == Init => IInv /\ Safe
<1> SUFFICES ASSUME Init PROVE IInv /\ Safe
  OBVIOUS
<1> USE TokenAssumption DEF Init
<1>1. TypeOK
  BY DEF TypeOK, PC
<1>2. Placed /\ Exchanging
  BY DEF Placed, Exchanging, Refreshing
<1>3. Owned
  <2> SUFFICES ASSUME NEW g \in Home, NEW h \in Home, NEW t \in issued, Holds(g, t), Holds(h, t)
               PROVE  g = h
    BY DEF Owned
  <2>1. t \in Token
    OBVIOUS
  <2>2. saved[g] = t /\ saved[h] = t
    BY <2>1 DEF Holds
  <2> QED
    BY <2>1, <2>2
<1>4. Safe
  BY DEF Safe, ReplacedIsDead, ForkNeedsRace, OnlySharersSpend, SpentIsReplaced
<1> QED
  BY <1>1, <1>2, <1>3, <1>4 DEF IInv

(* Issue hands out a token nobody has seen. *)
LEMMA IssueMoves ==
  ASSUME TypeOK, NEW c \in Client, NEW p \in issued \cup {NoToken}, Issue(c, p)
  PROVE  \E t \in Token \ issued :
           /\ issued' = issued \cup {t} /\ live' = live \cup {t}
           /\ new' = [new EXCEPT ![c] = t] /\ parent' = [parent EXCEPT ![t] = p]
           /\ parent'[t] = p /\ new'[c] = t
           /\ \A s \in issued : parent'[s] = parent[s]
           /\ \A d \in Client \ {c} : new'[d] = new[d]
<1> PICK t \in Token \ issued :
      /\ issued' = issued \cup {t} /\ live' = live \cup {t}
      /\ new' = [new EXCEPT ![c] = t] /\ parent' = [parent EXCEPT ![t] = p]
  BY DEF Issue
<1>1. parent'[t] = p /\ \A s \in issued : parent'[s] = parent[s]
  BY DEF TypeOK
<1>2. new'[c] = t /\ \A d \in Client \ {c} : new'[d] = new[d]
  BY DEF TypeOK
<1> QED
  BY <1>1, <1>2

LEMMA TypeStep == TypeOK /\ Placed /\ [Next]_vars => TypeOK'
<1> SUFFICES ASSUME TypeOK, Placed, [Next]_vars PROVE TypeOK'
  OBVIOUS
<1> USE DEF TypeOK, PC, Handler, Ended, Goto, store, client, history
<1>1. ASSUME NEW t \in Token, Expire(t) PROVE TypeOK'
  BY <1>1 DEF Expire
<1>2. ASSUME NEW t \in Token, Age(t) PROVE TypeOK'
  BY <1>2 DEF Age
<1>3. ASSUME NEW c \in Client, NEW h \in Home, Open(c, h) PROVE TypeOK'
  BY <1>3 DEF Open
<1>4. ASSUME NEW c \in Client, Send(c) PROVE TypeOK'
  BY <1>4 DEF Send, Refuse
<1>5. ASSUME NEW c \in Client, Again(c) PROVE TypeOK'
  BY <1>5 DEF Again
<1>6. ASSUME NEW c \in Client, Get(c) PROVE TypeOK'
  BY <1>6 DEF Get, Refuse
<1>7. ASSUME NEW c \in Client, Delete(c) PROVE TypeOK'
  BY <1>7 DEF Delete, Placed, Refreshing
<1>8. ASSUME NEW c \in Client, Put(c) PROVE TypeOK'
  <2>1. ref[c] \in issued
    BY <1>8 DEF Put, Placed, Refreshing
  <2>2. PICK t \in Token \ issued :
          /\ issued' = issued \cup {t} /\ live' = live \cup {t}
          /\ new' = [new EXCEPT ![c] = t] /\ parent' = [parent EXCEPT ![t] = ref[c]]
    BY <1>8, <2>1, IssueMoves DEF Put
  <2> QED
    BY <1>8, <2>1, <2>2 DEF Put
<1>9. ASSUME NEW c \in Client, Update(c) PROVE TypeOK'
  BY <1>9 DEF Update
<1>10. ASSUME NEW c \in Client, Prompt(c) PROVE TypeOK'
  BY <1>10 DEF Prompt
<1>11. ASSUME NEW c \in Client, Login(c) PROVE TypeOK'
  <2>1. CASE Issue(c, NoToken) /\ Goto(c, "granted") /\ UNCHANGED <<old, spent, raced>>
    <3>1. PICK t \in Token \ issued :
            /\ issued' = issued \cup {t} /\ live' = live \cup {t}
            /\ new' = [new EXCEPT ![c] = t] /\ parent' = [parent EXCEPT ![t] = NoToken]
      BY <2>1, IssueMoves
    <3> QED
      BY <1>11, <2>1, <3>1 DEF Login
  <2>2. CASE Goto(c, "failed") /\ UNCHANGED <<store, new, history>>
    BY <1>11, <2>2 DEF Login
  <2> QED
    BY <1>11, <2>1, <2>2 DEF Login
<1>12. ASSUME NEW c \in Client, Save(c) PROVE TypeOK'
  BY <1>12 DEF Save
<1>13. ASSUME NEW c \in Client, Fail(c) PROVE TypeOK'
  BY <1>13 DEF Fail
<1>14. CASE UNCHANGED vars
  BY <1>14 DEF vars
<1> QED
  BY <1>1, <1>2, <1>3, <1>4, <1>5, <1>6, <1>7, <1>8, <1>9, <1>10, <1>11, <1>12,
     <1>13, <1>14 DEF Next, Step

-----------------------------------------------------------------------------
(* Steps that leave the tokens where they are. *)
Quiet ==
  /\ UNCHANGED <<live, issued, saved, home, ref, new, parent, spent, raced>>
  /\ old \subseteq old'
  /\ \/ pc' = pc
     \/ \E c \in Client :
          /\ pc[c] # "none"
          /\ \E l \in PC \ {"none", "delete", "put", "answered", "granted"} :
               /\ pc' = [pc EXCEPT ![c] = l]
               /\ l \in {"get", "loaded"} => pc[c] \in {"loaded", "served"}
               /\ l \in {"resent", "served"} => pc[c] \in {"answered", "loaded", "resent"}
               /\ pc[c] \in {"delete", "put"} => Faults # {} /\ l \in LeftAlone
               /\ pc[c] \in LeftAlone => l \in LeftAlone

LEMMA QuietStep ==
  ASSUME IInv, Safe, TypeOK', Quiet
  PROVE  IInv' /\ Safe'
<1> USE DEF IInv, Safe, Quiet
<1>1. \A c \in Client :
        /\ pc'[c] \in {"delete", "put", "answered", "granted", "none"} => pc'[c] = pc[c]
        /\ pc[c] = "none" => pc'[c] = "none"
        /\ pc[c] = "put" => pc'[c] = "put" \/ (Faults # {} /\ pc'[c] \in LeftAlone)
        /\ pc[c] \in LeftAlone => pc'[c] \in LeftAlone
  BY DEF TypeOK
<1>2. Placed'
  <2>1. \A c \in Client :
          pc'[c] \in Refreshing \cup {"loaded", "answered", "resent", "served"} =>
            pc[c] \in Refreshing \cup {"loaded", "answered", "resent", "served"}
    BY <1>1 DEF TypeOK, Refreshing
  <2> QED
    BY <1>1, <2>1 DEF Placed
<1>3. Owned'
  BY DEF Owned, Holds
<1>4. Exchanging'
  BY <1>1 DEF Exchanging
<1>5. ReplacedIsDead' /\ ForkNeedsRace' /\ OnlySharersSpend'
  BY DEF ReplacedIsDead, ForkNeedsRace, OnlySharersSpend
<1>6. SpentIsReplaced'
  BY <1>1 DEF SpentIsReplaced, TypeOK
<1> QED
  BY <1>2, <1>3, <1>4, <1>5, <1>6

-----------------------------------------------------------------------------
(* A process takes the saved pair. *)
LEMMA OpenStep ==
  ASSUME IInv, Safe, TypeOK', NEW c \in Client, NEW h \in Home, Open(c, h)
  PROVE  IInv' /\ Safe'
<1> USE DEF IInv, Safe, store, history
<1>1. /\ pc[c] = "none" /\ home' = [home EXCEPT ![c] = h]
      /\ ref' = [ref EXCEPT ![c] = saved[h]]
      /\ \E l \in {"loaded", "prompt"} : /\ pc' = [pc EXCEPT ![c] = l]
                                         /\ l = "loaded" => saved[h] # NoToken
      /\ UNCHANGED <<live, old, issued, saved, new, parent, spent, raced>>
  BY DEF Open, Goto
<1>2. /\ home'[c] = h /\ ref'[c] = saved[h] /\ pc'[c] \in {"loaded", "prompt"}
      /\ pc'[c] = "loaded" => saved[h] \in issued
      /\ \A d \in Client \ {c} : home'[d] = home[d] /\ ref'[d] = ref[d] /\ pc'[d] = pc[d]
  BY <1>1 DEF TypeOK
<1>3. \A t \in Token : c \notin spent[t] /\ new[c] # t
  BY <1>1, TokenAssumption DEF Placed
<1>4. \A g \in Home, t \in issued : Holds(g, t)' => Holds(g, t)
  <2> SUFFICES ASSUME NEW g \in Home, NEW t \in issued, Holds(g, t)' PROVE Holds(g, t)
    OBVIOUS
  <2>1. CASE saved[g] = t
    BY <2>1 DEF Holds
  <2>2. CASE saved[g] # t
    <3>1. PICK d \in Client : home'[d] = g /\ (ref'[d] = t \/ new[d] = t \/ d \in spent[t])
      BY <1>1, <2>2 DEF Holds
    <3>2. t \in Token
      BY DEF TypeOK
    <3>3. d # c
      BY <1>2, <1>3, <2>2, <3>1, <3>2
    <3> QED
      BY <1>2, <3>1, <3>3 DEF Holds
  <2> QED
    BY <2>1, <2>2
<1>5. Placed'
  BY <1>1, <1>2 DEF Placed, Refreshing
<1>6. Owned'
  BY <1>1, <1>4 DEF Owned
<1>7. Exchanging'
  BY <1>1, <1>2 DEF Exchanging
<1>8. ReplacedIsDead' /\ ForkNeedsRace'
  BY <1>1 DEF ReplacedIsDead, ForkNeedsRace
<1>9. OnlySharersSpend'
  BY <1>1, <1>2, <1>3 DEF OnlySharersSpend, TypeOK
<1>10. SpentIsReplaced'
  BY <1>1, <1>2, <1>3 DEF SpentIsReplaced, LeftAlone, TypeOK
<1> QED
  BY <1>5, <1>6, <1>7, <1>8, <1>9, <1>10

(* A handler finds the token alive. *)
LEMMA GetStep ==
  ASSUME IInv, Safe, TypeOK', NEW c \in Client, Get(c), ref[c] \in live
  PROVE  IInv' /\ Safe'
<1> USE DEF IInv, Safe, store, client
<1>1. /\ pc[c] = "get" /\ pc' = [pc EXCEPT ![c] = "delete"]
      /\ raced' = IF Holding(ref[c]) # {} THEN raced \cup {ref[c]} ELSE raced
      /\ UNCHANGED <<live, old, issued, saved, home, ref, new, parent, spent>>
  BY DEF Get, Goto
<1>2. pc'[c] = "delete" /\ \A d \in Client \ {c} : pc'[d] = pc[d]
  BY <1>1 DEF TypeOK
<1>3. raced \subseteq raced' /\ (Holding(ref[c]) # {} => ref[c] \in raced')
  BY <1>1
<1>4. Placed'
  BY <1>1, <1>2 DEF Placed, Refreshing
<1>5. Owned'
  BY <1>1 DEF Owned, Holds
<1>6. Exchanging'
  <2>1. \A s \in issued : parent[s] # ref[c]
    BY TokenAssumption DEF ReplacedIsDead, TypeOK
  <2>2. \A d \in Client \ {c} :
          pc[d] \in {"delete", "put"} /\ ref[d] = ref[c] => ref[c] \in raced'
    BY <1>3 DEF Exchanging, Holding
  <2> QED
    BY <1>1, <1>2, <1>3, <2>1, <2>2 DEF Exchanging
<1>7. ReplacedIsDead' /\ ForkNeedsRace' /\ OnlySharersSpend'
  BY <1>1, <1>3 DEF ReplacedIsDead, ForkNeedsRace, OnlySharersSpend
<1>8. SpentIsReplaced'
  BY <1>1, <1>2 DEF SpentIsReplaced, LeftAlone, TypeOK
<1> QED
  BY <1>4, <1>5, <1>6, <1>7, <1>8

(* The key is deleted. *)
LEMMA DeleteStep ==
  ASSUME IInv, Safe, TypeOK', NEW c \in Client, Delete(c)
  PROVE  IInv' /\ Safe'
<1> USE DEF IInv, Safe, store, client
<1> DEFINE p == ref[c]
<1>1. /\ pc[c] = "delete" /\ pc' = [pc EXCEPT ![c] = "put"]
      /\ live' = live \ {p} /\ spent' = [spent EXCEPT ![p] = @ \cup {c}]
      /\ UNCHANGED <<old, issued, saved, home, ref, new, parent, raced>>
  BY DEF Delete, Goto
<1>2. pc'[c] = "put" /\ \A d \in Client \ {c} : pc'[d] = pc[d]
  BY <1>1 DEF TypeOK
<1>3. p \in issued /\ p \in Token /\ home[c] \in Home
  BY <1>1 DEF Placed, Refreshing, TypeOK
<1>4. /\ c \in spent'[p] /\ \A t \in Token : spent[t] \subseteq spent'[t]
      /\ \A t \in Token, d \in Client : d \in spent'[t] => d \in spent[t] \/ (d = c /\ t = p)
  BY <1>1, <1>3 DEF TypeOK
<1>5. Placed'
  BY <1>1, <1>2, <1>4 DEF Placed, Refreshing
<1>6. \A g \in Home, t \in issued : Holds(g, t)' => Holds(g, t)
  <2> SUFFICES ASSUME NEW g \in Home, NEW t \in issued, Holds(g, t)' PROVE Holds(g, t)
    OBVIOUS
  <2>1. t \in Token
    BY DEF TypeOK
  <2> QED
    BY <1>1, <1>4, <2>1 DEF Holds
<1>7. Owned'
  BY <1>1, <1>6 DEF Owned
<1>8. Exchanging'
  <2> SUFFICES ASSUME NEW d \in Client
               PROVE  /\ pc'[d] = "put" => ref[d] \notin live' /\ d \in spent'[ref[d]]
                      /\ pc'[d] \in {"delete", "put"} =>
                           /\ \A s \in issued : parent[s] = ref[d] => ref[d] \in raced
                           /\ \A e \in Client \ {d} :
                                pc'[e] \in {"delete", "put"} /\ ref[e] = ref[d] => ref[d] \in raced
    BY <1>1 DEF Exchanging
  <2>1. pc'[d] \in {"delete", "put"} => ref[d] \in Token
    BY <1>1, <1>2, <1>3 DEF Placed, Refreshing, TypeOK
  <2>2. pc'[d] = "put" => ref[d] \notin live' /\ d \in spent'[ref[d]]
    BY <1>1, <1>2, <1>4, <2>1 DEF Exchanging
  <2>3. \A e \in Client : pc'[e] \in {"delete", "put"} => pc[e] \in {"delete", "put"}
    BY <1>1, <1>2
  <2> QED
    BY <2>2, <2>3 DEF Exchanging
<1>9. ReplacedIsDead' /\ ForkNeedsRace'
  BY <1>1 DEF ReplacedIsDead, ForkNeedsRace
<1>10. OnlySharersSpend'
  <2>1. \A t \in issued \ live' : spent'[t] # {} \/ t \in old
    BY <1>1, <1>4 DEF OnlySharersSpend, TypeOK
  <2>2. ASSUME NEW d \in Client, NEW t \in issued, d \in spent'[t], c \in spent'[t]
        PROVE  home[d] = home[c]
    <3>1. t \in Token /\ pc[d] # "none"
      BY <1>1, <1>4, <2>2 DEF TypeOK, Placed
    <3>2. home[d] \in Home
      BY <3>1 DEF Placed
    <3>3. Holds(home[d], t) /\ Holds(home[c], t)
      BY <1>4, <2>2, <3>1 DEF Holds
    <3> QED
      BY <1>3, <3>2, <3>3 DEF Owned
  <2> QED
    BY <1>1, <1>4, <2>1, <2>2 DEF OnlySharersSpend, TypeOK
<1>11. SpentIsReplaced'
  <2> SUFFICES ASSUME NEW t \in issued, NEW d \in Client, d \in spent'[t]
               PROVE  \/ pc'[d] = "put" /\ ref[d] = t
                      \/ Faults # {} /\ pc'[d] \in LeftAlone
                      \/ \E s \in issued : parent[s] = t /\ (s \in live' \/ spent'[s] # {})
    BY <1>1 DEF SpentIsReplaced, TypeOK
  <2>1. CASE d = c /\ t = p
    BY <1>2, <2>1
  <2>2. CASE d \in spent[t]
    <3>1. CASE pc[d] = "put" /\ ref[d] = t
      BY <1>1, <1>2, <3>1
    <3>2. CASE \E s \in issued : parent[s] = t /\ (s \in live \/ spent[s] # {})
      BY <1>1, <1>4, <3>2 DEF TypeOK
    <3>3. CASE Faults # {} /\ pc[d] \in LeftAlone
      BY <1>1, <1>2, <3>3 DEF LeftAlone
    <3> QED
      BY <2>2, <3>1, <3>2, <3>3 DEF SpentIsReplaced
  <2> QED
    BY <1>4, <2>1, <2>2 DEF TypeOK
<1> QED
  BY <1>5, <1>7, <1>8, <1>9, <1>10, <1>11

-----------------------------------------------------------------------------
(* A new token, for a token exchanged or for a password. *)
Issuing(c, p) ==
  /\ Issue(c, p)
  /\ \/ pc[c] = "put" /\ p = ref[c] /\ pc' = [pc EXCEPT ![c] = "answered"]
     \/ pc[c] = "password" /\ p = NoToken /\ pc' = [pc EXCEPT ![c] = "granted"]
  /\ UNCHANGED <<old, saved, home, ref, spent, raced>>

LEMMA IssueStep ==
  ASSUME IInv, Safe, TypeOK', NEW c \in Client, NEW p, Issuing(c, p)
  PROVE  IInv' /\ Safe'
<1> USE DEF IInv, Safe, Issuing
<1>1. p \in issued \cup {NoToken}
  BY DEF Placed, Refreshing
<1>2. PICK t \in Token \ issued :
        /\ issued' = issued \cup {t} /\ live' = live \cup {t}
        /\ new' = [new EXCEPT ![c] = t] /\ parent' = [parent EXCEPT ![t] = p]
        /\ parent'[t] = p /\ new'[c] = t
        /\ \A s \in issued : parent'[s] = parent[s]
        /\ \A d \in Client \ {c} : new'[d] = new[d]
  BY <1>1, IssueMoves
<1>3. /\ pc[c] \in {"put", "password"} /\ pc'[c] \in {"answered", "granted"}
      /\ \A d \in Client \ {c} : pc'[d] = pc[d]
      /\ pc[c] = "put" => pc'[c] = "answered"
      /\ pc[c] = "password" => pc'[c] = "granted"
  BY DEF TypeOK
<1>4. /\ \A d \in Client : ref[d] # t /\ new[d] # t
      /\ \A h \in Home : saved[h] # t
      /\ \A s \in issued : parent[s] # t
  BY <1>2, TokenAssumption DEF TypeOK
<1>5. \A d \in Client : d \notin spent[t]
  <2> SUFFICES ASSUME NEW d \in Client, d \in spent[t] PROVE FALSE
    OBVIOUS
  <2> QED
    BY <1>2 DEF Placed
<1>6. home[c] \in Home
  BY <1>3 DEF Placed
<1>7. Placed'
  BY <1>2, <1>3 DEF Placed, Refreshing
<1>8. Owned'
  <2> SUFFICES ASSUME NEW g \in Home, NEW h \in Home, NEW s \in issued', Holds(g, s)', Holds(h, s)'
               PROVE  g = h
    BY DEF Owned
  <2>1. CASE s = t
    BY <1>2, <1>4, <1>5, <2>1 DEF Holds
  <2>2. CASE s # t
    BY <1>2, <2>2 DEF Owned, Holds
  <2> QED
    BY <2>1, <2>2
<1>9. Exchanging'
  <2> SUFFICES ASSUME NEW d \in Client, pc'[d] \in {"delete", "put"}
               PROVE  /\ pc'[d] = "put" => ref[d] \notin live' /\ d \in spent[ref[d]]
                      /\ \A s \in issued' : parent'[s] = ref[d] => ref[d] \in raced
                      /\ \A e \in Client \ {d} :
                           pc'[e] \in {"delete", "put"} /\ ref[e] = ref[d] => ref[d] \in raced
    BY DEF Exchanging
  <2>1. d # c /\ pc[d] = pc'[d] /\ ref[d] # t
    BY <1>3, <1>4
  <2>2. ref[d] \in issued
    BY <2>1 DEF Placed, Refreshing
  <2>3. parent'[t] = ref[d] => ref[d] \in raced
    BY <1>2, <2>1, <2>2, TokenAssumption DEF Exchanging, TypeOK
  <2> QED
    BY <1>2, <1>3, <2>1, <2>3 DEF Exchanging
<1>10. ReplacedIsDead'
  <2>1. p # NoToken => p \notin live /\ p # t
    BY <1>1, <1>2 DEF Exchanging
  <2> QED
    BY <1>2, <1>4, <2>1 DEF ReplacedIsDead
<1>11. ForkNeedsRace'
  <2>1. \A s \in issued : p # NoToken /\ parent[s] = p => p \in raced
    BY DEF Exchanging
  <2> QED
    BY <1>2, <2>1 DEF ForkNeedsRace
<1>12. OnlySharersSpend'
  BY <1>2, <1>5 DEF OnlySharersSpend
<1>13. SpentIsReplaced'
  <2> SUFFICES ASSUME NEW s \in issued', NEW d \in Client, d \in spent[s]
               PROVE  \/ pc'[d] = "put" /\ ref[d] = s
                      \/ Faults # {} /\ pc'[d] \in LeftAlone
                      \/ \E r \in issued' : parent'[r] = s /\ (r \in live' \/ spent[r] # {})
    BY DEF SpentIsReplaced, TypeOK
  <2>1. s \in issued
    BY <1>2, <1>5
  <2>2. CASE pc[d] = "put" /\ ref[d] = s /\ d = c
    BY <1>2, <1>3, <2>2
  <2>3. CASE pc[d] = "put" /\ ref[d] = s /\ d # c
    BY <1>3, <2>3
  <2>4. CASE \E r \in issued : parent[r] = s /\ (r \in live \/ spent[r] # {})
    BY <1>2, <2>4
  <2>5. CASE Faults # {} /\ pc[d] \in LeftAlone
    BY <1>3, <2>5 DEF LeftAlone
  <2> QED
    BY <2>1, <2>2, <2>3, <2>4, <2>5 DEF SpentIsReplaced
<1> QED
  BY <1>7, <1>8, <1>9, <1>10, <1>11, <1>12, <1>13

(* The client saves the pair it was granted. *)
LEMMA SaveStep ==
  ASSUME IInv, Safe, TypeOK', NEW c \in Client, Save(c)
  PROVE  IInv' /\ Safe'
<1> USE DEF IInv, Safe, store, history
<1>1. /\ pc[c] = "granted" /\ pc' = [pc EXCEPT ![c] = "logged"]
      /\ ref' = [ref EXCEPT ![c] = new[c]]
      /\ saved' = [saved EXCEPT ![home[c]] = new[c]]
      /\ UNCHANGED <<live, old, issued, home, new, parent, spent, raced>>
  BY DEF Save, Goto
<1>2. home[c] \in Home /\ new[c] \in issued
  BY <1>1 DEF Placed
<1>3. /\ pc'[c] = "logged" /\ ref'[c] = new[c] /\ saved'[home[c]] = new[c]
      /\ \A d \in Client \ {c} : pc'[d] = pc[d] /\ ref'[d] = ref[d]
      /\ \A h \in Home \ {home[c]} : saved'[h] = saved[h]
  BY <1>1, <1>2 DEF TypeOK
<1>4. \A g \in Home, t \in issued : Holds(g, t)' => Holds(g, t)
  BY <1>1, <1>3 DEF Holds
<1>5. Placed'
  BY <1>1, <1>3 DEF Placed, Refreshing
<1>6. Owned'
  BY <1>1, <1>4 DEF Owned
<1>7. Exchanging'
  BY <1>1, <1>3 DEF Exchanging
<1>8. ReplacedIsDead' /\ ForkNeedsRace' /\ OnlySharersSpend'
  BY <1>1 DEF ReplacedIsDead, ForkNeedsRace, OnlySharersSpend
<1>9. SpentIsReplaced'
  BY <1>1, <1>3 DEF SpentIsReplaced, LeftAlone, TypeOK
<1> QED
  BY <1>5, <1>6, <1>7, <1>8, <1>9

-----------------------------------------------------------------------------
(* A step is quiet, or of one of the kinds above. *)
Noticed == \E c \in Client :
  \/ \E h \in Home : Open(c, h)
  \/ Get(c) /\ ref[c] \in live
  \/ Delete(c)
  \/ \E p : Issuing(c, p)
  \/ Save(c)

LEMMA StepKinds == [Next]_vars => Quiet \/ Noticed
<1> SUFFICES ASSUME [Next]_vars PROVE Quiet \/ Noticed
  OBVIOUS
<1> USE DEF store, client, history, Goto, PC, Handler, Ended, LeftAlone
<1>1. ASSUME NEW t \in Token, Expire(t) PROVE Quiet
  BY <1>1 DEF Expire, Quiet
<1>2. ASSUME NEW t \in Token, Age(t) PROVE Quiet
  BY <1>2 DEF Age, Quiet, Timed
<1>3. ASSUME NEW c \in Client, Send(c) PROVE Quiet
  <2>1. /\ pc[c] \in {"loaded", "resent"}
        /\ \E l \in {"logged", "served", "get", "prompt", "refused"} :
             /\ pc' = [pc EXCEPT ![c] = l]
             /\ l = "get" => pc[c] = "loaded"
    BY <1>3 DEF Send, Refuse
  <2> QED
    BY <1>3, <2>1 DEF Send, Quiet
<1>4. ASSUME NEW c \in Client, Again(c) PROVE Quiet
  BY <1>4 DEF Again, Quiet
<1>5. ASSUME NEW c \in Client, Get(c), ref[c] \notin live PROVE Quiet
  BY <1>5 DEF Get, Refuse, Quiet
<1>6. ASSUME NEW c \in Client, Put(c) PROVE Issuing(c, ref[c])
  BY <1>6 DEF Put, Issuing
<1>7. ASSUME NEW c \in Client, Update(c) PROVE Quiet
  BY <1>7 DEF Update, Quiet
<1>8. ASSUME NEW c \in Client, Prompt(c) PROVE Quiet
  <2>1. pc[c] = "prompt" /\ \E l \in {"password"} : pc' = [pc EXCEPT ![c] = l]
    BY <1>8 DEF Prompt
  <2> QED
    BY <1>8, <2>1 DEF Prompt, Quiet
<1>9. ASSUME NEW c \in Client, Login(c) PROVE Quiet \/ Issuing(c, NoToken)
  <2>1. CASE Issue(c, NoToken) /\ Goto(c, "granted") /\ UNCHANGED <<old, spent, raced>>
    BY <1>9, <2>1 DEF Login, Issuing
  <2>2. CASE Goto(c, "failed") /\ UNCHANGED <<store, new, history>>
    BY <1>9, <2>2 DEF Login, Quiet
  <2> QED
    BY <1>9, <2>1, <2>2 DEF Login
<1>10. ASSUME NEW c \in Client, Fail(c) PROVE Quiet
  <2>1. /\ Faults # {} /\ pc[c] # "none"
        /\ \E l \in {"failed", "prompt"} : pc' = [pc EXCEPT ![c] = l]
    BY <1>10 DEF Fail
  <2> QED
    BY <1>10, <2>1 DEF Fail, Quiet
<1>11. CASE UNCHANGED vars
  BY <1>11 DEF vars, Quiet
<1> QED
  BY <1>1, <1>2, <1>3, <1>4, <1>5, <1>6, <1>7, <1>8, <1>9, <1>10, <1>11
  DEF Next, Step, Noticed

LEMMA InvStep == IInv /\ Safe /\ [Next]_vars => (IInv /\ Safe)'
<1> SUFFICES ASSUME IInv, Safe, [Next]_vars PROVE (IInv /\ Safe)'
  OBVIOUS
<1>1. TypeOK'
  BY TypeStep DEF IInv
<1>2. CASE Quiet
  BY <1>1, <1>2, QuietStep
<1>3. CASE Noticed
  BY <1>1, <1>3, OpenStep, GetStep, DeleteStep, IssueStep, SaveStep DEF Noticed
<1> QED
  BY <1>2, <1>3, StepKinds

-----------------------------------------------------------------------------
(* The theorems. *)

LEMMA Inductive == Spec => [](IInv /\ Safe)
<1>1. Init => IInv /\ Safe
  BY InitInv
<1>2. IInv /\ Safe /\ [Next]_vars => (IInv /\ Safe)'
  BY InvStep
<1> QED
  BY <1>1, <1>2, PTL DEF Spec

(* The types of the token store (redis_tokens.py) and of the clients. *)
THEOREM TypeCorrect == Spec => []TypeOK
<1>1. IInv /\ Safe => TypeOK
  BY DEF IInv
<1> QED
  BY <1>1, Inductive, PTL

(* Auth.refresh_token (authentication.py:152-154) deletes before it puts:
   whatever fails in between, a token and its successor are never both good. *)
THEOREM ReplacedTokensDie == Spec => []ReplacedIsDead
<1>1. IInv /\ Safe => ReplacedIsDead
  BY DEF Safe
<1> QED
  BY <1>1, Inductive, PTL

(* The get and the delete of Auth.refresh_token (authentication.py:143, 152)
   are two awaits: only handlers between them can exchange a token twice. *)
THEOREM ForksAreRaces == Spec => []ForkNeedsRace
<1>1. IInv /\ Safe => ForkNeedsRace
  BY DEF Safe
<1> QED
  BY <1>1, Inductive, PTL

(* No session is ended by a client that does not share its saved pair: a
   delete (redis_tokens.py:32) names one random token. *)
THEOREM SessionsIsolated == Spec => []OnlySharersSpend
<1>1. IInv /\ Safe => OnlySharersSpend
  BY DEF Safe
<1> QED
  BY <1>1, Inductive, PTL

(* Auth.refresh_token hands a session on, to a client that hears of it. *)
THEOREM SessionsHandedOn == Spec => []SpentIsReplaced
<1>1. IInv /\ Safe => SpentIsReplaced
  BY DEF Safe
<1> QED
  BY <1>1, Inductive, PTL

-----------------------------------------------------------------------------
(***************************************************************************)
(* TokenRefresh implements Sessions.  What a step does to the tokens that  *)
(* are being exchanged is seen from who is left between a get and a put.   *)
(***************************************************************************)
Busy == {c \in Client : pc[c] \in {"delete", "put"}}

LEMMA ExchangedTokens ==
  ASSUME IInv, Safe
  PROVE  /\ Exchanged = {ref[c] : c \in Busy}
         /\ \A c \in Busy : ref[c] \in Exchanged /\ ref[c] \in issued /\ ref[c] \in Token
         /\ Exchanged \subseteq issued /\ issued \subseteq Token
         /\ \A t \in live, s \in issued : parent[s] # t
  <1>1. Exchanged = {ref[c] : c \in Busy} /\ issued \subseteq Token
    BY DEF Exchanged, Busy, IInv, TypeOK
  <1>2. \A c \in Busy : ref[c] \in issued
    BY DEF Busy, IInv, Placed, Refreshing
  <1>3. \A t \in live, s \in issued : parent[s] # t
    BY TokenAssumption DEF IInv, Safe, ReplacedIsDead, TypeOK
  <1>. QED BY <1>1, <1>2, <1>3

(* Steps that change no key and leave all handlers between their awaits. *)
LEMMA LedgerStutters ==
  ASSUME UNCHANGED <<live, issued, raced, parent>>, Busy' = Busy,
         \A c \in Busy : ref'[c] = ref[c]
  PROVE  UNCHANGED Ledger!vars
  <1>1. Exchanged = {ref[c] : c \in Busy} /\ Exchanged' = {ref'[c] : c \in Busy'}
    BY DEF Exchanged, Busy
  <1>2. Exchanged' = Exchanged
    BY <1>1
  <1>. QED BY <1>2 DEF Usable, Ledger!vars

(* A handler leaves and no one is at its token any more, or someone is. *)
LEMMA HandlerLeaves ==
  ASSUME IInv, Safe, NEW c \in Busy, Busy' = Busy \ {c},
         \A d \in Busy : ref'[d] = ref[d]
  PROVE  \/ Exchanged' = Exchanged /\ ref[c] \in raced
         \/ Exchanged' = Exchanged \ {ref[c]}
  <1>1. Exchanged = {ref[d] : d \in Busy} /\ Exchanged' = {ref'[d] : d \in Busy'}
    BY DEF Exchanged, Busy
  <1>2. Exchanged' = {ref[d] : d \in Busy \ {c}}
    BY <1>1
  <1>3. CASE \E d \in Busy \ {c} : ref[d] = ref[c]
    <2>1. ref[c] \in raced
      BY <1>3 DEF Busy, IInv, Exchanging
    <2>. QED BY <1>1, <1>2, <1>3, <2>1
  <1>4. CASE \A d \in Busy \ {c} : ref[d] # ref[c]
    BY <1>1, <1>2, <1>4
  <1>. QED BY <1>3, <1>4

LEMMA QuietRefines ==
  ASSUME IInv, Safe, Quiet
  PROVE  [Ledger!Next]_Ledger!vars
  <1>1. UNCHANGED <<live, issued, ref, new, parent, raced>>
    BY DEF Quiet
  <1>2. CASE Busy' = Busy
    BY <1>1, <1>2, LedgerStutters
  <1>3. CASE Busy' # Busy
    <2>1. PICK c \in Client, l \in PC :
            /\ pc' = [pc EXCEPT ![c] = l] /\ l \notin {"delete", "put"}
            /\ pc[c] \in {"delete", "put"} => Faults # {}
      BY <1>3 DEF Quiet, Busy
    <2>2. pc'[c] = l /\ \A d \in Client \ {c} : pc'[d] = pc[d]
      BY <2>1 DEF IInv, TypeOK
    <2>3. c \in Busy /\ Busy' = Busy \ {c} /\ Faults # {}
      BY <1>3, <2>1, <2>2 DEF Busy
    <2>4. ref[c] \in Exchanged /\ ref[c] \in Token
      BY <2>3, ExchangedTokens
    <2>5. CASE Exchanged' = Exchanged
      BY <1>1, <2>5 DEF Usable, Ledger!vars
    <2>6. CASE Exchanged' = Exchanged \ {ref[c]}
      <3>1. Usable' = Usable \/ Usable' = Usable \ {ref[c]}
        <4>1. CASE ref[c] \in live \/ \E s \in issued : parent[s] = ref[c]
          BY <1>1, <2>6, <4>1 DEF Usable
        <4>2. CASE ref[c] \notin live /\ \A s \in issued : parent[s] # ref[c]
          BY <1>1, <2>6, <4>2 DEF Usable
        <4>. QED BY <4>1, <4>2
      <3>2. Ledger!Abandon(ref[c])
        BY <1>1, <2>3, <2>4, <2>6, <3>1 DEF Ledger!Abandon
      <3>. QED BY <2>4, <3>2 DEF Ledger!Next
    <2>. QED BY <1>1, <2>3, <2>5, <2>6, HandlerLeaves
  <1>. QED BY <1>2, <1>3

LEMMA GetRefines ==
  ASSUME IInv, Safe, NEW c \in Client, Get(c), ref[c] \in live
  PROVE  [Ledger!Next]_Ledger!vars
  <1> DEFINE p == ref[c]
  <1>1. /\ pc[c] = "get" /\ pc' = [pc EXCEPT ![c] = "delete"]
        /\ raced' = IF Holding(p) # {} THEN raced \cup {p} ELSE raced
        /\ UNCHANGED <<live, issued, ref, parent>>
    BY DEF Get, Goto, store, client
  <1>2. pc'[c] = "delete" /\ \A d \in Client \ {c} : pc'[d] = pc[d]
    BY <1>1 DEF IInv, TypeOK
  <1>3. Busy' = Busy \cup {c} /\ p \in Token
    BY <1>2 DEF Busy, IInv, TypeOK
  <1>4. Exchanged' = Exchanged \cup {p}
    <2>1. Exchanged = {ref[d] : d \in Busy} /\ Exchanged' = {ref'[d] : d \in Busy'}
      BY DEF Exchanged, Busy
    <2>. QED BY <1>1, <1>3, <2>1
  <1>5. p \in Usable /\ Usable' = Usable
    BY <1>1, <1>4 DEF Usable
  <1>6. p \in Exchanged <=> Holding(p) # {}
    BY DEF Exchanged, Holding, IInv, Exchanging
  <1>7. CASE p \in Exchanged
    <2>1. Ledger!Contest(p)
      BY <1>1, <1>4, <1>5, <1>6, <1>7 DEF Ledger!Contest
    <2>. QED BY <1>3, <2>1 DEF Ledger!Next
  <1>8. CASE p \notin Exchanged
    <2>1. Ledger!Begin(p)
      BY <1>1, <1>4, <1>5, <1>6, <1>8 DEF Ledger!Begin
    <2>. QED BY <1>3, <2>1 DEF Ledger!Next
  <1>. QED BY <1>7, <1>8

LEMMA DeleteRefines ==
  ASSUME IInv, Safe, NEW c \in Client, Delete(c)
  PROVE  [Ledger!Next]_Ledger!vars
  <1>1. /\ pc[c] = "delete" /\ pc' = [pc EXCEPT ![c] = "put"]
        /\ live' = live \ {ref[c]} /\ UNCHANGED <<issued, ref, parent, raced>>
    BY DEF Delete, Goto, client
  <1>2. pc'[c] = "put" /\ \A d \in Client \ {c} : pc'[d] = pc[d]
    BY <1>1 DEF IInv, TypeOK
  <1>3. c \in Busy /\ Busy' = Busy
    BY <1>1, <1>2 DEF Busy
  <1>4. Exchanged' = Exchanged
    <2>1. Exchanged = {ref[d] : d \in Busy} /\ Exchanged' = {ref'[d] : d \in Busy'}
      BY DEF Exchanged, Busy
    <2>. QED BY <1>1, <1>3, <2>1
  <1>5. ref[c] \in Exchanged /\ (ref[c] \in live => \A s \in issued : parent[s] # ref[c])
    BY <1>3, ExchangedTokens
  <1>6. Usable' = Usable
    BY <1>1, <1>4, <1>5 DEF Usable
  <1>. QED BY <1>1, <1>4, <1>6 DEF Ledger!vars

LEMMA IssueRefines ==
  ASSUME IInv, Safe, NEW c \in Client, NEW p, Issuing(c, p)
  PROVE  [Ledger!Next]_Ledger!vars
  <1>1. p \in issued \cup {NoToken} /\ UNCHANGED <<ref, raced>>
    BY DEF Issuing, IInv, Placed, Refreshing
  <1>2. PICK t \in Token \ issued :
          /\ issued' = issued \cup {t} /\ live' = live \cup {t}
          /\ parent' = [parent EXCEPT ![t] = p] /\ parent'[t] = p
          /\ \A s \in issued : parent'[s] = parent[s]
    <2>1. TypeOK /\ Issue(c, p)
      BY DEF IInv, Issuing
    <2>. QED BY <1>1, <2>1, IssueMoves
  <1>3. Ledger!Issue(t, p)
    BY <1>2 DEF Ledger!Issue
  <1>4. Exchanged \subseteq issued /\ NoToken \notin issued
    BY ExchangedTokens, TokenAssumption
  <1>5. CASE pc[c] = "put"
    <2>1. /\ p = ref[c] /\ p # NoToken /\ pc' = [pc EXCEPT ![c] = "answered"]
      BY <1>5, TokenAssumption DEF Issuing, IInv, Placed, Refreshing, TypeOK
    <2>2. pc'[c] = "answered" /\ \A d \in Client \ {c} : pc'[d] = pc[d]
      BY <2>1 DEF IInv, TypeOK
    <2>3. c \in Busy /\ Busy' = Busy \ {c}
      BY <1>5, <2>2 DEF Busy
    <2>4. p \in Exchanged /\ p \in Token
      BY <2>1, <2>3, ExchangedTokens
    <2>5. p \notin live /\ (\A s \in issued : parent[s] = p => p \in raced)
      BY <1>5, <2>1 DEF IInv, Exchanging
    <2>6. \/ Exchanged' = Exchanged /\ p \in raced
          \/ Exchanged' = Exchanged \ {p}
      BY <1>1, <2>1, <2>3, HandlerLeaves
    <2>7. Ledger!Leave(p)
      BY <2>6 DEF Ledger!Leave
    <2>8. Usable' = (Usable \ {p}) \cup {t}
      <3>1. \A q \in Exchanged : (\A s \in issued' : parent'[s] # q) <=> q # p /\ \A s \in issued : parent[s] # q
        BY <1>2
      <3>2. {q \in Exchanged' : \A s \in issued' : parent'[s] # q} =
            {q \in Exchanged \ {p} : \A s \in issued : parent[s] # q}
        BY <2>6, <3>1
      <3>. QED BY <1>2, <2>5, <3>2 DEF Usable
    <2>9. CASE p \in Usable
      <3>1. Ledger!Exchange(p)
        BY <1>1, <1>3, <2>4, <2>7, <2>8, <2>9 DEF Ledger!Exchange
      <3>. QED BY <2>4, <3>1 DEF Ledger!Next
    <2>10. CASE p \notin Usable
      <3>1. p \in raced
        BY <2>4, <2>5, <2>10 DEF Usable
      <3>2. Usable' = Usable \cup {t}
        BY <2>8, <2>10
      <3>3. Ledger!Fork(p)
        BY <1>1, <1>3, <2>4, <2>7, <2>10, <3>1, <3>2 DEF Ledger!Fork
      <3>. QED BY <2>4, <3>3 DEF Ledger!Next
    <2>. QED BY <2>9, <2>10
  <1>6. CASE pc[c] = "password"
    <2>1. p = NoToken /\ pc' = [pc EXCEPT ![c] = "granted"]
      BY <1>6 DEF Issuing
    <2>2. pc'[c] = "granted" /\ \A d \in Client \ {c} : pc'[d] = pc[d]
      BY <2>1 DEF IInv, TypeOK
    <2>3. Busy' = Busy
      BY <1>6, <2>2 DEF Busy
    <2>4. Exchanged' = Exchanged
      <3>1. Exchanged = {ref[d] : d \in Busy} /\ Exchanged' = {ref'[d] : d \in Busy'}
        BY DEF Exchanged, Busy
      <3>. QED BY <1>1, <2>3, <3>1
    <2>5. Usable' = Usable \cup {t}
      <3>1. \A q \in Exchanged : (\A s \in issued' : parent'[s] # q) <=> \A s \in issued : parent[s] # q
        BY <1>2, <1>4, <2>1
      <3>. QED BY <1>2, <2>4, <3>1 DEF Usable
    <2>6. Ledger!Login
      BY <1>1, <1>3, <2>1, <2>4, <2>5 DEF Ledger!Login
    <2>. QED BY <2>6 DEF Ledger!Next
  <1>. QED BY <1>5, <1>6 DEF Issuing

LEMMA SessionsStep ==
  ASSUME IInv, Safe, [Next]_vars
  PROVE  [Ledger!Next]_Ledger!vars
  <1>1. ASSUME NEW c \in Client, (\E h \in Home : Open(c, h)) \/ Save(c)
        PROVE  [Ledger!Next]_Ledger!vars
    <2>1. /\ pc[c] \in {"none", "granted"} /\ UNCHANGED <<live, issued, raced, parent>>
          /\ \E l \in {"loaded", "prompt", "logged"} : pc' = [pc EXCEPT ![c] = l]
          /\ \E t : ref' = [ref EXCEPT ![c] = t]
      BY <1>1 DEF Open, Save, Goto, store, history
    <2>2. /\ pc'[c] \in {"loaded", "prompt", "logged"}
          /\ \A d \in Client \ {c} : pc'[d] = pc[d] /\ ref'[d] = ref[d]
      BY <2>1 DEF IInv, TypeOK
    <2>3. Busy' = Busy /\ \A d \in Busy : ref'[d] = ref[d]
      BY <2>1, <2>2 DEF Busy
    <2>. QED BY <2>1, <2>3, LedgerStutters
  <1>. QED BY <1>1, StepKinds, QuietRefines, GetRefines, DeleteRefines, IssueRefines DEF Noticed

(* ImplementsSessions: the get, the delete and the put of Auth.refresh_token
   (authentication.py:140-158), with every other handler and fault in between,
   are one exchange; a token is exchanged once unless it was contested, and no
   token is lost but one whose exchange was abandoned. *)
THEOREM ExchangesAreAtomic == Spec => ImplementsSessions
  <1>1. Init => Ledger!Init
    <2> SUFFICES ASSUME Init PROVE Ledger!Init
      OBVIOUS
    <2>1. Exchanged = {}
      BY DEF Init, Exchanged
    <2>2. Usable = issued
      BY <2>1 DEF Init, Usable
    <2>. QED BY <2>1, <2>2, TokenAssumption DEF Init, Ledger!Init
  <1>2. (IInv /\ Safe) /\ [Next]_vars => [Ledger!Next]_Ledger!vars
    BY SessionsStep
  <1>. QED BY <1>1, <1>2, Inductive, PTL DEF Spec, ImplementsSessions, Ledger!Spec

-----------------------------------------------------------------------------
(***************************************************************************)
(* The people and agents whose tokens are exchanged above (Accounts), for  *)
(* every set of names, passwords, requests and commands.  The invariant    *)
(* keeps, for every request, what it has read of a row apart from what the *)
(* row is by now, and the rows that are told of apart from those to come.  *)
(***************************************************************************)
(* Rows and requests, with the types TypeOK leaves out. *)
Keys    == {Encrypt(p) : p \in Password} \cup {NoPassword}
Scopes  == Lists \cup {Granted(l, TRUE) : l \in Lists} \cup {<<>>}
UserRow == [name : Name \cup AgentName, pass : Keys, active : BOOLEAN, scopes : Scopes,
            super : BOOLEAN, project : BOOLEAN]
Asking  == [pc : {"none", "read", "granted", "refused"}, via : {"login", "manager", "project"},
            row : 0..MaxRows, name : Name \cup AgentName \cup {NoPassword},
            pass : Password \cup {NoPassword}, scopes : Scopes, fresh : BOOLEAN, key : BOOLEAN,
            late : SUBSET {"deleted", "disable", "reset"}]
Running == [pc : {"none", "read", "done", "failed", "notfound"}, kind : {"disable", "reset"},
            row : 0..MaxRows, was : Keys, pass : Password \cup {NoPassword}]
Shaped ==
  /\ \A i \in DOMAIN users : users[i] \in UserRow
  /\ users = [i \in DOMAIN users |-> users[i]]
  /\ req \in [Request -> Asking] /\ cmd \in [Command -> Running]
  /\ acts \in [Request -> SUBSET (1..MaxRows)]

(* Nothing is told of a row to come, and a command has a row and a password. *)
Unspoken  == \A i \in Id : i > created => told[i] = Untold
Commanded == \A c \in Command :
               cmd[c].pc = "read" => cmd[c].row \in 1..created /\ cmd[c].pass \in Password

(* What a request has read of the row of its name stays so; a row of that
   name with other scopes is a later one. *)
Claims ==
  \A r \in Request :
    /\ req[r].pc \in {"read", "granted"} =>
         \A i \in DOMAIN users : users[i].name = req[r].name =>
           \/ i = req[r].row /\ users[i].scopes = req[r].scopes
           \/ i > req[r].row
    /\ req[r].pc # "granted" => acts[r] = {}

(* A login that has read a row would be accepted by it, unless it is late. *)
Reading ==
  \A r \in Request :
    req[r].pc = "read" /\ req[r].via = "login" /\ req[r].late = {} =>
      /\ req[r].row \in DOMAIN users /\ users[req[r].row].active
      /\ users[req[r].row].pass = Encrypt(req[r].pass)

AccountsInv == /\ AccountsTypeOK /\ Shaped /\ Unspoken /\ Commanded /\ Claims /\ Reading
               /\ CommandsStick /\ StaleClaims
-----------------------------------------------------------------------------
LEMMA AccountsStart ==
  ASSUME AccountsInit
  PROVE  AccountsInv
  <1>1. \A i \in DOMAIN users : FALSE
    BY DEF AccountsInit
  <1>2. users = [i \in DOMAIN users |-> users[i]]
    BY <1>1 DEF AccountsInit
  <1>3. IdleReq \in Asking /\ IdleReq.pc = "none" /\ IdleReq.row = 0
    BY AccountsAssumption DEF IdleReq, NoOne, Asking, Scopes
  <1>4. IdleCmd \in Running /\ IdleCmd.pc = "none" /\ IdleCmd.row = 0
    BY AccountsAssumption DEF IdleCmd, NoOne, Running, Keys
  <1>5. Shaped /\ Unspoken /\ Commanded
    BY <1>1, <1>2, <1>3, <1>4 DEF AccountsInit, Id, Shaped, Unspoken, Commanded, Untold
  <1>6. Claims /\ Reading /\ CommandsStick /\ StaleClaims
    BY <1>1, <1>3 DEF AccountsInit, Claims, Reading, CommandsStick, StaleClaims
  <1>7. AccountsTypeOK
    BY AccountsAssumption, <1>1, <1>3, <1>4 DEF AccountsInit, Id, AccountsTypeOK, Untold
  <1>. QED BY <1>5, <1>6, <1>7 DEF AccountsInv

(* A row that is inserted has an id and a name of its own. *)
LEMMA Inserted ==
  ASSUME AccountsInv, NEW row \in UserRow, Insert(row)
  PROVE  /\ created' = created + 1 /\ created \in Nat /\ created + 1 \in Id
         /\ created + 1 \notin DOMAIN users /\ DOMAIN users' = DOMAIN users \cup {created + 1}
         /\ users'[created + 1] = row /\ \A i \in DOMAIN users : users'[i] = users[i] /\ i \in 1..created
         /\ \A i \in DOMAIN users : users[i].name # row.name
         /\ users' = [i \in DOMAIN users' |-> users'[i]]
         /\ \A i \in DOMAIN users' : users'[i] \in UserRow /\ i \in 1..created'
         /\ \A i, j \in DOMAIN users' : users'[i].name = users'[j].name => i = j
  <1>1. /\ created' = created + 1 /\ created \in Nat /\ created + 1 \in Id /\ DOMAIN users \subseteq 1..created
        /\ \A i \in DOMAIN users : users[i].name # row.name
        /\ users' = [i \in DOMAIN users \cup {created + 1} |->
                       IF i = created + 1 THEN row ELSE users[i]]
        /\ \A i \in DOMAIN users : users[i] \in UserRow
        /\ \A i, j \in DOMAIN users : users[i].name = users[j].name => i = j
    BY AccountsAssumption DEF Insert, With, Named, AccountsInv, AccountsTypeOK, Shaped, Id
  <1>2. created + 1 \notin DOMAIN users /\ \A i \in DOMAIN users : i \in 1..created /\ i # created + 1
    BY <1>1
  <1>3. /\ DOMAIN users' = DOMAIN users \cup {created + 1}
        /\ users'[created + 1] = row /\ \A i \in DOMAIN users : users'[i] = users[i]
        /\ users' = [i \in DOMAIN users' |-> users'[i]]
    BY <1>1, <1>2
  <1>4. \A i \in DOMAIN users' : users'[i] \in UserRow /\ i \in 1..created'
    BY <1>1, <1>2, <1>3
  <1>5. \A i, j \in DOMAIN users' : users'[i].name = users'[j].name => i = j
    BY <1>1, <1>2, <1>3
  <1>. QED BY <1>1, <1>2, <1>3, <1>4, <1>5

LEMMA UserRowTypes ==
  ASSUME NEW n \in Name, NEW p \in Password, NEW l \in Lists, NEW s \in BOOLEAN, NEW row,
         row = Row(n, Encrypt(p), Granted(l, s), s)
  PROVE  row \in UserRow /\ row.pass = Encrypt(p) /\ row.active = TRUE
  <1>1. Granted(l, s) \in Scopes
    <2>1. CASE s
      BY <2>1 DEF Scopes
    <2>2. CASE ~s
      BY <2>2 DEF Scopes, Granted
    <2>. QED BY <2>1, <2>2
  <1>2. Encrypt(p) \in Keys
    BY DEF Keys
  <1>. QED BY <1>1, <1>2 DEF Row, UserRow

LEMMA AgentRowTypes ==
  ASSUME NEW n \in AgentName, NEW l \in Lists, NEW row,
         row = AgentRow(n, l, TRUE) \/ row = AgentRow(n, l, FALSE)
  PROVE  /\ row \in UserRow /\ row.pass = NoPassword /\ row.name = n /\ row.scopes = l
         /\ l \in Scopes
  <1>1. l \in Scopes
    BY DEF Scopes
  <1>. QED BY <1>1 DEF AgentRow, Row, UserRow, Keys

(* users create, project agent create and agent create. *)
LEMMA InsertKept ==
  ASSUME AccountsInv,
         \/ \E n \in Name, p \in Password, l \in Lists, s \in BOOLEAN : UsersCreate(n, p, l, s)
         \/ \E n \in AgentName, l \in Lists : ProjectAgent(n, l)
  PROVE  AccountsInv'
  <1>1. PICK row \in UserRow :
          /\ Insert(row) /\ UNCHANGED <<req, acts, cmd>>
          /\ \/ /\ told' = [told EXCEPT ![created + 1].pass = {row.pass}]
                /\ row.active /\ drawn' = drawn
             \/ /\ told' = told /\ row.pass = NoPassword
                /\ drawn' \subseteq AgentName
    <2>1. CASE \E n \in Name, p \in Password, l \in Lists, s \in BOOLEAN : UsersCreate(n, p, l, s)
      <3>1. PICK n \in Name, p \in Password, l \in Lists, s \in BOOLEAN : UsersCreate(n, p, l, s)
        BY <2>1
      <3>2. PICK row : row = Row(n, Encrypt(p), Granted(l, s), s)
        OBVIOUS
      <3>3. row \in UserRow /\ row.pass = Encrypt(p) /\ row.active = TRUE
        BY <3>2, UserRowTypes, ZenonT(30)
      <3>4. /\ Insert(row) /\ UNCHANGED <<drawn, req, acts, cmd>>
            /\ told' = [told EXCEPT ![created + 1].pass = {Encrypt(p)}]
        BY <3>1, <3>2 DEF UsersCreate
      <3>. QED BY <3>3, <3>4
    <2>2. CASE \E n \in AgentName, l \in Lists : ProjectAgent(n, l)
      <3>1. PICK n \in AgentName, l \in Lists : ProjectAgent(n, l)
        BY <2>2
      <3>2. PICK row : row = AgentRow(n, l, TRUE)
        OBVIOUS
      <3>3. row \in UserRow /\ row.pass = NoPassword
        <4>1. row = AgentRow(n, l, TRUE) \/ row = AgentRow(n, l, FALSE)
          BY <3>2
        <4>2. /\ row \in UserRow /\ row.pass = NoPassword /\ row.name = n /\ row.scopes = l
              /\ l \in Scopes
          BY <4>1, AgentRowTypes
        <4>. QED BY <4>2
      <3>4. Insert(row) /\ UNCHANGED <<req, acts, cmd, told>> /\ drawn' = drawn \cup {n}
        BY <3>1, <3>2 DEF ProjectAgent
      <3>5. drawn' \subseteq AgentName
        BY <3>4 DEF AccountsInv, AccountsTypeOK
      <3>. QED BY <3>3, <3>4, <3>5
    <2>. QED BY <2>1, <2>2
  <1>2. /\ created' = created + 1 /\ created \in Nat /\ created + 1 \in Id
        /\ created + 1 \notin DOMAIN users /\ DOMAIN users' = DOMAIN users \cup {created + 1}
        /\ users'[created + 1] = row /\ \A i \in DOMAIN users : users'[i] = users[i] /\ i \in 1..created
        /\ \A i \in DOMAIN users : users[i].name # row.name
        /\ users' = [i \in DOMAIN users' |-> users'[i]]
        /\ \A i \in DOMAIN users' : users'[i] \in UserRow /\ i \in 1..created'
        /\ \A i, j \in DOMAIN users' : users'[i].name = users'[j].name => i = j
    BY <1>1, Inserted
  <1>3. /\ told' \in [Id -> [off : BOOLEAN, pass : SUBSET Keys]]
        /\ \A i \in Id : i # created + 1 => told'[i] = told[i]
        /\ ~told'[created + 1].off /\ told'[created + 1].pass = {row.pass}
    <2>1. told \in [Id -> [off : BOOLEAN, pass : SUBSET Keys]]
      BY DEF AccountsInv, AccountsTypeOK, Keys
    <2>2. told[created + 1] = [off |-> FALSE, pass |-> {NoPassword}]
      <3>1. created + 1 \in Id /\ created + 1 > created
        BY <1>2
      <3>. QED BY <3>1 DEF AccountsInv, Unspoken, Untold
    <2>3. row.pass \in Keys
      BY <1>2 DEF UserRow
    <2>4. ~told[created + 1].off /\ told[created + 1].pass = {NoPassword}
      BY <2>2
    <2>5. CASE told' = [told EXCEPT ![created + 1].pass = {row.pass}]
      <3>1. told[created + 1] \in [off : BOOLEAN, pass : SUBSET Keys]
        BY <1>2, <2>1
      <3>2. /\ [told[created + 1] EXCEPT !.pass = {row.pass}] \in [off : BOOLEAN, pass : SUBSET Keys]
            /\ ~[told[created + 1] EXCEPT !.pass = {row.pass}].off
            /\ [told[created + 1] EXCEPT !.pass = {row.pass}].pass = {row.pass}
        BY <2>3, <2>4, <3>1
      <3>3. told' = [told EXCEPT ![created + 1] = [told[created + 1] EXCEPT !.pass = {row.pass}]]
        BY <2>5
      <3>. QED BY <1>2, <2>1, <3>2, <3>3
    <2>6. CASE told' = told /\ row.pass = NoPassword
      BY <1>2, <2>1, <2>4, <2>6
    <2>. QED BY <1>1, <2>5, <2>6
  <1>4. AccountsTypeOK'
    <2>1. drawn' \subseteq AgentName
      BY <1>1 DEF AccountsInv, AccountsTypeOK
    <2>2. created' \in 0..MaxRows
      BY <1>2 DEF Id
    <2>3. \A i \in DOMAIN users' : /\ users'[i].name \in Name \cup AgentName /\ users'[i].active \in BOOLEAN
                                   /\ users'[i].pass \in Keys
      BY <1>2 DEF UserRow
    <2>4. \A r \in Request : req[r].row \in 0..created' /\ acts[r] \subseteq 1..created'
      BY <1>2 DEF AccountsInv, AccountsTypeOK
    <2>5. \A c \in Command : cmd[c].row \in 0..created'
      BY <1>2 DEF AccountsInv, AccountsTypeOK
    <2>. QED BY <1>1, <1>2, <1>3, <2>1, <2>2, <2>3, <2>4, <2>5 DEF AccountsInv, AccountsTypeOK, Keys, Id
  <1>5. Shaped'
    BY <1>1, <1>2 DEF AccountsInv, Shaped, Scopes, UserRow, Keys
  <1>6. Unspoken' /\ Commanded'
    BY <1>1, <1>2, <1>3 DEF AccountsInv, Unspoken, Commanded, Id
  <1>7. Claims'
    BY <1>1, <1>2 DEF AccountsInv, AccountsTypeOK, Claims
  <1>8. Reading'
    BY <1>1, <1>2 DEF AccountsInv, Reading
  <1>9. CommandsStick'
    BY AccountsAssumption, <1>1, <1>2, <1>3 DEF AccountsInv, CommandsStick, AccountsTypeOK, Id
  <1>10. StaleClaims'
    BY <1>1, <1>2 DEF AccountsInv, AccountsTypeOK, StaleClaims
  <1>. QED BY <1>4, <1>5, <1>6, <1>7, <1>8, <1>9, <1>10 DEF AccountsInv

(* Being late changes nothing else of a request. *)
LEMMA LateKept ==
  ASSUME AccountsInv, NEW i, NEW what \in {"deleted", "disable", "reset"}, Late(i, what)
  PROVE  /\ req' \in [Request -> Asking]
         /\ \A r \in Request :
              /\ req'[r].pc = req[r].pc /\ req'[r].via = req[r].via /\ req'[r].row = req[r].row
              /\ req'[r].name = req[r].name /\ req'[r].pass = req[r].pass
              /\ req'[r].scopes = req[r].scopes
              /\ req'[r].late = {} => req[r].late = {} /\ ~(req[r].pc = "read" /\ req[r].row = i)
  <1>1. req \in [Request -> Asking]
    BY DEF AccountsInv, Shaped
  <1>2. ASSUME NEW r \in Request
        PROVE  /\ req'[r] \in Asking
               /\ req'[r].pc = req[r].pc /\ req'[r].via = req[r].via /\ req'[r].row = req[r].row
               /\ req'[r].name = req[r].name /\ req'[r].pass = req[r].pass
               /\ req'[r].scopes = req[r].scopes
               /\ req'[r].late = {} => req[r].late = {} /\ ~(req[r].pc = "read" /\ req[r].row = i)
    <2>1. CASE req[r].pc = "read" /\ req[r].row = i
      <3>1. req'[r] = [req[r] EXCEPT !.late = @ \cup {what}]
        BY <2>1 DEF Late
      <3>2. req[r] \in Asking
        BY <1>1
      <3>. QED BY <3>1, <3>2 DEF Asking
    <2>2. CASE ~(req[r].pc = "read" /\ req[r].row = i)
      <3>1. req'[r] = req[r]
        BY <2>2 DEF Late
      <3>. QED BY <1>1, <2>2, <3>1
    <2>. QED BY <2>1, <2>2
  <1>. QED BY <1>2 DEF Late

(* agent delete. *)
LEMMA DeleteKept ==
  ASSUME AccountsInv, NEW n, AgentDelete(n)
  PROVE  AccountsInv'
  <1>1. PICK d \in DOMAIN users : users[d].name = n /\ Late(d, "deleted")
    BY DEF AgentDelete, Named
  <1>2. Named(n) = {d}
    BY <1>1 DEF Named, AccountsInv, AccountsTypeOK
  <1>3. /\ users' = [i \in DOMAIN users \ {d} |-> users[i]]
        /\ UNCHANGED <<created, drawn, acts, cmd, told>>
    BY <1>2 DEF AgentDelete
  <1>4. /\ DOMAIN users' = DOMAIN users \ {d} /\ \A i \in DOMAIN users' : users'[i] = users[i]
        /\ users' = [i \in DOMAIN users' |-> users'[i]]
    BY <1>3
  <1>5. /\ req' \in [Request -> Asking]
        /\ \A r \in Request :
             /\ req'[r].pc = req[r].pc /\ req'[r].via = req[r].via /\ req'[r].row = req[r].row
             /\ req'[r].name = req[r].name /\ req'[r].pass = req[r].pass
             /\ req'[r].scopes = req[r].scopes
             /\ req'[r].late = {} => req[r].late = {} /\ ~(req[r].pc = "read" /\ req[r].row = d)
    BY <1>1, LateKept
  <1>6. AccountsTypeOK'
    BY <1>3, <1>4, <1>5 DEF AccountsInv, AccountsTypeOK, Keys, Id
  <1>7. Shaped' /\ Unspoken' /\ Commanded'
    BY <1>3, <1>4, <1>5 DEF AccountsInv, Shaped, Unspoken, Commanded
  <1>8. Claims' /\ StaleClaims'
    BY <1>3, <1>4, <1>5 DEF AccountsInv, Claims, StaleClaims
  <1>9. Reading'
    BY <1>3, <1>4, <1>5 DEF AccountsInv, Reading
  <1>10. CommandsStick'
    BY <1>3, <1>4 DEF AccountsInv, CommandsStick
  <1>. QED BY <1>6, <1>7, <1>8, <1>9, <1>10 DEF AccountsInv

LEMMA IdleIsAsking == IdleReq \in Asking /\ IdleReq.late = {} /\ IdleReq.row = 0
  BY AccountsAssumption DEF IdleReq, NoOne, Asking, Scopes

(* A request that reads a row, or is refused. *)
LEMMA ReadKept ==
  ASSUME AccountsInv, NEW r \in Request, req[r].pc = "none",
         UNCHANGED <<users, created, drawn, acts, cmd, told>>,
         \/ \E i \in DOMAIN users, via \in {"login", "manager", "project"}, p \in Password \cup {NoPassword} :
              /\ via = "login" => VerifyPassword(users[i], p)
              /\ Read(r, via, i, p)
         \/ req' = [req EXCEPT ![r].pc = "refused"]
  PROVE  AccountsInv'
  <1>1. req \in [Request -> Asking] /\ req[r] \in Asking
    BY DEF AccountsInv, Shaped
  <1>2. PICK x \in Asking :
          /\ req' = [req EXCEPT ![r] = x]
          /\ \/ x.pc = "refused" /\ x.row = req[r].row
             \/ /\ x.pc = "read" /\ x.row \in DOMAIN users
                /\ x.name = users[x.row].name /\ x.scopes = users[x.row].scopes
                /\ x.via = "login" => users[x.row].active /\ users[x.row].pass = Encrypt(x.pass)
    <2>1. CASE req' = [req EXCEPT ![r].pc = "refused"]
      <3> DEFINE x == [req[r] EXCEPT !.pc = "refused"]
      <3>1. x \in Asking /\ x.pc = "refused" /\ x.row = req[r].row
        BY <1>1 DEF Asking
      <3>2. req' = [req EXCEPT ![r] = x]
        BY <1>1, <2>1
      <3> HIDE DEF x
      <3>. QED BY <3>1, <3>2
    <2>2. CASE \E i \in DOMAIN users, via \in {"login", "manager", "project"}, p \in Password \cup {NoPassword} :
                 /\ via = "login" => VerifyPassword(users[i], p)
                 /\ Read(r, via, i, p)
      <3>1. PICK i \in DOMAIN users, via \in {"login", "manager", "project"}, p \in Password \cup {NoPassword} :
                 /\ via = "login" => VerifyPassword(users[i], p)
                 /\ Read(r, via, i, p)
        BY <2>2
      <3> DEFINE x == [IdleReq EXCEPT !.pc = "read", !.via = via, !.row = i, !.name = users[i].name,
                                        !.pass = p, !.scopes = users[i].scopes]
      <3>2. users[i] \in UserRow /\ i \in 0..MaxRows
        BY AccountsAssumption DEF AccountsInv, Shaped, AccountsTypeOK
      <3>3. /\ x \in Asking /\ x.pc = "read" /\ x.row = i /\ x.name = users[i].name
            /\ x.scopes = users[i].scopes /\ x.via = via /\ x.pass = p
        BY <3>2, IdleIsAsking DEF Asking, UserRow
      <3>4. req' = [req EXCEPT ![r] = x]
        BY <3>1 DEF Read
      <3>5. via = "login" => users[i].active /\ users[i].pass = Encrypt(p)
        BY <3>1 DEF VerifyPassword, Verifies
      <3> HIDE DEF x
      <3>. QED BY <3>3, <3>4, <3>5
    <2>. QED BY <2>1, <2>2
  <1>3. req' \in [Request -> Asking] /\ req'[r] = x /\ \A q \in Request \ {r} : req'[q] = req[q]
    BY <1>1, <1>2
  <1>4. AccountsTypeOK'
    BY <1>2, <1>3 DEF AccountsInv, AccountsTypeOK, Id
  <1>5. Shaped' /\ Unspoken' /\ Commanded' /\ CommandsStick'
    BY <1>3 DEF AccountsInv, Shaped, Unspoken, Commanded, CommandsStick
  <1>6. acts[r] = {}
    BY DEF AccountsInv, Claims
  <1>7. Claims' /\ StaleClaims'
    BY <1>2, <1>3, <1>6 DEF AccountsInv, Claims, StaleClaims, AccountsTypeOK
  <1>8. Reading'
    BY <1>2, <1>3 DEF AccountsInv, Reading
  <1>. QED BY <1>4, <1>5, <1>7, <1>8 DEF AccountsInv

(* Tokens that are made, expire or are exchanged. *)
LEMMA TokensKept ==
  ASSUME AccountsInv, NEW r \in Request,
         Encode(r) \/ Lapse(r) \/ Refresh(r)
  PROVE  AccountsInv'
  <1>1. req \in [Request -> Asking] /\ req[r] \in Asking
    BY DEF AccountsInv, Shaped
  <1>2. UNCHANGED <<users, created, drawn, acts, cmd, told>>
    BY DEF Encode, Lapse, Refresh
  <1>3. /\ req' \in [Request -> Asking]
        /\ \A q \in Request \ {r} : req'[q] = req[q]
        /\ req'[r].row = req[r].row /\ req'[r].name = req[r].name /\ req'[r].scopes = req[r].scopes
        /\ \/ req'[r].pc = "granted" /\ req[r].pc \in {"read", "granted"}
           \/ req'[r].pc = req[r].pc /\ req'[r].via = req[r].via /\ req'[r].late = req[r].late
              /\ req'[r].pass = req[r].pass
    <2>1. CASE Encode(r)
      <3> DEFINE x == [req[r] EXCEPT !.pc = "granted", !.fresh = TRUE, !.key = TRUE]
      <3>1. req' = [req EXCEPT ![r] = x] /\ req[r].pc = "read"
        BY <1>1, <2>1 DEF Encode
      <3>2. /\ x \in Asking /\ x.row = req[r].row /\ x.name = req[r].name
            /\ x.scopes = req[r].scopes /\ x.pc = "granted"
        BY <1>1 DEF Asking
      <3> HIDE DEF x
      <3>. QED BY <1>1, <3>1, <3>2
    <2>2. CASE Lapse(r) \/ Refresh(r)
      <3>1. PICK b \in BOOLEAN : req' = [req EXCEPT ![r].fresh = b]
        BY <2>2 DEF Lapse, Refresh
      <3> DEFINE x == [req[r] EXCEPT !.fresh = b]
      <3>2. req' = [req EXCEPT ![r] = x]
        BY <1>1, <3>1
      <3>3. /\ x \in Asking /\ x.row = req[r].row /\ x.name = req[r].name /\ x.scopes = req[r].scopes
            /\ x.pc = req[r].pc /\ x.via = req[r].via /\ x.late = req[r].late /\ x.pass = req[r].pass
        BY <1>1 DEF Asking
      <3> HIDE DEF x
      <3>. QED BY <1>1, <3>2, <3>3
    <2>. QED BY <2>1, <2>2
  <1>4. AccountsTypeOK'
    BY <1>2, <1>3 DEF AccountsInv, AccountsTypeOK, Id
  <1>5. Shaped' /\ Unspoken' /\ Commanded' /\ CommandsStick'
    BY <1>2, <1>3 DEF AccountsInv, Shaped, Unspoken, Commanded, CommandsStick
  <1>6. Claims' /\ StaleClaims'
    BY <1>2, <1>3 DEF AccountsInv, Claims, StaleClaims
  <1>7. Reading'
    BY <1>2, <1>3 DEF AccountsInv, Reading
  <1>. QED BY <1>4, <1>5, <1>6, <1>7 DEF AccountsInv

(* A handler acts as the rows of the session's name. *)
LEMMA ProtectedKept ==
  ASSUME AccountsInv, NEW r \in Request, NEW need, NEW all,
         Protected(r, need, all)
  PROVE  AccountsInv'
  <1>1. /\ req[r].pc = "granted" /\ acts' = [acts EXCEPT ![r] = @ \cup Named(req[r].name)]
        /\ UNCHANGED <<users, created, drawn, req, cmd, told>>
    BY DEF Protected, Valid, Decoded, ActsAs
  <1>2. /\ Named(req[r].name) \subseteq DOMAIN users /\ DOMAIN users \subseteq 1..created
        /\ DOMAIN users \subseteq 1..MaxRows /\ acts \in [Request -> SUBSET (1..MaxRows)]
    BY AccountsAssumption DEF Named, AccountsInv, AccountsTypeOK, Shaped
  <1>3. AccountsTypeOK' /\ Shaped'
    BY <1>1, <1>2 DEF AccountsInv, AccountsTypeOK, Shaped, Id
  <1>4. Unspoken' /\ Commanded' /\ CommandsStick' /\ Reading'
    BY <1>1 DEF AccountsInv, Unspoken, Commanded, CommandsStick, Reading
  <1>5. Claims' /\ StaleClaims'
    BY <1>1, <1>2 DEF AccountsInv, Claims, StaleClaims, Named
  <1>. QED BY <1>3, <1>4, <1>5 DEF AccountsInv

(* agent create, of the manager: the row, and the tokens for its request. *)
LEMMA AgentCreateKept ==
  ASSUME AccountsInv, NEW r \in Request, NEW n \in AgentName, NEW l \in Lists,
         AgentCreate(r, n, l)
  PROVE  AccountsInv'
  <1>1. PICK row : row = AgentRow(n, l, FALSE)
    OBVIOUS
  <1>2. /\ row \in UserRow /\ row.pass = NoPassword /\ row.name = n /\ row.scopes = l /\ l \in Scopes
        /\ Insert(row) /\ req[r].pc = "none" /\ drawn' = drawn \cup {n}
        /\ UNCHANGED <<acts, cmd, told>>
    <2>1. /\ row \in UserRow /\ row.pass = NoPassword /\ row.name = n /\ row.scopes = l
          /\ l \in Scopes
      <3>1. row = AgentRow(n, l, TRUE) \/ row = AgentRow(n, l, FALSE)
        BY <1>1
      <3>. QED BY <3>1, AgentRowTypes
    <2>. QED BY <1>1, <2>1 DEF AgentCreate
  <1>3. /\ created' = created + 1 /\ created \in Nat /\ created + 1 \in Id
        /\ created + 1 \notin DOMAIN users /\ DOMAIN users' = DOMAIN users \cup {created + 1}
        /\ users'[created + 1] = row /\ \A i \in DOMAIN users : users'[i] = users[i] /\ i \in 1..created
        /\ \A i \in DOMAIN users : users[i].name # row.name
        /\ users' = [i \in DOMAIN users' |-> users'[i]]
        /\ \A i \in DOMAIN users' : users'[i] \in UserRow /\ i \in 1..created'
        /\ \A i, j \in DOMAIN users' : users'[i].name = users'[j].name => i = j
    BY <1>2, Inserted
  <1>4. PICK x \in Asking : /\ req' = [req EXCEPT ![r] = x] /\ x.pc = "granted"
                            /\ x.row = created + 1 /\ x.name = n /\ x.scopes = l
    <2> DEFINE x == [IdleReq EXCEPT !.pc = "granted", !.via = "manager", !.row = created + 1,
                                      !.name = n, !.scopes = l, !.fresh = TRUE, !.key = TRUE]
    <2>1. created + 1 \in 0..MaxRows
      BY AccountsAssumption, <1>3 DEF Id
    <2>2. x \in Asking /\ x.pc = "granted" /\ x.row = created + 1 /\ x.name = n /\ x.scopes = l
      BY <1>2, <2>1, IdleIsAsking DEF Asking
    <2>3. req' = [req EXCEPT ![r] = x]
      BY DEF AgentCreate
    <2> HIDE DEF x
    <2>. QED BY <2>2, <2>3
  <1>5. req' \in [Request -> Asking] /\ req'[r] = x /\ \A q \in Request \ {r} : req'[q] = req[q]
    BY <1>4 DEF AccountsInv, Shaped
  <1>6. AccountsTypeOK'
    <2>1. drawn' \subseteq AgentName /\ created' \in 0..MaxRows
      BY <1>2, <1>3 DEF AccountsInv, AccountsTypeOK, Id
    <2>2. \A i \in DOMAIN users' : /\ users'[i].name \in Name \cup AgentName /\ users'[i].active \in BOOLEAN
                                   /\ users'[i].pass \in Keys
      BY <1>3 DEF UserRow
    <2>3. \A q \in Request : /\ req'[q].pc \in {"none", "read", "granted", "refused"}
                             /\ req'[q].row \in 0..created' /\ acts[q] \subseteq 1..created'
      BY <1>3, <1>4, <1>5 DEF AccountsInv, AccountsTypeOK
    <2>4. \A c \in Command : cmd[c].row \in 0..created'
      BY <1>3 DEF AccountsInv, AccountsTypeOK
    <2>. QED BY <1>2, <1>3, <2>1, <2>2, <2>3, <2>4 DEF AccountsInv, AccountsTypeOK, Keys, Id
  <1>7. Shaped'
    BY <1>2, <1>3, <1>5 DEF AccountsInv, Shaped
  <1>8. Unspoken' /\ Commanded'
    <2>1. \A i \in Id : i > created' => i > created
      BY <1>3 DEF Id
    <2>2. \A c \in Command : cmd[c].pc = "read" => cmd[c].row \in 1..created'
      BY <1>3 DEF AccountsInv, Commanded
    <2>3. Unspoken'
      BY <1>2, <2>1 DEF AccountsInv, Unspoken, Id
    <2>4. Commanded'
      BY <1>2, <2>2 DEF AccountsInv, Commanded
    <2>. QED BY <2>3, <2>4
  <1>9. acts[r] = {} /\ \A q \in Request : acts[q] \subseteq 1..created /\ req[q].row \in 0..created
    BY <1>2 DEF AccountsInv, Claims, AccountsTypeOK
  <1>10. Claims'
    BY <1>2, <1>3, <1>4, <1>5, <1>9 DEF AccountsInv, Claims
  <1>11. StaleClaims'
    BY <1>2, <1>3, <1>4, <1>5, <1>9 DEF AccountsInv, StaleClaims
  <1>12. Reading'
    BY <1>3, <1>4, <1>5 DEF AccountsInv, Reading
  <1>13. CommandsStick'
    <2>1. ~told[created + 1].off /\ told[created + 1].pass = {NoPassword}
      <3>1. created + 1 \in Id /\ created + 1 > created
        BY <1>3
      <3>2. told[created + 1] = [off |-> FALSE, pass |-> {NoPassword}]
        BY <3>1 DEF AccountsInv, Unspoken, Untold
      <3>. QED BY <3>2
    <2>. QED BY <1>2, <1>3, <2>1 DEF AccountsInv, CommandsStick
  <1>. QED BY <1>6, <1>7, <1>8, <1>10, <1>11, <1>12, <1>13 DEF AccountsInv

(* users disable and users reset. *)
LEMMA GetUserKept ==
  ASSUME AccountsInv, NEW c \in Command, NEW kind \in {"disable", "reset"},
         NEW n, NEW p \in Password, GetUser(c, kind, n, p)
  PROVE  AccountsInv'
  <1>1. PICK x \in Running :
          /\ cmd' = [cmd EXCEPT ![c] = x] /\ x.pc \in {"notfound", "read"} /\ x.row \in 0..created
          /\ x.pc = "read" => x.row \in 1..created /\ x.pass \in Password
    <2>1. CASE Named(n) = {} /\ cmd' = [cmd EXCEPT ![c].pc = "notfound"]
      <3> DEFINE x == [cmd[c] EXCEPT !.pc = "notfound"]
      <3>1. cmd[c] \in Running /\ cmd[c].row \in 0..created
        BY DEF AccountsInv, Shaped, AccountsTypeOK
      <3>2. x \in Running /\ x.pc = "notfound" /\ x.row \in 0..created
        BY <3>1 DEF Running
      <3>3. cmd' = [cmd EXCEPT ![c] = x]
        BY <2>1
      <3> HIDE DEF x
      <3>. QED BY <3>2, <3>3
    <2>2. CASE \E i \in Named(n) : cmd' = [cmd EXCEPT ![c] =
                 [pc |-> "read", kind |-> kind, row |-> i, was |-> users[i].pass, pass |-> p]]
      <3>1. PICK i \in Named(n) : cmd' = [cmd EXCEPT ![c] =
                 [pc |-> "read", kind |-> kind, row |-> i, was |-> users[i].pass, pass |-> p]]
        BY <2>2
      <3> DEFINE x == [pc |-> "read", kind |-> kind, row |-> i, was |-> users[i].pass, pass |-> p]
      <3>2. i \in 1..created /\ i \in 0..created /\ i \in 0..MaxRows /\ users[i].pass \in Keys
        BY AccountsAssumption DEF Named, AccountsInv, AccountsTypeOK, Keys
      <3>3. x \in Running /\ x.pc = "read" /\ x.row = i /\ x.pass = p
        BY <3>2 DEF Running
      <3> HIDE DEF x
      <3>4. cmd' = [cmd EXCEPT ![c] = x]
        BY <3>1 DEF x
      <3>. QED BY <3>2, <3>3, <3>4
    <2>. QED BY <2>1, <2>2 DEF GetUser
  <1>2. UNCHANGED <<users, created, drawn, req, acts, told>>
    BY DEF GetUser
  <1>3. cmd' \in [Command -> Running] /\ cmd'[c] = x /\ \A d \in Command \ {c} : cmd'[d] = cmd[d]
    BY <1>1 DEF AccountsInv, Shaped
  <1>4. AccountsTypeOK'
    BY <1>1, <1>2, <1>3 DEF AccountsInv, AccountsTypeOK, Id
  <1>5. Shaped' /\ Unspoken' /\ Commanded'
    BY <1>1, <1>2, <1>3 DEF AccountsInv, Shaped, Unspoken, Commanded
  <1>6. Claims' /\ Reading' /\ CommandsStick' /\ StaleClaims'
    BY <1>2 DEF AccountsInv, Claims, Reading, CommandsStick, StaleClaims
  <1>. QED BY <1>4, <1>5, <1>6 DEF AccountsInv

LEMMA CommitKept ==
  ASSUME AccountsInv, NEW c \in Command, CommitUser(c)
  PROVE  AccountsInv'
  <1> DEFINE i == cmd[c].row
             p == cmd[c].pass
  <1>1. /\ cmd \in [Command -> Running] /\ cmd[c] \in Running /\ cmd[c].pc = "read"
        /\ i \in 1..created /\ p \in Password /\ i \in Id
        /\ UNCHANGED <<created, drawn, acts>>
    BY AccountsAssumption DEF CommitUser, AccountsInv, Shaped, Commanded, AccountsTypeOK, Id
  <1>2. PICK s \in {"done", "failed"} : cmd' = [cmd EXCEPT ![c].pc = s] /\ (s = "done" <=> i \in DOMAIN users)
    BY DEF CommitUser
  <1>3. /\ cmd' \in [Command -> Running] /\ \A d \in Command \ {c} : cmd'[d] = cmd[d]
        /\ cmd'[c].row = i /\ cmd'[c].pc \in {"done", "failed"}
    <2>1. cmd' = [cmd EXCEPT ![c] = [cmd[c] EXCEPT !.pc = s]]
      BY <1>1, <1>2
    <2>2. /\ [cmd[c] EXCEPT !.pc = s] \in Running /\ [cmd[c] EXCEPT !.pc = s].row = i
          /\ [cmd[c] EXCEPT !.pc = s].pc = s
      BY <1>1 DEF Running
    <2>. QED BY <1>1, <2>1, <2>2
  <1>4. CASE i \notin DOMAIN users
    <2>1. UNCHANGED <<users, told, req>>
      BY <1>4 DEF CommitUser
    <2>2. AccountsTypeOK'
      BY <1>1, <1>3, <2>1 DEF AccountsInv, AccountsTypeOK, Id
    <2>3. Shaped' /\ Unspoken' /\ Commanded'
      BY <1>1, <1>3, <2>1 DEF AccountsInv, Shaped, Unspoken, Commanded
    <2>4. Claims' /\ Reading' /\ CommandsStick' /\ StaleClaims'
      BY <1>1, <2>1 DEF AccountsInv, Claims, Reading, CommandsStick, StaleClaims
    <2>. QED BY <2>2, <2>3, <2>4 DEF AccountsInv
  <1>5. CASE i \in DOMAIN users
    <2>1. users[i] \in UserRow /\ told[i] \in [off : BOOLEAN, pass : SUBSET Keys] /\ Encrypt(p) \in Keys
      BY <1>1, <1>5 DEF AccountsInv, Shaped, AccountsTypeOK, Keys
    <2>2. PICK u \in UserRow, t \in [off : BOOLEAN, pass : SUBSET Keys] :
            /\ users' = [users EXCEPT ![i] = u] /\ told' = [told EXCEPT ![i] = t]
            /\ u.name = users[i].name /\ u.scopes = users[i].scopes
            /\ u.active = users[i].active \/ u.active = FALSE
            /\ t.off => told[i].off \/ u.active = FALSE
            /\ u.pass \in t.pass
      <3>1. CASE cmd[c].kind = "disable"
        <4> DEFINE u == [users[i] EXCEPT !.active = FALSE]
                   t == [told[i] EXCEPT !.off = TRUE]
        <4>1. users' = [users EXCEPT ![i] = u] /\ told' = [told EXCEPT ![i] = t]
          BY <1>5, <3>1 DEF CommitUser, DisableUser, Says
        <4>2. /\ u \in UserRow /\ u.name = users[i].name /\ u.scopes = users[i].scopes
              /\ u.active = FALSE /\ u.pass = users[i].pass
          BY <2>1 DEF UserRow
        <4>3. t \in [off : BOOLEAN, pass : SUBSET Keys] /\ t.pass = told[i].pass
          BY <2>1
        <4>4. users[i].pass \in told[i].pass
          BY <1>5 DEF AccountsInv, CommandsStick
        <4> HIDE DEF u, t
        <4>. QED BY <4>1, <4>2, <4>3, <4>4
      <3>2. CASE cmd[c].kind # "disable"
        <4> DEFINE silent == Encrypt(p) = cmd[c].was /\ users[i].pass # cmd[c].was
                   u == ChangePass(users[i], cmd[c].was, p)
                   t == [told[i] EXCEPT !.pass = IF silent THEN @ \cup {Encrypt(p)} ELSE {Encrypt(p)}]
        <4>1. users' = [users EXCEPT ![i] = u] /\ told' = [told EXCEPT ![i] = t]
          BY <1>5, <3>2 DEF CommitUser, Says
        <4>2. /\ u \in UserRow /\ u.name = users[i].name /\ u.scopes = users[i].scopes
              /\ u.active = users[i].active
              /\ u.pass = IF Encrypt(p) = cmd[c].was THEN users[i].pass ELSE Encrypt(p)
          BY <2>1 DEF UserRow, ChangePass
        <4>3. /\ t \in [off : BOOLEAN, pass : SUBSET Keys] /\ t.off = told[i].off
              /\ t.pass = IF silent THEN told[i].pass \cup {Encrypt(p)} ELSE {Encrypt(p)}
          BY <2>1
        <4>4. users[i].pass \in told[i].pass
          BY <1>5 DEF AccountsInv, CommandsStick
        <4>5. u.pass \in t.pass
          BY <4>2, <4>3, <4>4
        <4> HIDE DEF u, t, silent
        <4>. QED BY <4>1, <4>2, <4>3, <4>5
      <3>. QED BY <3>1, <3>2
    <2>3. /\ DOMAIN users' = DOMAIN users /\ users'[i] = u /\ \A j \in DOMAIN users \ {i} : users'[j] = users[j]
          /\ users' = [j \in DOMAIN users' |-> users'[j]]
      BY <1>5, <2>2 DEF AccountsInv, Shaped
    <2>4. /\ told' \in [Id -> [off : BOOLEAN, pass : SUBSET Keys]] /\ told'[i] = t
          /\ \A j \in Id \ {i} : told'[j] = told[j]
      BY <1>1, <2>2 DEF AccountsInv, AccountsTypeOK, Keys
    <2>5. /\ req' \in [Request -> Asking]
          /\ \A r \in Request :
               /\ req'[r].pc = req[r].pc /\ req'[r].via = req[r].via /\ req'[r].row = req[r].row
               /\ req'[r].name = req[r].name /\ req'[r].pass = req[r].pass
               /\ req'[r].scopes = req[r].scopes
               /\ req'[r].late = {} => req[r].late = {} /\ ~(req[r].pc = "read" /\ req[r].row = i)
      <3>1. cmd[c].kind \in {"deleted", "disable", "reset"}
        BY <1>1 DEF Running
      <3>. QED BY <1>5, <3>1, LateKept DEF CommitUser
    <2>6. AccountsTypeOK'
      <3>1. \A j \in DOMAIN users' : /\ users'[j].name = users[j].name
                                     /\ users'[j].active \in BOOLEAN /\ users'[j].pass \in Keys
        BY <2>2, <2>3 DEF AccountsInv, AccountsTypeOK, UserRow, Keys
      <3>2. \A j, k \in DOMAIN users' : users'[j].name = users'[k].name => j = k
        BY <2>3, <3>1 DEF AccountsInv, AccountsTypeOK
      <3>3. created' \in 0..MaxRows /\ DOMAIN users' \subseteq 1..created' /\ drawn' \subseteq AgentName
        BY <1>1, <2>3 DEF AccountsInv, AccountsTypeOK
      <3>4. \A j \in DOMAIN users' : users'[j].name \in Name \cup AgentName
        BY <2>3, <3>1 DEF AccountsInv, AccountsTypeOK
      <3>5. \A r \in Request : /\ req'[r].pc \in {"none", "read", "granted", "refused"}
                               /\ req'[r].row \in 0..created' /\ acts'[r] \subseteq 1..created'
        BY <1>1, <2>5 DEF AccountsInv, AccountsTypeOK
      <3>6. \A d \in Command : /\ cmd'[d].pc \in {"none", "read", "done", "failed", "notfound"}
                               /\ cmd'[d].row \in 0..created'
        BY <1>1, <1>3 DEF AccountsInv, AccountsTypeOK
      <3>. QED BY <2>4, <3>1, <3>2, <3>3, <3>4, <3>5, <3>6 DEF AccountsTypeOK, Keys, Id
    <2>7. Shaped'
      BY <1>1, <1>3, <2>2, <2>3, <2>5 DEF AccountsInv, Shaped
    <2>8. Unspoken' /\ Commanded'
      <3>1. created \in Nat /\ \A j \in Id : j > created => j # i
        BY <1>1 DEF AccountsInv, AccountsTypeOK, Id
      <3>2. Unspoken'
        BY <1>1, <2>4, <3>1 DEF AccountsInv, Unspoken, Id
      <3>3. Commanded'
        BY <1>1, <1>3 DEF AccountsInv, Commanded
      <3>. QED BY <3>2, <3>3
    <2>9. Claims' /\ StaleClaims'
      BY <1>1, <2>2, <2>3, <2>5 DEF AccountsInv, Claims, StaleClaims
    <2>10. Reading'
      BY <2>3, <2>5 DEF AccountsInv, Reading
    <2>11. CommandsStick'
      BY AccountsAssumption, <1>1, <2>2, <2>3, <2>4 DEF AccountsInv, CommandsStick, AccountsTypeOK, Id
    <2>. QED BY <2>6, <2>7, <2>8, <2>9, <2>10, <2>11 DEF AccountsInv
  <1>. QED BY <1>4, <1>5

LEMMA AccountsInvariant == AccountsSpec => []AccountsInv
  <1>1. AccountsInit => AccountsInv
    BY AccountsStart
  <1>2. AccountsInv /\ [AccountsNext]_accountsVars => AccountsInv'
    <2> SUFFICES ASSUME AccountsInv, [AccountsNext]_accountsVars PROVE AccountsInv'
      OBVIOUS
    <2>1. ASSUME NEW r \in Request, Handle(r) PROVE AccountsInv'
      <3>1. CASE \/ \E n \in Name \cup AgentName, p \in Password : Authenticate(r, n, p)
                 \/ \E n \in Name \cup AgentName : GetToken(r, n)
                 \/ ProjectsAgentToken(r)
        <4>1. \/ \E i \in DOMAIN users, via \in {"login", "manager", "project"}, p \in Password \cup {NoPassword} :
                   /\ via = "login" => VerifyPassword(users[i], p)
                   /\ Read(r, via, i, p)
              \/ req' = [req EXCEPT ![r].pc = "refused"]
          BY <3>1 DEF Authenticate, GetToken, ProjectsAgentToken, LastAgentToken, AgentToken,
                      GetAgentProject, GetAgent, Agents, Named
        <4>2. req[r].pc = "none" /\ UNCHANGED <<users, created, drawn, acts, cmd, told>>
          BY <3>1 DEF Authenticate, GetToken, ProjectsAgentToken, LastAgentToken, AgentToken
        <4>. QED BY <4>1, <4>2, ReadKept
      <3>2. CASE Encode(r) \/ Lapse(r) \/ Refresh(r)
        BY <3>2, TokensKept
      <3>3. CASE \E need \in Needs, all \in BOOLEAN : Protected(r, need, all)
        BY <3>3, ProtectedKept
      <3>4. CASE \E n \in AgentName, l \in Lists : AgentCreate(r, n, l)
        BY <3>4, AgentCreateKept
      <3>. QED BY <2>1, <3>1, <3>2, <3>3, <3>4 DEF Handle
    <2>2. ASSUME NEW c \in Command, Users(c) PROVE AccountsInv'
      BY <2>2, GetUserKept, CommitKept DEF Users
    <2>3. CASE \/ \E n \in Name, p \in Password, l \in Lists, s \in BOOLEAN : UsersCreate(n, p, l, s)
               \/ \E n \in Name : AgentDelete(n)
               \/ ProjectAgentCommand
      BY <2>3, InsertKept, DeleteKept DEF ProjectAgentCommand
    <2>4. CASE UNCHANGED accountsVars
      <3>1. AccountsTypeOK'
        BY <2>4 DEF accountsVars, AccountsInv, AccountsTypeOK, Id
      <3>2. Shaped' /\ Unspoken' /\ Commanded'
        BY <2>4 DEF accountsVars, AccountsInv, Shaped, Unspoken, Commanded
      <3>3. Claims' /\ Reading' /\ CommandsStick' /\ StaleClaims'
        BY <2>4 DEF accountsVars, AccountsInv, Claims, Reading, CommandsStick, StaleClaims
      <3>. QED BY <3>1, <3>2, <3>3 DEF AccountsInv
    <2>. QED BY <2>1, <2>2, <2>3, <2>4 DEF AccountsNext
  <1>. QED BY <1>1, <1>2, PTL DEF AccountsSpec

(* TypeOK: ids are given once, and names are of one row. *)
THEOREM AccountsTyped == AccountsSpec => []AccountsTypeOK
  <1>1. AccountsInv => AccountsTypeOK
    BY DEF AccountsInv
  <1>. QED BY <1>1, AccountsInvariant, PTL

(* CommandsStick: users disable and users reset write at most the column they
   set, so that neither undoes what the other has told, however they cross; of
   two resets that cross, one that set the password it had read may be undone. *)
THEOREM WhatWasToldStays == AccountsSpec => []CommandsStick
  <1>1. AccountsInv => CommandsStick
    BY DEF AccountsInv
  <1>. QED BY <1>1, AccountsInvariant, PTL

(* StaleClaims: the claims of a token, which no refresh renews, are those of
   the row inject_user finds, or of one that was deleted before it. *)
THEOREM ClaimsAreOfTheRow == AccountsSpec => []StaleClaims
  <1>1. AccountsInv => StaleClaims
    BY DEF AccountsInv
  <1>. QED BY <1>1, AccountsInvariant, PTL

(* GrantReflectsRow: a login between whose read and whose tokens nothing was
   committed gets them for a row that accepts its password. *)
THEOREM GrantsReflectRows == AccountsSpec => GrantReflectsRow
  <1>1. AccountsInv =>
          \A r \in Request :
            req[r].pc = "read" /\ req'[r].pc = "granted" /\ req[r].via = "login" =>
              LET i == req[r].row IN
                \/ i \in DOMAIN users /\ users[i].active /\ users[i].pass = Encrypt(req[r].pass)
                \/ req[r].late # {}
    BY DEF AccountsInv, Reading
  <1>. QED BY <1>1, AccountsInvariant, PTL DEF GrantReflectsRow

-----------------------------------------------------------------------------
(* scopes.validate, for every list of scopes.  The library's induction
   theorems take an operator; its well-founded minimum takes a set. *)
IsList(l) == Len(l) \in Nat /\ DOMAIN l = 1..Len(l)

(* Induction on a set of numbers, from the well-foundedness of <. *)
LEMMA NatInductive ==
  ASSUME NEW S, 0 \in S, \A n \in Nat : n \in S => n + 1 \in S
  PROVE  \A n \in Nat : n \in S
  <1> DEFINE Below == {p \in Nat \X Nat : p[1] < p[2]}
             Out == {n \in Nat : n \notin S}
  <1>1. IsWellFoundedOn(Below, Nat)
    BY NatLessThanWellFounded DEF OpToRel
  <1>2. SUFFICES ASSUME Out # {} PROVE FALSE
    OBVIOUS
  <1>3. PICK x \in Out : \A y \in Out : <<y, x>> \notin Below
    <2> HIDE DEF Below
    <2>1. Out \subseteq Nat
      OBVIOUS
    <2> HIDE DEF Out
    <2>. QED BY <1>1, <1>2, <2>1, WFMin
  <1>4. x \in Nat /\ x # 0
    OBVIOUS
  <1>5. x - 1 \in Nat /\ x - 1 < x
    BY <1>4
  <1>6. x - 1 \notin Out
    BY <1>3, <1>4, <1>5
  <1>. QED BY <1>4, <1>5, <1>6

(* The loop is a function of how many scopes it has read. *)
LEMMA LoopDefined ==
  ASSUME NEW l, IsList(l)
  PROVE  Permissions(l) = [n \in 0..Len(l) |->
           IF n = 0 THEN <<>> ELSE Assign(Permissions(l)[n - 1], Namespace(l[n]), Actions(l[n]))]
  <1> DEFINE After(d, n) == Assign(d, Namespace(l[n]), Actions(l[n]))
             Loop(f, n) == f = [k \in 0..n |-> IF k = 0 THEN <<>> ELSE After(f[k - 1], k)]
             Done == {n \in Nat : \E f : Loop(f, n)}
  <1>1. 0 \in Done
    <2>1. Loop([k \in 0..0 |-> <<>>], 0)
      OBVIOUS
    <2>. QED BY <2>1
  <1>2. ASSUME NEW n \in Nat, n \in Done PROVE n + 1 \in Done
    <2>1. PICK f : Loop(f, n)
      BY <1>2
    <2> DEFINE g == [k \in 0..(n + 1) |-> IF k = n + 1 THEN After(f[n], n + 1) ELSE f[k]]
    <2>2. \A k \in 0..n : g[k] = f[k] /\ f[k] = IF k = 0 THEN <<>> ELSE After(f[k - 1], k)
      <3> HIDE DEF After
      <3>. QED BY <2>1
    <2>3. g[n + 1] = After(f[n], n + 1)
      OBVIOUS
    <2>4. \A k \in 0..(n + 1) : g[k] = IF k = 0 THEN <<>> ELSE After(g[k - 1], k)
      <3> HIDE DEF After, g
      <3>1. \A k \in 1..(n + 1) : k - 1 \in 0..n
        OBVIOUS
      <3>. QED BY <2>2, <2>3, <3>1
    <2>5. g = [k \in 0..(n + 1) |-> g[k]]
      <3> HIDE DEF After
      <3>. QED OBVIOUS
    <2>6. Loop(g, n + 1)
      <3> HIDE DEF After, g
      <3>. QED BY <2>4, <2>5
    <2> HIDE DEF After, g, Loop
    <2>. QED BY <2>6
  <1>3. Len(l) \in Nat
    BY DEF IsList
  <1>4. \E f : Loop(f, Len(l))
    <2> HIDE DEF Loop
    <2>1. Len(l) \in Done
      <3> HIDE DEF Done
      <3>. QED BY <1>1, <1>2, <1>3, NatInductive
    <2>. QED BY <2>1
  <1>5. Permissions(l) = CHOOSE f : Loop(f, Len(l))
    BY DEF Permissions
  <1>6. Loop(Permissions(l), Len(l))
    <2> HIDE DEF Loop
    <2>. QED BY <1>4, <1>5
  <1>. QED BY <1>6

(* What the loop keeps of the n scopes it has read: their namespaces, and of
   each the actions of the last of them. *)
LEMMA LoopKeepsLast ==
  ASSUME NEW l, IsList(l)
  PROVE  \A n \in 0..Len(l) : LET d == Permissions(l)[n] IN
           /\ IsFiniteSet(DOMAIN d)
           /\ \A m : m \in DOMAIN d <=> \E i \in 1..n : m = Namespace(l[i])
           /\ \A m \in DOMAIN d : \E i \in 1..n :
                /\ m = Namespace(l[i]) /\ d[m] = Actions(l[i])
                /\ \A j \in (i + 1)..n : Namespace(l[j]) # m
  <1> DEFINE d(n) == Permissions(l)[n]
             Keeps(n) == /\ IsFiniteSet(DOMAIN d(n))
                         /\ \A m : m \in DOMAIN d(n) <=> \E i \in 1..n : m = Namespace(l[i])
                         /\ \A m \in DOMAIN d(n) : \E i \in 1..n :
                              /\ m = Namespace(l[i]) /\ d(n)[m] = Actions(l[i])
                              /\ \A j \in (i + 1)..n : Namespace(l[j]) # m
             Kept == {n \in Nat : n \in 0..Len(l) => Keeps(n)}
  <1>1. 0 \in Kept
    <2>1. d(0) = <<>>
      <3> DEFINE F(n) == IF n = 0 THEN <<>> ELSE Assign(Permissions(l)[n - 1], Namespace(l[n]), Actions(l[n]))
      <3>1. Permissions(l) = [n \in 0..Len(l) |-> F(n)]
        BY LoopDefined
      <3>2. 0 \in 0..Len(l) /\ F(0) = <<>>
        BY DEF IsList
      <3> HIDE DEF F
      <3>. QED BY <3>1, <3>2
    <2>2. DOMAIN d(0) = {} /\ IsFiniteSet(DOMAIN d(0))
      BY <2>1, FS_EmptySet
    <2>3. Keeps(0)
      <3> HIDE DEF d
      <3>1. 1..0 = {}
        OBVIOUS
      <3>. QED BY <2>2, <3>1
    <2> HIDE DEF Keeps
    <2>. QED BY <2>3
  <1>2. ASSUME NEW n \in Nat, n \in Kept PROVE n + 1 \in Kept
    <2>1. SUFFICES ASSUME n + 1 \in 0..Len(l) PROVE Keeps(n + 1)
      OBVIOUS
    <2>2. Keeps(n)
      <3>1. n \in 0..Len(l)
        BY <2>1 DEF IsList
      <3>. QED BY <1>2, <3>1
    <2> DEFINE ns == Namespace(l[n + 1])
               as == Actions(l[n + 1])
    <2>3. d(n + 1) = Assign(d(n), ns, as)
      <3> DEFINE F(k) == IF k = 0 THEN <<>> ELSE Assign(Permissions(l)[k - 1], Namespace(l[k]), Actions(l[k]))
      <3>1. Permissions(l) = [k \in 0..Len(l) |-> F(k)]
        BY LoopDefined
      <3>2. F(n + 1) = Assign(d(n), ns, as)
        OBVIOUS
      <3> HIDE DEF F
      <3>. QED BY <2>1, <3>1, <3>2
    <2> HIDE DEF d
    <2>4. DOMAIN d(n + 1) = DOMAIN d(n) \cup {ns}
      BY <2>3 DEF Assign
    <2>5. d(n + 1)[ns] = as /\ \A m \in DOMAIN d(n) \ {ns} : d(n + 1)[m] = d(n)[m]
      BY <2>3 DEF Assign
    <2>6. IsFiniteSet(DOMAIN d(n + 1))
      BY <2>2, <2>4, FS_AddElement
    <2>7. \A m : m \in DOMAIN d(n + 1) <=> \E i \in 1..(n + 1) : m = Namespace(l[i])
      <3>1. \A i : i \in 1..(n + 1) <=> i \in 1..n \/ i = n + 1
        OBVIOUS
      <3>. QED BY <2>2, <2>4, <3>1
    <2>8. ASSUME NEW m \in DOMAIN d(n + 1)
          PROVE  \E i \in 1..(n + 1) : /\ m = Namespace(l[i]) /\ d(n + 1)[m] = Actions(l[i])
                                       /\ \A j \in (i + 1)..(n + 1) : Namespace(l[j]) # m
      <3>1. CASE m = ns
        <4>1. n + 1 \in 1..(n + 1) /\ \A j \in (n + 1 + 1)..(n + 1) : FALSE
          OBVIOUS
        <4>. QED BY <2>5, <3>1, <4>1
      <3>2. CASE m # ns
        <4>1. m \in DOMAIN d(n) /\ d(n + 1)[m] = d(n)[m]
          BY <2>4, <2>5, <3>2
        <4>2. PICK i \in 1..n : /\ m = Namespace(l[i]) /\ d(n)[m] = Actions(l[i])
                                /\ \A j \in (i + 1)..n : Namespace(l[j]) # m
          BY <2>2, <4>1
        <4>3. i \in 1..(n + 1) /\ \A j \in (i + 1)..(n + 1) : j \in (i + 1)..n \/ j = n + 1
          OBVIOUS
        <4>. QED BY <3>2, <4>1, <4>2, <4>3
      <3>. QED BY <3>1, <3>2
    <2>. QED BY <2>6, <2>7, <2>8
  <1>3. \A n \in Nat : n \in Kept
    <2> HIDE DEF Kept
    <2>. QED BY <1>1, <1>2, NatInductive
  <1>. QED BY <1>3

(* The dictionary of a list. *)
LEMMA DictOfList ==
  ASSUME NEW l, IsList(l)
  PROVE  /\ IsFiniteSet(DOMAIN Scope2dict(l))
         /\ \A m : m \in DOMAIN Scope2dict(l) <=> \E i \in DOMAIN l : m = Namespace(l[i])
         /\ \A m \in DOMAIN Scope2dict(l) : \E i \in DOMAIN l :
              LastOf(l, i) /\ m = Namespace(l[i]) /\ Scope2dict(l)[m] = Actions(l[i])
         /\ \A i \in DOMAIN l : LastOf(l, i) => Scope2dict(l)[Namespace(l[i])] = Actions(l[i])
  <1>1. Len(l) \in 0..Len(l) /\ DOMAIN l = 1..Len(l) /\ Len(l) \in Nat
    BY DEF IsList
  <1> DEFINE D == Scope2dict(l)
  <1>2. /\ IsFiniteSet(DOMAIN D)
        /\ \A m : m \in DOMAIN D <=> \E i \in 1..Len(l) : m = Namespace(l[i])
        /\ \A m \in DOMAIN D : \E i \in 1..Len(l) :
             /\ m = Namespace(l[i]) /\ D[m] = Actions(l[i])
             /\ \A j \in (i + 1)..Len(l) : Namespace(l[j]) # m
    BY <1>1, LoopKeepsLast DEF Scope2dict
  <1> HIDE DEF D
  <1>3. \A m \in DOMAIN D : \E i \in DOMAIN l :
          LastOf(l, i) /\ m = Namespace(l[i]) /\ D[m] = Actions(l[i])
    BY <1>1, <1>2 DEF LastOf
  <1>4. ASSUME NEW i \in DOMAIN l, LastOf(l, i) PROVE D[Namespace(l[i])] = Actions(l[i])
    <2>1. PICK k \in DOMAIN l :
            LastOf(l, k) /\ Namespace(l[i]) = Namespace(l[k]) /\ D[Namespace(l[i])] = Actions(l[k])
      BY <1>1, <1>2, <1>3
    <2>2. i = k
      <3>1. i < k => k \in (i + 1)..Len(l)
        BY <1>1
      <3>2. k < i => i \in (k + 1)..Len(l)
        BY <1>1
      <3>3. i < k \/ k < i \/ i = k
        BY <1>1
      <3>. QED BY <1>4, <2>1, <3>1, <3>2, <3>3 DEF LastOf
    <2>. QED BY <2>1, <2>2
  <1>. QED BY <1>1, <1>2, <1>3, <1>4 DEF D

(* validate does what its lists say. *)
LEMMA ValidateAllows ==
  ASSUME NEW need, IsList(need), NEW have, IsList(have), NEW all \in BOOLEAN
  PROVE  Validate(need, have, all) <=> Allowed(need, have, all)
  <1> DEFINE required == Scope2dict(need)
             perms == Scope2dict(have)
             shared == DOMAIN required \cap DOMAIN perms
  <1>1. Cardinality(DOMAIN required) = Cardinality(shared) <=> DOMAIN required \subseteq DOMAIN perms
    <2>1. IsFiniteSet(DOMAIN required)
      BY DictOfList
    <2> HIDE DEF required, perms
    <2>2. shared \subseteq DOMAIN required
      OBVIOUS
    <2>3. Cardinality(DOMAIN required) = Cardinality(shared) => shared = DOMAIN required
      BY <2>1, <2>2, FS_Subset
    <2>. QED BY <2>3
  <1>2. DOMAIN required \subseteq DOMAIN perms <=>
          \A i \in DOMAIN need : \E j \in DOMAIN have : Namespace(need[i]) = Namespace(have[j])
    <2>1. /\ \A m : m \in DOMAIN required <=> \E i \in DOMAIN need : m = Namespace(need[i])
          /\ \A m : m \in DOMAIN perms <=> \E i \in DOMAIN have : m = Namespace(have[i])
      BY DictOfList
    <2> HIDE DEF required, perms
    <2>. QED BY <2>1
  <1>3. "any" \in DOMAIN required <=> \E i \in DOMAIN need : Namespace(need[i]) = "any"
    BY DictOfList
  <1>4. (\E n \in shared : required[n] \cap perms[n] # {} \/ "any" \in required[n]) <=>
        \E i \in DOMAIN need, j \in DOMAIN have :
          LastOf(need, i) /\ LastOf(have, j) /\ Meets(need[i], have[j])
    <2>1. /\ \A m \in DOMAIN required : \E i \in DOMAIN need :
               LastOf(need, i) /\ m = Namespace(need[i]) /\ required[m] = Actions(need[i])
          /\ \A i \in DOMAIN need : /\ Namespace(need[i]) \in DOMAIN required
                                    /\ LastOf(need, i) => required[Namespace(need[i])] = Actions(need[i])
      BY DictOfList
    <2>2. /\ \A m \in DOMAIN perms : \E i \in DOMAIN have :
               LastOf(have, i) /\ m = Namespace(have[i]) /\ perms[m] = Actions(have[i])
          /\ \A i \in DOMAIN have : /\ Namespace(have[i]) \in DOMAIN perms
                                    /\ LastOf(have, i) => perms[Namespace(have[i])] = Actions(have[i])
      BY DictOfList
    <2> HIDE DEF required, perms
    <2>3. ASSUME NEW n \in shared, required[n] \cap perms[n] # {} \/ "any" \in required[n]
          PROVE  \E i \in DOMAIN need, j \in DOMAIN have :
                   LastOf(need, i) /\ LastOf(have, j) /\ Meets(need[i], have[j])
      <3>1. PICK i \in DOMAIN need : LastOf(need, i) /\ n = Namespace(need[i]) /\ required[n] = Actions(need[i])
        BY <2>1
      <3>2. PICK j \in DOMAIN have : LastOf(have, j) /\ n = Namespace(have[j]) /\ perms[n] = Actions(have[j])
        BY <2>2
      <3>3. Meets(need[i], have[j])
        BY <2>3, <3>1, <3>2 DEF Meets
      <3>. QED BY <3>1, <3>2, <3>3
    <2>4. ASSUME NEW i \in DOMAIN need, NEW j \in DOMAIN have,
                 LastOf(need, i), LastOf(have, j), Meets(need[i], have[j])
          PROVE  \E n \in shared : required[n] \cap perms[n] # {} \/ "any" \in required[n]
      <3> DEFINE n == Namespace(need[i])
      <3>1. n \in shared /\ required[n] = Actions(need[i]) /\ perms[n] = Actions(have[j])
        BY <2>1, <2>2, <2>4 DEF Meets
      <3>2. required[n] \cap perms[n] # {} \/ "any" \in required[n]
        BY <2>4, <3>1 DEF Meets
      <3>. QED BY <3>1, <3>2
    <2>. QED BY <2>3, <2>4
  <1>5. Validate(need, have, all) <=>
          /\ ~(/\ all /\ Cardinality(DOMAIN required) # Cardinality(shared) /\ "any" \notin DOMAIN required)
          /\ \E n \in shared : required[n] \cap perms[n] # {} \/ "any" \in required[n]
    BY DEF Validate
  <1> HIDE DEF required, perms, shared
  <1>. QED BY <1>1, <1>2, <1>3, <1>4, <1>5 DEF Allowed

(* ValidateIsAllowed: whatever lists the rows were given and the handlers
   require, validate lets a session in exactly when Allowed says so. *)
THEOREM ValidateComparesScopes == AccountsSpec => []ValidateIsAllowed
  <1>1. AccountsInv => ValidateIsAllowed
    <2> SUFFICES ASSUME AccountsInv, NEW r \in Request, NEW need \in Needs, NEW all \in BOOLEAN
                 PROVE  Validate(need, req[r].scopes, all) <=> Allowed(need, req[r].scopes, all)
      BY DEF ValidateIsAllowed
    <2>1. req[r].scopes \in Scopes
      BY DEF AccountsInv, Shaped, Asking
    <2>2. ASSUME NEW l \in Seq([ns : STRING, acts : SUBSET STRING]) PROVE IsList(l)
      BY DEF IsList
    <2>3. ASSUME NEW l \in Seq([ns : STRING, acts : SUBSET STRING]) PROVE IsList(Append(l, Admin))
      BY DEF IsList
    <2>4. \A l \in Lists : IsList(l) /\ IsList(Granted(l, TRUE))
      BY AccountsAssumption, <2>2, <2>3 DEF Granted
    <2>5. IsList(need) /\ IsList(<<>>)
      BY AccountsAssumption, <2>2 DEF IsList
    <2>6. IsList(req[r].scopes)
      BY <2>1, <2>4, <2>5 DEF Scopes
    <2>. QED BY <2>5, <2>6, ValidateAllows
  <1>. QED BY <1>1, AccountsInvariant, PTL
=============================================================================
