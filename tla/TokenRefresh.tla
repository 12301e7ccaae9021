---------------------------- MODULE TokenRefresh ----------------------------
(***************************************************************************)
(* Sessions.  The server hands out pairs of an access token, which expires *)
(* by itself, and a refresh token, which is a key in Redis.  A client that *)
(* is answered 401 exchanges its refresh token for a new pair: the handler *)
(* looks the key up, deletes it and puts a new one, with an await in       *)
(* between each, and the client goes on with the new access token.         *)
(* Clients are processes; the pair they start with is saved in a file or   *)
(* in the environment, which many of them share.                           *)
(***************************************************************************)
EXTENDS Integers

CONSTANTS
  Token,     \* pairs: a random refresh token names the access token it came with
  Client,    \* client processes
  Home,      \* where pairs are saved
  Agent,     \* the homes that are an agent's environment: no one logs in there
  First,     \* First[h]: the pair the agent of h was created with
  Faults,    \* what may fail, a subset of {"server", "network"}
  NoToken, NoHome

ASSUME TokenAssumption ==
  /\ Agent \subseteq Home /\ Faults \subseteq {"server", "network"}
  /\ First \in [Agent -> Token]
  /\ \A g, h \in Agent : First[g] = First[h] => g = h
  /\ NoToken \notin Token /\ NoHome \notin Home

VARIABLES
  live,      \* the refresh tokens with a key in Redis
  expired,   \* the pairs whose access token has expired
  old,       \* the pairs issued longer than REFRESH_TOKEN_TTL ago
  saved,     \* saved[h]: the pair saved in h
  home,      \* home[c]: where client c took its pair from
  task,      \* task[c]: logincli or a command
  acc, ref,  \* acc[c], ref[c]: the two tokens its AuthFlow holds
  new,       \* new[c]: the pair the server has made for c and c has not seen
  pc,        \* pc[c]: where the client, or the handler that serves it, stands
  parent,    \* history: parent[t]: the token t was exchanged for
  spent,     \* history: spent[t]: the clients in whose name t was deleted
  raced,     \* history: tokens found valid by two handlers at a time
  issued     \* the pairs handed out so far

store   == <<live, old, issued>>
client  == <<home, task, acc, ref>>
history == <<parent, spent, raced>>
vars == <<store, expired, saved, client, new, pc, history>>

Handler == {"get", "delete", "put", "password"}
Ended   == {"served", "logged", "refused", "failed"}
PC      == {"none", "loaded", "answered", "resent", "prompt", "granted"} \cup Handler \cup Ended

TypeOK ==
  /\ live \in SUBSET issued /\ issued \in SUBSET Token
  /\ expired \in SUBSET issued /\ old \in SUBSET issued
  /\ saved \in [Home -> issued \cup {NoToken}]
  /\ home \in [Client -> Home \cup {NoHome}]
  /\ task \in [Client -> {"command", "login"}]
  /\ acc \in [Client -> issued \cup {NoToken}] /\ ref \in [Client -> issued \cup {NoToken}]
  /\ new \in [Client -> issued \cup {NoToken}]
  /\ pc \in [Client -> PC]
  /\ parent \in [Token -> issued \cup {NoToken}]
  /\ spent \in [Token -> SUBSET Client] /\ raced \in SUBSET issued

-----------------------------------------------------------------------------
(* Helpers.  A definition called Operator_Something right before Operator
   is a fault: the operator with one plausible mistake.  No specification
   uses it; it shows that a property can fail. *)

Goto(c, l) == pc' = [pc EXCEPT ![c] = l]

(* An answer 401 that is not refreshed away: logincli asks for the password,
   a command fails. *)
Refuse(c) == Goto(c, IF task[c] = "login" THEN "prompt" ELSE "refused")

(* The keys that RedisTokenStore.put gives a time to live: it takes the ttl of
   seven days that store_refresh_token configures and does not pass it on. *)
Timed == {}

(* store_refresh_token: a random token for c, or one that follows p. *)
Issue(c, p) ==
  \E t \in Token \ issued :
    /\ issued' = issued \cup {t} /\ live' = live \cup {t}
    /\ new' = [new EXCEPT ![c] = t]
    /\ parent' = [parent EXCEPT ![t] = p]

-----------------------------------------------------------------------------
Init ==
  /\ issued = {First[h] : h \in Agent} /\ live = issued
  /\ expired = {} /\ old = {}
  /\ saved = [h \in Home |-> IF h \in Agent THEN First[h] ELSE NoToken]
  /\ home = [c \in Client |-> NoHome]
  /\ task = [c \in Client |-> "command"]
  /\ acc = [c \in Client |-> NoToken] /\ ref = [c \in Client |-> NoToken]
  /\ new = [c \in Client |-> NoToken]
  /\ pc = [c \in Client |-> "none"]
  /\ parent = [t \in Token |-> NoToken]
  /\ spent = [t \in Token |-> {}] /\ raced = {}

(* Time passes for an access token, and for a key in Redis. *)
Expire(t) ==
  /\ t \in issued \ expired /\ expired' = expired \cup {t}
  /\ UNCHANGED <<store, saved, client, new, pc, history>>

Age(t) ==
  /\ t \in issued \ old /\ old' = old \cup {t}
  /\ live' = live \ ({t} \cap Timed)
  /\ UNCHANGED <<issued, expired, saved, client, new, pc, history>>

(* A process starts: load_creds, or logincli, which asks for a password when
   nothing is saved. *)
Open(c, h) ==
  /\ pc[c] = "none"
  /\ home' = [home EXCEPT ![c] = h]
  /\ acc' = [acc EXCEPT ![c] = saved[h]] /\ ref' = [ref EXCEPT ![c] = saved[h]]
  /\ \/ saved[h] # NoToken /\ Goto(c, "loaded") /\ UNCHANGED task
     \/ /\ h \notin Agent /\ task' = [task EXCEPT ![c] = "login"]
        /\ Goto(c, IF saved[h] = NoToken THEN "prompt" ELSE "loaded")
  /\ UNCHANGED <<store, expired, saved, new, history>>

(* AuthFlow sends a request, the server validates its access token; a 401 is
   answered by a request to refresh, and after that by nothing. *)
Send(c) ==
  /\ pc[c] \in {"loaded", "resent"}
  /\ \/ acc[c] \notin expired /\ Goto(c, IF task[c] = "login" THEN "logged" ELSE "served")
     \/ acc[c] \in expired /\ pc[c] = "loaded" /\ Goto(c, "get")
     \/ acc[c] \in expired /\ pc[c] = "resent" /\ Refuse(c)
  /\ UNCHANGED <<store, expired, saved, client, new, history>>

(* A client that was served asks for something else. *)
Again(c) ==
  /\ pc[c] = "served" /\ Goto(c, "loaded")
  /\ UNCHANGED <<store, expired, saved, client, new, history>>

-----------------------------------------------------------------------------
(* Auth.refresh_token on the server. *)

(* Handlers that have found t valid and not yet deleted it. *)
Holding(t) == {c \in Client : pc[c] = "delete" /\ ref[c] = t}

Get_Accepts(c) ==
  /\ pc[c] = "get" /\ Goto(c, "delete")
  /\ raced' = IF Holding(ref[c]) # {} THEN raced \cup {ref[c]} ELSE raced
  /\ UNCHANGED <<store, expired, saved, client, new, parent, spent>>
Get(c) ==
  /\ pc[c] = "get"
  /\ IF ref[c] \in live
       THEN /\ Goto(c, "delete")
            /\ raced' = IF Holding(ref[c]) # {} THEN raced \cup {ref[c]} ELSE raced
       ELSE Refuse(c) /\ UNCHANGED raced
  /\ UNCHANGED <<store, expired, saved, client, new, parent, spent>>

Delete_AllOfUser(c) ==
  /\ pc[c] = "delete" /\ Goto(c, "put")
  /\ live' = {}
  /\ spent' = [spent EXCEPT ![ref[c]] = @ \cup {c}]
  /\ UNCHANGED <<old, issued, expired, saved, client, new, parent, raced>>
Delete(c) ==
  /\ pc[c] = "delete" /\ Goto(c, "put")
  /\ live' = live \ {ref[c]}
  /\ spent' = [spent EXCEPT ![ref[c]] = @ \cup {c}]
  /\ UNCHANGED <<old, issued, expired, saved, client, new, parent, raced>>

Put_NotStored(c) ==
  /\ pc[c] = "put" /\ Goto(c, "answered")
  /\ \E t \in Token \ issued :
       /\ issued' = issued \cup {t} /\ new' = [new EXCEPT ![c] = t]
       /\ parent' = [parent EXCEPT ![t] = ref[c]]
  /\ UNCHANGED <<live, old, expired, saved, client, spent, raced>>
Put(c) ==
  /\ pc[c] = "put" /\ Goto(c, "answered")
  /\ Issue(c, ref[c])
  /\ UNCHANGED <<old, expired, saved, client, spent, raced>>

(* update_tokens: the client takes the access token of the answer. *)
Update(c) ==
  /\ pc[c] = "answered" /\ Goto(c, "resent")
  /\ acc' = [acc EXCEPT ![c] = new[c]]
  /\ UNCHANGED <<store, expired, saved, home, task, ref, new, history>>

(* The login handler, and the client that saves its answer. *)
Prompt(c) ==
  /\ pc[c] = "prompt" /\ Goto(c, "password")
  /\ UNCHANGED <<store, expired, saved, client, new, history>>

Login(c) ==
  /\ pc[c] = "password"
  /\ \/ Goto(c, "granted") /\ Issue(c, NoToken) /\ UNCHANGED <<old, spent, raced>>
     \/ Goto(c, "failed") /\ UNCHANGED <<store, new, history>>
  /\ UNCHANGED <<expired, saved, client>>

Save(c) ==
  /\ pc[c] = "granted" /\ Goto(c, "logged")
  /\ acc' = [acc EXCEPT ![c] = new[c]] /\ ref' = [ref EXCEPT ![c] = new[c]]
  /\ saved' = [saved EXCEPT ![home[c]] = new[c]]
  /\ UNCHANGED <<store, expired, home, task, new, history>>

(* A handler raises or dies wherever it stands; an answer is lost. *)
Fail(c) ==
  /\ \/ "server" \in Faults /\ pc[c] \in Handler
     \/ "network" \in Faults /\ pc[c] \in {"answered", "granted"} \cup Handler
  /\ \/ Goto(c, "failed")
     \/ "server" \in Faults /\ task[c] = "login" /\ pc[c] \in {"get", "delete", "put"}
        /\ Goto(c, "prompt")
  /\ UNCHANGED <<store, expired, saved, client, new, history>>

-----------------------------------------------------------------------------
Step(c) == \/ Send(c) \/ Get(c) \/ Delete(c) \/ Put(c) \/ Update(c)
           \/ Prompt(c) \/ Login(c) \/ Save(c)

Next == \/ \E c \in Client : Step(c) \/ Again(c) \/ Fail(c) \/ \E h \in Home : Open(c, h)
        \/ \E t \in Token : Expire(t) \/ Age(t)

Spec == Init /\ [][Next]_vars

-----------------------------------------------------------------------------
(* Properties. *)

(* A token that has been replaced is dead: at no time do both the token and
   the one it was exchanged for open a session. *)
ReplacedIsDead == \A t \in issued : parent[t] # NoToken => parent[t] \notin live

(* A token is exchanged once, unless two handlers had found it valid before
   either deleted it. *)
ForkNeedsRace ==
  \A s, t \in issued : s # t /\ parent[s] = parent[t] /\ parent[s] # NoToken =>
    parent[s] \in raced

(* Before their time to live is over keys vanish from the store only by an
   exchange, and all who exchanged one took their pair from the same home: no
   session ends another's. *)
OnlySharersSpend ==
  /\ \A t \in issued \ live : spent[t] # {} \/ t \in old
  /\ \A c, d \in Client, t \in issued :
       c \in spent[t] /\ d \in spent[t] => home[c] = home[d]

(* A session is handed on, not lost: a spent token has a successor in the
   store, or one that is spent in its turn, unless its handler is about to
   put one, or has failed and left its client to give up or log in anew. *)
LeftAlone == {"failed", "prompt", "password", "granted", "logged"}
SpentIsReplaced ==
  \A t \in issued : \A c \in spent[t] :
    \/ pc[c] = "put" /\ ref[c] = t
    \/ Faults # {} /\ pc[c] \in LeftAlone
    \/ \E s \in issued : parent[s] = t /\ (s \in live \/ spent[s] # {})

(* The get, the delete and the put of the handlers together are an exchange
   of Sessions, which is one step: it ends with the put, and a token whose
   key is deleted stays open as long as a handler is about to replace it. *)
Exchanged == {ref[c] : c \in {d \in Client : pc[d] \in {"delete", "put"}}}
Usable    == live \cup {t \in Exchanged : \A s \in issued : parent[s] # t}
Ledger == INSTANCE Sessions WITH
            open <- Usable, begun <- Exchanged, contested <- raced, from <- parent,
            Lossy <- Faults # {}
ImplementsSessions == Ledger!Spec

=============================================================================
