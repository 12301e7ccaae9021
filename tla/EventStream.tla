----------------------------- MODULE EventStream -----------------------------
(***************************************************************************)
(* The events of one execution: a redis stream that publishers append to,  *)
(* the server's listeners that read it in blocking batches and send it on, *)
(* and the clients that read what they send until they see an end.         *)
(***************************************************************************)
EXTENDS Integers, Sequences, FiniteSets

CONSTANTS
  Listener, \* requests to listen
  Word,     \* what a line may hold
  Data,     \* what may be published: sequences of lines
  Kind,     \* kinds of events; "" stands for none as well
  MaxLog,   \* a bound on the events published
  StreamFaults, \* subset of {"broken", "expiry"}
  Newest,   \* "$", the position of a listener that names none
  NoData

(* A line of a text: whether it begins with "data:", whether there are blanks
   around it, and the rest. *)
Lines == [tag : {"", "data"}, pad : BOOLEAN, text : Word]

ASSUME StreamAssumption ==
  /\ MaxLog \in Nat /\ StreamFaults \subseteq {"broken", "expiry"} /\ Newest \notin Int

ASSUME TextAssumption ==
  /\ Data \subseteq Seq(Lines) \ {<<>>} /\ NoData \notin Lines /\ "" \in Word

VARIABLES
  log,      \* every event published, in order: an event's id is its place
  dead,     \* how many of them have expired with the stream
  pc,       \* pc[l]: where the server's handler stands
  last,     \* last[l]: the position its next read starts after
  start,    \* start[l]: the position its first read started after
  batch,    \* batch[l]: the ids its read returned and it has not sent
  keep,     \* keep[l]: whether it reads again
  conn,     \* conn[l]: the ids on their way to the client
  seen,     \* seen[l]: what the client has yielded: ids with the data it saw
  client,   \* client[l]: whether the client reads, and why it ended
  holes     \* the listeners that lost events to the expiry of the stream

streamVars == <<log, dead, pc, last, start, batch, keep, conn, seen, client, holes>>

Event    == [kind : Kind, data : Data]
Position == 0..MaxLog
Ids      == Seq(1..MaxLog)

-----------------------------------------------------------------------------
(* Helpers.  A definition called Operator_Something right before Operator is
   a fault: the operator with one plausible mistake. *)

Between(a, b) == [k \in 1..(b - a) |-> a + k]
Greater(a, b)   == IF a > b THEN a ELSE b

Line(t) == [tag |-> "", pad |-> FALSE, text |-> t]
EndText == Line("exit")
Blank == Line("")

(* What ends the server's loop: the text as it was published. *)
IsExit(e) == e.kind = "control" /\ e.data = <<EndText>>

(* One more line for events_listen.  A blank one after others cuts the message
   there: from_sse2event finds the last of the lines so far that begin with
   "data:", and without one there is no event.  Right after a cut a blank line
   is only kept. *)
Cut(s) ==
  IF s.data = EndText THEN [s EXCEPT !.end = "told"]
  ELSE IF s.data = NoData THEN [s EXCEPT !.end = "failed"]
  ELSE [s EXCEPT !.shown = Append(@, s.data), !.data = NoData, !.kept = FALSE]
Take(s, line) ==
  IF s.end # "on" THEN s
  ELSE IF line = Blank /\ s.kept THEN Cut(s)
  ELSE [s EXCEPT !.kept = TRUE, !.data = IF line.tag = "data" THEN Line(line.text) ELSE @]

(* What the client makes of a text: format_sse puts "data:" before its first
   line alone, and a blank line after its last. *)
FirstLine(d) == [shown |-> <<>>, data |-> [d[1] EXCEPT !.pad = FALSE], kept |-> TRUE, end |-> "on"]
After(d) ==
  LET after[k \in 0..Len(d)] ==
        IF k = 0 THEN FirstLine(d)
        ELSE Take(after[k - 1], IF k = Len(d) THEN Blank ELSE d[k + 1])
  IN  after
Parsed(d) == After(d)[Len(d)]

StreamTypeOK ==
  /\ log \in Seq(Event) /\ Len(log) <= MaxLog /\ dead \in 0..Len(log)
  /\ pc \in [Listener -> {"off", "call", "read", "send", "eof"}]
  /\ last \in [Listener -> Position \cup {Newest}] /\ start \in [Listener -> Position \cup {Newest}]
  /\ batch \in [Listener -> Ids] /\ keep \in [Listener -> BOOLEAN]
  /\ conn \in [Listener -> Ids] /\ holes \subseteq Listener
  /\ seen \in [Listener -> Seq([id : 1..MaxLog, data : {Parsed(d).shown : d \in Data}])]
  /\ client \in [Listener -> {"off", "on", "told", "eof", "failed", "broken"}]

StreamInit ==
  /\ log = <<>> /\ dead = 0
  /\ pc = [l \in Listener |-> "off"] /\ last = [l \in Listener |-> Newest]
  /\ start = [l \in Listener |-> Newest] /\ batch = [l \in Listener |-> <<>>]
  /\ keep = [l \in Listener |-> TRUE] /\ conn = [l \in Listener |-> <<>>]
  /\ seen = [l \in Listener |-> <<>>] /\ client = [l \in Listener |-> "off"] /\ holes = {}

(* events_publish of the client does not send an empty text. *)
Published(d) == d # <<Blank>>

(* event_publish; an event without a kind is stored with the empty one. *)
Publish(e) ==
  /\ Len(log) < MaxLog /\ Published(e.data) /\ log' = Append(log, e)
  /\ UNCHANGED <<dead, pc, last, start, batch, keep, conn, seen, client, holes>>

(* The stream expires as a whole an hour after its last event. *)
Expire ==
  /\ "expiry" \in StreamFaults /\ dead < Len(log) /\ dead' = Len(log)
  /\ UNCHANGED <<log, pc, last, start, batch, keep, conn, seen, client, holes>>

-----------------------------------------------------------------------------
(* event_listen.  The watcher never names a position; a client may name the
   last event it knows. *)
Listen(l, from) ==
  /\ pc[l] = "off" /\ from \in {Newest} \cup 0..Len(log)
  /\ pc' = [pc EXCEPT ![l] = "call"] /\ last' = [last EXCEPT ![l] = from]
  /\ client' = [client EXCEPT ![l] = "on"]
  /\ UNCHANGED <<log, dead, start, batch, keep, conn, seen, holes>>

(* EventManager.read asks for what comes after a position: "$" is the end
   of the stream at the moment of the call. *)
Call_FromEnd(l) ==
  /\ pc[l] = "call" /\ pc' = [pc EXCEPT ![l] = "read"] /\ last' = [last EXCEPT ![l] = Len(log)]
  /\ start' = [start EXCEPT ![l] = IF @ = Newest THEN Len(log) ELSE @]
  /\ UNCHANGED <<log, dead, batch, keep, conn, seen, client, holes>>
Call(l) ==
  LET p == IF last[l] = Newest THEN Len(log) ELSE last[l] IN
  /\ pc[l] = "call" /\ pc' = [pc EXCEPT ![l] = "read"] /\ last' = [last EXCEPT ![l] = p]
  /\ start' = [start EXCEPT ![l] = IF @ = Newest THEN p ELSE @]
  /\ UNCHANGED <<log, dead, batch, keep, conn, seen, client, holes>>

(* It returns everything there is, as soon as there is something. *)
ReadReturns(l) ==
  LET p == Greater(last[l], dead) IN
  /\ pc[l] = "read" /\ p < Len(log) /\ pc' = [pc EXCEPT ![l] = "send"]
  /\ batch' = [batch EXCEPT ![l] = Between(p, Len(log))]
  /\ holes' = IF dead > last[l] THEN holes \cup {l} ELSE holes
  /\ UNCHANGED <<log, dead, last, start, keep, conn, seen, client>>

(* Fifteen seconds without an event end the listener. *)
Quiet_Never(l) == pc[l] = "read" /\ FALSE /\ UNCHANGED streamVars
Quiet(l) ==
  /\ pc[l] = "read" /\ Greater(last[l], dead) = Len(log) /\ pc' = [pc EXCEPT ![l] = "eof"]
  /\ UNCHANGED <<log, dead, last, start, batch, keep, conn, seen, client, holes>>

(* Each event is sent on; an exit lets the rest of its batch pass. *)
Send_Stays(l) ==
  /\ pc[l] = "send" /\ batch[l] # <<>> /\ client[l] = "on"
  /\ conn' = [conn EXCEPT ![l] = Append(@, Head(batch[l]))]
  /\ batch' = [batch EXCEPT ![l] = Tail(@)]
  /\ keep' = [keep EXCEPT ![l] = @ /\ ~IsExit(log[Head(batch[l])])]
  /\ UNCHANGED <<log, dead, pc, last, start, seen, client, holes>>
Send(l) ==
  /\ pc[l] = "send" /\ batch[l] # <<>> /\ client[l] = "on"
  /\ conn' = [conn EXCEPT ![l] = Append(@, Head(batch[l]))]
  /\ batch' = [batch EXCEPT ![l] = Tail(@)]
  /\ keep' = [keep EXCEPT ![l] = @ /\ ~IsExit(log[Head(batch[l])])]
  /\ last' = [last EXCEPT ![l] = Head(batch[l])]
  /\ UNCHANGED <<log, dead, pc, start, seen, client, holes>>

(* Sending to a client that has gone ends the handler. *)
SendFails(l) ==
  /\ pc[l] = "send" /\ batch[l] # <<>> /\ client[l] # "on"
  /\ pc' = [pc EXCEPT ![l] = "eof"] /\ batch' = [batch EXCEPT ![l] = <<>>]
  /\ UNCHANGED <<log, dead, last, start, keep, conn, seen, client, holes>>

Loop(l) ==
  /\ pc[l] = "send" /\ batch[l] = <<>>
  /\ pc' = [pc EXCEPT ![l] = IF keep[l] THEN "call" ELSE "eof"]
  /\ UNCHANGED <<log, dead, last, start, batch, keep, conn, seen, client, holes>>

-----------------------------------------------------------------------------
(* events_listen of the client: what it parses is yielded; data that reads exit
   ends it, whatever the kind of the event, and is not. *)
Receive(l) ==
  LET i == Head(conn[l])  p == Parsed(log[i].data) IN
  /\ client[l] = "on" /\ conn[l] # <<>> /\ conn' = [conn EXCEPT ![l] = Tail(@)]
  /\ seen' = IF p.shown = <<>> THEN seen
             ELSE [seen EXCEPT ![l] = Append(@, [id |-> i, data |-> p.shown])]
  /\ client' = [client EXCEPT ![l] = p.end]
  /\ UNCHANGED <<log, dead, pc, last, start, batch, keep, holes>>

Closed(l) ==
  /\ client[l] = "on" /\ conn[l] = <<>> /\ pc[l] = "eof"
  /\ client' = [client EXCEPT ![l] = "eof"]
  /\ UNCHANGED <<log, dead, pc, last, start, batch, keep, conn, seen, holes>>

(* The connection breaks: what was on its way is lost. *)
Break(l) ==
  /\ "broken" \in StreamFaults /\ client[l] = "on"
  /\ client' = [client EXCEPT ![l] = "broken"] /\ conn' = [conn EXCEPT ![l] = <<>>]
  /\ UNCHANGED <<log, dead, pc, last, start, batch, keep, seen, holes>>

-----------------------------------------------------------------------------
EventListen(l) == Call(l) \/ ReadReturns(l) \/ Quiet(l) \/ Send(l) \/ SendFails(l) \/ Loop(l)
EventsListen(l) == Receive(l) \/ Closed(l)

StreamNext ==
  \/ \E e \in Event : Publish(e)
  \/ Expire
  \/ \E l \in Listener : EventListen(l) \/ EventsListen(l) \/ Break(l)
                           \/ \E from \in Position \cup {Newest} : Listen(l, from)

StreamSpec == StreamInit /\ [][StreamNext]_streamVars

(* The server's handlers and the clients go on; a read that waits returns. *)
StreamFairSpec ==
  StreamSpec /\ \A l \in Listener : WF_streamVars(EventListen(l)) /\ WF_streamVars(EventsListen(l))

-----------------------------------------------------------------------------
(* A client has seen the events after its listener's first read one by one,
   in order, without a gap and without a repetition: batches, later
   publications and blocking reads lose nothing.  Only the stream's expiry
   makes a gap. *)
NoGapNoRepeat ==
  \A l \in Listener :
    /\ \A j, k \in 1..Len(seen[l]) : j < k => seen[l][j].id < seen[l][k].id
    /\ l \notin holes => \A k \in 1..Len(seen[l]) : seen[l][k].id = start[l] + k

(* Handler, connection and client together are the feed that listening to an
   execution promises (EventFeed): a batch read while others were published, a
   blocking read from a position and an expiry between two reads show each event
   that is left, once, in order and as what its own text lets through, and nothing
   after the end. *)
Feed == INSTANCE EventFeed WITH
  events <- log, gone <- dead, base <- start, shown <- seen,
  open <- {l \in Listener : client[l] \in {"off", "on"}},
  Shown <- [e \in Event |-> Parsed(e.data).shown], Last <- {e \in Event : Parsed(e.data).end # "on"}
ImplementsFeed == Feed!Spec

(* Every listener ends, and its client with it. *)
ListenersEnd == \A l \in Listener : pc[l] # "off" ~> pc[l] = "eof" /\ client[l] # "on"
=============================================================================
