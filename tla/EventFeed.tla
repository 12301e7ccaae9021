------------------------------ MODULE EventFeed ------------------------------
(***************************************************************************)
(* What listening to an execution promises: from the position it starts    *)
(* at, a listener is shown every event published, one by one and in order, *)
(* as what the event's own text lets through, until it ends; it misses     *)
(* none but those that expired before it came to them, and nothing is      *)
(* shown after an event that ends it.                                      *)
(***************************************************************************)
EXTENDS Naturals, Sequences

CONSTANTS
  Listener, Event, Newest,
  Shown,  \* Shown[e]: what a listener is shown of event e, perhaps nothing
  Last    \* the events that end a listener

VARIABLES
  events,  \* every event published
  gone,    \* how many of them have expired
  base,    \* base[l]: the position l started after; Newest until it is known
  shown,   \* shown[l]: what l was shown
  open     \* the listeners that may be shown more

Init ==
  /\ events = <<>> /\ gone = 0
  /\ base = [l \in Listener |-> Newest]
  /\ shown = [l \in Listener |-> <<>>]
  /\ open = Listener

Publish ==
  /\ \E e \in Event : events' = Append(events, e)
  /\ UNCHANGED <<gone, base, shown, open>>

Expire ==
  /\ gone < Len(events) /\ gone' = Len(events)
  /\ UNCHANGED <<events, base, shown, open>>

(* A listener starts at the end, or after an event it names. *)
Start(l) ==
  /\ base[l] = Newest
  /\ \E p \in 0..Len(events) : base' = [base EXCEPT ![l] = p]
  /\ UNCHANGED <<events, gone, shown, open>>

Latest(l) == IF shown[l] = <<>> THEN base[l] ELSE shown[l][Len(shown[l])].id

(* The next event that has not expired. *)
Show(l) ==
  /\ base[l] # Newest /\ l \in open
  /\ \E i \in 1..Len(events) :
       /\ i > Latest(l) /\ \A k \in Latest(l) + 1 .. i - 1 : k <= gone
       /\ Shown[events[i]] # <<>>
       /\ shown' = [shown EXCEPT ![l] = Append(@, [id |-> i, data |-> Shown[events[i]]])]
       /\ open' = IF events[i] \in Last THEN open \ {l} ELSE open
  /\ UNCHANGED <<events, gone, base>>

End(l) ==
  /\ l \in open /\ open' = open \ {l}
  /\ UNCHANGED <<events, gone, base, shown>>

Next == Publish \/ Expire \/ \E l \in Listener : Start(l) \/ Show(l) \/ End(l)

Spec == Init /\ [][Next]_<<events, gone, base, shown, open>>
=============================================================================
