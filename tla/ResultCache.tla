---------------------------- MODULE ResultCache ----------------------------
(***************************************************************************)
(* frozen_result: a function of a notebook whose result is kept, with the  *)
(* time of its context, under a key made of the workflow, the execution    *)
(* and a name.  Processes that share the key share what the file server    *)
(* keeps: a call reads the result and then its time, decides whether it is *)
(* recent enough, and otherwise computes and writes both, one after the    *)
(* other.  Time is counted in ticks of the resolution of datetime.         *)
(***************************************************************************)
EXTENDS Integers, FiniteSets

CONSTANTS
  Proc,       \* processes that decorate the function under one key
  ValidFor,   \* valid_for_min
  Second,     \* the ticks of a second
  Minute,     \* the seconds of a minute
  Day,        \* the ticks of a day
  MaxTime,    \* bound on the clock
  Empty,      \* the times at which the function has a result that is false
  MaxLate,    \* bound on the writes that may be late at a time
  Faults,     \* what may fail, a subset of {"refused", "raised"}
  Nothing

(* A result is known by when it was computed; what is kept with it is the time
   of a context, history: for which result. *)
Time   == 0..MaxTime
Result == Time
Stamp  == [dt : Time, of : Result]

ASSUME CacheAssumption ==
  /\ {ValidFor, Second, Minute, Day, MaxTime, MaxLate} \subseteq Nat
  /\ Second > 0 /\ Minute > 0 /\ Day > 0
  /\ Faults \subseteq {"refused", "raised"}
  /\ Nothing \notin Time \cup Stamp

Strategy == {"local", "fileserver", "unknown"}   \* VALID_STRATEGIES, or none

VARIABLES
  clock,
  blob, meta,  \* what the file server keeps under the key, and beside it: a
               \* time and, history, the result it was written with
  late,        \* writes that raised and that the server may still apply
  strategy,    \* strategy[p]: the one p decorated with
  born,        \* born[p]: execution_dt of the context p decorated with
  call,        \* call[p]: where the call of p stands
  scarred      \* history: since the last write begun by a process alone, one
               \* failed or met another

vars == <<clock, blob, meta, late, strategy, born, call, scarred>>
kept == <<blob, meta, late, scarred>>

(* The decorated function has not been called. *)
Idle == [pc |-> "none", data |-> Nothing, meta |-> Nothing, out |-> Nothing]

OrNothing(S) == S \cup {Nothing}
Call == [pc : {"none", "ready", "read", "readmeta", "decide", "compute", "data", "meta",
               "returned", "failed"},
         data : OrNothing(Result), meta : OrNothing(Stamp), out : OrNothing(Result)]

TypeOK ==
  /\ clock \in Time /\ scarred \in BOOLEAN
  /\ blob \in OrNothing(Result) /\ meta \in OrNothing(Stamp)
  /\ late \subseteq [to : {"data"}, v : Result] \cup [to : {"meta"}, v : Stamp]
  /\ strategy \in [Proc -> Strategy] /\ born \in [Proc -> OrNothing(Time)]
  /\ call \in [Proc -> Call]

Goto(p, l) == call' = [call EXCEPT ![p].pc = l]
End(p, l) == call' = [call EXCEPT ![p] = [Idle EXCEPT !.pc = l]]
Between == {p \in Proc : call[p].pc = "meta"}

-----------------------------------------------------------------------------
Init ==
  /\ clock = 0 /\ scarred = FALSE
  /\ blob = Nothing /\ meta = Nothing /\ late = {}
  /\ strategy = [p \in Proc |-> "unknown"] /\ born = [p \in Proc |-> Nothing]
  /\ call = [p \in Proc |-> Idle]

Tick ==
  /\ clock < MaxTime /\ clock' = clock + 1
  /\ UNCHANGED <<kept, strategy, born, call>>

(* frozen_result: the context is made once, and its time is that moment or
   the NOW that the notebook was started with. *)
BuildCtx == 0..clock
FrozenResult(p, s) ==
  /\ call[p].pc = "none" /\ Goto(p, "ready")
  /\ \E now \in BuildCtx : born' = [born EXCEPT ![p] = now]
  /\ strategy' = [strategy EXCEPT ![p] = s]
  /\ UNCHANGED <<clock, kept>>

(* The wrapper asks the cache, if its strategy is a known one. *)
Wrapper(p) ==
  /\ call[p].pc \in {"ready", "returned", "failed"}
  /\ call' = [call EXCEPT ![p] =
       [Idle EXCEPT !.pc = IF strategy[p] = "unknown" THEN "decide" ELSE "read"]]
  /\ UNCHANGED <<clock, kept, strategy, born>>

(* The first of two reads.  A request to the server may fail.  With the local
   strategy every call ends here: the file is not there, since a call writes it
   only after it was read, and what _restore_pickle then returns is not the
   pair that cache_manager_read unpacks. *)
ReadData(p) ==
  /\ call[p].pc = "read"
  /\ IF strategy[p] = "local" THEN End(p, "failed")
     ELSE \/ call' = [call EXCEPT ![p].pc = "readmeta", ![p].data = blob]
          \/ Faults # {} /\ Goto(p, "decide")
  /\ UNCHANGED <<clock, kept, strategy, born>>

(* The second: only both together are a result. *)
ReadMeta(p) ==
  /\ call[p].pc = "readmeta"
  /\ \/ LET both == meta # Nothing /\ call[p].data # Nothing IN
          call' = [call EXCEPT ![p].pc = "decide",
                    ![p].data = IF both THEN @ ELSE Nothing,
                    ![p].meta = IF both THEN meta ELSE Nothing]
     \/ /\ Faults # {}
        /\ call' = [call EXCEPT ![p].pc = "decide", ![p].data = Nothing]
  /\ UNCHANGED <<clock, kept, strategy, born>>

(* is_valid_date takes the seconds of a difference, which leave out its days
   and what is less than a second, and rounds them to minutes, half a minute to
   the even one. *)
Seconds(age) == age \div Second
Round(s) ==
  LET whole == s \div Minute  twice == 2 * (s % Minute) IN
    IF twice > Minute \/ (twice = Minute /\ whole % 2 = 1) THEN whole + 1 ELSE whole
Elapsed(dt) == Round(Seconds((clock - dt) % Day))
IsValidDate(dt) == Elapsed(dt) <= ValidFor

(* Only a result that Python takes for true is returned as it is. *)
Decide(p) ==
  LET c == call[p]
      valid == c.meta # Nothing /\ IsValidDate(c.meta.dt)
  IN  /\ c.pc = "decide"
      /\ IF valid /\ c.data \notin Empty THEN End(p, "returned") ELSE End(p, "compute")
      /\ UNCHANGED <<clock, kept, strategy, born>>

(* The function itself. *)
Compute(p) ==
  /\ call[p].pc = "compute"
  /\ \/ strategy[p] = "unknown" /\ End(p, "returned")
     \/ /\ strategy[p] # "unknown"
        /\ call' = [call EXCEPT ![p].pc = "data", ![p].out = clock]
  /\ UNCHANGED <<clock, kept, strategy, born>>

(* The result is written first, its time after it.  The server may refuse
   one, which is logged if it refuses both.  Or the request raises: it never
   came to the server, or its answer did not come back in time. *)
Raise(p, w) ==
  /\ "raised" \in Faults /\ Cardinality(late \cup {w}) <= MaxLate /\ End(p, "failed")
  /\ late' = late \cup {w} /\ scarred' = TRUE

WriteData_Full(p) ==
  /\ call[p].pc = "data" /\ Goto(p, "meta")
  /\ blob' = IF call[p].out \in Empty THEN blob ELSE call[p].out
  /\ scarred' = (Between # {} \/ late # {})
  /\ UNCHANGED <<clock, meta, late, strategy, born>>
WriteData(p) ==
  /\ call[p].pc = "data"
  /\ \/ /\ blob' = call[p].out /\ Goto(p, "meta")
        /\ scarred' = (Between # {} \/ late # {}) /\ UNCHANGED late
     \/ "refused" \in Faults /\ Goto(p, "meta") /\ scarred' = TRUE /\ UNCHANGED <<blob, late>>
     \/ Raise(p, [to |-> "data", v |-> call[p].out]) /\ UNCHANGED blob
  /\ UNCHANGED <<clock, meta, strategy, born>>

WriteMeta_Now(p) ==
  /\ call[p].pc = "meta" /\ End(p, "returned")
  /\ meta' = [dt |-> clock, of |-> call[p].out]
  /\ UNCHANGED <<clock, blob, late, strategy, born, scarred>>
WriteMeta(p) ==
  LET m == [dt |-> born[p], of |-> call[p].out] IN
  /\ call[p].pc = "meta"
  /\ \/ meta' = m /\ End(p, "returned") /\ UNCHANGED <<late, scarred>>
     \/ "refused" \in Faults /\ End(p, "returned") /\ scarred' = TRUE /\ UNCHANGED <<meta, late>>
     \/ Raise(p, [to |-> "meta", v |-> m]) /\ UNCHANGED meta
  /\ UNCHANGED <<clock, blob, strategy, born>>

(* The server applies a write whose process has given it up. *)
Land(w) ==
  /\ w \in late /\ late' = late \ {w}
  /\ IF w.to = "data" THEN blob' = w.v /\ UNCHANGED meta ELSE meta' = w.v /\ UNCHANGED blob
  /\ UNCHANGED <<clock, strategy, born, call, scarred>>

-----------------------------------------------------------------------------
Step(p) == \/ ReadData(p) \/ ReadMeta(p) \/ Decide(p) \/ Compute(p)
           \/ WriteData(p) \/ WriteMeta(p)

Next == \/ Tick
        \/ \E w \in late : Land(w)
        \/ \E p \in Proc : Wrapper(p) \/ Step(p) \/ \E s \in Strategy : FrozenResult(p, s)

Spec == Init /\ [][Next]_vars

-----------------------------------------------------------------------------
(* Properties. *)

(* A result taken from the cache was computed at most valid_for_min and half
   a minute before, whoever wrote it; it is older only if the time it was
   judged by is a day old, or was written with another result than the one
   that was read. *)
Recent(c) == \/ 2 * Seconds(clock - c.data) <= (2 * ValidFor + 1) * Minute
             \/ clock - c.meta.dt >= Day
             \/ c.meta.of # c.data
HitIsRecent ==
  [][\A p \in Proc :
       call[p].pc = "decide" /\ call'[p].pc = "returned" => Recent(call[p])]_vars

(* What is kept is a result and the time that belongs to it, unless a process
   is between its two writes, or a write failed or met another and none has
   begun alone since: one that does makes the pair whole again. *)
PairNeedsCause ==
  meta # Nothing /\ meta.of # blob => Between # {} \/ scarred

=============================================================================
