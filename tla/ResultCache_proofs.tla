------------------------- MODULE ResultCache_proofs -------------------------
(***************************************************************************)
(* Proofs about ResultCache, for any number of processes, any validity and *)
(* whatever write fails.  A time that is kept is never later than the      *)
(* result it was written with; and without a scar the one process between  *)
(* its two writes is the one whose result is there.                        *)
(***************************************************************************)
EXTENDS ResultCache, TLAPS

Timely(m) == m.dt <= m.of /\ m.of <= clock

Stamped == /\ meta # Nothing => Timely(meta)
           /\ \A w \in late : w.to = "meta" => Timely(w.v)

(* What a call knows where it stands. *)
Sound(p) ==
  /\ call[p].pc # "none" => born[p] # Nothing /\ born[p] <= clock
  /\ call[p].pc \in {"read", "readmeta"} => call[p].meta = Nothing
  /\ call[p].pc \in {"data", "meta"} =>
       call[p].out # Nothing /\ born[p] <= call[p].out /\ call[p].out <= clock
  /\ call[p].meta # Nothing => call[p].data # Nothing /\ Timely(call[p].meta)

Paired ==
  ~scarred => /\ late = {}
              /\ \A p \in Between : blob = call[p].out
              /\ \A p, q \in Between : p = q
              /\ meta # Nothing /\ Between = {} => meta.of = blob

Inv == /\ TypeOK /\ Stamped /\ Paired
       /\ \A p \in Proc : Sound(p)

-----------------------------------------------------------------------------
LEMMA NothingApart ==
  /\ Nothing \notin Time /\ Nothing \notin Result /\ Nothing \notin Stamp
  /\ Time \subseteq Nat /\ MaxTime \in Nat
  BY CacheAssumption DEF Time, Result

LEMMA Units == /\ ValidFor \in Nat /\ Second \in Nat /\ Minute \in Nat /\ Day \in Nat
               /\ Second > 0 /\ Minute > 0 /\ Day > 0
  BY CacheAssumption

(* Within a day the remainder is the age itself. *)
LEMMA ElapsedInADay ==
  ASSUME NEW a \in Nat, NEW b \in Nat, b <= a, a - b < Day
  PROVE  (a - b) % Day = a - b
<1>1. Day \in Nat /\ Day > 0
  BY Units
<1> QED
  BY <1>1, SMTT(30)

(* Division by a positive number, and that it keeps the order. *)
LEMMA Divide ==
  ASSUME NEW a \in Nat, NEW d \in Nat, d > 0
  PROVE  /\ a \div d \in Nat /\ a % d \in Nat /\ a % d < d
         /\ a = d * (a \div d) + (a % d)
  BY SMT

LEMMA DivideOrder ==
  ASSUME NEW a \in Nat, NEW b \in Nat, NEW d \in Nat, d > 0, a <= b
  PROVE  a \div d <= b \div d
  BY SMT

(* Rounding to minutes adds half a minute at most. *)
LEMMA Rounded ==
  ASSUME NEW s \in Nat, Round(s) <= ValidFor
  PROVE  2 * s <= (2 * ValidFor + 1) * Minute
<1> DEFINE q == s \div Minute  r == s % Minute
<1>1. q \in Nat /\ r \in Nat /\ r < Minute /\ s = Minute * q + r
  BY Units, Divide
<1>2. \/ 2 * r <= Minute /\ q <= ValidFor
      \/ q + 1 <= ValidFor
  BY <1>1, Units DEF Round
<1> HIDE DEF q, r
<1> DEFINE qm == q * Minute  vm == ValidFor * Minute
<1>3. qm \in Nat /\ vm \in Nat /\ s = qm + r /\ (2 * ValidFor + 1) * Minute = 2 * vm + Minute
  BY <1>1, Units, SMTT(30)
<1>4. q <= ValidFor => qm <= vm
  <2> SUFFICES ASSUME q <= ValidFor PROVE qm <= vm
    OBVIOUS
  <2>1. ValidFor - q \in Nat
    BY <1>1, Units
  <2>2. vm = qm + (ValidFor - q) * Minute /\ (ValidFor - q) * Minute \in Nat
    BY <1>1, <2>1, Units, SMTT(30)
  <2> QED
    BY <1>3, <2>2
<1>5. q + 1 <= ValidFor => qm + Minute <= vm
  <2> SUFFICES ASSUME q + 1 <= ValidFor PROVE qm + Minute <= vm
    OBVIOUS
  <2>1. ValidFor - (q + 1) \in Nat
    BY <1>1, Units
  <2>2. vm = qm + Minute + (ValidFor - (q + 1)) * Minute /\ (ValidFor - (q + 1)) * Minute \in Nat
    BY <1>1, <2>1, Units, SMTT(30)
  <2> QED
    BY <1>3, <2>2, Units
<1> HIDE DEF qm, vm
<1>6. 2 * s <= 2 * vm + Minute
  BY <1>1, <1>2, <1>3, <1>4, <1>5, Units
<1> QED
  BY <1>3, <1>6

LEMMA IdleCall == Idle \in Call /\ Idle.pc = "none" /\ Idle.data = Nothing
                  /\ Idle.meta = Nothing /\ Idle.out = Nothing
  BY DEF Idle, Call, OrNothing

(* A call that ends: of what it knew only the place is kept. *)
LEMMA Ended ==
  ASSUME NEW p \in Proc, NEW l \in {"returned", "failed"}
  PROVE  LET c == [Idle EXCEPT !.pc = l] IN
           c \in Call /\ c.pc = l /\ c.meta = Nothing
  BY IdleCall DEF Call, Idle

LEMMA InitInv == Init => Inv
<1> SUFFICES ASSUME Init PROVE Inv
  OBVIOUS
<1>1. TypeOK
  <2>1. clock \in Time /\ scarred \in BOOLEAN
    <3>1. 0 \in Time
      BY NothingApart DEF Time
    <3> QED
      BY <3>1 DEF Init
  <2> QED
    BY <2>1, IdleCall DEF Init, TypeOK, Strategy, OrNothing
<1>2. \A p \in Proc : call[p] = Idle
  BY DEF Init
<1>3. \A p \in Proc : Sound(p)
  BY <1>2, IdleCall DEF Sound
<1>4. Stamped /\ Paired
  BY <1>2, IdleCall DEF Init, Stamped, Paired, Between
<1> QED
  BY <1>1, <1>3, <1>4 DEF Inv

(* A step of one call that touches nothing that is kept. *)
LEMMA QuietStep ==
  ASSUME Inv, NEW p \in Proc, NEW c \in Call, call' = [call EXCEPT ![p] = c],
         UNCHANGED <<clock, kept>>,
         call[p].pc # "meta", c.pc # "meta",
         strategy' \in [Proc -> Strategy], born' \in [Proc -> OrNothing(Time)],
         \A q \in Proc \ {p} : strategy'[q] = strategy[q] /\ born'[q] = born[q],
         Sound(p)'
  PROVE  Inv'
<1>1. /\ call' \in [Proc -> Call] /\ call'[p] = c
      /\ \A q \in Proc \ {p} : call'[q] = call[q]
  BY DEF Inv, TypeOK
<1>2. TypeOK'
  BY <1>1 DEF Inv, TypeOK, kept
<1>3. Between' = Between /\ \A q \in Between : q # p
  BY <1>1 DEF Between
<1>4. Stamped'
  BY DEF Inv, Stamped, Timely, kept
<1>5. \A q \in Between : q \in Proc \ {p}
  BY <1>3 DEF Between
<1>6. Paired'
  BY <1>1, <1>3, <1>5 DEF Inv, Paired, kept
<1>7. ASSUME NEW q \in Proc \ {p} PROVE Sound(q)'
  BY <1>1, <1>7 DEF Inv, Sound, Timely, kept
<1> QED
  BY <1>2, <1>4, <1>6, <1>7 DEF Inv

(* Time passes: what was not later than the clock is not later still. *)
LEMMA TickStep == ASSUME Inv, Tick PROVE Inv'
<1>1. /\ clock' = clock + 1 /\ clock \in Time /\ clock < MaxTime /\ clock \in Nat
      /\ UNCHANGED <<blob, meta, late, strategy, born, call, scarred>>
  BY NothingApart DEF Inv, TypeOK, Tick, kept
<1>2. clock' \in Time /\ clock <= clock'
  BY <1>1, NothingApart DEF Time
<1>3. TypeOK'
  BY <1>1, <1>2 DEF Inv, TypeOK
<1>4. \A n \in Time : n <= clock => n <= clock'
  BY <1>1, NothingApart
<1>5. \A m \in Stamp : Timely(m) => m.dt <= m.of /\ m.of <= clock'
  BY <1>4 DEF Timely, Stamp, Result
<1>6. Stamped'
  BY <1>1, <1>5 DEF Inv, TypeOK, Stamped, Timely, OrNothing
<1>7. Paired'
  BY <1>1 DEF Inv, Paired, Between
<1>8. ASSUME NEW p \in Proc PROVE Sound(p)'
  <2>1. /\ call[p] \in Call /\ born[p] \in OrNothing(Time)
        /\ Sound(p)
    BY DEF Inv, TypeOK
  <2>2. born[p] # Nothing /\ born[p] <= clock => born[p] <= clock'
    BY <1>4, <2>1 DEF OrNothing
  <2>3. call[p].out # Nothing => call[p].out \in Time
    BY <2>1 DEF Call, OrNothing, Result
  <2>4. call[p].meta # Nothing => call[p].meta \in Stamp
    BY <2>1 DEF Call, OrNothing
  <2> QED
    BY <1>1, <1>4, <1>5, <2>1, <2>2, <2>3, <2>4 DEF Sound, Timely
<1> QED
  BY <1>3, <1>6, <1>7, <1>8 DEF Inv

LEMMA FrozenResultStep ==
  ASSUME Inv, NEW p \in Proc, NEW s \in Strategy, FrozenResult(p, s) PROVE Inv'
<1> DEFINE c == [call[p] EXCEPT !.pc = "ready"]
<1>1. /\ call[p].pc = "none" /\ call[p] \in Call /\ TypeOK /\ Sound(p)
      /\ call' = [call EXCEPT ![p] = c]
      /\ UNCHANGED <<clock, kept>>
  BY DEF Inv, TypeOK, FrozenResult, Goto
<1>2. PICK now \in 0..clock : born' = [born EXCEPT ![p] = now]
  BY DEF FrozenResult, BuildCtx
<1>a. /\ strategy' = [strategy EXCEPT ![p] = s] /\ clock \in Time
      /\ now \in Time /\ now <= clock
  BY <1>2, CacheAssumption DEF Inv, TypeOK, FrozenResult, Time
<1>3. /\ c \in Call /\ c.pc = "ready" /\ c.meta = call[p].meta /\ c.data = call[p].data
     
  BY <1>1 DEF Call
<1>4. /\ strategy' \in [Proc -> Strategy] /\ born' \in [Proc -> OrNothing(Time)]
      /\ born'[p] = now
      /\ \A q \in Proc \ {p} : strategy'[q] = strategy[q] /\ born'[q] = born[q]
  BY <1>1, <1>2, <1>a DEF TypeOK, OrNothing
<1>5. call'[p] = c
  BY <1>1 DEF TypeOK
<1> HIDE DEF c
<1>7. Sound(p)'
  BY <1>1, <1>a, <1>3, <1>4, <1>5, NothingApart DEF Sound, Timely
<1> QED
  BY <1>1, <1>3, <1>4, <1>7, QuietStep

LEMMA WrapperStep == ASSUME Inv, NEW p \in Proc, Wrapper(p) PROVE Inv'
<1> DEFINE c == [Idle EXCEPT !.pc = IF strategy[p] = "unknown" THEN "decide" ELSE "read"]
<1>1. /\ call[p].pc \in {"ready", "returned", "failed"} /\ TypeOK /\ Sound(p)
      /\ call' = [call EXCEPT ![p] = c]
      /\ UNCHANGED <<clock, kept, strategy, born>>
  BY DEF Inv, Wrapper
<1>2. c \in Call /\ c.pc \in {"read", "decide"} /\ c.meta = Nothing
  BY IdleCall DEF Call
<1>3. call'[p] = c
  BY <1>1 DEF TypeOK
<1> HIDE DEF c
<1>4. Sound(p)'
  BY <1>1, <1>2, <1>3 DEF Sound, kept
<1> QED
  BY <1>1, <1>2, <1>4, QuietStep DEF TypeOK

LEMMA ReadDataStep == ASSUME Inv, NEW p \in Proc, ReadData(p) PROVE Inv'
<1>1. /\ call[p].pc = "read" /\ TypeOK /\ Sound(p) /\ call[p] \in Call
      /\ UNCHANGED <<clock, kept, strategy, born>>
  BY DEF Inv, ReadData, TypeOK
<1>2. call[p].meta = Nothing
  BY <1>1 DEF Sound
<1>3. ASSUME NEW c \in Call, call' = [call EXCEPT ![p] = c],
             c.pc \in {"failed", "readmeta", "decide"}, c.meta = Nothing
      PROVE  Inv'
  <2>1. call'[p] = c
    BY <1>1, <1>3 DEF TypeOK
  <2>2. Sound(p)'
    BY <1>1, <1>2, <1>3, <2>1 DEF Sound, kept
  <2> QED
    BY <1>1, <1>3, <2>2, QuietStep DEF TypeOK
<1>4. CASE Goto(p, "decide")
  <2> DEFINE c == [call[p] EXCEPT !.pc = "decide"]
  <2>1. c \in Call /\ c.pc = "decide" /\ c.meta = Nothing
    BY <1>1, <1>2 DEF Call
  <2>2. call' = [call EXCEPT ![p] = c]
    BY <1>4 DEF Goto
  <2> HIDE DEF c
  <2> QED
    BY <1>3, <2>1, <2>2
<1>5. CASE call' = [call EXCEPT ![p].pc = "readmeta", ![p].data = blob]
  <2> DEFINE c == [call[p] EXCEPT !.pc = "readmeta", !.data = blob]
  <2>1. blob \in OrNothing(Result)
    BY <1>1 DEF TypeOK
  <2>2. c \in Call /\ c.pc = "readmeta" /\ c.meta = Nothing
    BY <1>1, <1>2, <2>1 DEF Call
  <2>3. call' = [call EXCEPT ![p] = c]
    BY <1>1, <1>5 DEF TypeOK
  <2> HIDE DEF c
  <2> QED
    BY <1>3, <2>2, <2>3
<1>6. CASE End(p, "failed")
  BY <1>3, <1>6, Ended DEF End
<1> QED
  BY <1>4, <1>5, <1>6 DEF ReadData

LEMMA ReadMetaStep == ASSUME Inv, NEW p \in Proc, ReadMeta(p) PROVE Inv'
<1>1. /\ call[p].pc = "readmeta" /\ TypeOK /\ Sound(p) /\ call[p] \in Call /\ Stamped
      /\ UNCHANGED <<clock, kept, strategy, born>>
  BY DEF Inv, ReadMeta, TypeOK
<1>2. call[p].meta = Nothing
  BY <1>1 DEF Sound
<1>3. ASSUME NEW c \in Call, call' = [call EXCEPT ![p] = c],
             c.pc = "decide", c.meta # Nothing => c.data # Nothing /\ Timely(c.meta)
      PROVE  Inv'
  <2>1. call'[p] = c
    BY <1>1, <1>3 DEF TypeOK
  <2>2. Sound(p)'
    BY <1>1, <1>2, <1>3, <2>1 DEF Sound, Timely, kept
  <2> QED
    BY <1>1, <1>3, <2>2, QuietStep DEF TypeOK
<1> DEFINE m == meta
           both == meta # Nothing /\ call[p].data # Nothing
<1>4. m \in OrNothing(Stamp) /\ (m # Nothing => Timely(m))
  BY <1>1 DEF TypeOK, Stamped
<1>5. CASE call' = [call EXCEPT ![p].pc = "decide",
                      ![p].data = IF both THEN @ ELSE Nothing,
                      ![p].meta = IF both THEN m ELSE Nothing]
  <2> DEFINE c == [call[p] EXCEPT !.pc = "decide",
                     !.data = IF both THEN @ ELSE Nothing, !.meta = IF both THEN m ELSE Nothing]
  <2>1. call' = [call EXCEPT ![p] = c]
    BY <1>1, <1>5 DEF TypeOK
  <2>2. /\ c \in Call /\ c.pc = "decide"
        /\ c.meta = (IF both THEN m ELSE Nothing) /\ c.data = (IF both THEN call[p].data ELSE Nothing)
    BY <1>1, <1>4 DEF Call, OrNothing
  <2>3. c.meta # Nothing => c.data # Nothing /\ Timely(c.meta)
    BY <1>4, <2>2
  <2> HIDE DEF c
  <2> QED
    BY <1>2, <1>3, <2>1, <2>2, <2>3
<1>6. CASE call' = [call EXCEPT ![p].pc = "decide", ![p].data = Nothing]
  <2> DEFINE c == [call[p] EXCEPT !.pc = "decide", !.data = Nothing]
  <2>1. call' = [call EXCEPT ![p] = c]
    BY <1>1, <1>6 DEF TypeOK
  <2>2. c \in Call /\ c.pc = "decide" /\ c.meta = Nothing
    BY <1>1, <1>2 DEF Call, OrNothing
  <2> HIDE DEF c
  <2> QED
    BY <1>2, <1>3, <2>1, <2>2
<1> QED
  BY <1>5, <1>6 DEF ReadMeta

LEMMA EndStep ==
  ASSUME Inv, NEW p \in Proc, NEW l \in {"returned", "failed", "compute"}, End(p, l),
         call[p].pc \notin {"none", "meta"}, UNCHANGED <<clock, kept, strategy, born>>
  PROVE  Inv'
<1> DEFINE c == [Idle EXCEPT !.pc = l]
<1>1. c \in Call /\ c.pc = l /\ c.meta = Nothing
  BY IdleCall DEF Call
<1>2. call' = [call EXCEPT ![p] = c]
  BY DEF End
<1> HIDE DEF c
<1>3. call'[p] = c
  BY <1>2 DEF Inv, TypeOK
<1>4. Sound(p)'
  BY <1>1, <1>3 DEF Inv, Sound
<1> QED
  BY <1>1, <1>2, <1>4, QuietStep DEF Inv, TypeOK

LEMMA DecideStep == ASSUME Inv, NEW p \in Proc, Decide(p) PROVE Inv'
<1>1. End(p, "returned") \/ End(p, "compute")
  BY DEF Decide
<1>2. call[p].pc = "decide" /\ UNCHANGED <<clock, kept, strategy, born>>
  BY DEF Decide
<1> QED
  BY <1>1, <1>2, EndStep

(* A hit: the time it is judged by is not later than its result's, so that
   unless a day has passed, the result is as recent as the time says. *)
LEMMA HitIsGood ==
  ASSUME Inv, NEW p \in Proc, call[p].pc = "decide", call[p].meta # Nothing,
         IsValidDate(call[p].meta.dt)
  PROVE  Recent(call[p])
<1> DEFINE dt == call[p].meta.dt  at == call[p].data
           long == (clock - dt) \div Second  short == (clock - at) \div Second
<1>1. /\ call[p] \in Call /\ clock \in Nat /\ Timely(call[p].meta)
      /\ call[p].data # Nothing /\ Elapsed(dt) <= ValidFor
  BY NothingApart DEF Inv, TypeOK, Sound, IsValidDate
<1>2. dt \in Nat /\ at \in Nat /\ dt <= call[p].meta.of /\ call[p].meta.of <= clock
  BY <1>1, NothingApart DEF Call, OrNothing, Stamp, Result, Timely
<1> SUFFICES ASSUME ~(clock - dt >= Day), call[p].meta.of = at
             PROVE  2 * short <= (2 * ValidFor + 1) * Minute
  BY DEF Recent, Seconds
<1>3. dt <= at /\ at <= clock
  BY <1>2
<1> HIDE DEF dt, at
<1>4. clock - dt \in Nat /\ clock - at \in Nat /\ clock - at <= clock - dt /\ dt <= clock
      /\ clock - dt < Day
  BY <1>1, <1>2, <1>3, Units
<1>5. long \in Nat /\ short \in Nat /\ short <= long
  BY <1>4, Units, Divide, DivideOrder
<1>6. Round(long) <= ValidFor
  BY <1>1, <1>2, <1>4, ElapsedInADay DEF Elapsed, Seconds
<1>7. 2 * long <= (2 * ValidFor + 1) * Minute
  BY <1>5, <1>6, Rounded
<1> DEFINE bound == (2 * ValidFor + 1) * Minute
<1>8. bound \in Nat
  BY Units, SMTT(30)
<1> HIDE DEF long, short, bound
<1>9. 2 * short <= bound
  BY <1>5, <1>7, <1>8 DEF bound
<1> QED
  BY <1>9 DEF bound

LEMMA ComputeStep == ASSUME Inv, NEW p \in Proc, Compute(p) PROVE Inv'
<1>1. /\ call[p].pc = "compute" /\ TypeOK /\ Sound(p) /\ call[p] \in Call /\ clock \in Time
      /\ UNCHANGED <<clock, kept, strategy, born>>
  BY DEF Inv, Compute, TypeOK
<1>2. CASE End(p, "returned")
  BY <1>1, <1>2, EndStep
<1>3. CASE call' = [call EXCEPT ![p].pc = "data", ![p].out = clock]
  <2> DEFINE c == [call[p] EXCEPT !.pc = "data", !.out = clock]
  <2>1. call' = [call EXCEPT ![p] = c]
    BY <1>1, <1>3 DEF TypeOK
  <2>2. /\ c \in Call /\ c.pc = "data"
        /\ c.out = clock /\ c.meta = call[p].meta /\ c.data = call[p].data
    BY <1>1 DEF Call, OrNothing, Result
  <2>3. call'[p] = c
    BY <1>1, <2>1 DEF TypeOK
  <2> HIDE DEF c
  <2>4. clock <= clock /\ clock # Nothing
    BY <1>1, NothingApart
  <2>5. Sound(p)'
    BY <1>1, <2>2, <2>3, <2>4 DEF Sound, Timely, kept
  <2> QED
    BY <1>1, <2>1, <2>2, <2>5, QuietStep DEF TypeOK
<1> QED
  BY <1>2, <1>3 DEF Compute

(* How a write moves its call: to the other write, or to its end. *)
LEMMA WriteMoves ==
  ASSUME Inv, NEW p \in Proc, call[p].pc \in {"data", "meta"}, UNCHANGED <<clock, born>>,
         \/ call[p].pc = "data" /\ Goto(p, "meta")
         \/ \E l \in {"returned", "failed"} : End(p, l)
  PROVE  /\ call' \in [Proc -> Call] /\ \A q \in Proc \ {p} : call'[q] = call[q]
         /\ call'[p].pc = "meta" => call[p].pc = "data" /\ call'[p].out = call[p].out
         /\ \A q \in Proc : Sound(q)'
         /\ Between' = IF call'[p].pc = "meta" THEN Between \cup {p} ELSE Between \ {p}
<1>1. TypeOK /\ Sound(p) /\ call[p] \in Call
  BY DEF Inv, TypeOK
<1>2. ASSUME NEW c \in Call, call' = [call EXCEPT ![p] = c],
             \/ c.pc = "meta" /\ call[p].pc = "data" /\ c.out = call[p].out /\ c.meta = call[p].meta
                /\ c.data = call[p].data
             \/ c.pc \in {"returned", "failed"} /\ c.meta = Nothing
      PROVE  /\ call' \in [Proc -> Call] /\ \A q \in Proc \ {p} : call'[q] = call[q]
             /\ call'[p].pc = "meta" => call[p].pc = "data" /\ call'[p].out = call[p].out
             /\ \A q \in Proc : Sound(q)'
             /\ Between' = IF call'[p].pc = "meta" THEN Between \cup {p} ELSE Between \ {p}
  <2>1. /\ call' \in [Proc -> Call] /\ call'[p] = c
        /\ \A q \in Proc \ {p} : call'[q] = call[q]
    BY <1>1, <1>2 DEF TypeOK
  <2>2. \A q \in Proc \ {p} : Sound(q)'
    BY <2>1 DEF Inv, Sound, Timely
  <2>3. Sound(p)'
    BY <1>1, <1>2, <2>1 DEF Sound, Timely
  <2>4. Between' = IF call'[p].pc = "meta" THEN Between \cup {p} ELSE Between \ {p}
    BY <2>1 DEF Between
  <2> QED
    BY <1>2, <2>1, <2>2, <2>3, <2>4
<1>3. CASE call[p].pc = "data" /\ Goto(p, "meta")
  <2> DEFINE c == [call[p] EXCEPT !.pc = "meta"]
  <2>1. /\ c \in Call /\ c.pc = "meta" /\ c.out = call[p].out /\ c.meta = call[p].meta
        /\ c.data = call[p].data
    BY <1>1 DEF Call
  <2>2. call' = [call EXCEPT ![p] = c]
    BY <1>1, <1>3 DEF Goto, Sound
  <2> HIDE DEF c
  <2> QED
    BY <1>2, <1>3, <2>1, <2>2
<1>4. ASSUME NEW l \in {"returned", "failed"}, End(p, l)
      PROVE  /\ call' \in [Proc -> Call] /\ \A q \in Proc \ {p} : call'[q] = call[q]
             /\ call'[p].pc = "meta" => call[p].pc = "data" /\ call'[p].out = call[p].out
             /\ \A q \in Proc : Sound(q)'
             /\ Between' = IF call'[p].pc = "meta" THEN Between \cup {p} ELSE Between \ {p}
  <2> DEFINE c == [Idle EXCEPT !.pc = l]
  <2>1. c \in Call /\ c.pc = l /\ c.meta = Nothing
    BY Ended
  <2>2. call' = [call EXCEPT ![p] = c]
    BY <1>4 DEF End
  <2> HIDE DEF c
  <2> QED
    BY <1>2, <2>1, <2>2
<1> QED
  BY <1>3, <1>4

(* What a write that raised may leave behind is of the kind that is kept. *)
LEMMA LateStays ==
  ASSUME Inv, NEW w \in [to : {"data"}, v : Result] \cup [to : {"meta"}, v : Stamp],
         w.to = "meta" => Timely(w.v), clock' = clock
  PROVE  /\ late \cup {w} \subseteq [to : {"data"}, v : Result] \cup [to : {"meta"}, v : Stamp]
         /\ \A x \in late \cup {w} : x.to = "meta" => Timely(x.v)'
  BY DEF Inv, TypeOK, Stamped, Timely

(* The first write: a process that begins it alone leaves no scar. *)
LEMMA WriteDataStep == ASSUME Inv, NEW p \in Proc, WriteData(p) PROVE Inv'
<1>1. /\ call[p].pc = "data" /\ TypeOK /\ Sound(p) /\ call[p] \in Call
      /\ UNCHANGED <<clock, meta, strategy, born>>
  BY DEF Inv, WriteData, TypeOK
<1>2. call[p].out \in Result
  BY <1>1 DEF Sound, Call, OrNothing
<1>3. CASE /\ blob' = call[p].out /\ Goto(p, "meta")
           /\ scarred' = (Between # {} \/ late # {}) /\ UNCHANGED late
  <2>1. /\ call' \in [Proc -> Call] /\ \A q \in Proc \ {p} : call'[q] = call[q]
        /\ call'[p].pc = "meta" => call[p].pc = "data" /\ call'[p].out = call[p].out
        /\ \A q \in Proc : Sound(q)'
        /\ Between' = IF call'[p].pc = "meta" THEN Between \cup {p} ELSE Between \ {p}
    BY <1>1, <1>3, WriteMoves
  <2>2. call'[p].pc = "meta"
    BY <1>1, <1>3 DEF Goto, TypeOK, Call
  <2>3. TypeOK'
    BY <1>1, <1>2, <1>3, <2>1 DEF TypeOK, OrNothing
  <2>4. Stamped'
    BY <1>1, <1>3 DEF Inv, Stamped, Timely
  <2>5. Paired'
    BY <1>3, <2>1, <2>2 DEF Paired
  <2> QED
    BY <2>1, <2>3, <2>4, <2>5 DEF Inv
<1>4. CASE Goto(p, "meta") /\ scarred' = TRUE /\ UNCHANGED <<blob, late>>
  <2>1. call' \in [Proc -> Call] /\ \A q \in Proc : Sound(q)'
    BY <1>1, <1>4, WriteMoves
  <2>2. TypeOK'
    BY <1>1, <1>4, <2>1 DEF TypeOK
  <2>3. Stamped' /\ Paired'
    BY <1>1, <1>4 DEF Inv, Stamped, Timely, Paired
  <2> QED
    BY <2>1, <2>2, <2>3 DEF Inv
<1>5. CASE Raise(p, [to |-> "data", v |-> call[p].out]) /\ UNCHANGED blob
  <2> DEFINE w == [to |-> "data", v |-> call[p].out]
  <2>1. End(p, "failed") /\ late' = late \cup {w} /\ scarred' = TRUE /\ UNCHANGED blob
    BY <1>5 DEF Raise
  <2>2. call' \in [Proc -> Call] /\ \A q \in Proc : Sound(q)'
    BY <1>1, <2>1, WriteMoves
  <2>3. w \in [to : {"data"}, v : Result] /\ w.to # "meta"
    BY <1>2
  <2> HIDE DEF w
  <2>4. /\ late' \subseteq [to : {"data"}, v : Result] \cup [to : {"meta"}, v : Stamp]
        /\ \A x \in late' : x.to = "meta" => Timely(x.v)'
    BY <1>1, <2>1, <2>3, LateStays
  <2>5. TypeOK'
    BY <1>1, <2>1, <2>2, <2>4 DEF TypeOK
  <2>6. Stamped' /\ Paired'
    BY <1>1, <2>1, <2>4 DEF Inv, Stamped, Timely, Paired
  <2> QED
    BY <2>2, <2>5, <2>6 DEF Inv
<1> QED
  BY <1>3, <1>4, <1>5 DEF WriteData

(* The second write: the pair is whole if the process was alone. *)
LEMMA WriteMetaStep == ASSUME Inv, NEW p \in Proc, WriteMeta(p) PROVE Inv'
<1> DEFINE m == [dt |-> born[p], of |-> call[p].out]
<1>1. /\ call[p].pc = "meta" /\ TypeOK /\ Sound(p) /\ call[p] \in Call
      /\ UNCHANGED <<clock, blob, strategy, born>>
  BY DEF Inv, WriteMeta, TypeOK
<1>2. /\ call[p].out \in Result /\ born[p] \in Time
      /\ born[p] <= call[p].out /\ call[p].out <= clock
  BY <1>1 DEF Sound, Call, OrNothing, TypeOK
<1>3. /\ m \in Stamp /\ m # Nothing /\ m.of = call[p].out /\ Timely(m)
      /\ [to |-> "meta", v |-> m] \in [to : {"meta"}, v : Stamp]
  BY <1>2, NothingApart DEF Stamp, Timely
<1>4. /\ \/ meta' = m /\ End(p, "returned") /\ UNCHANGED <<late, scarred>>
         \/ End(p, "returned") /\ scarred' = TRUE /\ UNCHANGED <<meta, late>>
         \/ Raise(p, [to |-> "meta", v |-> m]) /\ UNCHANGED meta
  BY DEF WriteMeta
<1> HIDE DEF m
<1>5. ASSUME NEW l \in {"returned", "failed"}, End(p, l)
      PROVE  /\ call' \in [Proc -> Call] /\ \A q \in Proc \ {p} : call'[q] = call[q]
             /\ \A q \in Proc : Sound(q)'
             /\ Between' = Between \ {p}
  <2>1. call'[p].pc # "meta"
    BY <1>1, <1>5, Ended DEF End, TypeOK
  <2> QED
    BY <1>1, <1>5, <2>1, WriteMoves
<1>6. CASE meta' = m /\ End(p, "returned") /\ UNCHANGED <<late, scarred>>
  <2>1. /\ call' \in [Proc -> Call] /\ \A q \in Proc : Sound(q)'
        /\ Between' = Between \ {p}
    BY <1>5, <1>6
  <2>2. TypeOK'
    BY <1>1, <1>3, <1>6, <2>1 DEF TypeOK, OrNothing
  <2>3. Stamped'
    BY <1>1, <1>3, <1>6 DEF Inv, Stamped, Timely
  <2>4. Paired'
    <3> SUFFICES ASSUME ~scarred
                 PROVE  /\ late = {} /\ Between' = {} /\ meta'.of = blob
      BY <1>1, <1>6 DEF Paired
    <3>1. p \in Between
      BY <1>1 DEF Between
    <3> QED
      BY <1>3, <1>6, <2>1, <3>1 DEF Inv, Paired
  <2> QED
    BY <2>1, <2>2, <2>3, <2>4 DEF Inv
<1>7. CASE End(p, "returned") /\ scarred' = TRUE /\ UNCHANGED <<meta, late>>
  <2>1. call' \in [Proc -> Call] /\ \A q \in Proc : Sound(q)'
    BY <1>5, <1>7
  <2>2. TypeOK'
    BY <1>1, <1>7, <2>1 DEF TypeOK
  <2>3. Stamped' /\ Paired'
    BY <1>1, <1>7 DEF Inv, Stamped, Timely, Paired
  <2> QED
    BY <2>1, <2>2, <2>3 DEF Inv
<1>8. CASE Raise(p, [to |-> "meta", v |-> m]) /\ UNCHANGED meta
  <2> DEFINE w == [to |-> "meta", v |-> m]
  <2>1. End(p, "failed") /\ late' = late \cup {w} /\ scarred' = TRUE /\ UNCHANGED meta
    BY <1>8 DEF Raise
  <2>2. call' \in [Proc -> Call] /\ \A q \in Proc : Sound(q)'
    BY <1>5, <2>1
  <2>3. w \in [to : {"meta"}, v : Stamp] /\ Timely(w.v)
    BY <1>3
  <2> HIDE DEF w
  <2>4. /\ late' \subseteq [to : {"data"}, v : Result] \cup [to : {"meta"}, v : Stamp]
        /\ \A x \in late' : x.to = "meta" => Timely(x.v)'
    BY <1>1, <2>1, <2>3, LateStays
  <2>5. TypeOK'
    BY <1>1, <2>1, <2>2, <2>4 DEF TypeOK
  <2>6. Stamped' /\ Paired'
    BY <1>1, <2>1, <2>4 DEF Inv, Stamped, Timely, Paired
  <2> QED
    BY <2>2, <2>5, <2>6 DEF Inv
<1> QED
  BY <1>4, <1>6, <1>7, <1>8

(* A write lands late: then a scar has been there since it raised. *)
LEMMA LandStep == ASSUME Inv, NEW w \in late, Land(w) PROVE Inv'
<1>1. /\ w \in [to : {"data"}, v : Result] \cup [to : {"meta"}, v : Stamp]
      /\ late' \subseteq late /\ UNCHANGED <<clock, strategy, born, call, scarred>>
      /\ \/ w.to = "data" /\ blob' = w.v /\ UNCHANGED meta
         \/ w.to # "data" /\ meta' = w.v /\ UNCHANGED blob
  BY DEF Inv, TypeOK, Land
<1>2. TypeOK'
  BY <1>1 DEF Inv, TypeOK, OrNothing
<1>3. Stamped'
  BY <1>1 DEF Inv, Stamped, Timely
<1>4. scarred'
  BY <1>1 DEF Inv, Paired
<1>5. Paired'
  BY <1>4 DEF Paired
<1>6. \A p \in Proc : Sound(p)'
  BY <1>1 DEF Inv, Sound, Timely
<1> QED
  BY <1>2, <1>3, <1>5, <1>6 DEF Inv

-----------------------------------------------------------------------------
LEMMA NextInv == Inv /\ [Next]_vars => Inv'
<1> SUFFICES ASSUME Inv, [Next]_vars PROVE Inv'
  OBVIOUS
<1>1. CASE Tick
  BY <1>1, TickStep
<1>2. CASE \E p \in Proc : Wrapper(p) \/ Step(p) \/ \E s \in Strategy : FrozenResult(p, s)
  BY <1>2, WrapperStep, FrozenResultStep, ReadDataStep, ReadMetaStep, DecideStep, ComputeStep,
     WriteDataStep, WriteMetaStep DEF Step
<1>3. CASE \E w \in late : Land(w)
  BY <1>3, LandStep
<1>4. CASE UNCHANGED vars
  BY <1>4 DEF vars, Inv, TypeOK, Stamped, Paired, Sound, Timely, Between
<1> QED
  BY <1>1, <1>2, <1>3, <1>4 DEF Next

LEMMA Invariance == Spec => []Inv
<1>1. Spec => []Inv
  BY InitInv, NextInv, PTL DEF Spec
<1> QED
  BY <1>1

(* Every variable keeps its type: what is kept is a result and a time, a call
   is at a place of cache.py's wrapper with what it read there. *)
THEOREM TypeCorrect == Spec => []TypeOK
<1>1. Inv => TypeOK
  BY DEF Inv
<1> QED
  BY <1>1, Invariance, PTL

(* A result that is_valid_date lets through is no older than valid_for_min and
   half a minute, but for a time a day old or one written with another result. *)
THEOREM HitsAreRecent == Spec => HitIsRecent
<1>1. ASSUME Inv, [Next]_vars, NEW p \in Proc, call[p].pc = "decide", call'[p].pc = "returned"
      PROVE  Recent(call[p])
  <2>1. CASE call' = call
    BY <1>1, <2>1
  <2>2. ASSUME NEW q \in Proc \ {p}, Wrapper(q) \/ Step(q) \/ \E s \in Strategy : FrozenResult(q, s)
        PROVE  call'[p] = call[p]
    <3>1. CASE Wrapper(q)
      BY <3>1 DEF Inv, TypeOK, Wrapper
    <3>0. ASSUME NEW l, End(q, l) \/ Goto(q, l) PROVE call'[p] = call[p]
      BY <1>1, <3>0 DEF Inv, TypeOK, End, Goto
    <3>2. CASE ReadData(q)
      BY <1>1, <3>0, <3>2 DEF Inv, TypeOK, ReadData
    <3>6. CASE ReadMeta(q)
      BY <1>1, <3>6 DEF Inv, TypeOK, ReadMeta
    <3>3. CASE Decide(q)
      BY <3>0, <3>3 DEF Decide
    <3>7. CASE Compute(q)
      BY <1>1, <3>0, <3>7 DEF Inv, TypeOK, Compute
    <3>4. CASE WriteData(q) \/ WriteMeta(q)
      BY <3>0, <3>4 DEF WriteData, WriteMeta, Raise
    <3>5. CASE \E s \in Strategy : FrozenResult(q, s)
      BY <3>5 DEF Inv, TypeOK, FrozenResult, Goto
    <3> QED
      BY <2>2, <3>1, <3>2, <3>3, <3>4, <3>5, <3>6, <3>7 DEF Step
  <2>3. CASE Wrapper(p) \/ Step(p) \/ \E s \in Strategy : FrozenResult(p, s)
    <3>1. Decide(p)
      BY <1>1, <2>3 DEF Wrapper, Step, FrozenResult, ReadData, ReadMeta, Compute, WriteData, WriteMeta
    <3>2. End(p, "compute") => call'[p].pc = "compute"
      <4> DEFINE c == [Idle EXCEPT !.pc = "compute"]
      <4>1. c \in Call /\ c.pc = "compute"
        BY IdleCall DEF Call
      <4>2. End(p, "compute") => call' = [call EXCEPT ![p] = c]
        BY DEF End
      <4> HIDE DEF c
      <4> QED
        BY <1>1, <4>1, <4>2 DEF Inv, TypeOK
    <3> QED
      BY <1>1, <3>1, <3>2, HitIsGood DEF Decide
  <2> QED
    BY <1>1, <2>1, <2>2, <2>3 DEF Next, Tick, Land, vars
<1>2. Inv /\ [Next]_vars =>
        [\A p \in Proc : call[p].pc = "decide" /\ call'[p].pc = "returned" => Recent(call[p])]_vars
  BY <1>1
<1> QED
  BY <1>2, Invariance, PTL DEF Spec, HitIsRecent

(* The two writes of _write_fileserver leave a pair that belongs together,
   unless one is under way, or one failed or met another and none has begun
   alone since. *)
THEOREM PairsHaveCauses == Spec => []PairNeedsCause
<1>1. Inv => PairNeedsCause
  BY DEF Inv, PairNeedsCause, Paired
<1> QED
  BY <1>1, Invariance, PTL

=============================================================================
