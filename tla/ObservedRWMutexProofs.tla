----------------------- MODULE ObservedRWMutexProofs -----------------------
(* The delivery of events for every number of attempts: the counter of      *)
(* deliveries is right at all times, so that no delivery finds it zero, and *)
(* queued events have a delivery to come that will look at them.  And the   *)
(* engine under the deliveries: it stays tied to the attempts, so that the  *)
(* observed lock is a FIFO lock like the one nobody observes.  And what an  *)
(* observer hears of one attempt: its events in order, every threshold.     *)
EXTENDS ObservedRWMutex, RWCoreProofs

\* Where a call is and what its waiter has been told: the queue holds attempts that
\* are on their way into the select or in it, and only they are ever granted by others.
PlacesTied ==
  /\ Distinct(core.waiters)
  /\ \A p \in Ids(core.waiters) : pc[p] \in {"announce", "select"} /\ core.verdict[p] = "none"
  /\ \A p \in Procs :
       /\ pc[p] = "idle" => core.verdict[p] = "none"
       /\ pc[p] = "finish" => core.verdict[p] # "none"
       /\ pc[p] \in {"deliver", "complete"} => core.verdict[p] = "granted"
       /\ outbox["call"][p] # <<>> => pc[p] \in {"announce", "deliver", "send"}

OInv == TypeOK /\ PlacesTied /\ DeliveriesCounted /\ NothingStranded

-----------------------------------------------------------------------------
(* The events and who has them. *)

\* Every event is well formed.
LEMMA EvType ==
  ASSUME lockID \in Nat, NEW c \in Core, NEW p \in Procs, NEW k \in Kinds
  PROVE  Ev(p, k, c) \in Event
<1>1. ASSUME NEW d \in Core
      PROVE  Counts(d) \in [readers : Nat, writer : BOOLEAN, waitingReaders : Nat,
                            waitingWriters : Nat, cancelled : BOOLEAN]
  <2>1. ASSUME NEW m PROVE Cardinality({i \in DOMAIN d.waiters : d.waiters[i].mode = m}) \in Nat
    <3>1. d.waiters \in Seq(Waiter)
      BY <1>1 DEF Core
    <3>2. DOMAIN d.waiters = 1..Len(d.waiters) /\ Len(d.waiters) \in Nat
      BY <3>1
    <3>3. IsFiniteSet(1..Len(d.waiters))
      BY <3>2, FS_Interval
    <3>4. IsFiniteSet({i \in DOMAIN d.waiters : d.waiters[i].mode = m})
      BY <3>2, <3>3, FS_Subset
    <3> QED
      BY <3>4, FS_CardinalityType
  <2> QED
    BY <1>1, <2>1 DEF Counts, Core
<1>2. InitialCore \in Core /\ 0 \in 0..(VersionModulus - 1)
  BY CoreAssumption DEF InitialCore, Core, Verdicts
<1>3. StateOf(c) \in LockStates
  <2>1. Counts(c) \in [readers : Nat, writer : BOOLEAN, waitingReaders : Nat,
                       waitingWriters : Nat, cancelled : BOOLEAN]
    BY <1>1
  <2>2. Counts(InitialCore) \in [readers : Nat, writer : BOOLEAN, waitingReaders : Nat,
                                 waitingWriters : Nat, cancelled : BOOLEAN]
    BY <1>1, <1>2
  <2>3. c.version \in 0..(VersionModulus - 1)
    BY DEF Core
  <2> QED
    BY <1>2, <2>1, <2>2, <2>3 DEF StateOf, NoState, LockStates
<1> QED
  BY <1>3 DEF Ev, Event

\* What is posted is typed, and the outbox of nobody else changes.
LEMMA PostType ==
  ASSUME TypeOK, NEW s \in Senders, NEW p \in Procs, NEW events \in Seq(Event),
         Post(s, p, events)
  PROVE  /\ outbox' \in [Senders -> [Procs -> Seq(Event)]] /\ seen' = seen
         /\ outbox'[s][p] = events
         /\ \A q \in Procs : q # p => outbox'[s][q] = outbox[s][q]
         /\ \A t \in Senders : t # s => outbox'[t] = outbox[t]
  BY DEF TypeOK, Post

-----------------------------------------------------------------------------
(* The counter of deliveries. *)

Undelivered == {p \in Procs : core.verdict[p] = "granted" /\ pc[p] \notin {"send", "back"}}

\* A step that neither grants anything nor delivers an acquired event has the same
\* deliveries to come.
LEMMA CounterKept ==
  ASSUME DeliveriesCounted, undelivered' = undelivered,
         \A q \in Procs : (q \in Undelivered)' <=> q \in Undelivered
  PROVE  DeliveriesCounted'
<1>1. Undelivered' = Undelivered
  BY DEF Undelivered
<1> QED
  BY <1>1 DEF DeliveriesCounted, Undelivered

\* Where the engine moves to c, every grant on the way is a delivery to come.
LEMMA CounterAdvances ==
  ASSUME TypeOK, DeliveriesCounted, NEW c \in Core, NEW w,
         NEW timer \in [Procs -> TimerStates], Advance(c, w, timer),
         \A q \in Procs : core.verdict[q] = "granted" =>
           c.verdict[q] = "granted" /\ (pc'[q] \in {"send", "back"} <=> pc[q] \in {"send", "back"}),
         \A q \in Procs : core.verdict[q] # "granted" /\ c.verdict[q] = "granted" =>
           pc'[q] \notin {"send", "back"}
  PROVE  /\ core' \in Core /\ lockID' \in Nat /\ holdTimer' \in [Procs -> TimerStates]
         /\ undelivered' \in Nat /\ undelivered' >= undelivered
         /\ DeliveriesCounted'
<1> DEFINE granted == {q \in Procs : core.verdict[q] # "granted" /\ c.verdict[q] = "granted"}
<1>1. /\ core' = c /\ undelivered' = undelivered + Cardinality(granted) /\ lockID' = lockID
      /\ holdTimer' \in [Procs -> TimerStates]
  BY DEF Advance, TimerStates
<1>2. Undelivered' = Undelivered \union granted /\ Undelivered \intersect granted = {}
  BY <1>1 DEF Undelivered
<1>3. /\ IsFiniteSet(granted) /\ Cardinality(granted) \in Nat
      /\ IsFiniteSet(Undelivered) /\ Cardinality(Undelivered) \in Nat
  BY FiniteProcs DEF Undelivered
<1> HIDE DEF granted
<1>4. Cardinality(Undelivered') = Cardinality(Undelivered) + Cardinality(granted)
  <2>1. Cardinality(Undelivered \intersect granted) = 0
    BY <1>2, FS_EmptySet
  <2>2. Cardinality(Undelivered \union granted)
          = Cardinality(Undelivered) + Cardinality(granted)
            - Cardinality(Undelivered \intersect granted)
    BY <1>3, FS_Union
  <2> QED
    BY <1>2, <1>3, <2>1, <2>2
<1>5. undelivered = Cardinality(Undelivered)
  BY DEF DeliveriesCounted, Undelivered
<1>6. undelivered' = Cardinality(Undelivered')
  BY <1>1, <1>4, <1>5
<1> QED
  BY <1>1, <1>3, <1>5, <1>6 DEF DeliveriesCounted, Undelivered, TypeOK

\* The engine d suits where the call of q is, takes nothing from it and grants it
\* something only while it waits.
Suits(d, q) ==
  /\ q \in Ids(d.waiters) => pc[q] \in {"announce", "select"} /\ d.verdict[q] = "none"
  /\ pc[q] = "idle" => d.verdict[q] = "none"
  /\ pc[q] = "finish" => d.verdict[q] # "none"
  /\ pc[q] \in {"deliver", "complete"} => d.verdict[q] = "granted"
  /\ core.verdict[q] = "granted" => d.verdict[q] = "granted"
  /\ core.verdict[q] # "granted" /\ d.verdict[q] = "granted"
       => pc[q] \in {"announce", "select"}

\* What a service of the queue means for the attempts it does not concern otherwise.
LEMMA ServedAttempts ==
  ASSUME PlacesTied, NEW d, NEW M, Serves(core, d, M)
  PROVE  \A q \in Procs \ M : Suits(d, q)
<1>1. Ids(d.waiters) \subseteq Ids(core.waiters)
  BY DEF Serves, Ids
<1> QED
  BY <1>1 DEF Serves, PlacesTied, Suits
-----------------------------------------------------------------------------
(* The engine of this lock *)

\* What acquire does to the queue first is a service of it.
LEMMA ServedServes ==
  ASSUME Sound(core)
  PROVE  Serves(core, Served, {}) /\ Sound(Served)
<1>1. Serves(core, core, {})
  BY DEF Serves
<1> QED
  BY <1>1, GrantWaitersServes DEF Served, Serves

\* A grant touches neither the queue nor what anybody has been told.
LEMMA GrantKeepsQueue ==
  ASSUME NEW c \in Core, NEW w \in Waiter
  PROVE  /\ Grant(c, w) \in Core /\ Grant(c, w).waiters = c.waiters
         /\ Grant(c, w).verdict = c.verdict
<1> DEFINE guards == IF w.guarded THEN c.guardedReaders \union {w.id} ELSE c.guardedReaders
           ver == Bump(c, 1)
           n == c.readers + 1
           named == AttemptOf(w)
<1>1. /\ guards \in SUBSET Procs /\ n \in Nat /\ ver \in 0..(VersionModulus - 1)
      /\ named \in Procs \union {NoAttempt}
  <2>1. ver \in 0..(VersionModulus - 1)
    BY BumpType
  <2>2. guards \in SUBSET Procs /\ n \in Nat
    BY DEF Core, Waiter
  <2>3. named \in Procs \union {NoAttempt}
    BY DEF Waiter, AttemptOf
  <2> QED
    BY <2>1, <2>2, <2>3
<1>2. Grant(c, w) = IF w.mode = "write"
                    THEN [c EXCEPT !.writer = TRUE, !.writerAttempt = named, !.version = ver]
                    ELSE [c EXCEPT !.readers = n, !.guardedReaders = guards, !.version = ver]
  BY DEF Grant, Core
<1> HIDE DEF guards, ver, n, named
<1>3. CASE w.mode = "write"
  BY <1>1, <1>2, <1>3, ZenonT(60) DEF Core
<1>4. CASE w.mode # "write"
  BY <1>1, <1>2, <1>4 DEF Core
<1> QED
  BY <1>3, <1>4

\* The engine after an attempt has joined the queue.
LEMMA Joined ==
  ASSUME NEW c, Sound(c), NEW w \in Waiter, w.id \notin Ids(c.waiters)
  PROVE  /\ Sound(Enqueue(c, w)) /\ Enqueue(c, w).verdict = c.verdict
         /\ Ids(Enqueue(c, w).waiters) = Ids(c.waiters) \union {w.id}
<1>1. c \in Core /\ c.waiters \in Seq(Waiter) /\ Distinct(c.waiters)
      /\ Bump(c, 1) \in 0..(VersionModulus - 1)
  BY BumpType DEF Sound, Core
<1>2. \A i \in DOMAIN c.waiters : c.waiters[i].id # w.id
  BY DEF Ids, Elems
<1> DEFINE q == Append(c.waiters, w)
<1>3. q \in Seq(Waiter) /\ Distinct(q) /\ Elems(q) = Elems(c.waiters) \union {w}
  BY <1>1, <1>2, AppendDistinct
<1> HIDE DEF q
<1>4. /\ Enqueue(c, w) \in Core /\ Enqueue(c, w).waiters = q
      /\ Enqueue(c, w).verdict = c.verdict
  BY <1>1, <1>3 DEF Enqueue, Core, q
<1> QED
  BY <1>3, <1>4 DEF Sound, Ids

\* The identities in the queue are attempts.
LEMMA QueuedAreProcs ==
  ASSUME NEW c, Sound(c)
  PROVE  Ids(c.waiters) \subseteq Procs
<1>1. c.waiters \in Seq(Waiter)
  BY DEF Sound, Core
<1>2. Elems(c.waiters) \subseteq Waiter
  BY <1>1 DEF Elems
<1> QED
  BY <1>2 DEF Ids, Waiter

\* What the invariant says of the engine by itself.
LEMMA EngineSound ==
  ASSUME OInv
  PROVE  Sound(core) /\ Ids(core.waiters) \subseteq Procs
<1>1. Sound(core)
  BY DEF OInv, TypeOK, PlacesTied, Sound
<1> QED
  BY <1>1, QueuedAreProcs

-----------------------------------------------------------------------------
(* The steps, one lemma for each. *)

\* A new lock has nothing to deliver.
LEMMA Initially == Init => OInv
<1> SUFFICES ASSUME Init PROVE OInv
  OBVIOUS
<1>1. InitialCore \in Core /\ Distinct(InitialCore.waiters) /\ Ids(InitialCore.waiters) = {}
  BY CoreAssumption DEF InitialCore, Core, Verdicts, Distinct, Ids, Elems
<1>2. TypeOK
  <2>1. <<>> \in Seq(Event) /\ <<>> \in Seq(Kinds)
    OBVIOUS
  <2> QED
    BY <1>1, <2>1 DEF Init, TypeOK, Places, Attempt, Waiter, Modes, TimerStates
<1>3. PlacesTied
  BY <1>1 DEF Init, PlacesTied, InitialCore, Senders
<1>4. DeliveriesCounted
  <2>1. {p \in Procs : core.verdict[p] = "granted" /\ pc[p] \notin {"send", "back"}} = {}
    BY DEF Init, InitialCore
  <2> QED
    BY <2>1, FS_EmptySet DEF Init, DeliveriesCounted
<1> QED
  BY <1>2, <1>3, <1>4 DEF OInv, NothingStranded, Init

\* A step that leaves the engine, the calls and what they have to send alone.
LEMMA OnTheSide ==
  ASSUME OInv, TypeOK', UNCHANGED <<core, undelivered, pending, pc, outbox["call"]>>
  PROVE  OInv'
<1>1. PlacesTied'
  BY DEF OInv, PlacesTied
<1>2. DeliveriesCounted'
  BY DEF OInv, DeliveriesCounted
<1> QED
  BY <1>1, <1>2 DEF OInv, NothingStranded

\* The steps of the clock and the timers that send nothing.
LEMMA ClockSteps ==
  ASSUME OInv, NEW p \in Procs,
         \/ Expire(p) \/ WaitElapses(p) \/ HoldElapses(p)
         \/ WaitFires(p) \/ HoldFires(p) \/ FindHold(p)
  PROVE  OInv'
<1>1. UNCHANGED <<lockID, core, undelivered, pending, pc, want, outbox, seen>>
  BY DEF Expire, WaitElapses, HoldElapses, WaitFires, HoldFires, FindHold,
         coreVars, callVars, leaveVars, sendVars
<1>2. /\ dead' \in SUBSET Procs /\ left' \in SUBSET Procs
      /\ waitLong' \in SUBSET Procs /\ holdLong' \in SUBSET Procs
      /\ waitReported' \in SUBSET Procs /\ holdReported' \in SUBSET Procs
  BY DEF OInv, TypeOK, Expire, WaitElapses, HoldElapses, WaitFires, HoldFires, FindHold,
         callVars, leaveVars, clockVars, waitVars
<1>3. waitTimer' \in [Procs -> TimerStates] /\ holdTimer' \in [Procs -> TimerStates]
  <2>1. CASE Expire(p) \/ WaitElapses(p) \/ HoldElapses(p)
    BY <2>1 DEF OInv, TypeOK, Expire, WaitElapses, HoldElapses, coreVars, waitVars
  <2>2. CASE WaitFires(p)
    BY <2>2 DEF OInv, TypeOK, WaitFires, coreVars, TimerStates
  <2>3. CASE HoldFires(p)
    BY <2>3 DEF OInv, TypeOK, HoldFires, waitVars, TimerStates
  <2>4. CASE FindHold(p)
    BY <2>4 DEF OInv, TypeOK, FindHold, waitVars, TimerStates
  <2> QED
    BY <2>1, <2>2, <2>3, <2>4
<1>4. TypeOK'
  BY <1>1, <1>2, <1>3 DEF OInv, TypeOK
<1> QED
  BY <1>1, <1>4, OnTheSide

\* The callbacks that look whether they have something to report.
LEMMA CheckSteps ==
  ASSUME OInv, NEW p \in Procs, CheckWait(p) \/ CheckHold(p)
  PROVE  OInv'
<1>1. TypeOK /\ core \in Core /\ lockID \in Nat
  BY DEF OInv, TypeOK
<1>2. /\ Ev(p, "waitExceeded", core) \in Event /\ Ev(p, "holdExceeded", core) \in Event
      /\ "wait" \in Senders /\ "hold" \in Senders /\ "call" \in Senders
  BY <1>1, EvType DEF Kinds, Senders
<1>3. /\ <<Ev(p, "waitExceeded", core)>> \in Seq(Event)
      /\ <<Ev(p, "holdExceeded", core)>> \in Seq(Event)
  BY <1>2
<1>4. /\ outbox' \in [Senders -> [Procs -> Seq(Event)]] /\ seen' = seen
      /\ outbox'["call"] = outbox["call"]
  <2>1. CASE UNCHANGED sendVars
    BY <1>1, <2>1 DEF sendVars, TypeOK
  <2>2. CASE Post("wait", p, <<Ev(p, "waitExceeded", core)>>)
    BY <1>1, <1>2, <1>3, <2>2, PostType
  <2>3. CASE Post("hold", p, <<Ev(p, "holdExceeded", core)>>)
    BY <1>1, <1>2, <1>3, <2>3, PostType
  <2> QED
    BY <2>1, <2>2, <2>3 DEF CheckWait, CheckHold
<1>5. UNCHANGED <<lockID, core, undelivered, pending, pc, want, dead, left, waitLong, holdLong>>
  BY DEF CheckWait, CheckHold, coreVars, callVars, leaveVars, clockVars
<1>6. /\ waitReported' \in SUBSET Procs /\ holdReported' \in SUBSET Procs
      /\ waitTimer' \in [Procs -> TimerStates] /\ holdTimer' \in [Procs -> TimerStates]
  <2>1. CASE CheckWait(p)
    BY <1>1, <2>1 DEF TypeOK, CheckWait, TimerStates, coreVars, leaveVars
  <2>2. CASE CheckHold(p)
    BY <1>1, <2>2 DEF TypeOK, CheckHold, TimerStates, waitVars
  <2> QED
    BY <2>1, <2>2
<1>7. TypeOK'
  BY <1>1, <1>4, <1>5, <1>6 DEF TypeOK
<1> QED
  BY <1>4, <1>5, <1>7, OnTheSide

\* An observer is told an event.
LEMMA DeliverStep ==
  ASSUME OInv, NEW s \in Senders, NEW p \in Procs, Deliver(s, p)
  PROVE  OInv'
<1> DEFINE e == Head(outbox[s][p])
           rest == Tail(outbox[s][p])
<1>1. TypeOK /\ outbox[s][p] \in Seq(Event) /\ outbox[s][p] # <<>> /\ "call" \in Senders
  BY DEF OInv, TypeOK, Deliver, Senders
<1>2. e \in Event /\ rest \in Seq(Event) /\ (Len(outbox[s][p]) = 1 => rest = <<>>)
  <2>1. ASSUME NEW t \in Seq(Event), t # <<>>
        PROVE  Head(t) \in Event /\ Tail(t) \in Seq(Event) /\ (Len(t) = 1 => Tail(t) = <<>>)
    <3>1. Head(t) \in Event /\ Tail(t) \in Seq(Event) /\ Len(Tail(t)) = Len(t) - 1
      BY <2>1, HeadTailProperties
    <3>2. ASSUME NEW r \in Seq(Event), Len(r) = 0
          PROVE  r = <<>>
      BY <3>2, EmptySeq
    <3> QED
      BY <3>1, <3>2
  <2> QED
    BY <1>1, <2>1
<1>3. e.id \in Procs /\ e.kind \in Kinds
  BY <1>2 DEF Event
<1> HIDE DEF e, rest
<1>4. /\ outbox' = [outbox EXCEPT ![s][p] = rest]
      /\ seen' = [seen EXCEPT ![e.id] = Append(seen[e.id], e.kind)]
      /\ UNCHANGED <<core, undelivered, pending, lockID, holdTimer, want, dead, left,
                     holdReported, waitLong, holdLong, waitTimer, waitReported>>
  BY DEF Deliver, coreVars, leaveVars, clockVars, waitVars, e, rest
<1>5. s = "call" => pc[p] \in {"announce", "deliver", "send"}
  BY <1>1 DEF OInv, PlacesTied
<1>6. CASE s = "call" /\ Len(outbox[s][p]) = 1
  <2>1. /\ pc' = [pc EXCEPT ![p] = Sending[pc[p]]]
        /\ pc' \in [Procs -> Places]
        /\ \A q \in Procs : q # p => pc'[q] = pc[q]
        /\ pc[p] = "announce" => pc'[p] = "select"
        /\ pc[p] = "deliver" => pc'[p] = "complete"
        /\ pc[p] = "send" => pc'[p] = "back"
    BY <1>1, <1>5, <1>6 DEF Deliver, TypeOK, Places, Sending
  <2>2. TypeOK'
    BY <1>1, <1>2, <1>3, <1>4, <2>1 DEF TypeOK
  <2>3. outbox'["call"][p] = <<>> /\ \A q \in Procs : q # p => outbox'["call"][q] = outbox["call"][q]
    BY <1>1, <1>2, <1>4, <1>6 DEF TypeOK
  <2>4. PlacesTied'
    BY <1>4, <1>5, <1>6, <2>1, <2>3 DEF OInv, PlacesTied
  <2>5. DeliveriesCounted'
    BY <1>4, <1>5, <1>6, <2>1, CounterKept DEF OInv, Undelivered
  <2> QED
    BY <1>4, <2>2, <2>4, <2>5 DEF OInv, NothingStranded
<1>7. CASE ~(s = "call" /\ Len(outbox[s][p]) = 1)
  <2>1. pc' = pc
    BY <1>7 DEF Deliver
  <2>2. TypeOK'
    BY <1>1, <1>2, <1>3, <1>4, <2>1 DEF TypeOK
  <2>3. \A q \in Procs : outbox'["call"][q] # <<>> => outbox["call"][q] # <<>>
    BY <1>1, <1>4 DEF TypeOK
  <2>4. PlacesTied'
    BY <1>4, <2>1, <2>3 DEF OInv, PlacesTied
  <2>5. DeliveriesCounted'
    BY <1>4, <2>1 DEF OInv, DeliveriesCounted
  <2> QED
    BY <1>4, <2>2, <2>4, <2>5 DEF OInv, NothingStranded
<1> QED
  BY <1>6, <1>7

\* A refusal.
LEMMA RefuseStep ==
  ASSUME OInv, NEW p \in Procs, NEW k \in {"rejected", "tryFailed"}, Refuse(p, k)
  PROVE  OInv'
<1>1. TypeOK /\ core \in Core /\ lockID \in Nat /\ "call" \in Senders /\ k \in Kinds
  BY DEF OInv, TypeOK, Senders, Kinds
<1>2. <<Ev(p, k, core)>> \in Seq(Event)
  BY <1>1, EvType
<1>3. /\ outbox' \in [Senders -> [Procs -> Seq(Event)]] /\ seen' = seen
      /\ \A q \in Procs : q # p => outbox'["call"][q] = outbox["call"][q]
  BY <1>1, <1>2, PostType DEF Refuse
<1>4. /\ pc[p] = "idle" /\ pc' = [pc EXCEPT ![p] = "send"]
      /\ UNCHANGED <<lockID, core, undelivered, pending, holdTimer, want, dead, left,
                     holdReported, waitLong, holdLong, waitTimer, waitReported>>
  BY DEF Refuse, GoTo, coreVars, leaveVars, clockVars, waitVars
<1>5. TypeOK'
  BY <1>1, <1>3, <1>4 DEF TypeOK, Places
<1>6. core.verdict[p] = "none" /\ pc' \in [Procs -> Places] /\ pc'[p] = "send"
      /\ \A q \in Procs : q # p => pc'[q] = pc[q]
  BY <1>1, <1>4 DEF OInv, PlacesTied, TypeOK, Places
<1>7. PlacesTied'
  BY <1>3, <1>4, <1>6 DEF OInv, PlacesTied
<1>8. DeliveriesCounted'
  BY <1>4, <1>6, CounterKept DEF OInv, Undelivered
<1> QED
  BY <1>4, <1>5, <1>7, <1>8 DEF OInv, NothingStranded

\* The select finds the waiter finished.
LEMMA WakeStep ==
  ASSUME OInv, NEW p \in Procs, Wake(p)
  PROVE  OInv'
<1>1. /\ pc[p] = "select" /\ core.verdict[p] # "none" /\ pc' = [pc EXCEPT ![p] = "finish"]
      /\ UNCHANGED <<lockID, core, undelivered, pending, holdTimer, want, dead, left,
                     holdReported, waitLong, holdLong, waitTimer, waitReported, outbox, seen>>
  BY DEF Wake, GoTo, coreVars, leaveVars, clockVars, waitVars, sendVars
<1>2. TypeOK /\ pc' \in [Procs -> Places] /\ pc'[p] = "finish"
      /\ \A q \in Procs : q # p => pc'[q] = pc[q]
  BY <1>1 DEF OInv, TypeOK, Places
<1>3. TypeOK'
  BY <1>1, <1>2 DEF TypeOK
<1>4. PlacesTied'
  BY <1>1, <1>2 DEF OInv, PlacesTied
<1>5. DeliveriesCounted'
  BY <1>1, <1>2, CounterKept DEF OInv, Undelivered
<1> QED
  BY <1>1, <1>3, <1>4, <1>5 DEF OInv, NothingStranded

\* The end of a wait.
LEMMA FinishWaitStep ==
  ASSUME OInv, NEW p \in Procs, FinishWait(p)
  PROVE  OInv'
<1>1. TypeOK /\ core \in Core /\ lockID \in Nat /\ "call" \in Senders
  BY DEF OInv, TypeOK, Senders
<1>2. /\ Ev(p, "waitExceeded", core) \in Event /\ Ev(p, "acquired", core) \in Event
      /\ Ev(p, "rejected", core) \in Event
  BY <1>1, EvType DEF Kinds
<1>3. /\ pc[p] = "finish"
      /\ waitTimer' = [waitTimer EXCEPT ![p] = IF @ = "armed" THEN "off" ELSE @]
      /\ \E first \in {<<>>, <<Ev(p, "waitExceeded", core)>>} : Conclude(p, first)
      /\ waitReported' \in {waitReported, waitReported \union {p}}
      /\ UNCHANGED <<lockID, core, undelivered, pending, holdTimer, want, dead, left,
                     holdReported, waitLong, holdLong>>
  BY DEF FinishWait, coreVars, leaveVars, clockVars
<1>4. PICK first \in {<<>>, <<Ev(p, "waitExceeded", core)>>} : Conclude(p, first)
  BY <1>3
<1>5. /\ Append(first, Ev(p, "acquired", core)) \in Seq(Event)
      /\ Append(first, Ev(p, "rejected", core)) \in Seq(Event)
  <2>1. <<>> \in Seq(Event) /\ <<Ev(p, "waitExceeded", core)>> \in Seq(Event)
    BY <1>2
  <2>2. first \in Seq(Event)
    BY <1>4, <2>1
  <2> QED
    BY <1>2, <2>2, AppendProperties
<1>6. /\ outbox' \in [Senders -> [Procs -> Seq(Event)]] /\ seen' = seen
      /\ \A q \in Procs : q # p => outbox'["call"][q] = outbox["call"][q]
      /\ pc' \in [Procs -> Places] /\ \A q \in Procs : q # p => pc'[q] = pc[q]
      /\ IF core.verdict[p] = "granted" THEN pc'[p] = "deliver" ELSE pc'[p] = "send"
  <2>1. CASE core.verdict[p] = "granted"
    <3>1. pc' = [pc EXCEPT ![p] = "deliver"]
          /\ Post("call", p, Append(first, Ev(p, "acquired", core)))
      BY <1>4, <2>1 DEF Conclude, GoTo
    <3> QED
      BY <1>1, <1>5, <2>1, <3>1, PostType DEF TypeOK, Places
  <2>2. CASE core.verdict[p] # "granted"
    <3>1. pc' = [pc EXCEPT ![p] = "send"]
          /\ Post("call", p, Append(first, Ev(p, "rejected", core)))
      BY <1>4, <2>2 DEF Conclude, GoTo
    <3> QED
      BY <1>1, <1>5, <2>2, <3>1, PostType DEF TypeOK, Places
  <2> QED
    BY <2>1, <2>2
<1>7. TypeOK'
  <2>1. waitTimer' \in [Procs -> TimerStates] /\ waitReported' \in SUBSET Procs
    BY <1>1, <1>3 DEF TypeOK, TimerStates
  <2> QED
    BY <1>1, <1>3, <1>6, <2>1 DEF TypeOK
<1>8. PlacesTied'
  BY <1>3, <1>6, EngineSound DEF OInv, PlacesTied
<1>9. DeliveriesCounted'
  BY <1>3, <1>6, CounterKept DEF OInv, Undelivered
<1> QED
  BY <1>3, <1>7, <1>8, <1>9 DEF OInv, NothingStranded

\* A delivery counts itself out, and the last one takes what is pending with it.
LEMMA CompleteStep ==
  ASSUME OInv, NEW p \in Procs, Complete(p)
  PROVE  OInv'
<1>1. TypeOK /\ "call" \in Senders /\ pending \in Seq(Event) /\ pc[p] = "complete"
      /\ undelivered' = undelivered - 1
      /\ UNCHANGED <<lockID, core, holdTimer, want, dead, left, holdReported, waitLong,
                     holdLong, waitTimer, waitReported>>
  BY DEF OInv, TypeOK, Senders, Complete, leaveVars, clockVars, waitVars
<1>2. p \in Undelivered /\ outbox["call"][p] = <<>>
  BY <1>1 DEF OInv, PlacesTied, Undelivered
<1>3. undelivered = Cardinality(Undelivered) /\ IsFiniteSet(Undelivered)
      /\ undelivered \in Nat /\ undelivered >= 1
  <2>1. IsFiniteSet(Undelivered) /\ Cardinality(Undelivered) \in Nat
    BY FiniteProcs DEF Undelivered
  <2>2. Cardinality(Undelivered) # 0
    BY <1>2, <2>1, FS_EmptySet
  <2>3. undelivered = Cardinality(Undelivered)
    BY DEF OInv, DeliveriesCounted, Undelivered
  <2> QED
    BY <2>1, <2>2, <2>3
<1>4. \/ /\ pc' = [pc EXCEPT ![p] = "back"]
         /\ pending' = pending /\ outbox' = outbox /\ seen' = seen
         /\ undelivered - 1 > 0 \/ pending = <<>>
      \/ /\ pc' = [pc EXCEPT ![p] = "send"] /\ pending' = <<>> /\ Post("call", p, pending)
  BY DEF Complete, GoTo, sendVars
<1>5. pc' \in [Procs -> Places] /\ pc'[p] \in {"send", "back"}
      /\ \A q \in Procs : q # p => pc'[q] = pc[q]
  BY <1>1, <1>4 DEF TypeOK, Places
<1>6. /\ outbox' \in [Senders -> [Procs -> Seq(Event)]] /\ seen' = seen
      /\ \A q \in Procs : q # p => outbox'["call"][q] = outbox["call"][q]
      /\ outbox'["call"][p] # <<>> => pc'[p] = "send"
  <2>1. CASE Post("call", p, pending) /\ pc' = [pc EXCEPT ![p] = "send"]
    BY <1>1, <2>1, PostType DEF TypeOK, Places
  <2>2. CASE outbox' = outbox /\ seen' = seen
    BY <1>1, <1>2, <2>2 DEF TypeOK
  <2> QED
    BY <1>4, <2>1, <2>2
<1>7. TypeOK'
  <2>1. pending' \in Seq(Event)
    <3>1. <<>> \in Seq(Event)
      OBVIOUS
    <3>2. pending' \in {pending, <<>>}
      BY <1>4
    <3> QED
      BY <1>1, <3>1, <3>2
  <2>2. undelivered' \in Nat
    BY <1>1, <1>3
  <2> QED
    BY <1>1, <1>5, <1>6, <2>1, <2>2 DEF TypeOK
<1>8. PlacesTied'
  BY <1>1, <1>5, <1>6, EngineSound DEF OInv, PlacesTied
<1>9. DeliveriesCounted'
  <2>1. Undelivered' = Undelivered \ {p}
    BY <1>1, <1>5 DEF Undelivered
  <2>2. Cardinality(Undelivered \ {p}) = Cardinality(Undelivered) - 1
    BY <1>2, <1>3, FS_RemoveElement
  <2> QED
    BY <1>1, <1>3, <2>1, <2>2 DEF DeliveriesCounted, Undelivered
<1>10. NothingStranded'
  BY <1>1, <1>3, <1>4 DEF NothingStranded
<1> QED
  BY <1>7, <1>8, <1>9, <1>10 DEF OInv

\* The identity of an attempt that is over is used again.
LEMMA RecycleStep ==
  ASSUME OInv, NEW p \in Procs, Recycle(p)
  PROVE  OInv'
<1>1. TypeOK /\ core \in Core
  BY DEF OInv, TypeOK
<1>2. /\ pc[p] = "back" /\ pc' = [pc EXCEPT ![p] = "idle"]
      /\ outbox["call"][p] = <<>>
      /\ core' = [core EXCEPT !.verdict = [core.verdict EXCEPT ![p] = "none"]]
      /\ UNCHANGED <<lockID, undelivered, pending, holdTimer, outbox, waitTimer>>
  BY DEF Recycle, Over, GoTo, Senders
<1>3. /\ core' \in Core /\ core'.waiters = core.waiters /\ core'.verdict[p] = "none"
      /\ \A q \in Procs : q # p => core'.verdict[q] = core.verdict[q]
  BY <1>1, <1>2 DEF Core, Verdicts
<1>4. pc' \in [Procs -> Places] /\ pc'[p] = "idle"
      /\ \A q \in Procs : q # p => pc'[q] = pc[q]
  BY <1>1, <1>2 DEF TypeOK, Places
<1>5. TypeOK'
  <2>1. want' \in [Procs -> Waiter] /\ seen' \in [Procs -> Seq(Kinds)]
    <3>1. Attempt(p, "read", FALSE) \in Waiter /\ <<>> \in Seq(Kinds)
      BY DEF Attempt, Waiter, Modes
    <3> QED
      BY <1>1, <3>1 DEF TypeOK, Recycle
  <2>2. /\ dead' \in SUBSET Procs /\ left' \in SUBSET Procs
        /\ waitLong' \in SUBSET Procs /\ holdLong' \in SUBSET Procs
        /\ waitReported' \in SUBSET Procs /\ holdReported' \in SUBSET Procs
    BY <1>1 DEF TypeOK, Recycle
  <2> QED
    BY <1>1, <1>2, <1>3, <1>4, <2>1, <2>2 DEF TypeOK
<1>6. p \notin Ids(core.waiters)
  BY <1>2 DEF OInv, PlacesTied
<1>7. PlacesTied'
  BY <1>2, <1>3, <1>4, <1>6, EngineSound DEF OInv, PlacesTied
<1>8. DeliveriesCounted'
  BY <1>2, <1>3, <1>4, CounterKept DEF OInv, Undelivered
<1> QED
  BY <1>2, <1>5, <1>7, <1>8 DEF OInv, NothingStranded

\* A waiter gives up, which may let others in.
LEMMA GiveUpStep ==
  ASSUME OInv, NEW p \in Procs, GiveUp(p)
  PROVE  OInv'
<1> DEFINE d == CancelWaiter(core, p, dead)
<1>1. /\ Serves(core, d, {p})
      /\ d.verdict[p] = IF core.verdict[p] = "none" THEN "context" ELSE core.verdict[p]
      /\ core.verdict[p] = "none" => p \notin Ids(d.waiters)
  BY EngineSound, CancelWaiterServes
<1>2. /\ pc[p] = "select" /\ Advance(d, want, holdTimer) /\ pc' = [pc EXCEPT ![p] = "finish"]
      /\ UNCHANGED <<pending, want, dead, left, holdReported, waitLong, holdLong, waitTimer,
                     waitReported, outbox, seen>>
  BY DEF GiveUp, GoTo, leaveVars, clockVars, waitVars, sendVars
<1> HIDE DEF d
<1>3. Sound(d) /\ d \in Core /\ Ids(d.waiters) \subseteq Procs
      /\ Ids(d.waiters) \subseteq Ids(core.waiters)
  BY <1>1, QueuedAreProcs DEF Serves, Sound, Ids
<1>4. TypeOK /\ pc' \in [Procs -> Places] /\ pc'[p] = "finish"
      /\ \A q \in Procs : q # p => pc'[q] = pc[q]
  BY <1>2 DEF OInv, TypeOK, Places
<1>5. \A q \in Procs \ {p} : Suits(d, q)
  BY <1>1, ServedAttempts DEF OInv
<1>6. d.verdict[p] # "none" /\ p \notin Ids(d.waiters)
  BY <1>1, <1>3 DEF OInv, PlacesTied
<1>7. /\ core' \in Core /\ lockID' \in Nat /\ holdTimer' \in [Procs -> TimerStates]
      /\ undelivered' \in Nat /\ undelivered' >= undelivered /\ DeliveriesCounted'
  <2>1. \A q \in Procs : core.verdict[q] = "granted" =>
          d.verdict[q] = "granted" /\ (pc'[q] \in {"send", "back"} <=> pc[q] \in {"send", "back"})
    BY <1>1, <1>2, <1>4, <1>5 DEF Suits
  <2>2. \A q \in Procs : core.verdict[q] # "granted" /\ d.verdict[q] = "granted" =>
          pc'[q] \notin {"send", "back"}
    BY <1>4, <1>5 DEF Suits
  <2> QED
    BY <1>2, <1>3, <1>4, <2>1, <2>2, CounterAdvances DEF OInv, TypeOK
<1>8. core' = d
  BY <1>2 DEF Advance
<1>9. TypeOK'
  BY <1>2, <1>4, <1>7 DEF TypeOK
<1>10. PlacesTied'
  BY <1>2, <1>3, <1>4, <1>5, <1>6, <1>8 DEF OInv, PlacesTied, Sound, Suits
<1> QED
  BY <1>2, <1>4, <1>7, <1>9, <1>10 DEF OInv, NothingStranded, TypeOK

\* The events of a release are well formed.
LEMMA FarewellType ==
  ASSUME TypeOK, NEW p \in Procs, NEW d \in Core
  PROVE  Farewell(p, d) \in Seq(Event)
<1>1. Ev(p, "holdExceeded", core) \in Event /\ Ev(p, "released", d) \in Event
  BY EvType DEF TypeOK, Kinds
<1> DEFINE report == IF DueHold(p) THEN <<Ev(p, "holdExceeded", core)>> ELSE <<>>
           rest == <<Ev(p, "released", d)>>
<1>2. report \in Seq(Event) /\ rest \in Seq(Event)
  BY <1>1
<1> HIDE DEF report, rest
<1>3. report \o rest \in Seq(Event)
  BY <1>2, ConcatProperties
<1> QED
  BY <1>3 DEF Farewell, report, rest

\* A release queues its events or sends them, as the counter tells it.
LEMMA ReleaseStep ==
  ASSUME OInv, NEW p \in Procs, ReleaseLock(p)
  PROVE  OInv'
<1> DEFINE d == Relinquished(p)
           timer == [holdTimer EXCEPT ![p] = IF @ = "armed" THEN "off" ELSE @]
<1>1. TypeOK /\ "release" \in Senders /\ "call" \in Senders /\ want[p].mode \in Modes
  BY DEF OInv, TypeOK, Senders, Waiter
<1>2. /\ ReleaseMatches(core, want[p].mode, IF want[p].guarded THEN p ELSE NoAttempt)
      /\ Advance(d, want, timer)
      /\ left' = left \union {p} /\ holdReported' \in {holdReported, holdReported \union {p}}
      /\ UNCHANGED <<pc, want, dead, waitLong, holdLong, waitTimer, waitReported>>
      /\ \/ undelivered > 0 /\ pending' = pending \o Farewell(p, d) /\ UNCHANGED <<outbox, seen>>
         \/ Post("release", p, Farewell(p, d)) /\ pending' = pending
  BY DEF ReleaseLock, Leave, callVars, clockVars, waitVars, sendVars
<1>3. Serves(core, d, {})
  BY <1>1, <1>2, EngineSound, ReleaseServes DEF Relinquished
<1> HIDE DEF d
<1>4. Sound(d) /\ d \in Core /\ Ids(d.waiters) \subseteq Procs
  BY <1>3, QueuedAreProcs DEF Serves, Sound
<1>5. \A q \in Procs : Suits(d, q)
  BY <1>3, ServedAttempts DEF OInv
<1>6. timer \in [Procs -> TimerStates]
  BY <1>1 DEF TypeOK, TimerStates
<1> HIDE DEF timer
<1>7. /\ core' \in Core /\ lockID' \in Nat /\ holdTimer' \in [Procs -> TimerStates]
      /\ undelivered' \in Nat /\ undelivered' >= undelivered /\ DeliveriesCounted'
  <2>1. \A q \in Procs : core.verdict[q] # "granted" /\ d.verdict[q] = "granted" =>
          pc'[q] \notin {"send", "back"}
    BY <1>2, <1>5 DEF Suits
  <2>2. \A q \in Procs : core.verdict[q] = "granted" =>
          d.verdict[q] = "granted" /\ (pc'[q] \in {"send", "back"} <=> pc[q] \in {"send", "back"})
    BY <1>2, <1>5 DEF Suits
  <2> QED
    BY <1>1, <1>2, <1>4, <1>6, <2>1, <2>2, CounterAdvances DEF OInv
<1>8. core' = d
  BY <1>2 DEF Advance
<1>9. /\ pending' \in Seq(Event) /\ outbox' \in [Senders -> [Procs -> Seq(Event)]]
      /\ seen' = seen /\ outbox'["call"] = outbox["call"]
  <2>1. Farewell(p, d) \in Seq(Event) /\ pending \in Seq(Event)
    BY <1>1, <1>4, FarewellType DEF TypeOK
  <2>2. pending \o Farewell(p, d) \in Seq(Event)
    BY <2>1, ConcatProperties
  <2>3. CASE Post("release", p, Farewell(p, d)) /\ pending' = pending
    BY <1>1, <2>1, <2>3, PostType
  <2>4. CASE pending' = pending \o Farewell(p, d) /\ UNCHANGED <<outbox, seen>>
    BY <1>1, <2>2, <2>4 DEF TypeOK
  <2> QED
    BY <1>2, <2>3, <2>4
<1>10. TypeOK'
  <2>1. left' \in SUBSET Procs /\ holdReported' \in SUBSET Procs
    BY <1>1, <1>2 DEF TypeOK
  <2> QED
    BY <1>1, <1>2, <1>7, <1>9, <2>1 DEF TypeOK
<1>11. PlacesTied'
  BY <1>2, <1>4, <1>5, <1>8, <1>9 DEF OInv, PlacesTied, Sound, Suits
<1>12. NothingStranded'
  BY <1>1, <1>2, <1>7 DEF OInv, NothingStranded, TypeOK
<1> QED
  BY <1>7, <1>10, <1>11, <1>12 DEF OInv

\* An attempt gets the lock on the spot, after the queue has been served or not.
LEMMA ImmediatelyStep ==
  ASSUME OInv, NEW p \in Procs, NEW m \in Modes, NEW g \in BOOLEAN, NEW c,
         Serves(core, c, {}), Immediately(p, m, g, c)
  PROVE  OInv'
<1> DEFINE w == Attempt(p, m, g)
           a == Grant(c, w)
           d == [a EXCEPT !.verdict = [@ EXCEPT ![p] = "granted"]]
<1>1. TypeOK /\ "call" \in Senders /\ w \in Waiter /\ c \in Core /\ Sound(c) /\ lockID \in Nat
  BY DEF OInv, TypeOK, Senders, Attempt, Waiter, Modes, Serves, Sound
<1>2. d \in Core /\ d.waiters = <<>> /\ d.verdict = [c.verdict EXCEPT ![p] = "granted"]
  <2> DEFINE v == [c.verdict EXCEPT ![p] = "granted"]
  <2>1. c.waiters = <<>>
    BY DEF Immediately, CanAcquireImmediately
  <2>2. a \in Core /\ a.waiters = <<>> /\ a.verdict = c.verdict
    BY <1>1, <2>1, GrantKeepsQueue
  <2> HIDE DEF a, w
  <2>3. v \in [Procs -> Verdicts] /\ d = [a EXCEPT !.verdict = v]
    BY <1>1, <2>2 DEF Core, Verdicts
  <2> HIDE DEF d, v
  <2>4. d \in Core /\ d.waiters = <<>> /\ d.verdict = v
    BY <2>2, <2>3 DEF Core
  <2> QED
    BY <2>4 DEF v
<1>3. <<Ev(p, "acquired", d)>> \in Seq(Event)
  BY <1>1, <1>2, EvType DEF Kinds
<1>4. /\ pc[p] = "idle" /\ pc' = [pc EXCEPT ![p] = "deliver"]
      /\ want' = [want EXCEPT ![p] = w] /\ Advance(d, want', holdTimer)
      /\ Post("call", p, <<Ev(p, "acquired", d)>>)
      /\ UNCHANGED <<pending, dead, left, holdReported, waitLong, holdLong, waitTimer,
                     waitReported>>
  BY DEF Immediately, GoTo, leaveVars, clockVars, waitVars
<1> HIDE DEF a, d, w
<1>5. /\ d.verdict[p] = "granted"
      /\ \A q \in Procs : q # p => d.verdict[q] = c.verdict[q]
      /\ Ids(d.waiters) = {} /\ Distinct(d.waiters)
  BY <1>1, <1>2 DEF Core, Ids, Elems, Distinct
<1>6. \A q \in Procs : Suits(c, q)
  BY ServedAttempts DEF OInv
<1>7. /\ pc' \in [Procs -> Places] /\ pc'[p] = "deliver"
      /\ \A q \in Procs : q # p => pc'[q] = pc[q]
  BY <1>1, <1>4 DEF TypeOK, Places
<1>8. /\ outbox' \in [Senders -> [Procs -> Seq(Event)]] /\ seen' = seen
      /\ \A q \in Procs : q # p => outbox'["call"][q] = outbox["call"][q]
  BY <1>1, <1>3, <1>4, PostType
<1>9. /\ core' \in Core /\ lockID' \in Nat /\ holdTimer' \in [Procs -> TimerStates]
      /\ undelivered' \in Nat /\ undelivered' >= undelivered /\ DeliveriesCounted'
  <2>1. \A q \in Procs : core.verdict[q] = "granted" =>
          d.verdict[q] = "granted" /\ (pc'[q] \in {"send", "back"} <=> pc[q] \in {"send", "back"})
    BY <1>4, <1>5, <1>6, <1>7 DEF Suits, OInv, PlacesTied
  <2>2. \A q \in Procs : core.verdict[q] # "granted" /\ d.verdict[q] = "granted" =>
          pc'[q] \notin {"send", "back"}
    BY <1>5, <1>6, <1>7 DEF Suits
  <2>3. holdTimer \in [Procs -> TimerStates]
    BY <1>1 DEF TypeOK
  <2> QED
    BY <1>1, <1>2, <1>4, <2>1, <2>2, <2>3, CounterAdvances DEF OInv
<1>10. core' = d
  BY <1>4 DEF Advance
<1>11. TypeOK'
  BY <1>1, <1>4, <1>7, <1>8, <1>9 DEF TypeOK
<1>12. PlacesTied'
  BY <1>5, <1>6, <1>7, <1>8, <1>10 DEF OInv, PlacesTied, Suits
<1> QED
  BY <1>1, <1>4, <1>9, <1>11, <1>12 DEF OInv, NothingStranded, TypeOK

\* An attempt queues.
LEMMA AcquireWaitStep ==
  ASSUME OInv, NEW p \in Procs, NEW m \in Modes, NEW g \in BOOLEAN, AcquireWait(p, m, g)
  PROVE  OInv'
<1> DEFINE c == Served
           w == Attempt(p, m, g)
           d == Enqueue(c, w)
<1>1. TypeOK /\ "call" \in Senders /\ w \in Waiter /\ w.id = p /\ lockID \in Nat
  BY DEF OInv, TypeOK, Senders, Attempt, Waiter, Modes
<1>2. Serves(core, c, {}) /\ Sound(c)
  BY EngineSound, ServedServes
<1>3. /\ pc[p] = "idle" /\ pc' = [pc EXCEPT ![p] = "announce"]
      /\ want' = [want EXCEPT ![p] = w] /\ Advance(d, want', holdTimer)
      /\ Post("call", p, <<Ev(p, "waitStarted", d)>>)
      /\ waitTimer' = [waitTimer EXCEPT ![p] = IF WaitThreshold THEN "armed" ELSE "off"]
      /\ UNCHANGED <<pending, dead, left, holdReported, waitLong, holdLong, waitReported>>
  BY DEF AcquireWait, GoTo, leaveVars, clockVars
<1> HIDE DEF c, w
<1>4. \A q \in Procs : Suits(c, q)
  BY <1>2, ServedAttempts DEF OInv
<1>5. p \notin Ids(c.waiters)
  BY <1>3, <1>4 DEF Suits
<1>6. /\ Sound(d) /\ d.verdict = c.verdict /\ Ids(d.waiters) = Ids(c.waiters) \union {p}
      /\ d \in Core /\ Ids(d.waiters) \subseteq Procs
  <2>1. Sound(d) /\ d.verdict = c.verdict /\ Ids(d.waiters) = Ids(c.waiters) \union {p}
    BY <1>1, <1>2, <1>5, Joined
  <2> QED
    BY <2>1, QueuedAreProcs DEF Sound
<1>7. <<Ev(p, "waitStarted", d)>> \in Seq(Event)
  BY <1>1, <1>6, EvType DEF Kinds
<1> HIDE DEF d
<1>8. /\ pc' \in [Procs -> Places] /\ pc'[p] = "announce"
      /\ \A q \in Procs : q # p => pc'[q] = pc[q]
  BY <1>1, <1>3 DEF TypeOK, Places
<1>9. /\ outbox' \in [Senders -> [Procs -> Seq(Event)]] /\ seen' = seen
      /\ \A q \in Procs : q # p => outbox'["call"][q] = outbox["call"][q]
  BY <1>1, <1>3, <1>7, PostType
<1>10. /\ core' \in Core /\ lockID' \in Nat /\ holdTimer' \in [Procs -> TimerStates]
       /\ undelivered' \in Nat /\ undelivered' >= undelivered /\ DeliveriesCounted'
  <2>1. \A q \in Procs : core.verdict[q] = "granted" =>
          d.verdict[q] = "granted" /\ (pc'[q] \in {"send", "back"} <=> pc[q] \in {"send", "back"})
    BY <1>3, <1>4, <1>6, <1>8 DEF Suits, OInv, PlacesTied
  <2>2. \A q \in Procs : core.verdict[q] # "granted" /\ d.verdict[q] = "granted" =>
          pc'[q] \notin {"send", "back"}
    BY <1>4, <1>6, <1>8 DEF Suits
  <2>3. holdTimer \in [Procs -> TimerStates]
    BY <1>1 DEF TypeOK
  <2> QED
    BY <1>1, <1>3, <1>6, <2>1, <2>2, <2>3, CounterAdvances DEF OInv
<1>11. core' = d
  BY <1>3 DEF Advance
<1>12. TypeOK'
  <2>1. waitTimer' \in [Procs -> TimerStates] /\ want' \in [Procs -> Waiter]
    BY <1>1, <1>3 DEF TypeOK, TimerStates
  <2> QED
    BY <1>1, <1>3, <1>8, <1>9, <1>10, <2>1 DEF TypeOK
<1>13. PlacesTied'
  <2>1. Distinct(core'.waiters)
    BY <1>6, <1>11 DEF Sound
  <2>2. \A q \in Ids(core'.waiters) :
          pc'[q] \in {"announce", "select"} /\ core'.verdict[q] = "none"
    BY <1>3, <1>4, <1>6, <1>8, <1>11 DEF Suits
  <2>3. \A q \in Procs :
          /\ pc'[q] = "idle" => core'.verdict[q] = "none"
          /\ pc'[q] = "finish" => core'.verdict[q] # "none"
          /\ pc'[q] \in {"deliver", "complete"} => core'.verdict[q] = "granted"
    BY <1>4, <1>6, <1>8, <1>11 DEF Suits
  <2>4. \A q \in Procs :
          outbox'["call"][q] # <<>> => pc'[q] \in {"announce", "deliver", "send"}
    BY <1>8, <1>9 DEF OInv, PlacesTied
  <2> QED
    BY <2>1, <2>2, <2>3, <2>4 DEF PlacesTied
<1> QED
  BY <1>1, <1>3, <1>10, <1>12, <1>13 DEF OInv, NothingStranded, TypeOK

-----------------------------------------------------------------------------
(* The invariant and what follows from it. *)

\* Every step of the lock, its callers and its callbacks preserves the invariant.
LEMMA StepPreserves ==
  OInv /\ [Next]_vars => OInv'
<1> SUFFICES ASSUME OInv, [Next]_vars
             PROVE  OInv'
  OBVIOUS
<1>1. CASE UNCHANGED vars
  BY <1>1 DEF vars, coreVars, callVars, leaveVars, clockVars, waitVars, sendVars, OInv, TypeOK,
              PlacesTied, DeliveriesCounted, NothingStranded
<1>2. ASSUME NEW p \in Procs, Start(p)
      PROVE  OInv'
  <2>1. PICK r \in Requests : \/ AcquireAtOnce(p, r[1], r[2]) \/ AcquireWait(p, r[1], r[2])
                              \/ TrySucceed(p, r[1], r[2])
    BY <1>2 DEF Start
  <2>2. r[1] \in Modes /\ r[2] \in BOOLEAN
    BY <2>1, ObserverAssumption
  <2>3. CASE AcquireAtOnce(p, r[1], r[2])
    BY <1>2, <2>2, <2>3, ImmediatelyStep, EngineSound, ServedServes DEF AcquireAtOnce
  <2>4. CASE AcquireWait(p, r[1], r[2])
    BY <1>2, <2>2, <2>4, AcquireWaitStep
  <2>5. CASE TrySucceed(p, r[1], r[2])
    <3>1. Serves(core, core, {})
      BY EngineSound DEF Serves
    <3> QED
      BY <1>2, <2>2, <2>5, <3>1, ImmediatelyStep DEF TrySucceed
  <2> QED
    BY <2>1, <2>3, <2>4, <2>5
<1>3. ASSUME NEW p \in Procs, Step(p)
      PROVE  OInv'
  <2>1. CASE Refuse(p, "rejected") \/ Refuse(p, "tryFailed")
    BY <1>3, <2>1, RefuseStep
  <2>2. CASE \/ Expire(p) \/ WaitElapses(p) \/ HoldElapses(p)
             \/ WaitFires(p) \/ HoldFires(p) \/ FindHold(p)
    BY <1>3, <2>2, ClockSteps
  <2>3. CASE CheckWait(p) \/ CheckHold(p)
    BY <1>3, <2>3, CheckSteps
  <2>4. CASE Wake(p)
    BY <1>3, <2>4, WakeStep
  <2>5. CASE GiveUp(p)
    BY <1>3, <2>5, GiveUpStep
  <2>6. CASE FinishWait(p)
    BY <1>3, <2>6, FinishWaitStep
  <2>7. CASE Complete(p)
    BY <1>3, <2>7, CompleteStep
  <2>8. CASE ReleaseLock(p)
    BY <1>3, <2>8, ReleaseStep
  <2>9. CASE Recycle(p)
    BY <1>3, <2>9, RecycleStep
  <2> QED
    BY <1>3, <2>1, <2>2, <2>3, <2>4, <2>5, <2>6, <2>7, <2>8, <2>9 DEF Step
<1>4. ASSUME NEW p \in Procs, NEW s \in Senders, Deliver(s, p)
      PROVE  OInv'
  BY <1>4, DeliverStep
<1> QED
  BY <1>1, <1>2, <1>3, <1>4 DEF Next

\* What the theorems below rest on.
LEMMA Invariant == Spec => []OInv
<1> QED
  BY Initially, StepPreserves, PTL DEF Spec

\* Every variable keeps to its type: the counter is never negative, and what is queued
\* or about to be sent is an event of an attempt.
THEOREM ObservedTypeCorrect == Spec => []TypeOK
<1>1. OInv => TypeOK
  BY DEF OInv
<1> QED
  BY <1>1, Invariant, PTL

\* pendingAcquired of rwCore is at all times the number of attempts that have been
\* granted the lock and whose acquired event is not behind them; completeAcquiredDelivery
\* never finds it zero, which it would panic about.
THEOREM CounterExact == Spec => []DeliveriesCounted
<1>1. OInv => DeliveriesCounted
  BY DEF OInv
<1> QED
  BY <1>1, Invariant, PTL

\* An event that a release left in pendingEvents always has a delivery to come that
\* will take it over.
THEOREM QueuedEventsHaveADelivery == Spec => []NothingStranded
<1>1. OInv => NothingStranded
  BY DEF OInv
<1> QED
  BY <1>1, Invariant, PTL

-----------------------------------------------------------------------------
(* The engine and the attempts: who owns the lock is who has been granted it *)
(* and has not released it, early or not.                                   *)

\* Where an attempt is to the engine.  Its verdict stays on record after its release,
\* until the identity is used again.
Standing ==
  [p \in Procs |->
     IF p \in left THEN "gone"
     ELSE IF core.verdict[p] = "none" /\ pc[p] \notin {"announce", "select"} THEN "idle"
     ELSE "waiting"]

EngineTied ==
  /\ Tied(core, Standing, want)
  /\ ~HeadCompatible(core)
  /\ ~core.cancelled
  /\ \A p \in left : core.verdict[p] = "granted"

\* The owners and the line, as the step finds them and leaves them.
Owners == HeldBy(core, Standing, want)
Turns == Moves(Owners, Line(core.waiters), Owners', Line(core.waiters)')
Rests == Owners' = Owners /\ core'.waiters = core.waiters

\* Where an attempt stands, one by one.
LEMMA StandingOf ==
  /\ Standing \in [Procs -> Stations]
  /\ \A p \in Procs :
       /\ Standing[p] = "gone" <=> p \in left
       /\ Standing[p] = "idle" <=> /\ p \notin left /\ core.verdict[p] = "none"
                                   /\ pc[p] \notin {"announce", "select"}
       /\ Standing[p] = "waiting" <=>
            /\ p \notin left
            /\ core.verdict[p] # "none" \/ pc[p] \in {"announce", "select"}
BY DEF Standing, Stations

\* The same after a step.
LEMMA StandingNext ==
  /\ Standing' \in [Procs -> Stations]
  /\ \A p \in Procs :
       /\ Standing'[p] = "gone" <=> p \in left'
       /\ Standing'[p] = "idle" <=> /\ p \notin left' /\ core'.verdict[p] = "none"
                                    /\ pc'[p] \notin {"announce", "select"}
       /\ Standing'[p] = "waiting" <=>
            /\ p \notin left'
            /\ core'.verdict[p] # "none" \/ pc'[p] \in {"announce", "select"}
BY DEF Standing, Stations

\* All but p stand where they stood.
LEMMA OthersStand ==
  ASSUME NEW p \in Procs, NEW l \in Stations, Standing'[p] = l,
         \A q \in Procs : q # p =>
           /\ q \in left' <=> q \in left
           /\ pc'[q] = pc[q]
           /\ core'.verdict[q] = core.verdict[q] \/ pc[q] \in {"announce", "select"}
  PROVE  Standing' = [Standing EXCEPT ![p] = l]
<1>1. \A q \in Procs : q # p => Standing'[q] = Standing[q]
  BY StandingOf, StandingNext DEF Stations
<1> QED
  BY <1>1, StandingOf, StandingNext

\* What a service of the queue means for where the others stand.
LEMMA ServedStand ==
  ASSUME OInv, NEW p \in Procs, NEW M \in SUBSET {p}, NEW d, Serves(core, d, M),
         \A q \in Procs : q # p => core'.verdict[q] = d.verdict[q]
  PROVE  \A q \in Procs : q # p =>
           core'.verdict[q] = core.verdict[q] \/ pc[q] \in {"announce", "select"}
BY DEF Serves, OInv, PlacesTied

\* A step that leaves the engine alone and takes no attempt out of the wait unanswered.
LEMMA Still ==
  ASSUME EngineTied, core' = core, want' = want, left' = left,
         \A q \in Procs :
           \/ core.verdict[q] # "none"
           \/ pc'[q] \in {"announce", "select"} <=> pc[q] \in {"announce", "select"}
  PROVE  EngineTied' /\ Rests
<1>1. Standing' = Standing
  BY DEF Standing
<1> QED
  BY <1>1 DEF EngineTied, Owners, Rests

\* The steps of a call, its timers and its deliveries are of that kind.
LEMMA CallsStill ==
  ASSUME OInv, EngineTied, NEW p \in Procs,
         \/ Refuse(p, "rejected") \/ Refuse(p, "tryFailed")
         \/ Expire(p) \/ Wake(p) \/ FinishWait(p) \/ Complete(p)
         \/ WaitElapses(p) \/ WaitFires(p) \/ CheckWait(p)
         \/ HoldElapses(p) \/ HoldFires(p) \/ FindHold(p) \/ CheckHold(p)
  PROVE  EngineTied' /\ Rests
<1>1. core' = core /\ want' = want /\ left' = left
  BY DEF Refuse, Expire, Wake, FinishWait, Complete, WaitElapses, WaitFires, CheckWait,
         HoldElapses, HoldFires, FindHold, CheckHold, coreVars, callVars, leaveVars
<1>2. pc \in [Procs -> Places]
  BY DEF OInv, TypeOK
<1>3. CASE Refuse(p, "rejected") \/ Refuse(p, "tryFailed")
  <2>1. pc[p] = "idle" /\ pc' = [pc EXCEPT ![p] = "send"]
    BY <1>3 DEF Refuse, GoTo
  <2> QED
    BY <1>1, <1>2, <2>1, Still
<1>4. CASE Wake(p) \/ FinishWait(p) \/ Complete(p)
  <2>1. /\ core.verdict[p] # "none"
        /\ \E l \in Places : pc' = [pc EXCEPT ![p] = l]
    BY <1>4 DEF OInv, PlacesTied, Wake, FinishWait, Complete, Conclude, GoTo, Places
  <2> QED
    BY <1>1, <1>2, <2>1, Still
<1>5. CASE \/ Expire(p) \/ WaitElapses(p) \/ WaitFires(p) \/ CheckWait(p)
           \/ HoldElapses(p) \/ HoldFires(p) \/ FindHold(p) \/ CheckHold(p)
  <2>1. pc' = pc
    BY <1>5 DEF Expire, WaitElapses, WaitFires, CheckWait, HoldElapses, HoldFires, FindHold,
                CheckHold, callVars
  <2> QED
    BY <1>1, <2>1, Still
<1> QED
  BY <1>3, <1>4, <1>5

LEMMA DeliveriesStill ==
  ASSUME OInv, EngineTied, NEW p \in Procs, NEW s \in Senders, Deliver(s, p)
  PROVE  EngineTied' /\ Rests
<1>1. /\ core' = core /\ want' = want /\ left' = left
      /\ pc' = pc \/ pc' = [pc EXCEPT ![p] = Sending[pc[p]]]
      /\ s = "call" => outbox["call"][p] # <<>>
      /\ s # "call" => pc' = pc
  BY DEF Deliver, coreVars, leaveVars
<1>2. pc \in [Procs -> Places]
  BY DEF OInv, TypeOK
<1>3. CASE pc' = pc
  BY <1>1, <1>3, Still
<1>4. CASE s = "call" /\ pc' = [pc EXCEPT ![p] = Sending[pc[p]]]
  <2>1. pc[p] \in {"announce", "deliver", "send"}
    BY <1>1, <1>4 DEF OInv, PlacesTied
  <2>2. pc[p] = "deliver" => core.verdict[p] # "none"
    BY DEF OInv, PlacesTied
  <2>3. pc'[p] = Sending[pc[p]] /\ \A q \in Procs : q # p => pc'[q] = pc[q]
    BY <1>2, <1>4
  <2>4. /\ pc[p] = "announce" => pc'[p] = "select"
        /\ pc[p] = "send" => pc'[p] = "back"
    BY <2>1, <2>3 DEF Sending
  <2> QED
    BY <1>1, <2>1, <2>2, <2>3, <2>4, Still
<1> QED
  BY <1>1, <1>3, <1>4

\* A waiter gives up.
LEMMA GiveUpTied ==
  ASSUME OInv, EngineTied, NEW p \in Procs, GiveUp(p)
  PROVE  EngineTied' /\ (Turns \/ Rests)
<1> DEFINE d == CancelWaiter(core, p, dead)
<1>1. /\ pc[p] = "select" /\ p \in dead /\ core' = d /\ pc' = [pc EXCEPT ![p] = "finish"]
      /\ want' = want /\ left' = left
  BY DEF GiveUp, Advance, GoTo, leaveVars
<1>2. /\ Serves(core, d, {p}) /\ d.verdict[p] # "none"
  BY EngineSound, CancelWaiterServes
<1>3. pc \in [Procs -> Places]
  BY DEF OInv, TypeOK
<1>4. CASE core.verdict[p] # "none"
  <2>1. d = core
    BY <1>4 DEF CancelWaiter
  <2> QED
    BY <1>1, <1>3, <1>4, <2>1, Still
<1>5. CASE core.verdict[p] = "none"
  <2>1. /\ Tied(core, Standing, want) /\ ~HeadCompatible(core) /\ ~core.cancelled
        /\ \A q \in left : core.verdict[q] = "granted"
    BY DEF EngineTied
  <2>2. p \notin left /\ Standing[p] = "waiting"
    BY <1>1, <1>5, <2>1, StandingOf
  <2>3. /\ Tied(d, Standing, want) /\ ~HeadCompatible(d) /\ d.cancelled = core.cancelled
        /\ \A q \in Procs : core.verdict[q] # "none" => d.verdict[q] = core.verdict[q]
    BY <2>1, <2>2, GiveUpPreserves
  <2> HIDE DEF d
  <2>4. Standing'[p] = "waiting"
    BY <1>1, <1>2, <2>2, StandingNext
  <2>5. Standing' = [Standing EXCEPT ![p] = "waiting"]
    <3>1. \A q \in Procs : q # p =>
            core'.verdict[q] = core.verdict[q] \/ pc[q] \in {"announce", "select"}
      BY <1>1, <1>2, ServedStand
    <3> QED
      BY <1>1, <1>3, <2>4, <3>1, OthersStand DEF Stations
  <2>6. Standing' = Standing
    BY <2>2, <2>5, StandingOf
  <2>7. EngineTied'
    <3>1. \A q \in left : d.verdict[q] = "granted"
      BY <2>1, <2>3 DEF Tied, Typed, OInv, TypeOK
    <3> QED
      BY <1>1, <2>1, <2>3, <2>6, <3>1 DEF EngineTied
  <2>8. \/ d = core
        \/ Moves(HeldBy(core, Standing, want), Line(core.waiters),
                 HeldBy(d, Standing, want), Line(d.waiters))
    BY <1>1, <2>1, <2>2, GiveUpMoves DEF d
  <2> QED
    BY <1>1, <2>6, <2>7, <2>8 DEF Turns, Rests, Owners
<1> QED
  BY <1>4, <1>5

\* A release: the acquisition is over whether or not its call has returned.
LEMMA ReleaseTied ==
  ASSUME OInv, EngineTied, NEW p \in Procs, ReleaseLock(p)
  PROVE  EngineTied' /\ (Turns \/ Rests)
<1> DEFINE attempt == IF want[p].guarded THEN p ELSE NoAttempt
           f == Freed(core, want[p].mode, attempt)
           d == GrantWaiters(f, dead)
           over == [Standing EXCEPT ![p] = "gone"]
<1>1. /\ core' = d /\ pc' = pc /\ want' = want /\ left' = left \union {p}
      /\ core.verdict[p] = "granted" /\ p \notin left
      /\ ReleaseMatches(core, want[p].mode, attempt)
  BY DEF ReleaseLock, Leave, MayRelease, Owns, Advance, Relinquished, Release, callVars
<1>2. attempt = IF want[p].guarded THEN p ELSE NoAttempt
  OBVIOUS
<1> HIDE DEF attempt
<1>13. f = Freed(core, want[p].mode, attempt)
  OBVIOUS
<1> HIDE DEF f, over
<1>3. /\ Tied(core, Standing, want) /\ ~HeadCompatible(core) /\ ~core.cancelled
      /\ \A q \in left : core.verdict[q] = "granted"
  BY DEF EngineTied
<1>4. Standing[p] = "waiting" /\ over \in [Procs -> Stations] /\ over[p] = "gone"
      /\ \A q \in Procs : q # p => over[q] = Standing[q]
  BY <1>1, StandingOf DEF Stations, over
<1>5. /\ Tied(f, over, want)
      /\ f.waiters = core.waiters /\ f.cancelled = core.cancelled /\ f.verdict = core.verdict
  <2>1. Tied(f, [Standing EXCEPT ![p] = "gone"], want)
    BY <1>1, <1>2, <1>3, <1>4, <1>13, RecordedFreed, Zenon
  <2>2. f.waiters = core.waiters /\ f.cancelled = core.cancelled /\ f.verdict = core.verdict
    <3>1. core \in Core
      BY DEF OInv, TypeOK
    <3> QED
      BY <1>13, <3>1 DEF Freed, Core
  <2> QED
    BY <2>1, <2>2 DEF over
<1>6. Tied(d, over, want) /\ ~HeadCompatible(d) /\ d.cancelled = f.cancelled
  BY <1>5, GrantWaitersPreserves
<1>7. \A q \in Procs : core.verdict[q] # "none" => d.verdict[q] = core.verdict[q]
  BY <1>5, VerdictsKept
<1>8. Serves(core, d, {})
  <2>1. want[p].mode \in Modes
    BY DEF OInv, TypeOK, Waiter
  <2> QED
    BY <1>1, <2>1, EngineSound, ReleaseServes DEF Release, f
<1>9. ~OwnsIn(f, over, p) /\ OwnsIn(core, Standing, p)
  BY <1>1, <1>4 DEF OwnsIn
<1>10. Moves(HeldBy(core, Standing, want), Line(core.waiters), HeldBy(d, over, want), Line(d.waiters))
  BY <1>3, <1>4, <1>5, <1>9, FreedMoves
<1> HIDE DEF d
<1>11. Standing' = over
  <2>1. \A q \in Procs : q # p =>
          core'.verdict[q] = core.verdict[q] \/ pc[q] \in {"announce", "select"}
    BY <1>1, <1>8, ServedStand
  <2>2. Standing'[p] = "gone"
    BY <1>1, StandingNext
  <2> QED
    BY <1>1, <2>1, <2>2, OthersStand DEF Stations, over
<1>12. EngineTied'
  <2>1. \A q \in left' : d.verdict[q] = "granted"
    BY <1>1, <1>3, <1>7 DEF OInv, TypeOK
  <2> QED
    BY <1>1, <1>3, <1>5, <1>6, <1>11, <2>1 DEF EngineTied
<1> QED
  BY <1>1, <1>10, <1>11, <1>12 DEF Turns, Owners

\* The identity of an attempt that is over is free for the next.
LEMMA RecycleTied ==
  ASSUME OInv, EngineTied, NEW p \in Procs, Recycle(p)
  PROVE  EngineTied' /\ Rests
<1> DEFINE y == Attempt(p, "read", FALSE)
<1>1. /\ core' = [core EXCEPT !.verdict = [core.verdict EXCEPT ![p] = "none"]]
      /\ pc[p] = "back" /\ pc' = [pc EXCEPT ![p] = "idle"]
      /\ want' = [want EXCEPT ![p] = y] /\ left' = left \ {p}
      /\ core.verdict[p] # "granted" \/ p \in left
  BY DEF Recycle, Over, Owns, GoTo
<1>2. core \in Core /\ pc \in [Procs -> Places] /\ y \in Waiter /\ y.id = p
  BY DEF OInv, TypeOK, Attempt, Waiter, Modes
<1>3. /\ core'.verdict[p] = "none" /\ core'.waiters = core.waiters
      /\ \A q \in Procs : q # p => core'.verdict[q] = core.verdict[q]
  BY <1>1, <1>2 DEF Core
<1>4. /\ Tied(core, Standing, want) /\ ~HeadCompatible(core) /\ ~core.cancelled
      /\ \A q \in left : core.verdict[q] = "granted"
  BY DEF EngineTied
<1>5. Standing' = [Standing EXCEPT ![p] = "idle"]
  <2>1. Standing'[p] = "idle"
    BY <1>1, <1>2, <1>3, StandingNext
  <2> QED
    BY <1>1, <1>2, <1>3, <2>1, OthersStand DEF Stations
<1>6. OutOfIt(core, Standing, p) /\ "idle" \in Stations /\ "none" \in Verdicts
  BY <1>1, StandingOf DEF OutOfIt, Stations, Verdicts
<1> HIDE DEF y
<1> DEFINE e == [core EXCEPT !.verdict = [core.verdict EXCEPT ![p] = "none"]]
<1>10. e = [core EXCEPT !.verdict = [core.verdict EXCEPT ![p] = "none"]]
  OBVIOUS
<1> HIDE DEF e
<1>11. /\ Tied(e, [Standing EXCEPT ![p] = "idle"], [want EXCEPT ![p] = y])
       /\ HeadCompatible(e) <=> HeadCompatible(core)
       /\ e.cancelled = core.cancelled
  BY <1>2, <1>4, <1>6, <1>10, OutOfItChanges
<1>7. /\ Tied(core', [Standing EXCEPT ![p] = "idle"], [want EXCEPT ![p] = y])
      /\ HeadCompatible(core') <=> HeadCompatible(core)
      /\ core'.cancelled = core.cancelled
  BY <1>1, <1>10, <1>11, Zenon
<1>8. Owners' = Owners
  <2>1. ~OwnsIn(core, Standing, p) /\ ~OwnsIn(core', Standing', p)
    <3>1. Standing'[p] = "idle"
      BY <1>5, StandingOf
    <3> QED
      BY <1>6, <3>1 DEF OwnsIn, OutOfIt
  <2>2. \A q \in Procs : q # p => /\ Standing'[q] = Standing[q] /\ want'[q] = want[q]
                                  /\ core'.verdict[q] = core.verdict[q]
    <3>1. want \in [Procs -> Waiter] /\ Standing \in [Procs -> Stations]
      BY StandingOf DEF OInv, TypeOK
    <3> QED
      BY <1>1, <1>3, <1>5, <3>1
  <2>3. \A q \in Procs : HeldBy(core', Standing', want')[q] = HeldBy(core, Standing, want)[q]
    BY <2>1, <2>2 DEF HeldBy, OwnsIn
  <2>4. HeldBy(core', Standing', want') = HeldBy(core, Standing, want)
    BY <2>3, EachTheSame
  <2> QED
    BY <2>4 DEF Owners
<1>9. EngineTied'
  <2>1. \A q \in left' : core'.verdict[q] = "granted"
    BY <1>1, <1>3, <1>4 DEF OInv, TypeOK
  <2> QED
    BY <1>1, <1>4, <1>5, <1>7, <2>1 DEF EngineTied
<1> QED
  BY <1>3, <1>8, <1>9 DEF Rests

\* What a call that comes for the lock finds: the engine after the queue has been served.
LEMMA ServedTied ==
  ASSUME OInv, EngineTied
  PROVE  /\ Tied(Served, Standing, want) /\ ~HeadCompatible(Served) /\ ~Served.cancelled
         /\ Serves(core, Served, {})
         /\ \A q \in Procs : core.verdict[q] # "none" => Served.verdict[q] = core.verdict[q]
         /\ \E Q \in SUBSET Elems(Line(core.waiters)) :
              Settles(HeldBy(core, Standing, want), Without(Line(core.waiters), Q),
                      HeldBy(Served, Standing, want), Line(Served.waiters))
<1>1. Tied(core, Standing, want) /\ ~HeadCompatible(core) /\ ~core.cancelled
  BY DEF EngineTied
<1>2. /\ Tied(GrantWaiters(core, dead), Standing, want)
      /\ ~HeadCompatible(GrantWaiters(core, dead)) /\ ~GrantWaiters(core, dead).cancelled
  BY <1>1, GrantWaitersPreserves
<1>3. Serves(core, Served, {})
  BY EngineSound, ServedServes
<1>4. \A q \in Procs : core.verdict[q] # "none" => Served.verdict[q] = core.verdict[q]
  BY <1>1, VerdictsKept DEF Served
<1>5. Settles(HeldBy(core, Standing, want),
              Without(Line(core.waiters), Quitters(core.waiters, dead)),
              HeldBy(Served, Standing, want), Line(Served.waiters))
  BY <1>1, ServedSettles DEF Served
<1>6. Quitters(core.waiters, dead) \in SUBSET Elems(Line(core.waiters))
  BY DEF Quitters
<1> QED
  BY <1>1, <1>2, <1>3, <1>4, <1>5, <1>6 DEF Served

\* An attempt gets the lock on the spot.
LEMMA AtOnceTied ==
  ASSUME OInv, EngineTied, NEW p \in Procs, NEW m \in Modes, NEW g \in BOOLEAN,
         AcquireAtOnce(p, m, g)
  PROVE  EngineTied' /\ (Turns \/ Rests)
<1> DEFINE c == Served
           x == Attempt(p, m, g)
           d == Told(Grant(c, x), x.id, "granted")
           place2 == [Standing EXCEPT ![p] = "waiting"]
           w2 == [want EXCEPT ![p] = x]
<1>1. x \in Waiter /\ x.id = p /\ x.mode = m
  BY DEF Attempt, Waiter
<1>2. /\ pc[p] = "idle" /\ pc' = [pc EXCEPT ![p] = "deliver"] /\ CanAcquireImmediately(c, m)
      /\ core' = d /\ want' = w2 /\ left' = left
  BY <1>1 DEF AcquireAtOnce, Immediately, Advance, GoTo, leaveVars, Told
<1>3. /\ Tied(c, Standing, want) /\ ~HeadCompatible(c) /\ ~c.cancelled /\ Serves(core, c, {})
      /\ \A q \in Procs : core.verdict[q] # "none" => c.verdict[q] = core.verdict[q]
  BY ServedTied
<1>4. PICK Q \in SUBSET Elems(Line(core.waiters)) :
        Settles(HeldBy(core, Standing, want), Without(Line(core.waiters), Q),
                HeldBy(c, Standing, want), Line(c.waiters))
  BY ServedTied
<1>5. Tied(core, Standing, want) /\ \A q \in left : core.verdict[q] = "granted"
  BY DEF EngineTied
<1>6. core.verdict[p] = "none" /\ p \notin left /\ Standing[p] = "idle"
  BY <1>2, <1>5, StandingOf DEF OInv, PlacesTied
<1> HIDE DEF c, x
<1>10. d = Told(Grant(c, x), x.id, "granted")
  OBVIOUS
<1> HIDE DEF d
<1>7. /\ Tied(d, place2, w2) /\ ~HeadCompatible(d) /\ d.cancelled = c.cancelled
      /\ d.verdict = [c.verdict EXCEPT ![p] = "granted"]
  <2>1. Standing[x.id] \notin {"waiting", "holding", "gone"} /\ CanAcquireImmediately(c, x.mode)
    BY <1>1, <1>2, <1>6
  <2>2. /\ Tied(d, [Standing EXCEPT ![x.id] = "waiting"], [want EXCEPT ![x.id] = x])
        /\ ~HeadCompatible(d)
    BY <1>1, <1>3, <1>10, <2>1, AcquirePreserves, Zenon
  <2>3. d.cancelled = c.cancelled /\ d.verdict = [c.verdict EXCEPT ![x.id] = "granted"]
    <3>1. c \in Core
      BY <1>3 DEF Tied, Typed
    <3>2. Grant(c, x) \in Core /\ Grant(c, x).verdict = c.verdict
      BY <1>1, <3>1, GrantKeepsQueue
    <3>3. Grant(c, x).cancelled = c.cancelled
      BY <3>1 DEF Grant, Core
    <3> DEFINE a == Grant(c, x)
    <3>4. d = Told(a, x.id, "granted")
      BY <1>10
    <3> HIDE DEF a
    <3>5. d.cancelled = a.cancelled /\ d.verdict = [a.verdict EXCEPT ![x.id] = "granted"]
      BY <3>2, <3>4 DEF Told, Core, a
    <3> QED
      BY <3>2, <3>3, <3>5 DEF a
  <2> QED
    BY <1>1, <2>2, <2>3
<1>8. place2[p] = "waiting" /\ w2[p] = x
      /\ \A q \in Procs : q # p => place2[q] = Standing[q] /\ w2[q] = want[q]
  BY StandingOf DEF OInv, TypeOK
<1>9. c.verdict \in [Procs -> Verdicts] /\ pc \in [Procs -> Places]
  BY <1>3 DEF Tied, Typed, Core, OInv, TypeOK
<1> HIDE DEF place2, w2
<1>11. d.verdict[p] = "granted" /\ \A q \in Procs : q # p => d.verdict[q] = c.verdict[q]
  BY <1>7, <1>9
<1>12. Standing' = place2
  <2>1. \A q \in Procs : q # p =>
          core'.verdict[q] = core.verdict[q] \/ pc[q] \in {"announce", "select"}
    BY <1>2, <1>3, <1>11, ServedStand, ZenonT(60)
  <2>2. Standing'[p] = "waiting"
    BY <1>2, <1>6, <1>11, StandingNext
  <2> QED
    BY <1>2, <1>9, <2>1, <2>2, OthersStand DEF place2, Stations
<1>13. EngineTied'
  <2>1. \A q \in left : d.verdict[q] = "granted"
    BY <1>3, <1>5, <1>6, <1>11 DEF OInv, TypeOK
  <2> QED
    BY <1>2, <1>3, <1>7, <1>12, <2>1 DEF EngineTied
<1>14. Moves(HeldBy(core, Standing, want), Line(core.waiters),
             HeldBy(d, place2, w2), Line(d.waiters))
  BY <1>1, <1>2, <1>3, <1>4, <1>5, <1>6, <1>8, <1>10, TakeMoves
<1> QED
  BY <1>2, <1>12, <1>13, <1>14 DEF Turns, Owners

\* A Try that succeeds finds nobody to serve.
LEMMA TryIsAtOnce ==
  ASSUME NEW p, NEW m, NEW g, TrySucceed(p, m, g)
  PROVE  AcquireAtOnce(p, m, g)
BY DEF TrySucceed, AcquireAtOnce, Immediately, Served, CanAcquireImmediately

\* An attempt queues.
LEMMA WaitTied ==
  ASSUME OInv, EngineTied, NEW p \in Procs, NEW m \in Modes, NEW g \in BOOLEAN,
         AcquireWait(p, m, g)
  PROVE  EngineTied' /\ (Turns \/ Rests)
<1> DEFINE c == Served
           x == Attempt(p, m, g)
           d == Enqueue(c, x)
           place2 == [Standing EXCEPT ![p] = "waiting"]
           w2 == [want EXCEPT ![p] = x]
<1>1. x \in Waiter /\ x.id = p /\ x.mode = m
  BY DEF Attempt, Waiter
<1>2. /\ pc[p] = "idle" /\ pc' = [pc EXCEPT ![p] = "announce"] /\ ~CanAcquireImmediately(c, m)
      /\ core' = d /\ want' = w2 /\ left' = left
  BY DEF AcquireWait, Advance, GoTo, leaveVars
<1>3. /\ Tied(c, Standing, want) /\ ~HeadCompatible(c) /\ ~c.cancelled /\ Serves(core, c, {})
      /\ \A q \in Procs : core.verdict[q] # "none" => c.verdict[q] = core.verdict[q]
  BY ServedTied
<1>4. PICK Q \in SUBSET Elems(Line(core.waiters)) :
        Settles(HeldBy(core, Standing, want), Without(Line(core.waiters), Q),
                HeldBy(c, Standing, want), Line(c.waiters))
  BY ServedTied
<1>5. Tied(core, Standing, want) /\ \A q \in left : core.verdict[q] = "granted"
  BY DEF EngineTied
<1>6. core.verdict[p] = "none" /\ p \notin left /\ Standing[p] = "idle"
  BY <1>2, <1>5, StandingOf DEF OInv, PlacesTied
<1> HIDE DEF c, x
<1>7. Tied(d, place2, w2) /\ ~HeadCompatible(d) /\ d.cancelled = c.cancelled
  BY <1>1, <1>2, <1>3, <1>6, EnqueuePreserves
<1>8. place2[p] = "waiting" /\ w2[p] = x
      /\ \A q \in Procs : q # p => place2[q] = Standing[q] /\ w2[q] = want[q]
  BY StandingOf DEF OInv, TypeOK
<1>9. c \in Core /\ pc \in [Procs -> Places]
  BY <1>3 DEF Tied, Typed, OInv, TypeOK
<1>10. d = Enqueue(c, x) /\ d.verdict = c.verdict
  BY <1>9 DEF Enqueue, Core
<1> HIDE DEF d, place2, w2
<1>11. Standing' = place2
  <2>1. \A q \in Procs : q # p =>
          core'.verdict[q] = core.verdict[q] \/ pc[q] \in {"announce", "select"}
    BY <1>2, <1>3, <1>10, ServedStand
  <2>2. Standing'[p] = "waiting"
    BY <1>2, <1>6, <1>9, StandingNext
  <2> QED
    BY <1>2, <1>9, <2>1, <2>2, OthersStand DEF place2, Stations
<1>12. EngineTied'
  <2>1. \A q \in left : d.verdict[q] = "granted"
    BY <1>3, <1>5, <1>10 DEF OInv, TypeOK
  <2> QED
    BY <1>2, <1>3, <1>7, <1>11, <2>1 DEF EngineTied
<1>13. Moves(HeldBy(core, Standing, want), Line(core.waiters),
             HeldBy(d, place2, w2), Line(d.waiters))
  BY <1>1, <1>2, <1>3, <1>4, <1>5, <1>6, <1>8, <1>10, WaitMoves
<1> QED
  BY <1>2, <1>11, <1>12, <1>13 DEF Turns, Owners

\* Every step keeps the tie, and is a move of the engine or none.
LEMMA StepTied ==
  ASSUME OInv, EngineTied, [Next]_vars
  PROVE  EngineTied' /\ (Turns \/ Rests)
<1>1. CASE UNCHANGED vars
  <2>1. core' = core /\ want' = want /\ left' = left /\ pc' = pc
    BY <1>1 DEF vars, coreVars, callVars, leaveVars
  <2> QED
    BY <2>1, Still
<1>2. ASSUME NEW p \in Procs, Start(p)
      PROVE  EngineTied' /\ (Turns \/ Rests)
  <2>1. PICK r \in Requests : \/ AcquireAtOnce(p, r[1], r[2]) \/ AcquireWait(p, r[1], r[2])
                              \/ TrySucceed(p, r[1], r[2])
    BY <1>2 DEF Start
  <2>2. r[1] \in Modes /\ r[2] \in BOOLEAN
    BY <2>1, ObserverAssumption
  <2> QED
    BY <1>2, <2>1, <2>2, AtOnceTied, TryIsAtOnce, WaitTied
<1>3. ASSUME NEW p \in Procs, Step(p)
      PROVE  EngineTied' /\ (Turns \/ Rests)
  BY <1>3, CallsStill, GiveUpTied, ReleaseTied, RecycleTied DEF Step
<1>4. ASSUME NEW p \in Procs, NEW s \in Senders, Deliver(s, p)
      PROVE  EngineTied' /\ (Turns \/ Rests)
  BY <1>4, DeliveriesStill
<1> QED
  BY <1>1, <1>2, <1>3, <1>4 DEF Next

LEMMA TiedAtFirst == Init => EngineTied
<1> SUFFICES ASSUME Init PROVE EngineTied
  OBVIOUS
<1>1. /\ core = InitialCore /\ left = {} /\ \A p \in Procs : pc[p] = "idle"
      /\ want = [p \in Procs |-> Attempt(p, "read", FALSE)]
  BY DEF Init
<1>2. InitialCore.cancelled = FALSE /\ \A p \in Procs : InitialCore.verdict[p] = "none"
  BY DEF InitialCore
<1>3. want \in [Procs -> Waiter] /\ \A p \in Procs : want[p].id = p
  BY <1>1 DEF Attempt, Waiter, Modes
<1>4. \A p \in Procs : Standing[p] = "idle"
  BY <1>1, <1>2, StandingOf
<1>5. Tied(InitialCore, Standing, want) /\ ~HeadCompatible(InitialCore)
  BY <1>3, <1>4, StandingOf, InitialTied
<1> QED
  BY <1>1, <1>2, <1>5 DEF EngineTied

-----------------------------------------------------------------------------
(* The observed lock implements FIFOLock *)

\* The owners the abstract lock is given.
HeldModes == [p \in Procs |-> IF Owns(p) THEN want[p].mode ELSE "none"]

\* They are those of the engine.
LEMMA OwnersAgree ==
  /\ HeldModes = Owners
  /\ HeldModes' = Owners'
<1>1. \A p \in Procs : OwnsIn(core, Standing, p) <=> Owns(p)
  BY StandingOf DEF OwnsIn, Owns
<1>2. \A p \in Procs : OwnsIn(core', Standing', p) <=> Owns(p)'
  BY StandingNext DEF OwnsIn, Owns
<1>3. HeldModes = Owners
  BY <1>1 DEF HeldModes, Owners, HeldBy
<1>4. HeldModes' = Owners'
  BY <1>2 DEF HeldModes, Owners, HeldBy
<1> QED
  BY <1>3, <1>4

\* FIFOLock reads lines, and tells who fits, as RWCoreProofs does.
LEMMA SameLines ==
  /\ \A s : Fifo!Elems(s) = Elems(s)
  /\ \A s, D : Fifo!Without(s, D) = Without(s, D)
  /\ \A h, s, n : Fifo!Admissible(h, s, n) <=> Fits(h, s, n)
<1>1. \A s : Fifo!Elems(s) = Elems(s)
  BY DEF Fifo!Elems, Elems
<1>2. \A s, D : Fifo!Without(s, D) = Without(s, D)
  BY DEF Fifo!Without, Without, Fifo!Rank, Rank, Fifo!Kept, Kept, Fifo!Cardinality, Cardinality
<1>3. \A h, s, n : Fifo!Admissible(h, s, n) <=> Fits(h, s, n)
  BY DEF Fifo!Admissible, Fits, Fifo!Free, Fifo!NoWriter
<1> QED
  BY <1>1, <1>2, <1>3

\* What FIFOLock admits is a longest prefix that fits.
LEMMA AdmittedFits ==
  ASSUME NEW h, NEW s, NEW j, NEW t, Settles(h, s, j, t),
         NEW n, n = Fifo!Admitted(h, s)
  PROVE  LongestFit(h, s, n)
<1>1. \E m \in 0..Len(s) : Fits(h, s, m) /\ \A l \in 0..Len(s) : Fits(h, s, l) => l <= m
  BY DEF Settles
<1>2. n = CHOOSE m \in 0..Len(s) :
            /\ Fifo!Admissible(h, s, m)
            /\ \A l \in 0..Len(s) : Fifo!Admissible(h, s, l) => l <= m
  BY DEF Fifo!Admitted
<1>3. \E m \in 0..Len(s) :
        /\ Fifo!Admissible(h, s, m)
        /\ \A l \in 0..Len(s) : Fifo!Admissible(h, s, l) => l <= m
  BY <1>1, SameLines
<1>4. n \in 0..Len(s) /\ Fifo!Admissible(h, s, n)
      /\ \A l \in 0..Len(s) : Fifo!Admissible(h, s, l) => l <= n
  BY <1>2, <1>3
<1> QED
  BY <1>4, SameLines DEF LongestFit

\* What FIFOLock comes to from h and s is what they settle to.
LEMMA FifoSettles ==
  ASSUME NEW h, NEW s \in Seq(Caller), Distinct(s),
         NEW j \in [Procs -> Modes \union {"none"}], NEW t, Settles(h, s, j, t),
         NEW n, n = Fifo!Admitted(h, s)
  PROVE  j = Entering(h, s, n) /\ t = SubSeq(s, n + 1, Len(s))
<1>1. LongestFit(h, s, n)
  BY AdmittedFits
<1> QED
  BY <1>1, SettlesExactly

\* A move of the engine is a step of FIFOLock.
LEMMA FifoSteps ==
  ASSUME HeldModes' \in [Procs -> Modes \union {"none"}],
         Line(core.waiters) \in Seq(Caller), Distinct(Line(core.waiters)),
         ~core.cancelled, core'.cancelled = core.cancelled,
         Moves(HeldModes, Line(core.waiters), HeldModes', Line(core.waiters)')
  PROVE  Fifo!Next
<1> DEFINE h == HeldModes
           s == Line(core.waiters)
           j == HeldModes'
           t == Line(core.waiters)'
<1>1. PICK Q \in SUBSET Elems(s) :
        \/ Settles(h, Without(s, Q), j, t)
        \/ \E p \in Procs : h[p] # "none"
                            /\ Settles([h EXCEPT ![p] = "none"], Without(s, Q), j, t)
        \/ \E x \in Caller : /\ h[x.id] = "none" /\ \A y \in Elems(s) : y.id # x.id
                             /\ Settles(h, Append(Without(s, Q), x), j, t)
  BY DEF Moves
<1> DEFINE r == Fifo!Without(s, Q)
<1>2. r = Without(s, Q) /\ Q \in SUBSET Fifo!Elems(s)
  BY SameLines
<1>3. s \in Seq(Caller) /\ Distinct(s) /\ j \in [Procs -> Modes \union {"none"}]
  OBVIOUS
<1> HIDE DEF r, h, s, j, t
<1>4. r \in Seq(Caller) /\ Distinct(r) /\ Elems(r) \subseteq Elems(s)
  BY <1>2, <1>3, WithoutProperties
<1>5. CASE Settles(h, r, j, t)
  <2> DEFINE n == Fifo!Admitted(h, r)
  <2>1. j = Entering(h, r, n) /\ t = SubSeq(r, n + 1, Len(r))
    BY <1>3, <1>4, <1>5, FifoSettles
  <2>2. Fifo!Quit(Q)
    BY <2>1, Zenon DEF Fifo!Quit, Fifo!Settle, Entering, HeldModes, Line, r, h, s, j, t
  <2> QED
    BY <1>2, <2>2 DEF Fifo!Next, Line, s
<1>6. ASSUME NEW p \in Procs, h[p] # "none", Settles([h EXCEPT ![p] = "none"], r, j, t)
      PROVE  Fifo!Next
  <2> DEFINE g == [h EXCEPT ![p] = "none"]
             n == Fifo!Admitted(g, r)
  <2>1. Settles(g, r, j, t)
    BY <1>6
  <2> HIDE DEF g
  <2>2. j = Entering(g, r, n) /\ t = SubSeq(r, n + 1, Len(r))
    BY <1>3, <1>4, <2>1, FifoSettles
  <2>3. Fifo!Leave(p, Q)
    BY <1>6, <2>2, Zenon
    DEF Fifo!Leave, Fifo!Settle, Entering, HeldModes, Line, g, r, h, s, j, t
  <2> QED
    BY <1>2, <2>3 DEF Fifo!Next, Line, s
<1>7. ASSUME NEW x \in Caller, h[x.id] = "none", \A y \in Elems(s) : y.id # x.id,
             Settles(h, Append(r, x), j, t)
      PROVE  Fifo!Next
  <2>1. x.id \in Procs /\ x.mode \in {"write", "read"} /\ x = [id |-> x.id, mode |-> x.mode]
    BY DEF Caller, Modes
  <2> DEFINE a == Append(r, [id |-> x.id, mode |-> x.mode])
             n == Fifo!Admitted(h, a)
  <2>2. a = Append(r, x)
    BY <2>1
  <2>3. a \in Seq(Caller) /\ Distinct(a)
    <3>1. \A i \in DOMAIN r : r[i] \in Elems(s)
      BY <1>4 DEF Elems
    <3>2. \A i \in DOMAIN r : r[i].id # x.id
      BY <1>7, <3>1
    <3> QED
      BY <1>4, <2>2, <3>2, AppendDistinct
  <2>4. Settles(h, a, j, t)
    BY <1>7, <2>2
  <2> HIDE DEF a
  <2>5. j = Entering(h, a, n) /\ t = SubSeq(a, n + 1, Len(a))
    BY <1>3, <2>3, <2>4, FifoSettles
  <2>6. Fifo!Idle(x.id)
    BY <1>7, SameLines DEF Fifo!Idle, HeldModes, Line, h, s
  <2>7. Fifo!Arrive(x.id, x.mode, Q)
    BY <2>5, <2>6, Zenon DEF Fifo!Arrive, Fifo!Settle, Entering, HeldModes, Line, a, r, h, s, j, t
  <2> QED
    BY <1>2, <2>1, <2>7 DEF Fifo!Next, Line, s
<1> QED
  BY <1>1, <1>2, <1>5, <1>6, <1>7

\* Every step of the lock is a step of the abstract FIFO lock or none.
LEMMA StepRefines ==
  ASSUME OInv, EngineTied, [Next]_vars
  PROVE  [Fifo!Next]_Fifo!vars
<1>1. EngineTied' /\ (Turns \/ Rests)
  BY StepTied
<1>2. ~core.cancelled /\ core'.cancelled = core.cancelled
  <2>1. core \in Core /\ core' \in Core /\ ~core.cancelled /\ ~core'.cancelled
    BY <1>1 DEF EngineTied, Tied, Typed
  <2> QED
    BY <2>1 DEF Core
<1>3. CASE Turns
  <2>1. Tied(core, Standing, want) /\ Tied(core', Standing', want')
    BY <1>1 DEF EngineTied
  <2>2. Line(core.waiters) \in Seq(Caller) /\ Distinct(Line(core.waiters))
    BY <2>1, AbstractTypes
  <2>3. Owners' \in [Procs -> Modes \union {"none"}]
    BY <2>1, AbstractTypes DEF Owners
  <2>4. Moves(HeldModes, Line(core.waiters), HeldModes', Line(core.waiters)')
    BY <1>3, OwnersAgree DEF Turns
  <2> QED
    BY <1>2, <2>2, <2>3, <2>4, OwnersAgree, FifoSteps
<1>4. CASE Rests
  <2>1. HeldModes' = HeldModes /\ core'.waiters = core.waiters
    BY <1>4, OwnersAgree DEF Rests
  <2> QED
    BY <1>2, <2>1 DEF Fifo!vars, HeldModes
<1> QED
  BY <1>1, <1>3, <1>4

\* Whoever watches, reports late or releases early, the owners of an observed lock and its
\* queue are at every step those of the FIFO lock: rwCore's acquire, tryAcquire, cancelWaiter
\* and release with their deliveries, timers and pending events, for any number of attempts.
THEOREM ObservedRefinement == Spec => ObservedFIFOLock
<1>1. Init => Fifo!Init
  <2> SUFFICES ASSUME Init PROVE Fifo!Init
    OBVIOUS
  <2>1. core = InitialCore /\ InitialCore.waiters = <<>> /\ InitialCore.cancelled = FALSE
    BY DEF Init, InitialCore
  <2>2. \A p \in Procs : ~Owns(p)
    BY <2>1 DEF Owns, InitialCore
  <2> QED
    BY <2>1, <2>2 DEF Fifo!Init
<1>2. OInv /\ EngineTied /\ [Next]_vars => EngineTied' /\ [Fifo!Next]_Fifo!vars
  BY StepTied, StepRefines
<1> QED
  BY <1>1, <1>2, TiedAtFirst, Invariant, PTL DEF Spec, ObservedFIFOLock, Fifo!Spec

\* An attempt blocked without a verdict, whose events are being delivered meanwhile or
\* not, waits for an owner that has not released, be it early.
ObservedWaitersHaveAnOwner ==
  \A p \in Procs :
    pc[p] \in {"announce", "select"} /\ core.verdict[p] = "none" /\ p \notin left =>
      \E q \in Procs : Owns(q)

\* No attempt is left asleep because its grantor was busy telling an observer.
THEOREM NobodyStrandedByDelivery == Spec => []ObservedWaitersHaveAnOwner
<1>1. ASSUME EngineTied PROVE ObservedWaitersHaveAnOwner
  <2> SUFFICES ASSUME NEW p \in Procs, pc[p] \in {"announce", "select"},
                      core.verdict[p] = "none", p \notin left
               PROVE  \E q \in Procs : Owns(q)
    BY DEF ObservedWaitersHaveAnOwner
  <2>1. Tied(core, Standing, want) /\ ~HeadCompatible(core)
    BY <1>1 DEF EngineTied
  <2>2. Standing[p] = "waiting"
    BY DEF Standing
  <2>3. QueuedIn(core, Standing) # {}
    BY <2>2 DEF QueuedIn
  <2>4. PICK q \in Procs : OwnsIn(core, Standing, q)
    BY <2>1, <2>3, SomebodyOwns
  <2>5. Standing[q] = "waiting" /\ core.verdict[q] = "granted"
    BY <2>4, StandingOf DEF OwnsIn
  <2>6. q \notin left
    BY <2>5 DEF Standing
  <2> QED
    BY <2>5, <2>6 DEF Owns
<1>2. OInv /\ EngineTied /\ [Next]_vars => EngineTied'
  BY StepTied
<1> QED
  BY <1>1, <1>2, TiedAtFirst, Invariant, PTL DEF Spec

-----------------------------------------------------------------------------
(* The life of an attempt as its observer hears of it: events come in order *)
(* and once each, and no elapsed threshold goes unreported.  The invariant  *)
(* says what each sender has left to send and that a late event is with one *)
(* of them only, wherever it has been passed on to.                         *)

Early == {"waitStarted", "waitExceeded"}
Ends == {"acquired", "rejected", "tryFailed"}
Late == {"holdExceeded", "released"}

Heard(p) == Elems(seen[p])
Granted(p) == core.verdict[p] = "granted"
Ascending(s) == \A i, j \in DOMAIN s : i < j => Stage(s[i]) < Stage(s[j])

\* The events s are one of p, of kind k; or two, of kinds k and l.
One(s, p, k) == Len(s) = 1 /\ s[1].id = p /\ s[1].kind = k
Two(s, p, k, l) ==
  Len(s) = 2 /\ s[1].id = p /\ s[1].kind = k /\ s[2].id = p /\ s[2].kind = l

\* The call of p has how it ended to tell, or has told that it has the lock.
Concluding(p) == pc[p] = "deliver" \/ (pc[p] = "send" /\ ~Granted(p))
Announced(p) == pc[p] \in {"complete", "send", "back"} /\ Granted(p)

\* What the four senders of p have left to send of p itself.
CallSends(p) ==
  LET s == outbox["call"][p]
  IN  /\ pc[p] = "announce" => One(s, p, "waitStarted")
      /\ Concluding(p) => \E k \in Ends : /\ k = "acquired" <=> Granted(p)
                                          /\ One(s, p, k) \/ Two(s, p, "waitExceeded", k)
      /\ Concluding(p) /\ Len(s) = 2 => Heard(p) = {"waitStarted"}
WaitSends(p) ==
  LET s == outbox["wait"][p]
  IN  s # <<>> => /\ One(s, p, "waitExceeded") /\ pc[p] \in {"select", "finish"}
                  /\ "waitExceeded" \notin Heard(p)
HoldSends(p) ==
  LET s == outbox["hold"][p]
  IN  s # <<>> => /\ One(s, p, "holdExceeded") /\ Announced(p) /\ Exact(want[p])
                  /\ p \in holdReported /\ p \notin left /\ "holdExceeded" \notin Heard(p)
ReleaseSends(p) ==
  LET s == outbox["release"][p]
  IN  /\ s # <<>> => /\ One(s, p, "released") \/ Two(s, p, "holdExceeded", "released")
                     /\ Announced(p) /\ p \in left /\ "released" \notin Heard(p)
      /\ Len(s) = 2 => "holdExceeded" \notin Heard(p) /\ p \in holdReported

\* What the observer has heard of p, as far as p has come.
SoFar(p) ==
  /\ Ascending(seen[p])
  /\ pc[p] \in {"idle", "announce"} => Heard(p) = {}
  /\ pc[p] \in {"select", "finish"} \/ Concluding(p) => Heard(p) \subseteq Early
  /\ pc[p] \in {"select", "finish"} \/ "waitExceeded" \in Heard(p) => "waitStarted" \in Heard(p)
  /\ Announced(p) => "acquired" \in Heard(p)
  /\ pc[p] = "back" => Heard(p) \intersect Ends # {}
  /\ "released" \in Heard(p) => p \in left
  /\ "holdExceeded" \in Heard(p) => p \in holdReported

\* Events of finished holds change hands: pendingEvents, and the calls that took them over.
Carriers == Procs \union {NoAttempt}
Mail(x) ==
  IF x = NoAttempt THEN pending
  ELSE IF pc[x] = "send" /\ Granted(x) THEN outbox["call"][x] ELSE <<>>
Posted(p, k) ==
  \E x \in Carriers : \E i \in DOMAIN Mail(x) : Mail(x)[i].id = p /\ Mail(x)[i].kind = k

\* What is noted of reports and timers, and what has become of it.
Noted(p) ==
  /\ p \in waitReported <=> \/ "waitExceeded" \in Heard(p) \/ outbox["wait"][p] # <<>>
                            \/ (Concluding(p) /\ Len(outbox["call"][p]) = 2)
  /\ p \in holdReported => \/ "holdExceeded" \in Heard(p) \/ outbox["hold"][p] # <<>>
                           \/ Len(outbox["release"][p]) = 2 \/ Posted(p, "holdExceeded")
  /\ p \in left \/ p \in holdLong \/ p \in holdReported => Granted(p)
  /\ p \in left /\ p \in holdLong => p \in holdReported
  /\ p \in holdLong => Exact(want[p]) /\ HoldThreshold
  /\ holdTimer[p] # "off" => Exact(want[p]) /\ Granted(p)
  /\ p \in waitLong /\ p \notin waitReported => pc[p] \in {"announce", "select", "finish"}
  /\ waitTimer[p] # "off" /\ core.verdict[p] = "none" => pc[p] \in {"announce", "select"}

Life(p) ==
  CallSends(p) /\ WaitSends(p) /\ HoldSends(p) /\ ReleaseSends(p) /\ SoFar(p) /\ Noted(p)

\* The event e is of a hold that is over, and with nobody but its carrier.
Fresh(e) ==
  /\ e.kind \in Late /\ e.id \in left
  /\ e.kind \notin Heard(e.id) /\ "released" \notin Heard(e.id)
  /\ outbox["release"][e.id] = <<>> /\ outbox["hold"][e.id] = <<>>
  /\ e.kind = "holdExceeded" => e.id \in holdReported

Mailed ==
  \A x \in Carriers : \A i \in DOMAIN Mail(x) :
    Fresh(Mail(x)[i]) /\ (x # NoAttempt => Announced(Mail(x)[i].id))

\* The report of a hold comes before its end, and no two carriers have events of one p.
MailedOnce ==
  \A x, y \in Carriers : \A i \in DOMAIN Mail(x), j \in DOMAIN Mail(y) :
    Mail(x)[i].id = Mail(y)[j].id =>
      /\ x = y
      /\ i < j => Mail(x)[i].kind = "holdExceeded" /\ Mail(x)[j].kind = "released"

EInv == OInv /\ (\A p \in Procs : Life(p)) /\ Mailed /\ MailedOnce

-----------------------------------------------------------------------------
(* Sequences of events and of kinds *)

LEMMA Stages ==
  /\ Stage("waitStarted") = 1 /\ Stage("waitExceeded") = 2
  /\ \A k \in Ends : Stage(k) = 3
  /\ Stage("holdExceeded") = 4 /\ Stage("released") = 5
  /\ \A k \in Kinds : k \in Early \/ k \in Ends \/ k \in Late
BY DEF Stage, Ends, Kinds, Early, Late

\* The next event of a sender, and those after it.
LEMMA NextEvent ==
  ASSUME NEW s \in Seq(Event), s # <<>>
  PROVE  /\ Head(s) = s[1] /\ Head(s) \in Event /\ Tail(s) \in Seq(Event)
         /\ Len(s) \in Nat \ {0} /\ Len(Tail(s)) = Len(s) - 1
         /\ \A i \in 1..(Len(s) - 1) : Tail(s)[i] = s[i + 1]
         /\ Len(s) = 1 <=> Tail(s) = <<>>
         /\ 1 \in DOMAIN s
<1>1. Head(s) = s[1] /\ Len(s) \in Nat \ {0} /\ Tail(s) \in Seq(Event)
  BY HeadTailProperties, EmptySeq
<1>2. Len(Tail(s)) = Len(s) - 1 /\ Head(s) \in Event
  BY HeadTailProperties
<1>3. \A i \in 1..(Len(s) - 1) : Tail(s)[i] = s[i + 1]
  BY <1>1
<1>4. Len(s) = 1 <=> Tail(s) = <<>>
  BY <1>1, <1>2, EmptySeq
<1> QED
  BY <1>1, <1>2, <1>3, <1>4

\* One event.
LEMMA Letter ==
  ASSUME NEW s \in Seq(Event), NEW p, NEW k, One(s, p, k)
  PROVE  /\ s # <<>> /\ Len(s) = 1
         /\ Head(s).id = p /\ Head(s).kind = k /\ Tail(s) = <<>>
<1>0. Len(s) # 0 => s # <<>>
  BY EmptySeq
<1>1. s # <<>>
  BY <1>0 DEF One
<1> QED
  BY <1>1, NextEvent DEF One

\* Two events, of which one is sent.
LEMMA Letters ==
  ASSUME NEW s \in Seq(Event), NEW p, NEW k, NEW l, Two(s, p, k, l)
  PROVE  /\ s # <<>> /\ Len(s) = 2
         /\ Head(s).id = p /\ Head(s).kind = k
         /\ Tail(s) # <<>> /\ Len(Tail(s)) = 1 /\ One(Tail(s), p, l)
<1>0. Len(s) # 0 => s # <<>>
  BY EmptySeq
<1>1. s # <<>>
  BY <1>0 DEF Two
<1>2. Len(s) = 2 /\ 2 # 1 /\ 1 \in 1..(2 - 1) /\ 1 + 1 = 2 /\ 2 - 1 = 1
  BY DEF Two
<1>3. Head(s) = s[1] /\ Len(Tail(s)) = 1 /\ Tail(s)[1] = s[2] /\ Tail(s) # <<>>
  BY <1>1, <1>2, NextEvent
<1> QED
  BY <1>1, <1>2, <1>3 DEF Two, One

\* A new event is the only one, or the second.
LEMMA Composed ==
  ASSUME NEW e \in Event, NEW f \in Event
  PROVE  /\ One(<<e>>, e.id, e.kind)
         /\ f.id = e.id => Two(<<f, e>>, e.id, f.kind, e.kind)
         /\ <<>> \o <<e>> = <<e>> /\ <<f>> \o <<e>> = <<f, e>>
         /\ Append(<<>>, e) = <<e>> /\ Append(<<f>>, e) = <<f, e>>
<1>1. Append(<<>>, e) = <<e>>
  OBVIOUS
<1>2. Append(<<f>>, e) = <<f, e>>
  <2>1. /\ Append(<<f>>, e) \in Seq(Event) /\ <<f, e>> \in Seq(Event)
        /\ Len(Append(<<f>>, e)) = 2 /\ Len(<<f, e>>) = 2
    OBVIOUS
  <2>2. \A i \in 1..2 : Append(<<f>>, e)[i] = <<f, e>>[i]
    <3>1. Append(<<f>>, e)[1] = f
      OBVIOUS
    <3>2. Append(<<f>>, e)[2] = e
      OBVIOUS
    <3> QED
      BY <3>1, <3>2
  <2> QED
    BY <2>1, <2>2, SeqEqual
<1>3. <<>> \o <<e>> = <<e>>
  OBVIOUS
<1>4. <<f>> \o <<e>> = <<f, e>>
  <2>1. <<f>> \in Seq(Event)
    OBVIOUS
  <2> QED
    BY <1>2, <2>1, AppendIsConcat
<1> QED
  BY <1>1, <1>2, <1>3, <1>4 DEF One, Two

\* Hearing a later kind.
LEMMA Hears ==
  ASSUME NEW s \in Seq(Kinds), NEW k \in Kinds, Ascending(s),
         \A j \in Elems(s) : Stage(j) < Stage(k)
  PROVE  Ascending(Append(s, k)) /\ Elems(Append(s, k)) = Elems(s) \union {k}
<1> DEFINE a == Append(s, k)
<1>1. /\ Len(a) = Len(s) + 1 /\ Len(s) \in Nat /\ DOMAIN s = 1..Len(s) /\ DOMAIN a = 1..(Len(s) + 1)
      /\ a[Len(s) + 1] = k /\ \A i \in 1..Len(s) : a[i] = s[i]
  OBVIOUS
<1> HIDE DEF a
<1>2. ASSUME NEW i \in DOMAIN a, NEW j \in DOMAIN a, i < j PROVE Stage(a[i]) < Stage(a[j])
  <2>1. i \in 1..Len(s) /\ a[i] = s[i]
    BY <1>1, <1>2
  <2>2. CASE j = Len(s) + 1
    BY <1>1, <2>1, <2>2 DEF Elems
  <2>3. CASE j \in 1..Len(s)
    BY <1>1, <1>2, <2>1, <2>3 DEF Ascending
  <2> QED
    BY <1>1, <2>2, <2>3
<1>3. Elems(a) = Elems(s) \union {k}
  BY <1>1 DEF Elems
<1> QED
  BY <1>2, <1>3 DEF Ascending, a

-----------------------------------------------------------------------------
(* The attempts a step is not about *)

\* The engine may finish q's wait, and nothing else, and then starts its hold timer.
Undisturbed(q) ==
  /\ \/ core'.verdict[q] = core.verdict[q]
     \/ core.verdict[q] = "none" /\ pc[q] \in {"announce", "select"}
  /\ holdTimer'[q] # "off" => \/ holdTimer[q] # "off"
                              \/ core'.verdict[q] = "granted" /\ Exact(want'[q])

\* Nothing but the clock has moved for q.
LeftAlone(q) ==
  /\ pc'[q] = pc[q] /\ want'[q] = want[q] /\ seen'[q] = seen[q]
  /\ waitTimer'[q] # "off" => waitTimer[q] # "off"
  /\ \A s \in Senders : outbox'[s][q] = outbox[s][q]
  /\ q \in left' <=> q \in left
  /\ q \in waitLong' <=> q \in waitLong
  /\ q \in holdLong' <=> q \in holdLong
  /\ q \in waitReported' <=> q \in waitReported
  /\ q \in holdReported' <=> q \in holdReported
  /\ Undisturbed(q)

LEMMA KeptLife ==
  ASSUME OInv, NEW q \in Procs, Life(q), LeftAlone(q),
         Posted(q, "holdExceeded") => Posted(q, "holdExceeded")'
  PROVE  Life(q)'
<1>1. /\ pc'[q] = pc[q] /\ want'[q] = want[q] /\ seen'[q] = seen[q] /\ Heard(q)' = Heard(q)
      /\ outbox'["call"][q] = outbox["call"][q] /\ outbox'["wait"][q] = outbox["wait"][q]
      /\ outbox'["hold"][q] = outbox["hold"][q] /\ outbox'["release"][q] = outbox["release"][q]
  BY DEF LeftAlone, Heard, Senders
<1>2. /\ Granted(q) => Granted(q)'
      /\ Granted(q)' => Granted(q) \/ pc[q] \in {"announce", "select"}
  BY DEF LeftAlone, Undisturbed, Granted
<1>3. /\ Concluding(q)' <=> Concluding(q)
      /\ Announced(q)' <=> Announced(q)
      /\ Concluding(q) => (Granted(q)' <=> Granted(q))
  BY <1>1, <1>2 DEF Concluding, Announced
<1>4. CallSends(q)'
  BY <1>1, <1>3 DEF Life, CallSends
<1>5. WaitSends(q)'
  BY <1>1 DEF Life, WaitSends
<1>6. HoldSends(q)'
  BY <1>1, <1>3 DEF Life, HoldSends, LeftAlone
<1>7. ReleaseSends(q)'
  BY <1>1, <1>3 DEF Life, ReleaseSends, LeftAlone
<1>8. SoFar(q)'
  BY <1>1, <1>3 DEF Life, SoFar, LeftAlone
<1>9. Noted(q)'
  <2>1. holdTimer'[q] # "off" => Exact(want'[q]) /\ Granted(q)'
    BY <1>1, <1>2 DEF Life, Noted, LeftAlone, Undisturbed, Granted
  <2>2. waitTimer'[q] # "off" /\ core'.verdict[q] = "none" => pc'[q] \in {"announce", "select"}
    BY <1>1 DEF Life, Noted, LeftAlone, Undisturbed
  <2> QED
    BY <1>1, <1>2, <1>3, <2>1, <2>2 DEF Life, Noted, LeftAlone
<1> QED
  BY <1>4, <1>5, <1>6, <1>7, <1>8, <1>9 DEF Life

\* Late events of p are with a carrier.
Addressed(p) == \E x \in Carriers : \E i \in DOMAIN Mail(x) : Mail(x)[i].id = p

\* A step of p that passes no mail on, and leaves p's own as it is.
Acts(p) ==
  /\ \A q \in Procs \ {p} : LeftAlone(q)
  /\ pending' = pending
  /\ Mail(p)' = Mail(p)
  /\ Addressed(p) =>
       /\ p \in left' /\ Heard(p)' \intersect Late = Heard(p) \intersect Late
       /\ outbox'["release"][p] = outbox["release"][p]
       /\ outbox'["hold"][p] = outbox["hold"][p]
       /\ p \in holdReported => p \in holdReported'
       /\ Announced(p) => Announced(p)'

LEMMA SameMail ==
  ASSUME EInv, NEW p \in Procs, Acts(p)
  PROVE  /\ \A x \in Carriers : Mail(x)' = Mail(x)
         /\ \A q, k : Posted(q, k)' <=> Posted(q, k)
<1>1. NoAttempt \notin Procs
  BY CoreAssumption
<1>2. ASSUME NEW x \in Carriers PROVE Mail(x)' = Mail(x)
  <2>1. CASE x = NoAttempt
    BY <2>1 DEF Acts, Mail
  <2>2. CASE x = p
    BY <2>2 DEF Acts
  <2>3. CASE x \in Procs \ {p}
    <3>1. LeftAlone(x) /\ "call" \in Senders /\ x # NoAttempt
      BY <1>1, <2>3 DEF Acts, Senders
    <3>2. /\ pc'[x] = pc[x] /\ outbox'["call"][x] = outbox["call"][x]
          /\ pc[x] = "send" => core'.verdict[x] = core.verdict[x]
      BY <3>1 DEF LeftAlone, Undisturbed
    <3> QED
      BY <3>1, <3>2 DEF Mail, Granted
  <2> QED
    BY <2>1, <2>2, <2>3 DEF Carriers
<1>3. \A q, k : Posted(q, k)' <=> Posted(q, k)
  BY <1>2 DEF Posted
<1> QED
  BY <1>2, <1>3

\* It is enough to look at p.
LEMMA ActsKeeps ==
  ASSUME EInv, OInv', NEW p \in Procs, Acts(p), Life(p)'
  PROVE  EInv'
<1>1. /\ \A x \in Carriers : Mail(x)' = Mail(x)
      /\ \A q, k : Posted(q, k)' <=> Posted(q, k)
  BY SameMail
<1>2. ASSUME NEW q \in Procs PROVE Life(q)'
  <2>1. CASE q = p
    BY <2>1
  <2>2. CASE q # p
    <3>1. LeftAlone(q) /\ Life(q) /\ OInv
      BY <2>2 DEF Acts, EInv
    <3> QED
      BY <1>1, <3>1, KeptLife
  <2> QED
    BY <2>1, <2>2
<1>3. MailedOnce'
  BY <1>1 DEF EInv, MailedOnce
<1>4. Mailed'
  <2> SUFFICES ASSUME NEW x \in Carriers, NEW i \in DOMAIN Mail(x)
               PROVE  Fresh(Mail(x)[i])' /\ (x # NoAttempt => Announced(Mail(x)[i].id)')
    BY <1>1 DEF Mailed
  <2> PICK e : e = Mail(x)[i]
    OBVIOUS
  <2>1. Fresh(e) /\ (x # NoAttempt => Announced(e.id))
    BY DEF EInv, Mailed
  <2>2. e.id \in Procs /\ Addressed(e.id)
    <3>1. e.id \in left /\ left \in SUBSET Procs
      BY <2>1 DEF Fresh, EInv, OInv, TypeOK
    <3> QED
      BY <3>1 DEF Addressed
  <2>3. Mail(x)'[i] = e
    BY <1>1
  <2>4. Fresh(e)' /\ (Announced(e.id) => Announced(e.id)')
    <3>1. CASE e.id = p
      BY <2>1, <2>2, <3>1 DEF Acts, Fresh, Late
    <3>2. CASE e.id # p
      <4>1. LeftAlone(e.id)
        BY <2>2, <3>2 DEF Acts
      <4>2. /\ e.id \in left' /\ Heard(e.id)' = Heard(e.id)
            /\ outbox'["release"][e.id] = outbox["release"][e.id]
            /\ outbox'["hold"][e.id] = outbox["hold"][e.id]
            /\ e.id \in holdReported => e.id \in holdReported'
        BY <2>1, <4>1 DEF Fresh, LeftAlone, Heard, Senders
      <4>3. Announced(e.id) => Announced(e.id)'
        BY <4>1 DEF Announced, Granted, LeftAlone, Undisturbed
      <4> QED
        BY <2>1, <4>2, <4>3 DEF Fresh
    <3> QED
      BY <3>1, <3>2
  <2> QED
    BY <2>1, <2>3, <2>4 DEF Fresh, Announced, Heard, Granted
<1> QED
  BY <1>2, <1>3, <1>4 DEF EInv

LEMMA UnreleasedHasNoMail ==
  ASSUME EInv, NEW p \in Procs, p \notin left
  PROVE  ~Addressed(p)
BY DEF EInv, Mailed, Fresh, Addressed

LEMMA NoMail ==
  ASSUME NEW p \in Procs, pc[p] # "send" \/ ~Granted(p)
  PROVE  Mail(p) = <<>>
BY CoreAssumption DEF Mail

-----------------------------------------------------------------------------
(* The steps, one lemma for each. *)

\* A new lock has told nothing.
LEMMA OrderInitially == Init => EInv
<1> SUFFICES ASSUME Init PROVE EInv
  OBVIOUS
<1>1. OInv
  BY Initially
<1>2. /\ core.verdict = [p \in Procs |-> "none"] /\ pending = <<>>
      /\ \A p \in Procs : /\ pc[p] = "idle" /\ seen[p] = <<>>
                          /\ outbox["call"][p] = <<>> /\ outbox["wait"][p] = <<>>
                          /\ outbox["hold"][p] = <<>> /\ outbox["release"][p] = <<>>
                          /\ waitTimer[p] = "off" /\ holdTimer[p] = "off"
      /\ left = {} /\ waitLong = {} /\ holdLong = {} /\ waitReported = {} /\ holdReported = {}
  BY DEF Init, InitialCore, Senders
<1>3. ASSUME NEW p \in Procs PROVE Life(p)
  <2>1. Heard(p) = {} /\ ~Granted(p) /\ ~Concluding(p) /\ ~Announced(p) /\ Ascending(seen[p])
    BY <1>2 DEF Heard, Elems, Granted, Concluding, Announced, Ascending
  <2>2. Len(outbox["release"][p]) # 2
    BY <1>2
  <2> QED
    BY <1>2, <2>1, <2>2
    DEF Life, CallSends, WaitSends, HoldSends, ReleaseSends, SoFar, Noted
<1>4. \A x \in Carriers : DOMAIN Mail(x) = {}
  <2>1. \A x \in Carriers : Mail(x) = <<>>
    BY <1>2 DEF Mail, Carriers
  <2>2. DOMAIN <<>> = {}
    OBVIOUS
  <2> QED
    BY <2>1, <2>2
<1> QED
  BY <1>1, <1>3, <1>4 DEF EInv, Mailed, MailedOnce

\* The steps of the clock and the timers that send nothing.
LEMMA OrderClockSteps ==
  ASSUME EInv, OInv', NEW p \in Procs,
         \/ Expire(p) \/ WaitElapses(p) \/ HoldElapses(p)
         \/ WaitFires(p) \/ HoldFires(p) \/ FindHold(p)
  PROVE  EInv'
<1>1. /\ UNCHANGED <<core, pending, pc, want, outbox, seen, left, waitReported, holdReported>>
      /\ \A q \in Procs : q # p => (q \in waitLong' <=> q \in waitLong)
      /\ \A q \in Procs : q # p => (q \in holdLong' <=> q \in holdLong)
      /\ p \in waitLong' => p \in waitLong \/ pc[p] \in {"announce", "select"}
      /\ p \in holdLong' => \/ p \in holdLong
                            \/ HoldThreshold /\ Granted(p) /\ p \notin left /\ Exact(want[p])
  BY DEF Expire, WaitElapses, HoldElapses, WaitFires, HoldFires, FindHold,
         coreVars, callVars, leaveVars, sendVars, clockVars, waitVars, Owns, Granted
<1>2. TypeOK
  BY DEF EInv, OInv
<1>3. \A q \in Procs : /\ waitTimer'[q] # "off" => waitTimer[q] # "off"
                       /\ holdTimer'[q] # "off" => holdTimer[q] # "off"
  <2>1. CASE Expire(p) \/ WaitElapses(p) \/ HoldElapses(p)
    BY <2>1 DEF Expire, WaitElapses, HoldElapses, coreVars, waitVars
  <2>2. CASE WaitFires(p)
    BY <1>2, <2>2 DEF WaitFires, coreVars, TypeOK
  <2>3. CASE HoldFires(p) \/ FindHold(p)
    BY <1>2, <2>3 DEF HoldFires, FindHold, waitVars, TypeOK
  <2> QED
    BY <2>1, <2>2, <2>3
<1>4. \A q \in Procs \ {p} : LeftAlone(q)
  BY <1>1, <1>3 DEF LeftAlone, Undisturbed
<1>5. Acts(p)
  BY <1>1, <1>4 DEF Acts, Mail, Granted, Heard, Announced, Addressed, EInv, Mailed, Fresh
<1>6. Life(p) /\ (Posted(p, "holdExceeded")' <=> Posted(p, "holdExceeded"))
  BY <1>5, SameMail DEF EInv
<1>7. /\ Heard(p)' = Heard(p) /\ (Granted(p)' <=> Granted(p))
      /\ (Concluding(p)' <=> Concluding(p)) /\ (Announced(p)' <=> Announced(p))
  BY <1>1 DEF Heard, Granted, Concluding, Announced
<1>8. Noted(p)'
  BY <1>1, <1>3, <1>6, <1>7 DEF Life, Noted, Granted
<1>9. Life(p)'
  BY <1>1, <1>6, <1>7, <1>8 DEF Life, CallSends, WaitSends, HoldSends, ReleaseSends, SoFar
<1> QED
  BY <1>5, <1>9, ActsKeeps

\* The select finds the waiter finished.
LEMMA OrderWake ==
  ASSUME EInv, OInv', NEW p \in Procs, Wake(p)
  PROVE  EInv'
<1>1. /\ pc[p] = "select" /\ core.verdict[p] # "none" /\ pc' = [pc EXCEPT ![p] = "finish"]
      /\ UNCHANGED <<core, pending, holdTimer, want, left, holdReported, waitLong, holdLong,
                     waitTimer, waitReported, outbox, seen>>
  BY DEF Wake, GoTo, coreVars, leaveVars, clockVars, waitVars, sendVars
<1>2. pc'[p] = "finish" /\ \A q \in Procs : q # p => pc'[q] = pc[q]
  BY <1>1 DEF EInv, OInv, TypeOK
<1>3. Acts(p)
  <2>1. \A q \in Procs \ {p} : LeftAlone(q)
    BY <1>1, <1>2 DEF LeftAlone, Undisturbed
  <2>2. Mail(p) = <<>> /\ Mail(p)' = <<>>
    BY <1>1, <1>2, CoreAssumption DEF Mail
  <2>3. ~Announced(p)
    BY <1>1 DEF Announced
  <2>4. Addressed(p) => p \in left
    BY UnreleasedHasNoMail
  <2> QED
    BY <1>1, <2>1, <2>2, <2>3, <2>4 DEF Acts, Heard
<1>4. Life(p) /\ (Posted(p, "holdExceeded")' <=> Posted(p, "holdExceeded"))
  BY <1>3, SameMail DEF EInv
<1>5. /\ Heard(p)' = Heard(p) /\ (Granted(p)' <=> Granted(p))
      /\ ~Concluding(p) /\ ~Concluding(p)' /\ ~Announced(p) /\ ~Announced(p)'
  BY <1>1, <1>2 DEF Heard, Granted, Concluding, Announced
<1>6. Noted(p)'
  BY <1>1, <1>2, <1>4, <1>5 DEF Life, Noted
<1>7. Life(p)'
  BY <1>1, <1>2, <1>4, <1>5, <1>6
  DEF Life, CallSends, WaitSends, HoldSends, ReleaseSends, SoFar
<1> QED
  BY <1>3, <1>7, ActsKeeps

\* A service of the queue finishes waits and nothing else.
LEMMA AdvanceUndisturbs ==
  ASSUME OInv, NEW p \in Procs, NEW c, Serves(core, c, {p}),
         NEW d, \A q \in Procs \ {p} : d.verdict[q] = c.verdict[q],
         NEW w, NEW timer, Advance(d, w, timer),
         \A q \in Procs \ {p} : w[q] = want'[q] /\ timer[q] = holdTimer[q]
  PROVE  core' = d /\ \A q \in Procs \ {p} : Undisturbed(q)
<1>1. core' = d
  BY DEF Advance
<1>2. ASSUME NEW q \in Procs \ {p} PROVE Undisturbed(q)
  <2>1. \/ d.verdict[q] = core.verdict[q]
        \/ core.verdict[q] = "none" /\ pc[q] \in {"announce", "select"}
    BY DEF Serves, OInv, PlacesTied
  <2>2. holdTimer'[q] = IF core.verdict[q] # "granted" /\ d.verdict[q] = "granted"
                           /\ HoldThreshold /\ Exact(w[q])
                        THEN "armed" ELSE timer[q]
    BY DEF Advance
  <2> QED
    BY <1>1, <2>1, <2>2 DEF Undisturbed
<1> QED
  BY <1>1, <1>2

\* A waiter gives up.
LEMMA OrderGiveUp ==
  ASSUME EInv, OInv', NEW p \in Procs, GiveUp(p)
  PROVE  EInv'
<1> DEFINE d == CancelWaiter(core, p, dead)
<1>0. OInv
  BY DEF EInv
<1>1. /\ Serves(core, d, {p})
      /\ d.verdict[p] = IF core.verdict[p] = "none" THEN "context" ELSE core.verdict[p]
  BY <1>0, EngineSound, CancelWaiterServes
<1>2. /\ pc[p] = "select" /\ Advance(d, want, holdTimer) /\ pc' = [pc EXCEPT ![p] = "finish"]
      /\ UNCHANGED <<pending, want, left, holdReported, waitLong, holdLong, waitTimer,
                     waitReported, outbox, seen>>
  BY DEF GiveUp, GoTo, leaveVars, clockVars, waitVars, sendVars
<1> HIDE DEF d
<1>3. core' = d /\ \A q \in Procs \ {p} : Undisturbed(q)
  BY <1>0, <1>1, <1>2, AdvanceUndisturbs
<1>4. pc'[p] = "finish" /\ \A q \in Procs : q # p => pc'[q] = pc[q]
  BY <1>0, <1>2 DEF OInv, TypeOK
<1>5. core'.verdict[p] # "none" /\ (Granted(p)' <=> Granted(p))
  BY <1>1, <1>3 DEF Granted
<1>6. holdTimer'[p] = holdTimer[p]
  BY <1>2, <1>3, <1>5 DEF Advance, Granted
<1>7. Acts(p)
  <2>1. \A q \in Procs \ {p} : LeftAlone(q)
    BY <1>2, <1>3, <1>4 DEF LeftAlone
  <2>2. Mail(p) = <<>> /\ Mail(p)' = <<>>
    BY <1>2, <1>4, CoreAssumption DEF Mail
  <2>3. ~Announced(p)
    BY <1>2 DEF Announced
  <2>4. Addressed(p) => p \in left
    BY UnreleasedHasNoMail
  <2> QED
    BY <1>2, <2>1, <2>2, <2>3, <2>4 DEF Acts, Heard
<1>8. Life(p) /\ (Posted(p, "holdExceeded")' <=> Posted(p, "holdExceeded"))
  BY <1>7, SameMail DEF EInv
<1>9. /\ Heard(p)' = Heard(p)
      /\ ~Concluding(p) /\ ~Concluding(p)' /\ ~Announced(p) /\ ~Announced(p)'
  BY <1>2, <1>4 DEF Heard, Concluding, Announced
<1>10. Noted(p)'
  BY <1>2, <1>4, <1>5, <1>6, <1>8, <1>9 DEF Life, Noted
<1>11. Life(p)'
  BY <1>2, <1>4, <1>5, <1>8, <1>9, <1>10
  DEF Life, CallSends, WaitSends, HoldSends, ReleaseSends, SoFar
<1> QED
  BY <1>7, <1>11, ActsKeeps

\* What is posted is for one sender of one attempt.
LEMMA Posting ==
  ASSUME OInv, NEW s \in Senders, NEW p \in Procs, NEW events, Post(s, p, events)
  PROVE  /\ seen' = seen /\ outbox'[s][p] = events
         /\ \A t \in Senders : \A q \in Procs : t # s \/ q # p => outbox'[t][q] = outbox[t][q]
BY DEF OInv, TypeOK, Post

\* What is known of an attempt that has not begun.
LEMMA Beginning ==
  ASSUME EInv, NEW p \in Procs, pc[p] = "idle"
  PROVE  /\ core.verdict[p] = "none" /\ ~Granted(p) /\ Heard(p) = {}
         /\ outbox["wait"][p] = <<>> /\ outbox["hold"][p] = <<>>
         /\ outbox["release"][p] = <<>> /\ outbox["call"][p] = <<>>
         /\ p \notin left /\ p \notin holdLong /\ p \notin holdReported
         /\ p \notin waitReported /\ p \notin waitLong
         /\ waitTimer[p] = "off" /\ holdTimer[p] = "off"
         /\ ~Addressed(p) /\ Mail(p) = <<>>
<1>1. OInv /\ Life(p)
  BY DEF EInv
<1>2. core.verdict[p] = "none" /\ ~Granted(p) /\ outbox["call"][p] = <<>>
  BY <1>1 DEF OInv, PlacesTied, Granted
<1>3. ~Announced(p) /\ ~Concluding(p) /\ Heard(p) = {}
  BY <1>1, <1>2 DEF Announced, Concluding, Life, SoFar
<1>4. outbox["wait"][p] = <<>> /\ outbox["hold"][p] = <<>> /\ outbox["release"][p] = <<>>
  BY <1>1, <1>3 DEF Life, WaitSends, HoldSends, ReleaseSends
<1>5. /\ p \notin left /\ p \notin holdLong /\ p \notin holdReported
      /\ p \notin waitReported /\ p \notin waitLong
      /\ waitTimer[p] = "off" /\ holdTimer[p] = "off"
  BY <1>1, <1>2, <1>3, <1>4 DEF Life, Noted
<1>6. ~Addressed(p) /\ Mail(p) = <<>>
  BY <1>2, <1>5, UnreleasedHasNoMail, NoMail
<1> QED
  BY <1>2, <1>3, <1>4, <1>5, <1>6

\* A refusal is told and nothing else.
LEMMA OrderRefuse ==
  ASSUME EInv, OInv', NEW p \in Procs, NEW k \in {"rejected", "tryFailed"}, Refuse(p, k)
  PROVE  EInv'
<1> DEFINE e == Ev(p, k, core)
<1>0. OInv /\ TypeOK /\ Life(p) /\ "call" \in Senders
  BY DEF EInv, OInv, Senders
<1>1. /\ pc[p] = "idle" /\ pc' = [pc EXCEPT ![p] = "send"] /\ Post("call", p, <<e>>)
      /\ UNCHANGED <<core, pending, holdTimer, want, left, holdReported, waitLong, holdLong,
                     waitTimer, waitReported>>
  BY DEF Refuse, GoTo, coreVars, leaveVars, clockVars, waitVars
<1>2. e.id = p /\ e.kind = k /\ e \in Event
  BY <1>0, EvType DEF Ev, TypeOK, Kinds
<1> HIDE DEF e
<1>3. One(<<e>>, p, k) /\ Len(<<e>>) = 1
  BY <1>2, Composed DEF One
<1>4. pc'[p] = "send" /\ \A q \in Procs : q # p => pc'[q] = pc[q]
  BY <1>0, <1>1 DEF TypeOK
<1>5. /\ seen' = seen /\ outbox'["call"][p] = <<e>>
      /\ \A t \in Senders : \A q \in Procs : t # "call" \/ q # p => outbox'[t][q] = outbox[t][q]
  BY <1>0, <1>1, Posting
<1>6. /\ ~Granted(p) /\ Heard(p) = {} /\ core.verdict[p] = "none"
      /\ p \notin left /\ p \notin holdLong /\ p \notin holdReported
      /\ p \notin waitReported /\ p \notin waitLong
      /\ waitTimer[p] = "off" /\ holdTimer[p] = "off"
      /\ ~Addressed(p) /\ Mail(p) = <<>>
  BY <1>1, Beginning
<1>7. /\ outbox'["wait"][p] = <<>> /\ outbox'["hold"][p] = <<>> /\ outbox'["release"][p] = <<>>
  BY <1>1, <1>5, Beginning DEF Senders
<1>8. ~Granted(p)' /\ Concluding(p)' /\ ~Announced(p)' /\ Heard(p)' = {}
  BY <1>1, <1>4, <1>5, <1>6 DEF Granted, Concluding, Announced, Heard
<1>9. Acts(p)
  <2>1. \A q \in Procs \ {p} : LeftAlone(q)
    BY <1>1, <1>4, <1>5 DEF LeftAlone, Undisturbed
  <2>2. Mail(p)' = <<>>
    BY <1>8, CoreAssumption DEF Mail
  <2> QED
    BY <1>1, <1>6, <2>1, <2>2 DEF Acts
<1>10. CallSends(p)'
  BY <1>3, <1>4, <1>5, <1>8 DEF CallSends, Ends
<1>11. SoFar(p)'
  BY <1>0, <1>4, <1>5, <1>8 DEF Life, SoFar
<1>12. Noted(p)'
  BY <1>1, <1>3, <1>5, <1>6, <1>7, <1>8 DEF Noted
<1>13. WaitSends(p)' /\ HoldSends(p)' /\ ReleaseSends(p)'
  BY <1>7 DEF WaitSends, HoldSends, ReleaseSends
<1> QED
  BY <1>9, <1>10, <1>11, <1>12, <1>13, ActsKeeps DEF Life

\* The end of a wait is told, after the report that is due.
LEMMA OrderFinishWait ==
  ASSUME EInv, OInv', NEW p \in Procs, FinishWait(p)
  PROVE  EInv'
<1> DEFINE k == IF Granted(p) THEN "acquired" ELSE "rejected"
           e == Ev(p, k, core)
           f == Ev(p, "waitExceeded", core)
           place == IF Granted(p) THEN "deliver" ELSE "send"
<1>0. OInv /\ TypeOK /\ Life(p) /\ "call" \in Senders
  BY DEF EInv, OInv, Senders
<1>1. /\ pc[p] = "finish" /\ outbox["wait"][p] = <<>> /\ core.verdict[p] # "none"
      /\ UNCHANGED <<core, pending, holdTimer, want, left, holdReported, waitLong, holdLong>>
      /\ \A q \in Procs : waitTimer'[q] # "off" => waitTimer[q] # "off"
  <2>1. pc[p] = "finish" /\ outbox["wait"][p] = <<>>
    BY DEF FinishWait, ReportMuFree
  <2> QED
    BY <1>0, <2>1 DEF FinishWait, coreVars, leaveVars, clockVars, OInv, TypeOK, PlacesTied
<1>2. PICK first : /\ Post("call", p, Append(first, e)) /\ pc' = [pc EXCEPT ![p] = place]
                   /\ \/ DueWait(p) /\ first = <<f>> /\ waitReported' = waitReported \union {p}
                      \/ ~DueWait(p) /\ first = <<>> /\ waitReported' = waitReported
  BY DEF FinishWait, Conclude, GoTo, Granted
<1>3. e.id = p /\ e.kind = k /\ e \in Event /\ f.id = p /\ f.kind = "waitExceeded" /\ f \in Event
      /\ k \in Ends /\ (k = "acquired" <=> Granted(p))
  BY <1>0, EvType DEF Ev, TypeOK, Kinds, Ends
<1> HIDE DEF e, f, k
<1> DEFINE events == Append(first, e)
<1>4. /\ DueWait(p) => Two(events, p, "waitExceeded", k) /\ Len(events) = 2
      /\ ~DueWait(p) => One(events, p, k) /\ Len(events) = 1
  <2>1. One(Append(<<>>, e), p, k)
    BY <1>3, Composed
  <2>2. Two(Append(<<f>>, e), p, "waitExceeded", k)
    BY <1>3, Composed
  <2>3. CASE DueWait(p)
    BY <1>2, <2>2, <2>3 DEF Two
  <2>4. CASE ~DueWait(p)
    BY <1>2, <2>1, <2>4 DEF One
  <2> QED
    BY <2>3, <2>4
<1> HIDE DEF events
<1>5. pc'[p] = place /\ \A q \in Procs : q # p => pc'[q] = pc[q]
  BY <1>0, <1>2 DEF TypeOK
<1>6. /\ seen' = seen /\ outbox'["call"][p] = events
      /\ \A t \in Senders : \A q \in Procs : t # "call" \/ q # p => outbox'[t][q] = outbox[t][q]
  BY <1>0, <1>2, Posting DEF events
<1>7. ~Announced(p) /\ ~Concluding(p) /\ Heard(p) \subseteq Early /\ "waitStarted" \in Heard(p)
      /\ (p \in waitReported <=> "waitExceeded" \in Heard(p))
  BY <1>0, <1>1 DEF Announced, Concluding, Life, SoFar, Noted
<1>8. /\ outbox["hold"][p] = <<>> /\ outbox["release"][p] = <<>>
      /\ outbox'["wait"][p] = <<>> /\ outbox'["hold"][p] = <<>> /\ outbox'["release"][p] = <<>>
  BY <1>0, <1>1, <1>6, <1>7 DEF Life, HoldSends, ReleaseSends, Senders
<1>9. (Granted(p)' <=> Granted(p)) /\ Concluding(p)' /\ ~Announced(p)' /\ Heard(p)' = Heard(p)
  BY <1>1, <1>5, <1>6 DEF Granted, Concluding, Announced, Heard
<1>10. Acts(p)
  <2>1. \A q \in Procs \ {p} : LeftAlone(q)
    BY <1>1, <1>2, <1>5, <1>6 DEF LeftAlone, Undisturbed
  <2>2. Mail(p) = <<>> /\ Mail(p)' = <<>>
    BY <1>1, <1>5, <1>9, CoreAssumption DEF Mail
  <2>3. Addressed(p) => p \in left
    BY UnreleasedHasNoMail
  <2> QED
    BY <1>1, <1>7, <1>8, <1>9, <2>1, <2>2, <2>3 DEF Acts
<1>11. Posted(p, "holdExceeded")' <=> Posted(p, "holdExceeded")
  BY <1>10, SameMail
<1>12. CallSends(p)'
  <2>1. DueWait(p) => Heard(p) = {"waitStarted"}
    BY <1>7 DEF DueWait, Early
  <2> QED
    BY <1>3, <1>4, <1>5, <1>6, <1>9, <2>1 DEF CallSends
<1>13. SoFar(p)'
  BY <1>0, <1>1, <1>5, <1>6, <1>7, <1>9 DEF Life, SoFar
<1>14. Noted(p)'
  BY <1>0, <1>1, <1>2, <1>4, <1>6, <1>7, <1>8, <1>9, <1>11 DEF Life, Noted, DueWait
<1>15. WaitSends(p)' /\ HoldSends(p)' /\ ReleaseSends(p)'
  BY <1>8 DEF WaitSends, HoldSends, ReleaseSends
<1> QED
  BY <1>10, <1>12, <1>13, <1>14, <1>15, ActsKeeps DEF Life

\* A wait timer that runs late finds nothing to report; in time, it reports the wait.
LEMMA OrderCheckWait ==
  ASSUME EInv, OInv', NEW p \in Procs, CheckWait(p)
  PROVE  EInv'
<1> DEFINE e == Ev(p, "waitExceeded", core)
           reports == core.verdict[p] = "none" /\ p \notin waitReported
<1>0. OInv /\ TypeOK /\ Life(p) /\ "wait" \in Senders
  BY DEF EInv, OInv, Senders
<1>1. /\ waitTimer[p] = "fired" /\ ReportMuFree(p)
      /\ UNCHANGED <<core, pending, holdTimer, pc, want, left, holdReported, waitLong, holdLong>>
      /\ reports => waitReported' = waitReported \union {p} /\ Post("wait", p, <<e>>)
      /\ ~reports => waitReported' = waitReported /\ outbox' = outbox /\ seen' = seen
      /\ waitTimer'[p] = "off"
      /\ \A q \in Procs : waitTimer'[q] # "off" => waitTimer[q] # "off"
  BY <1>0 DEF CheckWait, coreVars, callVars, leaveVars, clockVars, sendVars, TypeOK
<1>2. e.id = p /\ e.kind = "waitExceeded" /\ e \in Event
  BY <1>0, EvType DEF Ev, TypeOK, Kinds
<1> HIDE DEF e
<1>3. One(<<e>>, p, "waitExceeded") /\ <<e>> # <<>>
  BY <1>2, Composed DEF One
<1>4. /\ seen' = seen
      /\ outbox'["wait"][p] = IF reports THEN <<e>> ELSE outbox["wait"][p]
      /\ \A t \in Senders : \A q \in Procs : t # "wait" \/ q # p => outbox'[t][q] = outbox[t][q]
  BY <1>0, <1>1, Posting
<1>5. /\ outbox'["call"][p] = outbox["call"][p] /\ outbox'["hold"][p] = outbox["hold"][p]
      /\ outbox'["release"][p] = outbox["release"][p] /\ outbox["wait"][p] = <<>>
  BY <1>1, <1>4 DEF Senders, ReportMuFree
<1>6. reports => pc[p] = "select" /\ "waitExceeded" \notin Heard(p)
  BY <1>0, <1>1 DEF Life, Noted, ReportMuFree
<1>7. /\ Granted(p)' <=> Granted(p)
      /\ Concluding(p)' <=> Concluding(p)
      /\ Announced(p)' <=> Announced(p)
      /\ Heard(p)' = Heard(p)
  BY <1>1, <1>4 DEF Granted, Concluding, Announced, Heard
<1>8. Acts(p)
  <2>1. \A q \in Procs \ {p} : LeftAlone(q)
    BY <1>1, <1>4 DEF LeftAlone, Undisturbed
  <2>2. Mail(p)' = Mail(p)
    BY <1>1, <1>5, <1>7 DEF Mail
  <2>3. Addressed(p) => p \in left
    BY UnreleasedHasNoMail
  <2> QED
    BY <1>1, <1>5, <1>7, <2>1, <2>2, <2>3 DEF Acts
<1>9. Posted(p, "holdExceeded")' <=> Posted(p, "holdExceeded")
  BY <1>8, SameMail
<1>10. WaitSends(p)'
  BY <1>1, <1>3, <1>4, <1>5, <1>6, <1>7 DEF WaitSends
<1>11. Noted(p)'
  <2>1. p \in waitReported' <=> \/ "waitExceeded" \in Heard(p)' \/ outbox'["wait"][p] # <<>>
                                \/ (Concluding(p)' /\ Len(outbox'["call"][p]) = 2)
    BY <1>0, <1>1, <1>3, <1>4, <1>5, <1>7 DEF Life, Noted
  <2>2. p \in waitReported => p \in waitReported'
    BY <1>1
  <2> QED
    BY <1>0, <1>1, <1>5, <1>7, <1>9, <2>1, <2>2 DEF Life, Noted
<1>12. CallSends(p)' /\ HoldSends(p)' /\ ReleaseSends(p)' /\ SoFar(p)'
  BY <1>0, <1>1, <1>4, <1>5, <1>7 DEF Life, CallSends, HoldSends, ReleaseSends, SoFar
<1> QED
  BY <1>8, <1>10, <1>11, <1>12, ActsKeeps DEF Life

\* A hold timer reports a hold that lasts and has not been reported.
LEMMA OrderCheckHold ==
  ASSUME EInv, OInv', NEW p \in Procs, CheckHold(p)
  PROVE  EInv'
<1> DEFINE e == Ev(p, "holdExceeded", core)
           reports == Owns(p) /\ p \notin holdReported
<1>0. OInv /\ TypeOK /\ Life(p) /\ "hold" \in Senders
  BY DEF EInv, OInv, Senders
<1>1. /\ holdTimer[p] = "watching" /\ Delivered(p) /\ HoldMuFree(p)
      /\ UNCHANGED <<core, pending, pc, want, left, waitReported, waitTimer, waitLong, holdLong>>
      /\ reports => holdReported' = holdReported \union {p} /\ Post("hold", p, <<e>>)
      /\ ~reports => holdReported' = holdReported /\ outbox' = outbox /\ seen' = seen
      /\ holdTimer'[p] = "off"
      /\ \A q \in Procs : holdTimer'[q] # "off" => holdTimer[q] # "off"
  BY <1>0 DEF CheckHold, callVars, waitVars, clockVars, sendVars, TypeOK
<1>2. e.id = p /\ e.kind = "holdExceeded" /\ e \in Event
  BY <1>0, EvType DEF Ev, TypeOK, Kinds
<1> HIDE DEF e
<1>3. One(<<e>>, p, "holdExceeded") /\ <<e>> # <<>>
  BY <1>2, Composed DEF One
<1>4. /\ seen' = seen
      /\ outbox'["hold"][p] = IF reports THEN <<e>> ELSE outbox["hold"][p]
      /\ \A t \in Senders : \A q \in Procs : t # "hold" \/ q # p => outbox'[t][q] = outbox[t][q]
  BY <1>0, <1>1, Posting
<1>5. /\ outbox'["call"][p] = outbox["call"][p] /\ outbox'["wait"][p] = outbox["wait"][p]
      /\ outbox'["release"][p] = outbox["release"][p]
      /\ outbox["hold"][p] = <<>> /\ outbox["release"][p] = <<>>
  BY <1>1, <1>4 DEF Senders, HoldMuFree
<1>6. Announced(p) /\ Exact(want[p]) /\ Granted(p)
  BY <1>0, <1>1 DEF Life, Noted, Announced, Delivered
<1>7. /\ Granted(p)' <=> Granted(p)
      /\ Concluding(p)' <=> Concluding(p)
      /\ Announced(p)' <=> Announced(p)
      /\ Heard(p)' = Heard(p)
  BY <1>1, <1>4 DEF Granted, Concluding, Announced, Heard
<1>8. reports => p \notin left /\ "holdExceeded" \notin Heard(p) /\ ~Addressed(p)
  BY <1>0, UnreleasedHasNoMail DEF Life, SoFar, Owns
<1>9. Acts(p)
  <2>1. \A q \in Procs \ {p} : LeftAlone(q)
    BY <1>1, <1>4 DEF LeftAlone, Undisturbed
  <2>2. Mail(p)' = Mail(p)
    BY <1>1, <1>5, <1>7 DEF Mail
  <2>3. Addressed(p) => p \in left /\ ~reports
    BY <1>8, UnreleasedHasNoMail
  <2> QED
    BY <1>1, <1>4, <1>5, <1>7, <2>1, <2>2, <2>3 DEF Acts
<1>10. Posted(p, "holdExceeded")' <=> Posted(p, "holdExceeded")
  BY <1>9, SameMail
<1>11. HoldSends(p)'
  BY <1>1, <1>3, <1>4, <1>5, <1>6, <1>7, <1>8 DEF HoldSends
<1>12. Noted(p)'
  <2>1. p \in holdReported' => \/ "holdExceeded" \in Heard(p)' \/ outbox'["hold"][p] # <<>>
                               \/ Len(outbox'["release"][p]) = 2 \/ Posted(p, "holdExceeded")'
    BY <1>0, <1>1, <1>3, <1>4, <1>5, <1>7, <1>10 DEF Life, Noted
  <2>2. p \in holdReported => p \in holdReported'
    BY <1>1
  <2> QED
    BY <1>0, <1>1, <1>5, <1>6, <1>7, <2>1, <2>2 DEF Life, Noted
<1>13. SoFar(p)'
  BY <1>0, <1>1, <1>4, <1>7 DEF Life, SoFar
<1>14. CallSends(p)' /\ WaitSends(p)' /\ ReleaseSends(p)'
  BY <1>0, <1>1, <1>5, <1>7 DEF Life, CallSends, WaitSends, ReleaseSends
<1> QED
  BY <1>9, <1>11, <1>12, <1>13, <1>14, ActsKeeps DEF Life

\* An attempt that gets the lock on the spot has only that to tell.
LEMMA OrderImmediately ==
  ASSUME EInv, OInv', NEW p \in Procs, NEW m \in Modes, NEW g \in BOOLEAN, NEW c,
         Serves(core, c, {}), Immediately(p, m, g, c)
  PROVE  EInv'
<1> DEFINE w == Attempt(p, m, g)
           a == Grant(c, w)
           d == [a EXCEPT !.verdict = [@ EXCEPT ![p] = "granted"]]
           e == Ev(p, "acquired", d)
<1>0. OInv /\ TypeOK /\ Life(p) /\ "call" \in Senders /\ w \in Waiter
  BY DEF EInv, OInv, Senders, Attempt, Waiter
<1>1. /\ pc[p] = "idle" /\ pc' = [pc EXCEPT ![p] = "deliver"]
      /\ want' = [want EXCEPT ![p] = w] /\ Advance(d, want', holdTimer)
      /\ Post("call", p, <<e>>)
      /\ UNCHANGED <<pending, left, holdReported, waitLong, holdLong, waitTimer, waitReported>>
  BY DEF Immediately, GoTo, leaveVars, clockVars, waitVars
<1>2. d \in Core /\ d.verdict[p] = "granted" /\ \A q \in Procs \ {p} : d.verdict[q] = c.verdict[q]
  <2> DEFINE v == [c.verdict EXCEPT ![p] = "granted"]
  <2>1. c \in Core
    BY DEF Serves, Sound
  <2>2. a \in Core /\ a.verdict = c.verdict
    BY <1>0, <2>1, GrantKeepsQueue
  <2> HIDE DEF a, w
  <2>3. /\ v \in [Procs -> Verdicts] /\ d = [a EXCEPT !.verdict = v]
        /\ v[p] = "granted" /\ \A q \in Procs \ {p} : v[q] = c.verdict[q]
    BY <2>1, <2>2 DEF Core, Verdicts
  <2> HIDE DEF d, v
  <2>4. d \in Core /\ d.verdict = v
    BY <2>2, <2>3 DEF Core
  <2> QED
    BY <2>3, <2>4
<1>3. e.id = p /\ e.kind = "acquired" /\ e \in Event
  <2>1. Ev(p, "acquired", d) \in Event
    BY <1>0, <1>2, EvType DEF TypeOK, Kinds
  <2> QED
    BY <2>1 DEF Ev
<1> HIDE DEF a, d, e, w
<1>4. One(<<e>>, p, "acquired") /\ Len(<<e>>) = 1
  BY <1>3, Composed DEF One
<1>5. /\ pc'[p] = "deliver" /\ \A q \in Procs : q # p => pc'[q] = pc[q]
      /\ want'[p] = w /\ \A q \in Procs : q # p => want'[q] = want[q]
  BY <1>0, <1>1 DEF TypeOK
<1>6. /\ seen' = seen /\ outbox'["call"][p] = <<e>>
      /\ \A t \in Senders : \A q \in Procs : t # "call" \/ q # p => outbox'[t][q] = outbox[t][q]
  BY <1>0, <1>1, Posting
<1>7. core' = d /\ \A q \in Procs \ {p} : Undisturbed(q)
  <2>1. Serves(core, c, {p})
    BY DEF Serves
  <2> QED
    BY <1>0, <1>1, <1>2, <2>1, AdvanceUndisturbs
<1>8. /\ Heard(p) = {} /\ holdTimer[p] = "off" /\ waitTimer[p] = "off"
      /\ p \notin left /\ p \notin holdLong /\ p \notin holdReported
      /\ p \notin waitReported /\ p \notin waitLong
      /\ ~Addressed(p) /\ Mail(p) = <<>>
  BY <1>1, Beginning
<1>9. /\ outbox'["wait"][p] = <<>> /\ outbox'["hold"][p] = <<>> /\ outbox'["release"][p] = <<>>
  BY <1>1, <1>6, Beginning DEF Senders
<1>10. /\ Granted(p)' /\ Concluding(p)' /\ ~Announced(p)' /\ Heard(p)' = {}
       /\ waitTimer'[p] = "off"
  BY <1>1, <1>2, <1>5, <1>6, <1>7, <1>8 DEF Granted, Concluding, Announced, Heard
<1>11. holdTimer'[p] # "off" => Exact(want'[p])
  BY <1>1, <1>8 DEF Advance
<1>12. Acts(p)
  <2>1. \A q \in Procs \ {p} : LeftAlone(q)
    BY <1>1, <1>5, <1>6, <1>7 DEF LeftAlone
  <2>2. Mail(p)' = <<>>
    BY <1>5, CoreAssumption DEF Mail
  <2> QED
    BY <1>1, <1>8, <2>1, <2>2 DEF Acts
<1>13. CallSends(p)'
  BY <1>4, <1>5, <1>6, <1>10 DEF CallSends, Ends
<1>14. SoFar(p)'
  BY <1>0, <1>5, <1>6, <1>10 DEF Life, SoFar
<1>15. Noted(p)'
  BY <1>1, <1>4, <1>6, <1>8, <1>9, <1>10, <1>11 DEF Noted
<1>16. WaitSends(p)' /\ HoldSends(p)' /\ ReleaseSends(p)'
  BY <1>9 DEF WaitSends, HoldSends, ReleaseSends
<1> QED
  BY <1>12, <1>13, <1>14, <1>15, <1>16, ActsKeeps DEF Life

\* An attempt that queues tells that it waits.
LEMMA OrderAcquireWait ==
  ASSUME EInv, OInv', NEW p \in Procs, NEW m \in Modes, NEW g \in BOOLEAN, AcquireWait(p, m, g)
  PROVE  EInv'
<1> DEFINE c == Served
           w == Attempt(p, m, g)
           d == Enqueue(c, w)
           e == Ev(p, "waitStarted", d)
<1>0. OInv /\ TypeOK /\ Life(p) /\ "call" \in Senders /\ w \in Waiter /\ w.id = p
  BY DEF EInv, OInv, Senders, Attempt, Waiter
<1>1. /\ pc[p] = "idle" /\ pc' = [pc EXCEPT ![p] = "announce"]
      /\ want' = [want EXCEPT ![p] = w] /\ Advance(d, want', holdTimer)
      /\ Post("call", p, <<e>>)
      /\ \A q \in Procs : q # p => waitTimer'[q] = waitTimer[q]
      /\ UNCHANGED <<pending, left, holdReported, waitLong, holdLong, waitReported>>
  BY <1>0 DEF AcquireWait, GoTo, leaveVars, clockVars, TypeOK
<1>2. Serves(core, c, {}) /\ Sound(c) /\ c.verdict[p] = "none" /\ p \notin Ids(c.waiters)
  <2>1. Serves(core, c, {}) /\ Sound(c)
    BY <1>0, EngineSound, ServedServes
  <2>2. Suits(c, p)
    BY <1>0, <2>1, ServedAttempts DEF OInv
  <2> QED
    BY <1>1, <2>1, <2>2 DEF Suits
<1> HIDE DEF c, w
<1>3. d \in Core /\ d.verdict = c.verdict
  BY <1>0, <1>2, Joined DEF Sound
<1>4. e.id = p /\ e.kind = "waitStarted" /\ e \in Event
  <2>1. Ev(p, "waitStarted", d) \in Event
    BY <1>0, <1>3, EvType DEF TypeOK, Kinds
  <2> QED
    BY <2>1 DEF Ev
<1> HIDE DEF d, e
<1>5. One(<<e>>, p, "waitStarted") /\ Len(<<e>>) = 1
  BY <1>4, Composed DEF One
<1>6. /\ pc'[p] = "announce" /\ \A q \in Procs : q # p => pc'[q] = pc[q]
      /\ \A q \in Procs : q # p => want'[q] = want[q]
  BY <1>0, <1>1 DEF TypeOK
<1>7. /\ seen' = seen /\ outbox'["call"][p] = <<e>>
      /\ \A t \in Senders : \A q \in Procs : t # "call" \/ q # p => outbox'[t][q] = outbox[t][q]
  BY <1>0, <1>1, Posting
<1>8. core' = d /\ \A q \in Procs \ {p} : Undisturbed(q)
  <2>1. Serves(core, c, {p})
    BY <1>2 DEF Serves
  <2> QED
    BY <1>0, <1>1, <1>3, <2>1, AdvanceUndisturbs, ZenonT(60)
<1>9. /\ Heard(p) = {} /\ holdTimer[p] = "off"
      /\ p \notin left /\ p \notin holdLong /\ p \notin holdReported
      /\ p \notin waitReported /\ p \notin waitLong
      /\ ~Addressed(p) /\ Mail(p) = <<>>
  BY <1>1, Beginning
<1>10. outbox'["wait"][p] = <<>> /\ outbox'["hold"][p] = <<>> /\ outbox'["release"][p] = <<>>
  BY <1>1, <1>7, Beginning DEF Senders
<1>11. core'.verdict[p] = "none"
  BY <1>2, <1>3, <1>8
<1>12. ~Granted(p)' /\ ~Concluding(p)' /\ ~Announced(p)' /\ Heard(p)' = {}
  BY <1>6, <1>7, <1>9, <1>11 DEF Granted, Concluding, Announced, Heard
<1>13. holdTimer'[p] = "off"
  BY <1>1, <1>8, <1>9, <1>11 DEF Advance
<1>14. Acts(p)
  <2>1. \A q \in Procs \ {p} : LeftAlone(q)
    BY <1>1, <1>6, <1>7, <1>8 DEF LeftAlone
  <2>2. Mail(p)' = <<>>
    BY <1>6, CoreAssumption DEF Mail
  <2> QED
    BY <1>1, <1>9, <2>1, <2>2 DEF Acts
<1>15. CallSends(p)'
  BY <1>5, <1>7, <1>12 DEF CallSends
<1>16. SoFar(p)'
  BY <1>0, <1>6, <1>7, <1>12 DEF Life, SoFar
<1>17. Noted(p)'
  BY <1>1, <1>6, <1>9, <1>10, <1>12, <1>13 DEF Noted
<1>18. WaitSends(p)' /\ HoldSends(p)' /\ ReleaseSends(p)'
  BY <1>10 DEF WaitSends, HoldSends, ReleaseSends
<1> QED
  BY <1>14, <1>15, <1>16, <1>17, <1>18, ActsKeeps DEF Life

\* An identity that serves again has no past: nothing of its last attempt is on its way.
LEMMA OrderRecycle ==
  ASSUME EInv, OInv', NEW p \in Procs, Recycle(p)
  PROVE  EInv'
<1>0. OInv /\ TypeOK /\ Life(p) /\ core.verdict \in [Procs -> Verdicts]
  BY DEF EInv, OInv, TypeOK, Core
<1>1. /\ pc[p] = "back" /\ pc' = [pc EXCEPT ![p] = "idle"]
      /\ waitTimer[p] = "off" /\ holdTimer[p] = "off"
      /\ core'.verdict = [core.verdict EXCEPT ![p] = "none"]
      /\ want' = [want EXCEPT ![p] = Attempt(p, "read", FALSE)]
      /\ seen' = [seen EXCEPT ![p] = <<>>]
      /\ left' = left \ {p} /\ waitLong' = waitLong \ {p} /\ holdLong' = holdLong \ {p}
      /\ waitReported' = waitReported \ {p} /\ holdReported' = holdReported \ {p}
      /\ UNCHANGED <<pending, holdTimer, outbox, waitTimer>>
      /\ \A s \in Senders : outbox[s][p] = <<>>
  <2>1. core \in Core
    BY <1>0 DEF TypeOK
  <2>2. core'.verdict = [core.verdict EXCEPT ![p] = "none"]
    BY <2>1 DEF Recycle, Core
  <2> QED
    BY <2>2 DEF Recycle, Over, GoTo
<1>2. /\ pc'[p] = "idle" /\ \A q \in Procs : q # p => pc'[q] = pc[q]
      /\ core'.verdict[p] = "none" /\ \A q \in Procs : q # p => core'.verdict[q] = core.verdict[q]
      /\ seen'[p] = <<>> /\ \A q \in Procs : q # p => seen'[q] = seen[q] /\ want'[q] = want[q]
  BY <1>0, <1>1 DEF TypeOK
<1>3. ~Addressed(p)
  <2>1. \A e \in Elems(pending) : e.id # p
    BY DEF Recycle, Over
  <2>2. \A q \in Procs : \A e \in Elems(outbox["call"][q]) : e.id # p
    BY DEF Recycle, Over
  <2>3. \A x \in Carriers : Mail(x) = <<>> \/ \A e \in Elems(Mail(x)) : e.id # p
    BY <2>1, <2>2 DEF Carriers, Mail
  <2>4. \A x \in Carriers : \A i \in DOMAIN Mail(x) : Mail(x)[i].id # p
    BY <2>3 DEF Elems
  <2> QED
    BY <2>4 DEF Addressed
<1>4. outbox'["call"][p] = <<>> /\ outbox'["wait"][p] = <<>>
      /\ outbox'["hold"][p] = <<>> /\ outbox'["release"][p] = <<>>
  BY <1>1 DEF Senders
<1>5. ~Granted(p)' /\ ~Concluding(p)' /\ ~Announced(p)' /\ Heard(p)' = {} /\ Ascending(seen'[p])
  BY <1>2 DEF Granted, Concluding, Announced, Heard, Elems, Ascending
<1>6. Acts(p)
  <2>1. \A q \in Procs \ {p} : LeftAlone(q)
    BY <1>1, <1>2 DEF LeftAlone, Undisturbed
  <2>2. Mail(p) = <<>> /\ Mail(p)' = <<>>
    BY <1>1, <1>2, CoreAssumption DEF Mail
  <2> QED
    BY <1>1, <1>3, <2>1, <2>2 DEF Acts
<1>7. /\ p \notin left' /\ p \notin holdLong' /\ p \notin holdReported'
      /\ p \notin waitReported' /\ p \notin waitLong'
      /\ waitTimer'[p] = "off" /\ holdTimer'[p] = "off"
  BY <1>1
<1>8. CallSends(p)'
  BY <1>2, <1>5 DEF CallSends
<1>9. SoFar(p)'
  BY <1>2, <1>5 DEF SoFar
<1>10. Noted(p)'
  BY <1>4, <1>5, <1>7 DEF Noted
<1>11. WaitSends(p)' /\ HoldSends(p)' /\ ReleaseSends(p)'
  <2>1. Len(outbox'["release"][p]) # 2
    BY <1>4
  <2> QED
    BY <1>4, <2>1 DEF WaitSends, HoldSends, ReleaseSends
<1> QED
  BY <1>6, <1>8, <1>9, <1>10, <1>11, ActsKeeps DEF Life

\* What a release has to say: that it ends, after the report that is due.
LEMMA Farewells ==
  ASSUME TypeOK, NEW p \in Procs, NEW d \in Core
  PROVE  /\ Farewell(p, d) \in Seq(Event)
         /\ ~DueHold(p) => One(Farewell(p, d), p, "released")
         /\ DueHold(p) => Two(Farewell(p, d), p, "holdExceeded", "released")
<1> DEFINE e == Ev(p, "released", d)
           f == Ev(p, "holdExceeded", core)
<1>1. /\ e \in Event /\ e.id = p /\ e.kind = "released"
      /\ f \in Event /\ f.id = p /\ f.kind = "holdExceeded"
  <2>1. Ev(p, "holdExceeded", core) \in Event /\ Ev(p, "released", d) \in Event
    BY EvType DEF TypeOK, Kinds
  <2> QED
    BY <2>1 DEF Ev
<1>2. Farewell(p, d) = IF DueHold(p) THEN <<f>> \o <<e>> ELSE <<>> \o <<e>>
  BY DEF Farewell
<1> HIDE DEF e, f
<1>3. One(<<>> \o <<e>>, p, "released")
  BY <1>1, Composed
<1>4. Two(<<f>> \o <<e>>, p, "holdExceeded", "released")
  BY <1>1, Composed
<1>5. Farewell(p, d) \in Seq(Event)
  BY FarewellType
<1> QED
  BY <1>2, <1>3, <1>4, <1>5

\* While p owns the lock, none of its late events is under way but a hold report.
LEMMA BeforeLeaving ==
  ASSUME EInv, NEW p \in Procs, MayRelease(p)
  PROVE  /\ Granted(p) /\ p \notin left /\ ~Addressed(p) /\ "released" \notin Heard(p)
         /\ outbox["hold"][p] = <<>> /\ outbox["release"][p] = <<>>
         /\ p \in holdReported <=> "holdExceeded" \in Heard(p)
         /\ p \in holdLong => HoldThreshold /\ Exact(want[p])
<1>1. Granted(p) /\ p \notin left /\ Life(p) /\ (Exact(want[p]) => HoldMuFree(p))
  BY DEF MayRelease, Owns, Granted, EInv
<1>2. ~Addressed(p) /\ "released" \notin Heard(p)
  BY <1>1, UnreleasedHasNoMail DEF Life, SoFar
<1>3. outbox["hold"][p] = <<>> /\ outbox["release"][p] = <<>>
  BY <1>1 DEF Life, HoldSends, ReleaseSends, HoldMuFree
<1>4. ~Posted(p, "holdExceeded") /\ Len(outbox["release"][p]) # 2
  BY <1>2, <1>3 DEF Posted, Addressed
<1>5. p \in holdReported <=> "holdExceeded" \in Heard(p)
  BY <1>1, <1>3, <1>4 DEF Life, SoFar, Noted
<1> QED
  BY <1>1, <1>2, <1>3, <1>5 DEF Life, Noted

\* A release has its say, or leaves it to a delivery on its way.
LEMMA OrderRelease ==
  ASSUME EInv, OInv', NEW p \in Procs, ReleaseLock(p)
  PROVE  EInv'
<1> DEFINE d == Relinquished(p)
           timer == [holdTimer EXCEPT ![p] = IF @ = "armed" THEN "off" ELSE @]
           events == Farewell(p, d)
<1>0. OInv /\ TypeOK /\ Life(p) /\ "release" \in Senders /\ want[p].mode \in Modes
  BY DEF EInv, OInv, Senders, TypeOK, Waiter
<1>1. /\ MayRelease(p)
      /\ ReleaseMatches(core, want[p].mode, IF want[p].guarded THEN p ELSE NoAttempt)
      /\ Advance(d, want, timer)
      /\ left' = left \union {p}
      /\ holdReported' = IF DueHold(p) THEN holdReported \union {p} ELSE holdReported
      /\ UNCHANGED <<pc, want, waitLong, holdLong, waitTimer, waitReported>>
      /\ \/ undelivered > 0 /\ pending' = pending \o events /\ outbox' = outbox /\ seen' = seen
         \/ ~(undelivered > 0) /\ Post("release", p, events) /\ pending' = pending
  BY DEF ReleaseLock, Leave, callVars, clockVars, waitVars, sendVars
<1>2. /\ Serves(core, d, {p}) /\ d \in Core
      /\ core.verdict[p] = "granted" => d.verdict[p] = "granted"
  <2>1. Serves(core, d, {})
    BY <1>0, <1>1, EngineSound, ReleaseServes DEF Relinquished
  <2> QED
    BY <1>0, <2>1, ServedAttempts DEF Serves, Sound, Suits, OInv
<1>3. /\ events \in Seq(Event)
      /\ ~DueHold(p) => One(events, p, "released")
      /\ DueHold(p) => Two(events, p, "holdExceeded", "released")
  BY <1>0, <1>2, Farewells
<1> HIDE DEF d, events
<1>4. /\ Granted(p) /\ p \notin left /\ ~Addressed(p) /\ "released" \notin Heard(p)
      /\ outbox["hold"][p] = <<>> /\ outbox["release"][p] = <<>>
      /\ p \in holdReported <=> "holdExceeded" \in Heard(p)
      /\ p \in holdLong => HoldThreshold /\ Exact(want[p])
  BY <1>1, BeforeLeaving
<1>5. /\ \A q \in Procs \ {p} : timer[q] = holdTimer[q]
      /\ timer[p] # "off" => holdTimer[p] # "off"
  BY <1>0 DEF TypeOK
<1> HIDE DEF timer
<1>6. core' = d /\ \A q \in Procs \ {p} : Undisturbed(q)
  BY <1>0, <1>1, <1>2, <1>5, AdvanceUndisturbs
<1>7. /\ Granted(p)' /\ (Announced(p)' <=> Announced(p)) /\ (Concluding(p)' <=> Concluding(p))
      /\ holdTimer'[p] # "off" => holdTimer[p] # "off"
  BY <1>1, <1>2, <1>4, <1>5, <1>6 DEF Granted, Announced, Concluding, Advance
<1>8. /\ p \in left' /\ (p \in holdReported' <=> p \in holdReported \/ DueHold(p))
      /\ p \in holdLong => p \in holdReported'
      /\ DueHold(p) => p \notin holdReported
      /\ \A q \in Procs \ {p} : /\ q \in left' <=> q \in left
                                /\ q \in holdReported' <=> q \in holdReported
  BY <1>1, <1>4 DEF DueHold
<1>9. CASE undelivered > 0
  <2>1. pending' = pending \o events /\ outbox' = outbox /\ seen' = seen /\ Heard(p)' = Heard(p)
    BY <1>1, <1>9 DEF Heard
  <2>2. \A q \in Procs \ {p} : LeftAlone(q)
    BY <1>1, <1>6, <1>8, <2>1 DEF LeftAlone
  <2>3. \A x \in Procs : Mail(x)' = Mail(x)
    <3> SUFFICES ASSUME NEW x \in Procs PROVE Mail(x)' = Mail(x)
      OBVIOUS
    <3>1. pc[x] = "send" => (Granted(x)' <=> Granted(x))
      BY <1>4, <1>7, <2>2 DEF Granted, LeftAlone, Undisturbed
    <3>2. x # NoAttempt /\ pc'[x] = pc[x] /\ outbox'["call"][x] = outbox["call"][x]
      BY <1>1, <2>1, CoreAssumption
    <3> QED
      BY <3>1, <3>2 DEF Mail
  <2> DEFINE n == Len(pending)
             m == Len(events)
             all == pending \o events
  <2>4. /\ Mail(NoAttempt) = pending /\ Mail(NoAttempt)' = all
        /\ n \in Nat /\ m \in {1, 2} /\ DOMAIN pending = 1..n /\ DOMAIN all = 1..(n + m)
        /\ \A i \in 1..n : all[i] = pending[i]
        /\ \A i \in 1..m : all[n + i] = events[i]
    <3>1. pending \in Seq(Event)
      BY <1>0 DEF TypeOK
    <3>2. m \in {1, 2}
      BY <1>3 DEF One, Two
    <3>3. Mail(NoAttempt) = pending /\ Mail(NoAttempt)' = all
      BY <2>1 DEF Mail
    <3> QED
      BY <1>3, <3>1, <3>2, <3>3
  <2>5. /\ \A i \in 1..m : events[i].id = p /\ events[i].kind \in Late
        /\ \A i \in 1..m : events[i].kind = "holdExceeded" => i = 1 /\ DueHold(p)
        /\ \A i \in 1..m : events[i].kind = "released" \/ events[i].kind = "holdExceeded"
        /\ DueHold(p) => events[1].kind = "holdExceeded"
        /\ m = 2 => events[2].kind = "released" /\ events[1].kind = "holdExceeded"
    <3>1. CASE DueHold(p)
      <4>1. /\ m = 2 /\ events[1].id = p /\ events[1].kind = "holdExceeded"
            /\ events[2].id = p /\ events[2].kind = "released"
        BY <1>3, <3>1 DEF Two
      <4>2. \A i \in 1..m : i = 1 \/ i = 2
        BY <4>1
      <4> HIDE DEF m
      <4> QED
        BY <3>1, <4>1, <4>2 DEF Late
    <3>2. CASE ~DueHold(p)
      <4>1. m = 1 /\ events[1].id = p /\ events[1].kind = "released"
        BY <1>3, <3>2 DEF One
      <4>2. \A i \in 1..m : i = 1
        BY <4>1
      <4> HIDE DEF m
      <4> QED
        BY <3>2, <4>1, <4>2 DEF Late
    <3> QED
      BY <3>1, <3>2
  <2> HIDE DEF n, m, all
  <2>6. \A q, k : Posted(q, k) => Posted(q, k)'
    <3> SUFFICES ASSUME NEW q, NEW k, NEW x \in Carriers, NEW i \in DOMAIN Mail(x),
                        Mail(x)[i].id = q, Mail(x)[i].kind = k
                 PROVE  Posted(q, k)'
      BY DEF Posted
    <3>1. CASE x \in Procs
      BY <2>3, <3>1 DEF Posted
    <3>2. CASE x = NoAttempt
      <4>1. i \in 1..(n + m) /\ all[i] = Mail(NoAttempt)[i]
        BY <2>4, <3>2
      <4>2. i \in DOMAIN Mail(NoAttempt)' /\ Mail(NoAttempt)'[i] = Mail(NoAttempt)[i]
        BY <2>4, <4>1
      <4> QED
        BY <3>2, <4>2 DEF Posted, Carriers
    <3> QED
      BY <3>1, <3>2 DEF Carriers
  <2>7. ASSUME NEW x \in Carriers, NEW i \in DOMAIN Mail(x)'
        PROVE  \/ i \in DOMAIN Mail(x) /\ Mail(x)'[i] = Mail(x)[i]
               \/ x = NoAttempt /\ i - n \in 1..m /\ i \in n + 1 .. n + m
                  /\ Mail(x)'[i] = events[i - n]
    <3>1. CASE x \in Procs
      BY <2>3, <2>7, <3>1
    <3>2. CASE x = NoAttempt
      <4>1. i \in 1..(n + m) /\ Mail(x)'[i] = all[i]
        BY <2>4, <2>7, <3>2
      <4>2. CASE i <= n
        BY <2>4, <3>2, <4>1, <4>2
      <4>3. CASE ~(i <= n)
        <5>1. i - n \in 1..m /\ i \in n + 1 .. n + m /\ n + (i - n) = i
          BY <2>4, <4>1, <4>3
        <5> QED
          BY <2>4, <3>2, <4>1, <5>1
      <4> QED
        BY <4>2, <4>3
    <3> QED
      BY <3>1, <3>2 DEF Carriers
  <2>8. Posted(p, "holdExceeded")' <=> DueHold(p)
    <3>1. ASSUME DueHold(p) PROVE Posted(p, "holdExceeded")'
      <4>1. n + 1 \in 1..(n + m) /\ 1 \in 1..m /\ all[n + 1] = events[1]
        BY <2>4
      <4>2. n + 1 \in DOMAIN Mail(NoAttempt)' /\ Mail(NoAttempt)'[n + 1] = events[1]
        BY <2>4, <4>1
      <4> QED
        BY <2>5, <3>1, <4>1, <4>2 DEF Posted, Carriers
    <3>2. ASSUME Posted(p, "holdExceeded")' PROVE DueHold(p)
      <4>1. PICK x \in Carriers : \E i \in DOMAIN Mail(x)' :
               Mail(x)'[i].id = p /\ Mail(x)'[i].kind = "holdExceeded"
        BY <3>2 DEF Posted, Carriers
      <4>2. PICK i \in DOMAIN Mail(x)' : Mail(x)'[i].id = p /\ Mail(x)'[i].kind = "holdExceeded"
        BY <4>1
      <4>3. ~(i \in DOMAIN Mail(x) /\ Mail(x)'[i] = Mail(x)[i])
        BY <1>4, <4>2 DEF Addressed
      <4> QED
        BY <2>5, <2>7, <4>2, <4>3
    <3> QED
      BY <3>1, <3>2
  <2>9. Life(p)'
    <3>1. CallSends(p)' /\ WaitSends(p)' /\ HoldSends(p)' /\ ReleaseSends(p)'
      <4>1. Len(outbox["release"][p]) # 2
        BY <1>4
      <4> QED
        BY <1>0, <1>1, <1>4, <1>7, <2>1, <4>1
        DEF Life, CallSends, WaitSends, HoldSends, ReleaseSends
    <3>2. SoFar(p)'
      BY <1>0, <1>1, <1>4, <1>7, <1>8, <2>1 DEF Life, SoFar
    <3>3. Noted(p)'
      BY <1>0, <1>1, <1>4, <1>7, <1>8, <2>1, <2>8 DEF Life, Noted, Granted
    <3> QED
      BY <3>1, <3>2, <3>3 DEF Life
  <2>10. ASSUME NEW q \in Procs PROVE Life(q)'
    <3>1. CASE q = p
      BY <2>9, <3>1
    <3>2. CASE q # p
      <4>1. LeftAlone(q) /\ Life(q)
        BY <2>2, <3>2 DEF EInv
      <4> QED
        BY <1>0, <2>6, <4>1, KeptLife
    <3> QED
      BY <3>1, <3>2
  <2>11. Mailed'
    <3> SUFFICES ASSUME NEW x \in Carriers, NEW i \in DOMAIN Mail(x)'
                 PROVE  /\ Fresh(Mail(x)[i])'
                        /\ x # NoAttempt => Announced(Mail(x)[i].id)'
      BY DEF Mailed, Carriers
    <3> PICK e : e = Mail(x)'[i]
      OBVIOUS
    <3>1. Fresh(e)' /\ (x # NoAttempt => Announced(e.id)')
      <4>1. CASE i \in DOMAIN Mail(x) /\ e = Mail(x)[i]
        <5>1. Fresh(e) /\ (x # NoAttempt => Announced(e.id)) /\ Addressed(e.id)
          BY <4>1 DEF EInv, Mailed, Addressed
        <5>2. e.id \in Procs \ {p}
          BY <1>0, <1>4, <5>1 DEF Fresh, TypeOK
        <5>3. LeftAlone(e.id)
          BY <2>2, <5>2
        <5>4. Heard(e.id)' = Heard(e.id) /\ (Announced(e.id) => Announced(e.id)')
          BY <5>3 DEF LeftAlone, Heard, Announced, Granted, Undisturbed
        <5> QED
          BY <1>8, <2>1, <5>1, <5>2, <5>4 DEF Fresh
      <4>2. CASE x = NoAttempt /\ i - n \in 1..m /\ e = events[i - n]
        <5>1. /\ e.id = p /\ e.kind \in Late /\ (e.kind = "holdExceeded" => DueHold(p))
              /\ e.kind \in {"released", "holdExceeded"}
          BY <2>5, <4>2
        <5>2. e.kind \notin Heard(p)
          BY <1>4, <1>8, <5>1
        <5> QED
          BY <1>4, <1>8, <2>1, <4>2, <5>1, <5>2 DEF Fresh
      <4> QED
        BY <2>7, <4>1, <4>2
    <3>2. e = Mail(x)'[i]
      OBVIOUS
    <3> QED
      BY <3>1, <3>2 DEF Fresh, Announced, Heard, Granted
  <2>12. MailedOnce'
    <3> SUFFICES ASSUME NEW x \in Carriers, NEW y \in Carriers,
                        NEW i \in DOMAIN Mail(x)', NEW j \in DOMAIN Mail(y)',
                        Mail(x)'[i].id = Mail(y)'[j].id
                 PROVE  /\ x = y
                        /\ i < j => /\ Mail(x)'[i].kind = "holdExceeded"
                                    /\ Mail(x)'[j].kind = "released"
      BY DEF MailedOnce, Carriers
    <3>1. CASE /\ i \in DOMAIN Mail(x) /\ Mail(x)'[i] = Mail(x)[i]
               /\ j \in DOMAIN Mail(y) /\ Mail(y)'[j] = Mail(y)[j]
      BY <3>1 DEF EInv, MailedOnce
    <3>2. CASE /\ x = NoAttempt /\ i - n \in 1..m /\ i \in n + 1 .. n + m
               /\ Mail(x)'[i] = events[i - n]
               /\ y = NoAttempt /\ j - n \in 1..m /\ j \in n + 1 .. n + m
               /\ Mail(y)'[j] = events[j - n]
      <4>1. i < j => m = 2 /\ i - n = 1 /\ j - n = 2
        BY <2>4, <3>2
      <4> QED
        BY <2>5, <3>2, <4>1
    <3>3. ~(/\ i \in DOMAIN Mail(x) /\ Mail(x)'[i] = Mail(x)[i]
            /\ Mail(y)'[j].id = p)
      BY <1>4 DEF Addressed
    <3>4. ~(/\ j \in DOMAIN Mail(y) /\ Mail(y)'[j] = Mail(y)[j]
            /\ Mail(x)'[i].id = p)
      BY <1>4 DEF Addressed
    <3>5. \/ i \in DOMAIN Mail(x) /\ Mail(x)'[i] = Mail(x)[i]
          \/ /\ x = NoAttempt /\ i - n \in 1..m /\ i \in n + 1 .. n + m
             /\ Mail(x)'[i] = events[i - n] /\ Mail(x)'[i].id = p
      BY <2>5, <2>7
    <3>6. \/ j \in DOMAIN Mail(y) /\ Mail(y)'[j] = Mail(y)[j]
          \/ /\ y = NoAttempt /\ j - n \in 1..m /\ j \in n + 1 .. n + m
             /\ Mail(y)'[j] = events[j - n] /\ Mail(y)'[j].id = p
      BY <2>5, <2>7
    <3> QED
      BY <3>1, <3>2, <3>3, <3>4, <3>5, <3>6
  <2> QED
    BY <2>10, <2>11, <2>12 DEF EInv
<1>10. CASE ~(undelivered > 0)
  <2>1. Post("release", p, events) /\ pending' = pending
    BY <1>1, <1>10
  <2>2. /\ seen' = seen /\ Heard(p)' = Heard(p) /\ outbox'["release"][p] = events
        /\ \A t \in Senders : \A q \in Procs : t # "release" \/ q # p => outbox'[t][q] = outbox[t][q]
    BY <1>0, <2>1, Posting DEF Heard
  <2>3. /\ outbox'["call"][p] = outbox["call"][p] /\ outbox'["wait"][p] = outbox["wait"][p]
        /\ outbox'["hold"][p] = <<>>
    BY <1>4, <2>2 DEF Senders
  <2>4. Announced(p)
    <3>1. undelivered = Cardinality(Undelivered) /\ IsFiniteSet(Undelivered) /\ undelivered = 0
      BY <1>0, <1>10, FiniteProcs DEF OInv, TypeOK, DeliveriesCounted, Undelivered
    <3>2. Undelivered = {}
      BY <3>1, FS_EmptySet
    <3> QED
      BY <1>4, <3>2 DEF Undelivered, Granted, Announced
  <2>5. Acts(p)
    <3>1. \A q \in Procs \ {p} : LeftAlone(q)
      BY <1>1, <1>6, <1>8, <2>2 DEF LeftAlone
    <3>2. Mail(p)' = Mail(p)
      BY <1>1, <1>4, <1>7, <2>1, <2>3 DEF Mail
    <3> QED
      BY <1>4, <2>1, <3>1, <3>2 DEF Acts
  <2>6. Posted(p, "holdExceeded")' <=> Posted(p, "holdExceeded")
    BY <2>5, SameMail
  <2>7. /\ Len(events) = 2 <=> DueHold(p)
        /\ events # <<>>
    <3>1. DueHold(p) => Len(events) = 2
      BY <1>3 DEF Two
    <3>2. ~DueHold(p) => Len(events) = 1
      BY <1>3 DEF One
    <3> QED
      BY <3>1, <3>2
  <2>8. ReleaseSends(p)'
    BY <1>3, <1>4, <1>7, <1>8, <2>2, <2>4, <2>7 DEF ReleaseSends
  <2>9. SoFar(p)'
    BY <1>0, <1>1, <1>7, <1>8, <2>2 DEF Life, SoFar
  <2>10. Noted(p)'
    BY <1>0, <1>1, <1>4, <1>7, <1>8, <2>2, <2>3, <2>6, <2>7 DEF Life, Noted, Granted
  <2>11. CallSends(p)' /\ WaitSends(p)' /\ HoldSends(p)'
    BY <1>0, <1>1, <1>4, <1>7, <2>2, <2>3 DEF Life, CallSends, WaitSends, HoldSends
  <2> QED
    BY <2>5, <2>8, <2>9, <2>10, <2>11, ActsKeeps DEF Life
<1> QED
  BY <1>9, <1>10

\* The last delivery takes the events of finished holds over.
LEMMA OrderComplete ==
  ASSUME EInv, OInv', NEW p \in Procs, Complete(p)
  PROVE  EInv'
<1>0. OInv /\ TypeOK /\ Life(p) /\ "call" \in Senders /\ p \in Carriers /\ NoAttempt \in Carriers
  BY DEF EInv, OInv, Senders, Carriers
<1>1. /\ pc[p] = "complete"
      /\ UNCHANGED <<core, holdTimer, want, left, holdReported, waitLong, holdLong,
                     waitTimer, waitReported>>
      /\ \/ /\ pc' = [pc EXCEPT ![p] = "back"] /\ UNCHANGED <<pending, outbox, seen>>
         \/ /\ pc' = [pc EXCEPT ![p] = "send"] /\ pending' = <<>> /\ Post("call", p, pending)
            /\ ~(undelivered - 1 > 0)
  BY DEF Complete, GoTo, leaveVars, clockVars, waitVars, sendVars
<1>2. Granted(p) /\ outbox["call"][p] = <<>> /\ Announced(p)
  BY <1>0, <1>1 DEF OInv, PlacesTied, Granted, Announced
<1>3. /\ pc'[p] \in {"send", "back"} /\ \A q \in Procs : q # p => pc'[q] = pc[q]
      /\ \A q \in Procs : Granted(q)' <=> Granted(q)
  BY <1>0, <1>1 DEF TypeOK, Granted
<1>4. Announced(p)' /\ ~Concluding(p)' /\ ~Concluding(p) /\ "acquired" \in Heard(p)
  BY <1>0, <1>1, <1>2, <1>3 DEF Announced, Concluding, Life, SoFar
<1>5. CASE UNCHANGED <<pending, outbox, seen>> /\ pc' = [pc EXCEPT ![p] = "back"]
  <2>1. pc'[p] = "back" /\ Heard(p)' = Heard(p)
    BY <1>0, <1>5 DEF TypeOK, Heard
  <2>2. Acts(p)
    <3>1. \A q \in Procs \ {p} : LeftAlone(q)
      BY <1>1, <1>3, <1>5 DEF LeftAlone, Undisturbed
    <3>2. Mail(p) = <<>> /\ Mail(p)' = <<>>
      BY <1>1, <2>1, CoreAssumption DEF Mail
    <3>3. Addressed(p) => p \in left
      BY UnreleasedHasNoMail
    <3> QED
      BY <1>1, <1>4, <1>5, <2>1, <3>1, <3>2, <3>3 DEF Acts
  <2>3. Posted(p, "holdExceeded")' <=> Posted(p, "holdExceeded")
    BY <2>2, SameMail
  <2>4. SoFar(p)'
    BY <1>0, <1>1, <1>4, <1>5, <2>1 DEF Life, SoFar, Ends
  <2>5. Noted(p)'
    BY <1>0, <1>1, <1>3, <1>4, <1>5, <2>1, <2>3 DEF Life, Noted, Granted
  <2>6. CallSends(p)' /\ WaitSends(p)' /\ HoldSends(p)' /\ ReleaseSends(p)'
    BY <1>0, <1>1, <1>2, <1>4, <1>5, <2>1
    DEF Life, CallSends, WaitSends, HoldSends, ReleaseSends
  <2> QED
    BY <2>2, <2>4, <2>5, <2>6, ActsKeeps DEF Life
<1>6. CASE /\ pc' = [pc EXCEPT ![p] = "send"] /\ pending' = <<>> /\ Post("call", p, pending)
           /\ ~(undelivered - 1 > 0)
  <2>1. /\ pc'[p] = "send"
        /\ seen' = seen /\ outbox'["call"][p] = pending
        /\ \A t \in Senders : \A q \in Procs : t # "call" \/ q # p => outbox'[t][q] = outbox[t][q]
    BY <1>0, <1>6, Posting DEF TypeOK
  <2>2. \A q \in Procs : Heard(q)' = Heard(q) /\ outbox'["wait"][q] = outbox["wait"][q]
                         /\ outbox'["hold"][q] = outbox["hold"][q]
                         /\ outbox'["release"][q] = outbox["release"][q]
    BY <2>1 DEF Heard, Senders
  <2>3. \A q \in Procs \ {p} : LeftAlone(q)
    BY <1>1, <1>3, <2>1 DEF LeftAlone, Undisturbed
  <2>4. /\ Mail(p)' = Mail(NoAttempt) /\ Mail(NoAttempt)' = <<>> /\ Mail(p) = <<>>
        /\ \A x \in Procs \ {p} : Mail(x)' = Mail(x)
    <3>1. ASSUME NEW x \in Procs \ {p} PROVE Mail(x)' = Mail(x)
      <4>1. x # NoAttempt /\ pc'[x] = pc[x] /\ outbox'["call"][x] = outbox["call"][x]
        BY <1>0, <1>3, <2>1, CoreAssumption
      <4> QED
        BY <1>3, <4>1 DEF Mail
    <3>2. Mail(p)' = pending /\ Mail(p) = <<>>
      BY <1>1, <1>2, <1>3, <2>1, CoreAssumption DEF Mail
    <3>3. Mail(NoAttempt) = pending /\ Mail(NoAttempt)' = <<>>
      BY <1>6 DEF Mail
    <3> QED
      BY <3>1, <3>2, <3>3
  <2> DEFINE From(x) == IF x = p THEN NoAttempt ELSE x
  <2>5. ASSUME NEW x \in Carriers, NEW i \in DOMAIN Mail(x)'
        PROVE  /\ From(x) \in Carriers /\ i \in DOMAIN Mail(From(x))
               /\ Mail(x)'[i] = Mail(From(x))[i] /\ x # NoAttempt
    <3>1. x # NoAttempt
      <4>1. DOMAIN <<>> = {}
        OBVIOUS
      <4>2. SUFFICES ASSUME x = NoAttempt PROVE FALSE
        OBVIOUS
      <4>3. Mail(x)' = Mail(NoAttempt)'
        BY <4>2 DEF Mail
      <4> QED
        BY <2>4, <2>5, <4>1, <4>3
    <3>2. CASE x = p
      <4>1. Mail(x)' = Mail(NoAttempt)
        BY <2>4, <3>2
      <4> QED
        BY <1>0, <2>5, <3>1, <3>2, <4>1
    <3>3. CASE x \in Procs \ {p}
      BY <2>4, <2>5, <3>1, <3>3
    <3> QED
      BY <3>1, <3>2, <3>3 DEF Carriers
  <2>6. \A q, k : Posted(q, k) => Posted(q, k)'
    <3> SUFFICES ASSUME NEW q, NEW k, NEW x \in Carriers, NEW i \in DOMAIN Mail(x),
                        Mail(x)[i].id = q, Mail(x)[i].kind = k
                 PROVE  Posted(q, k)'
      BY DEF Posted
    <3>1. CASE x = NoAttempt
      BY <1>0, <2>4, <3>1 DEF Posted, Carriers
    <3>2. CASE x = p
      <4>1. DOMAIN <<>> = {}
        OBVIOUS
      <4> QED
        BY <2>4, <3>2, <4>1
    <3>3. CASE x \in Procs \ {p}
      BY <2>4, <3>3 DEF Posted, Carriers
    <3> QED
      BY <3>1, <3>2, <3>3 DEF Carriers
  <2>7. ASSUME NEW q \in Procs PROVE Life(q)'
    <3>1. CASE q = p
      <4>1. CallSends(p)' /\ WaitSends(p)' /\ HoldSends(p)' /\ ReleaseSends(p)'
        <5>1. /\ outbox["wait"][p] = <<>>
          BY <1>0, <1>1 DEF Life, WaitSends
        <5> QED
          BY <1>0, <1>1, <1>4, <2>1, <2>2, <5>1
          DEF Life, CallSends, WaitSends, HoldSends, ReleaseSends
      <4>2. SoFar(p)'
        BY <1>0, <1>1, <1>4, <2>1, <2>2 DEF Life, SoFar
      <4>3. Noted(p)'
        BY <1>0, <1>1, <1>3, <1>4, <2>1, <2>2, <2>6 DEF Life, Noted, Granted
      <4> QED
        BY <3>1, <4>1, <4>2, <4>3 DEF Life
    <3>2. CASE q # p
      <4>1. LeftAlone(q) /\ Life(q)
        BY <2>3, <3>2 DEF EInv
      <4> QED
        BY <1>0, <2>6, <4>1, KeptLife
    <3> QED
      BY <3>1, <3>2
  <2>8. Undelivered \subseteq {p}
    <3>1. p \in Undelivered
      BY <1>1, <1>2 DEF Undelivered, Granted
    <3>2. IsFiniteSet(Undelivered)
      BY FiniteProcs DEF Undelivered
    <3>3. undelivered = Cardinality(Undelivered) /\ undelivered \in Nat
      BY <1>0 DEF OInv, TypeOK, DeliveriesCounted, Undelivered
    <3>4. Cardinality(Undelivered) \in {0, 1}
      BY <1>6, <3>3
    <3>5. Cardinality(Undelivered \ {p}) = Cardinality(Undelivered) - 1
          /\ Cardinality(Undelivered \ {p}) \in Nat /\ IsFiniteSet(Undelivered \ {p})
      BY <3>1, <3>2, FS_RemoveElement, FS_CardinalityType
    <3>6. Cardinality(Undelivered \ {p}) = 0
      BY <3>4, <3>5
    <3>7. Undelivered \ {p} = {}
      BY <3>5, <3>6, FS_EmptySet
    <3> QED
      BY <3>7
  <2>9. Mailed'
    <3> SUFFICES ASSUME NEW x \in Carriers, NEW i \in DOMAIN Mail(x)'
                 PROVE  /\ Fresh(Mail(x)[i])'
                        /\ x # NoAttempt => Announced(Mail(x)[i].id)'
      BY DEF Mailed, Carriers
    <3> PICK e : e = Mail(x)'[i]
      OBVIOUS
    <3>1. Fresh(e)
      BY <2>5 DEF EInv, Mailed
    <3>2. e.id \in Procs /\ e.id \in left
      BY <1>0, <3>1 DEF Fresh, TypeOK
    <3>3. Fresh(e)'
      BY <1>1, <2>2, <3>1, <3>2 DEF Fresh
    <3>4. Announced(e.id)'
      <4>1. CASE e.id = p
        BY <1>4, <4>1
      <4>2. CASE e.id # p
        <5>1. Granted(e.id)
          BY <3>2 DEF EInv, Life, Noted
        <5>2. pc[e.id] \in {"send", "back"}
          BY <2>8, <3>2, <4>2, <5>1 DEF Undelivered, Granted
        <5> QED
          BY <1>3, <3>2, <4>2, <5>1, <5>2 DEF Announced
      <4> QED
        BY <4>1, <4>2
    <3> QED
      BY <3>3, <3>4 DEF Fresh, Announced, Heard, Granted
  <2>10. MailedOnce'
    <3> SUFFICES ASSUME NEW x \in Carriers, NEW y \in Carriers,
                        NEW i \in DOMAIN Mail(x)', NEW j \in DOMAIN Mail(y)',
                        Mail(x)'[i].id = Mail(y)'[j].id
                 PROVE  /\ x = y
                        /\ i < j => /\ Mail(x)'[i].kind = "holdExceeded"
                                    /\ Mail(x)'[j].kind = "released"
      BY DEF MailedOnce, Carriers
    <3>1. /\ From(x) \in Carriers /\ i \in DOMAIN Mail(From(x))
          /\ Mail(x)'[i] = Mail(From(x))[i] /\ x # NoAttempt
      BY <2>5
    <3>2. /\ From(y) \in Carriers /\ j \in DOMAIN Mail(From(y))
          /\ Mail(y)'[j] = Mail(From(y))[j] /\ y # NoAttempt
      BY <2>5
    <3>3. From(x) = From(y) => x = y
      BY <3>1, <3>2
    <3> HIDE DEF From
    <3>4. /\ From(x) = From(y)
          /\ i < j => /\ Mail(From(x))[i].kind = "holdExceeded"
                      /\ Mail(From(x))[j].kind = "released"
      BY <3>1, <3>2 DEF EInv, MailedOnce
    <3> QED
      BY <3>1, <3>2, <3>3, <3>4
  <2> QED
    BY <2>7, <2>9, <2>10 DEF EInv
<1> QED
  BY <1>1, <1>5, <1>6

\* s has told e of what it has to tell for p, and nothing else has moved.
Tells(s, p, e) ==
  /\ outbox[s][p] # <<>> /\ outbox[s][p] \in Seq(Event)
  /\ e \in Event /\ e.id \in Procs /\ e.kind \in Kinds
  /\ outbox'[s][p] = Tail(outbox[s][p])
  /\ \A t \in Senders : \A q \in Procs : t # s \/ q # p => outbox'[t][q] = outbox[t][q]
  /\ \A q \in Procs : q # e.id => seen'[q] = seen[q]
  /\ \A q \in Procs : q # p => pc'[q] = pc[q]
  /\ s # "call" \/ Len(outbox[s][p]) # 1 => pc' = pc
  /\ s = "call" /\ Len(outbox[s][p]) = 1
       => pc'[p] = CASE pc[p] = "announce" -> "select"
                     [] pc[p] = "deliver" -> "complete"
                     [] pc[p] = "send" -> "back"
  /\ Ascending(seen[e.id]) /\ (\A j \in Heard(e.id) : Stage(j) < Stage(e.kind))
       => Ascending(seen'[e.id]) /\ Heard(e.id)' = Heard(e.id) \union {e.kind}
  /\ UNCHANGED <<core, undelivered, pending, holdTimer, want, left, holdReported,
                 waitLong, holdLong, waitTimer, waitReported>>

LEMMA Telling ==
  ASSUME OInv, NEW s \in Senders, NEW p \in Procs, Deliver(s, p),
         NEW e, e = Head(outbox[s][p])
  PROVE  Tells(s, p, e)
<1>1. TypeOK /\ outbox[s][p] \in Seq(Event) /\ outbox[s][p] # <<>>
  BY DEF OInv, TypeOK, Deliver
<1>2. e \in Event /\ e.id \in Procs /\ e.kind \in Kinds
  <2>1. ASSUME NEW t \in Seq(Event), t # <<>> PROVE Head(t) \in Event
    BY <2>1, NextEvent
  <2>2. e \in Event
    BY <1>1, <2>1
  <2> QED
    BY <2>2 DEF Event
<1>3. /\ outbox' = [outbox EXCEPT ![s][p] = Tail(outbox[s][p])]
      /\ seen' = [seen EXCEPT ![e.id] = Append(seen[e.id], e.kind)]
      /\ pc' = IF s = "call" /\ Len(outbox[s][p]) = 1
               THEN [pc EXCEPT ![p] = Sending[pc[p]]] ELSE pc
      /\ UNCHANGED <<core, undelivered, pending, holdTimer, want, left, holdReported,
                     waitLong, holdLong, waitTimer, waitReported>>
  BY DEF Deliver, coreVars, leaveVars, clockVars, waitVars
<1> DEFINE rest == Tail(outbox[s][p])
<1>4. /\ outbox'[s][p] = rest
      /\ \A t \in Senders : \A q \in Procs : t # s \/ q # p => outbox'[t][q] = outbox[t][q]
  <2>1. outbox' = [outbox EXCEPT ![s][p] = rest]
    BY <1>3
  <2> HIDE DEF rest
  <2> QED
    BY <1>1, <2>1 DEF TypeOK
<1> HIDE DEF rest
<1>5. /\ seen'[e.id] = Append(seen[e.id], e.kind)
      /\ \A q \in Procs : q # e.id => seen'[q] = seen[q]
  BY <1>1, <1>2, <1>3 DEF TypeOK
<1>6. /\ \A q \in Procs : q # p => pc'[q] = pc[q]
      /\ s # "call" \/ Len(outbox[s][p]) # 1 => pc' = pc
  BY <1>1, <1>3 DEF TypeOK
<1>7. s = "call" /\ Len(outbox[s][p]) = 1
        => pc'[p] = CASE pc[p] = "announce" -> "select"
                      [] pc[p] = "deliver" -> "complete"
                      [] pc[p] = "send" -> "back"
  <2>1. s = "call" => pc[p] \in {"announce", "deliver", "send"}
    BY <1>1 DEF OInv, PlacesTied
  <2> QED
    BY <1>1, <1>3, <2>1 DEF TypeOK, Sending
<1>8. Ascending(seen[e.id]) /\ (\A j \in Heard(e.id) : Stage(j) < Stage(e.kind))
        => Ascending(seen'[e.id]) /\ Heard(e.id)' = Heard(e.id) \union {e.kind}
  <2>1. seen[e.id] \in Seq(Kinds)
    BY <1>1, <1>2 DEF TypeOK
  <2>2. Ascending(seen[e.id]) /\ (\A j \in Elems(seen[e.id]) : Stage(j) < Stage(e.kind))
          => /\ Ascending(Append(seen[e.id], e.kind))
             /\ Elems(Append(seen[e.id], e.kind)) = Elems(seen[e.id]) \union {e.kind}
    BY <1>2, <2>1, Hears
  <2>3. /\ Heard(e.id) = Elems(seen[e.id])
        /\ Heard(e.id)' = Elems(Append(seen[e.id], e.kind))
    BY <1>5 DEF Heard
  <2> QED
    BY <1>5, <2>2, <2>3
<1> QED
  BY <1>1, <1>2, <1>3, <1>4, <1>5, <1>6, <1>7, <1>8 DEF rest, Tells

\* The call of an attempt tells that it waits, or how it ended.
LEMMA OrderDeliverCall ==
  ASSUME EInv, OInv', NEW p \in Procs, Deliver("call", p),
         pc[p] = "announce" \/ Concluding(p)
  PROVE  EInv'
<1> PICK e : e = Head(outbox["call"][p])
  OBVIOUS
<1> DEFINE s == outbox["call"][p]
<1>0. OInv /\ TypeOK /\ Life(p) /\ "call" \in Senders
  BY DEF EInv, OInv, Senders
<1>1. /\ s # <<>> /\ s \in Seq(Event) /\ e \in Event /\ e.id \in Procs /\ e.kind \in Kinds
      /\ outbox'["call"][p] = Tail(s)
      /\ \A t \in Senders : \A q \in Procs : t # "call" \/ q # p => outbox'[t][q] = outbox[t][q]
      /\ \A q \in Procs : q # e.id => seen'[q] = seen[q]
      /\ \A q \in Procs : q # p => pc'[q] = pc[q]
      /\ Len(s) # 1 => pc' = pc
      /\ Len(s) = 1 => pc'[p] = CASE pc[p] = "announce" -> "select"
                                  [] pc[p] = "deliver" -> "complete"
                                  [] pc[p] = "send" -> "back"
      /\ Ascending(seen[e.id]) /\ (\A j \in Heard(e.id) : Stage(j) < Stage(e.kind))
           => Ascending(seen'[e.id]) /\ Heard(e.id)' = Heard(e.id) \union {e.kind}
      /\ UNCHANGED <<core, pending, holdTimer, want, left, holdReported,
                     waitLong, holdLong, waitTimer, waitReported>>
  <2>1. Tells("call", p, e)
    BY <1>0, Telling
  <2> QED
    BY <2>1 DEF Tells
<1>2. /\ outbox'["wait"][p] = outbox["wait"][p] /\ outbox'["hold"][p] = outbox["hold"][p]
      /\ outbox'["release"][p] = outbox["release"][p]
  BY <1>1 DEF Senders
<1>3. /\ outbox["wait"][p] = <<>> /\ outbox["hold"][p] = <<>> /\ outbox["release"][p] = <<>>
      /\ ~Announced(p)
  <2>1. ~Announced(p) /\ pc[p] \notin {"select", "finish"}
    BY DEF Announced, Concluding
  <2> QED
    BY <1>0, <2>1 DEF Life, WaitSends, HoldSends, ReleaseSends
<1>4. (Granted(p)' <=> Granted(p)) /\ Ascending(seen[p])
  BY <1>0, <1>1 DEF Granted, Life, SoFar
<1>5. Mail(p) = <<>> /\ (pc'[p] # "send" \/ ~Granted(p) => Mail(p)' = <<>>)
  BY <1>4, CoreAssumption DEF Mail, Concluding
<1>6. \A q \in Procs : q # e.id /\ q # p => LeftAlone(q)
  BY <1>1 DEF LeftAlone, Undisturbed
<1>7. CASE pc[p] = "announce"
  <2>1. One(s, p, "waitStarted") /\ Heard(p) = {}
    BY <1>0, <1>7 DEF Life, CallSends, SoFar
  <2>2. Len(s) = 1 /\ e.id = p /\ e.kind = "waitStarted" /\ Tail(s) = <<>>
    BY <1>1, <2>1, Letter
  <2>3. Ascending(seen'[p]) /\ Heard(p)' = {"waitStarted"} /\ pc'[p] = "select"
    BY <1>1, <1>4, <1>7, <2>1, <2>2
  <2>4. ~Concluding(p)' /\ ~Announced(p)'
    BY <2>3 DEF Concluding, Announced
  <2>5. Acts(p)
    <3>1. Addressed(p) => p \in left
      BY UnreleasedHasNoMail
    <3> QED
      BY <1>1, <1>2, <1>3, <1>5, <1>6, <2>1, <2>2, <2>3, <3>1 DEF Acts, Late
  <2>6. Posted(p, "holdExceeded")' <=> Posted(p, "holdExceeded")
    BY <2>5, SameMail
  <2>7. Noted(p)'
    <3>1. p \notin waitReported /\ Len(s) # 2
      BY <1>0, <1>3, <1>7, <2>1, <2>2 DEF Life, Noted
    <3> QED
      BY <1>0, <1>1, <1>2, <1>3, <1>4, <2>1, <2>3, <2>4, <2>6, <3>1, <1>7 DEF Life, Noted
  <2>8. SoFar(p)'
    BY <2>3, <2>4 DEF SoFar, Early
  <2>9. CallSends(p)' /\ WaitSends(p)' /\ HoldSends(p)' /\ ReleaseSends(p)'
    <3>1. Len(outbox'["release"][p]) # 2
      BY <1>2, <1>3
    <3> QED
      BY <1>2, <1>3, <2>3, <2>4, <3>1
      DEF CallSends, WaitSends, HoldSends, ReleaseSends
  <2> QED
    BY <2>5, <2>7, <2>8, <2>9, ActsKeeps DEF Life
<1>8. CASE Concluding(p)
  <2>1. PICK k \in Ends : /\ k = "acquired" <=> Granted(p)
                          /\ One(s, p, k) \/ Two(s, p, "waitExceeded", k)
    BY <1>0, <1>8 DEF Life, CallSends
  <2>2. /\ Heard(p) \subseteq Early
        /\ Len(s) = 2 => Heard(p) = {"waitStarted"}
        /\ "waitExceeded" \in Heard(p) => "waitStarted" \in Heard(p)
        /\ p \in waitReported <=> "waitExceeded" \in Heard(p) \/ Len(s) = 2
    BY <1>0, <1>3, <1>8 DEF Life, SoFar, CallSends, Noted
  <2>3. k \notin Early /\ k \notin Late /\ Stage(k) = 3
    BY Stages DEF Ends, Early, Late
  <2>4. \A j \in Early : Stage(j) < 3
    BY Stages DEF Early
  <2>5. CASE One(s, p, k)
    <3>1. Len(s) = 1 /\ e.id = p /\ e.kind = k /\ Tail(s) = <<>>
      BY <1>1, <2>5, Letter
    <3>2. Ascending(seen'[p]) /\ Heard(p)' = Heard(p) \union {k}
      BY <1>1, <1>4, <2>2, <2>3, <2>4, <3>1
    <3>3. pc'[p] = IF Granted(p) THEN "complete" ELSE "back"
      <4>1. pc[p] = IF Granted(p) THEN "deliver" ELSE "send"
        BY <1>0, <1>8 DEF Concluding, OInv, PlacesTied, Granted
      <4> QED
        BY <1>1, <3>1, <4>1
    <3>4. ~Concluding(p)' /\ (Announced(p)' <=> Granted(p))
      BY <1>4, <3>3 DEF Concluding, Announced
    <3>5. Acts(p)
      <4>1. Addressed(p) => p \in left
        BY UnreleasedHasNoMail
      <4>2. Heard(p)' \intersect Late = Heard(p) \intersect Late
        BY <2>3, <3>2
      <4> QED
        BY <1>1, <1>2, <1>3, <1>5, <1>6, <3>1, <3>3, <4>1, <4>2 DEF Acts
    <3>6. Posted(p, "holdExceeded")' <=> Posted(p, "holdExceeded")
      BY <3>5, SameMail
    <3>7. \A j \in Early \union Late : j \in Heard(p)' <=> j \in Heard(p)
      BY <2>3, <3>2
    <3>8. Noted(p)'
      <4>1. p \in waitReported' <=> \/ "waitExceeded" \in Heard(p)' \/ outbox'["wait"][p] # <<>>
                                    \/ (Concluding(p)' /\ Len(outbox'["call"][p]) = 2)
        BY <1>1, <1>2, <1>3, <2>2, <3>1, <3>4, <3>7 DEF Early
      <4>2. p \notin waitLong \/ p \in waitReported
        BY <1>0, <1>8 DEF Life, Noted, Concluding
      <4>3. core.verdict[p] = "none" => waitTimer[p] = "off"
        BY <1>0, <1>8 DEF Life, Noted, Concluding
      <4> QED
        BY <1>0, <1>1, <1>2, <1>4, <3>6, <3>7, <4>1, <4>2, <4>3 DEF Life, Noted, Late
    <3>9. SoFar(p)'
      <4>1. "released" \notin Heard(p)' /\ "holdExceeded" \notin Heard(p)'
        BY <2>2, <3>7 DEF Early, Late
      <4>2. Announced(p)' => "acquired" \in Heard(p)'
        BY <2>1, <3>2, <3>4
      <4> QED
        BY <2>2, <3>2, <3>3, <3>4, <3>7, <4>1, <4>2 DEF SoFar, Early
    <3>10. CallSends(p)' /\ WaitSends(p)' /\ HoldSends(p)' /\ ReleaseSends(p)'
      <4>1. Len(outbox'["release"][p]) # 2
        BY <1>2, <1>3
      <4> QED
        BY <1>2, <1>3, <3>3, <3>4, <4>1
        DEF CallSends, WaitSends, HoldSends, ReleaseSends
    <3> QED
      BY <3>5, <3>8, <3>9, <3>10, ActsKeeps DEF Life
  <2>6. CASE Two(s, p, "waitExceeded", k)
    <3>1. /\ Len(s) = 2 /\ e.id = p /\ e.kind = "waitExceeded"
          /\ Len(Tail(s)) = 1 /\ One(Tail(s), p, k)
      BY <1>1, <2>6, Letters
    <3>2. Heard(p) = {"waitStarted"}
      BY <2>2, <3>1
    <3>3. Ascending(seen'[p]) /\ Heard(p)' = Early
      BY <1>1, <1>4, <3>1, <3>2, Stages DEF Early
    <3>4. pc' = pc /\ Concluding(p)' /\ ~Announced(p)'
      BY <1>1, <1>3, <1>4, <1>8, <3>1 DEF Concluding, Announced
    <3>5. Acts(p)
      <4>1. Addressed(p) => p \in left
        BY UnreleasedHasNoMail
      <4>2. Heard(p)' \intersect Late = Heard(p) \intersect Late
        BY <3>2, <3>3 DEF Early, Late
      <4>3. pc'[p] # "send" \/ ~Granted(p)
        BY <1>8, <3>4 DEF Concluding
      <4> QED
        BY <1>1, <1>2, <1>3, <1>5, <1>6, <3>1, <4>1, <4>2, <4>3 DEF Acts
    <3>6. Posted(p, "holdExceeded")' <=> Posted(p, "holdExceeded")
      BY <3>5, SameMail
    <3>7. CallSends(p)'
      <4>1. pc'[p] # "announce"
        BY <1>8, <3>4 DEF Concluding
      <4>2. PICK r : r = Tail(s)
        OBVIOUS
      <4>4. outbox'["call"][p] = r
        BY <1>1, <4>2
      <4>6. One(r, p, k) /\ Len(r) = 1
        BY <3>1, <4>2, Zenon
      <4>5. One(outbox'["call"][p], p, k) /\ Len(outbox'["call"][p]) # 2
        BY <4>4, <4>6
      <4>3. k = "acquired" <=> Granted(p)'
        BY <1>4, <2>1
      <4> QED
        BY <4>1, <4>3, <4>5 DEF CallSends
    <3>8. Noted(p)'
      <4>1. p \in waitReported' /\ "waitExceeded" \in Heard(p)'
        BY <1>1, <2>2, <3>1, <3>3 DEF Early
      <4>2. "holdExceeded" \notin Heard(p)
        BY <3>2
      <4> QED
        BY <1>0, <1>1, <1>2, <1>4, <3>4, <3>6, <4>1, <4>2 DEF Life, Noted
    <3>9. SoFar(p)'
      <4>1. pc[p] \notin {"idle", "announce", "back"}
        BY <1>8 DEF Concluding
      <4> QED
        BY <3>3, <3>4, <4>1 DEF SoFar, Early
    <3>10. WaitSends(p)' /\ HoldSends(p)' /\ ReleaseSends(p)'
      <4>1. Len(outbox'["release"][p]) # 2
        BY <1>2, <1>3
      <4> QED
        BY <1>2, <1>3, <4>1 DEF WaitSends, HoldSends, ReleaseSends
    <3> QED
      BY <3>5, <3>7, <3>8, <3>9, <3>10, ActsKeeps DEF Life
  <2> QED
    BY <2>1, <2>5, <2>6
<1> QED
  BY <1>7, <1>8

\* A timer's callback tells its report.
LEMMA OrderDeliverReport ==
  ASSUME EInv, OInv', NEW p \in Procs, NEW s \in {"wait", "hold"}, Deliver(s, p)
  PROVE  EInv'
<1> PICK e : e = Head(outbox[s][p])
  OBVIOUS
<1> DEFINE kind == IF s = "wait" THEN "waitExceeded" ELSE "holdExceeded"
<1>0. OInv /\ TypeOK /\ Life(p) /\ s \in Senders /\ s # "call"
  BY DEF EInv, OInv, Senders
<1>1. Tells(s, p, e)
  BY <1>0, Telling
<1>2. One(outbox[s][p], p, kind)
  BY <1>0, <1>1 DEF Life, WaitSends, HoldSends, Tells
<1>3. e.id = p /\ e.kind = kind /\ Tail(outbox[s][p]) = <<>>
  BY <1>1, <1>2, Letter DEF Tells
<1>4. /\ s = "wait" => pc[p] \in {"select", "finish"} /\ "waitExceeded" \notin Heard(p)
      /\ s = "hold" => /\ Announced(p) /\ Exact(want[p]) /\ p \in holdReported /\ p \notin left
                       /\ "holdExceeded" \notin Heard(p) /\ "released" \notin Heard(p)
  BY <1>0, <1>1 DEF Life, WaitSends, HoldSends, SoFar, Tells
<1>5. \A j \in Heard(p) : j \in Kinds
  <2>1. seen[p] \in Seq(Kinds)
    BY <1>0 DEF TypeOK
  <2> QED
    BY <2>1 DEF Heard, Elems
<1>6. \A j \in Heard(p) : Stage(j) < Stage(kind)
  <2>1. CASE s = "wait"
    <3>1. Heard(p) \subseteq {"waitStarted"}
      BY <1>0, <1>4, <2>1 DEF Life, SoFar, Early
    <3> QED
      BY <2>1, <3>1, Stages
  <2>2. CASE s = "hold"
    <3>1. \A j \in Heard(p) : j \in Early \/ j \in Ends
      BY <1>4, <1>5, <2>2, Stages DEF Late
    <3>2. \A j \in Early \union Ends : Stage(j) < 4
      BY Stages DEF Early
    <3> QED
      BY <2>2, <3>1, <3>2, Stages
  <2> QED
    BY <2>1, <2>2
<1>7. /\ Ascending(seen'[p]) /\ Heard(p)' = Heard(p) \union {kind}
      /\ outbox'[s][p] = <<>>
      /\ \A t \in Senders : \A q \in Procs : t # s \/ q # p => outbox'[t][q] = outbox[t][q]
      /\ \A q \in Procs : q # p => seen'[q] = seen[q]
      /\ UNCHANGED <<core, pending, pc, holdTimer, want, left, holdReported,
                     waitLong, holdLong, waitTimer, waitReported>>
  BY <1>0, <1>1, <1>3, <1>6 DEF Tells, Life, SoFar
<1>8. /\ outbox'["call"][p] = outbox["call"][p] /\ outbox'["release"][p] = outbox["release"][p]
      /\ outbox'["wait"][p] = IF s = "wait" THEN <<>> ELSE outbox["wait"][p]
      /\ outbox'["hold"][p] = IF s = "hold" THEN <<>> ELSE outbox["hold"][p]
  BY <1>7 DEF Senders
<1>9. /\ Granted(p)' <=> Granted(p)
      /\ Concluding(p)' <=> Concluding(p)
      /\ Announced(p)' <=> Announced(p)
  BY <1>7 DEF Granted, Concluding, Announced
<1>10. s = "wait" => ~Concluding(p) /\ ~Announced(p) /\ outbox["hold"][p] = <<>>
  BY <1>0, <1>4 DEF Concluding, Announced, Life, HoldSends
<1>11. Acts(p)
  <2>1. \A q \in Procs \ {p} : LeftAlone(q)
    BY <1>7 DEF LeftAlone, Undisturbed
  <2>2. Mail(p)' = Mail(p)
    BY <1>7, <1>8, <1>9 DEF Mail
  <2>3. Addressed(p) => p \in left /\ s = "wait"
    BY <1>4, UnreleasedHasNoMail
  <2>4. s = "wait" => Heard(p)' \intersect Late = Heard(p) \intersect Late
    BY <1>7 DEF Late
  <2> QED
    BY <1>7, <1>8, <1>9, <2>1, <2>2, <2>3, <2>4 DEF Acts
<1>12. Posted(p, "holdExceeded")' <=> Posted(p, "holdExceeded")
  BY <1>11, SameMail
<1>13. CallSends(p)'
  <2>1. Concluding(p) => Heard(p)' = Heard(p) \/ s = "hold"
    BY <1>10
  <2>2. Announced(p) => ~Concluding(p)
    BY DEF Announced, Concluding
  <2>3. s = "hold" => ~Concluding(p)
    BY <1>4, <2>2
  <2> QED
    BY <1>0, <1>7, <1>8, <1>9, <1>10, <2>3 DEF Life, CallSends
<1>14. SoFar(p)'
  <2>1. CASE s = "wait"
    BY <1>0, <1>4, <1>7, <1>9, <1>10, <2>1 DEF Life, SoFar, Early
  <2>2. CASE s = "hold"
    BY <1>0, <1>4, <1>7, <1>9, <2>2 DEF Life, SoFar, Announced, Concluding
  <2> QED
    BY <2>1, <2>2
<1>15. WaitSends(p)' /\ HoldSends(p)'
  BY <1>0, <1>7, <1>8, <1>9, <1>10 DEF Life, WaitSends, HoldSends
<1>16. ReleaseSends(p)'
  <2>1. s = "hold" => outbox["release"][p] = <<>>
    BY <1>0, <1>4 DEF Life, ReleaseSends
  <2>2. <<>> = <<>> /\ Len(<<>>) # 2
    OBVIOUS
  <2> QED
    BY <1>0, <1>7, <1>8, <1>9, <2>1, <2>2 DEF Life, ReleaseSends
<1>17. Noted(p)'
  <2>1. CASE s = "wait"
    BY <1>0, <1>1, <1>4, <1>7, <1>8, <1>9, <1>10, <1>12, <2>1 DEF Life, Noted, Tells
  <2>2. CASE s = "hold"
    BY <1>0, <1>1, <1>4, <1>7, <1>8, <1>9, <1>12, <2>2 DEF Life, Noted, Tells
  <2> QED
    BY <2>1, <2>2
<1> QED
  BY <1>11, <1>13, <1>14, <1>15, <1>16, <1>17, ActsKeeps DEF Life

\* A release tells its events.
LEMMA OrderDeliverRelease ==
  ASSUME EInv, OInv', NEW p \in Procs, Deliver("release", p)
  PROVE  EInv'
<1> PICK e : e = Head(outbox["release"][p])
  OBVIOUS
<1> DEFINE s == outbox["release"][p]
<1>0. OInv /\ TypeOK /\ Life(p) /\ "release" \in Senders
  BY DEF EInv, OInv, Senders
<1>1. Tells("release", p, e)
  BY <1>0, Telling
<1>2. /\ One(s, p, "released") \/ Two(s, p, "holdExceeded", "released")
      /\ Announced(p) /\ p \in left /\ "released" \notin Heard(p)
      /\ Len(s) = 2 => "holdExceeded" \notin Heard(p) /\ p \in holdReported
  BY <1>0, <1>1 DEF Life, ReleaseSends, Tells
<1>3. /\ e.id = p
      /\ \/ One(s, p, "released") /\ e.kind = "released" /\ Tail(s) = <<>> /\ Len(s) = 1
         \/ /\ e.kind = "holdExceeded" /\ Len(s) = 2
            /\ One(Tail(s), p, "released") /\ Len(Tail(s)) = 1
  <2>1. s \in Seq(Event)
    BY <1>1 DEF Tells
  <2>2. CASE One(s, p, "released")
    BY <2>1, <2>2, Letter
  <2>3. CASE Two(s, p, "holdExceeded", "released")
    BY <2>1, <2>3, Letters
  <2> QED
    BY <1>2, <2>2, <2>3
<1>4. e.kind \in Late /\ e.kind \notin Heard(p) /\ (e.kind = "holdExceeded" => p \in holdReported)
  BY <1>2, <1>3 DEF Late
<1>5. \A j \in Heard(p) : Stage(j) < Stage(e.kind)
  <2>1. seen[p] \in Seq(Kinds)
    BY <1>0 DEF TypeOK
  <2>2. \A j \in Heard(p) : j \in Kinds
    BY <2>1 DEF Heard, Elems
  <2>3. \A j \in Heard(p) : j \in Early \/ j \in Ends \/ (j = "holdExceeded" /\ e.kind = "released")
    BY <1>2, <1>4, <2>2, Stages DEF Late
  <2>4. \A j \in Early \union Ends : Stage(j) < 4
    BY Stages DEF Early
  <2> SUFFICES ASSUME NEW j \in Heard(p) PROVE Stage(j) < Stage(e.kind)
    OBVIOUS
  <2>5. CASE j \in Early \union Ends
    <3>1. Stage(j) < 4 /\ (Stage(e.kind) = 4 \/ Stage(e.kind) = 5)
      BY <1>4, <2>4, <2>5, Stages DEF Late
    <3>2. Stage(j) \in Nat
      BY <2>5, Stages DEF Early
    <3> QED
      BY <3>1, <3>2
  <2>6. CASE j = "holdExceeded" /\ e.kind = "released"
    BY <2>6, Stages
  <2> QED
    BY <2>3, <2>5, <2>6
<1>6. /\ Ascending(seen'[p]) /\ Heard(p)' = Heard(p) \union {e.kind}
      /\ outbox'["release"][p] = Tail(s)
      /\ \A t \in Senders : \A q \in Procs : t # "release" \/ q # p => outbox'[t][q] = outbox[t][q]
      /\ \A q \in Procs : q # p => seen'[q] = seen[q]
      /\ UNCHANGED <<core, pending, pc, holdTimer, want, left, holdReported,
                     waitLong, holdLong, waitTimer, waitReported>>
  BY <1>0, <1>1, <1>3, <1>5 DEF Tells, Life, SoFar
<1>7. /\ outbox'["call"][p] = outbox["call"][p] /\ outbox'["wait"][p] = outbox["wait"][p]
      /\ outbox'["hold"][p] = outbox["hold"][p]
      /\ outbox["wait"][p] = <<>> /\ outbox["hold"][p] = <<>>
  <2>1. outbox["wait"][p] = <<>> /\ outbox["hold"][p] = <<>>
    BY <1>0, <1>2 DEF Life, WaitSends, HoldSends, Announced
  <2> QED
    BY <1>6, <2>1 DEF Senders
<1>8. /\ Granted(p)' <=> Granted(p)
      /\ ~Concluding(p) /\ ~Concluding(p)' /\ Announced(p)'
      /\ pc[p] \notin {"announce", "select", "finish", "idle"}
  BY <1>2, <1>6 DEF Granted, Concluding, Announced
<1>9. ~Addressed(p)
  BY <1>1 DEF Tells, EInv, Mailed, Fresh, Addressed
<1>10. Acts(p)
  <2>1. \A q \in Procs \ {p} : LeftAlone(q)
    BY <1>6 DEF LeftAlone, Undisturbed
  <2>2. Mail(p)' = Mail(p)
    BY <1>6, <1>7, <1>8 DEF Mail
  <2> QED
    BY <1>6, <1>9, <2>1, <2>2 DEF Acts
<1>11. Posted(p, "holdExceeded")' <=> Posted(p, "holdExceeded")
  BY <1>10, SameMail
<1>12. ReleaseSends(p)'
  <2>1. CASE Tail(s) = <<>>
    <3>1. Len(<<>>) # 2
      OBVIOUS
    <3> QED
      BY <1>6, <2>1, <3>1 DEF ReleaseSends
  <2>2. CASE Tail(s) # <<>>
    <3>1. /\ e.kind = "holdExceeded" /\ One(Tail(s), p, "released") /\ Len(Tail(s)) = 1
          /\ "released" \notin Heard(p)'
      BY <1>2, <1>3, <1>6, <2>2
    <3> QED
      BY <1>2, <1>6, <1>8, <3>1 DEF ReleaseSends
  <2> QED
    BY <2>1, <2>2
<1>13. SoFar(p)'
  <2>1. "acquired" \in Heard(p) /\ (pc[p] = "back" => Heard(p) \intersect Ends # {})
    BY <1>0, <1>2 DEF Life, SoFar
  <2> QED
    BY <1>0, <1>2, <1>4, <1>6, <1>8, <2>1 DEF Life, SoFar, Late
<1>14. Noted(p)'
  <2>1. p \in holdReported => "holdExceeded" \in Heard(p)' \/ Posted(p, "holdExceeded")
    BY <1>0, <1>3, <1>6, <1>7 DEF Life, Noted
  <2>2. e.kind # "waitExceeded"
    BY <1>4 DEF Late
  <2> QED
    BY <1>0, <1>6, <1>7, <1>8, <1>11, <2>1, <2>2 DEF Life, Noted
<1>15. CallSends(p)' /\ WaitSends(p)' /\ HoldSends(p)'
  BY <1>6, <1>7, <1>8 DEF CallSends, WaitSends, HoldSends
<1> QED
  BY <1>10, <1>12, <1>13, <1>14, <1>15, ActsKeeps DEF Life

\* A call tells the events of finished holds that it has taken over.
LEMMA OrderDeliverMail ==
  ASSUME EInv, OInv', NEW p \in Procs, Deliver("call", p), pc[p] = "send", Granted(p)
  PROVE  EInv'
<1> PICK e : e = Head(outbox["call"][p])
  OBVIOUS
<1> DEFINE s == outbox["call"][p]
<1>0. OInv /\ TypeOK /\ Life(p) /\ "call" \in Senders /\ p \in Carriers /\ p # NoAttempt
  BY CoreAssumption DEF EInv, OInv, Senders, Carriers
<1>1. Tells("call", p, e)
  BY <1>0, Telling
<1>2. /\ s \in Seq(Event) /\ Mail(p) = s /\ s[1] = e /\ 1 \in DOMAIN s
      /\ Len(s) \in Nat \ {0} /\ DOMAIN s = 1..Len(s)
      /\ Tail(s) \in Seq(Event) /\ DOMAIN Tail(s) = 1..(Len(s) - 1)
      /\ \A i \in 1..(Len(s) - 1) : Tail(s)[i] = s[i + 1]
      /\ Len(s) = 1 <=> Tail(s) = <<>>
  <2>1. s \in Seq(Event) /\ s # <<>>
    BY <1>1 DEF Tells
  <2>2. Mail(p) = s
    BY <1>0 DEF Mail
  <2>3. /\ Head(s) = s[1] /\ Tail(s) \in Seq(Event) /\ Len(s) \in Nat \ {0}
        /\ Len(Tail(s)) = Len(s) - 1 /\ (Len(s) = 1 <=> Tail(s) = <<>>) /\ 1 \in DOMAIN s
        /\ \A i \in 1..(Len(s) - 1) : Tail(s)[i] = s[i + 1]
    BY <2>1, NextEvent
  <2> QED
    BY <2>1, <2>2, <2>3
<1>3. Fresh(e) /\ Announced(e.id) /\ e.id \in Procs
  <2>1. Mail(p)[1] = e /\ 1 \in DOMAIN Mail(p)
    BY <1>2
  <2> QED
    BY <1>0, <1>1, <2>1 DEF EInv, Mailed, Tells
<1>4. \A j \in Heard(e.id) : Stage(j) < Stage(e.kind)
  <2>1. seen[e.id] \in Seq(Kinds)
    BY <1>0, <1>3 DEF TypeOK
  <2>2. \A j \in Heard(e.id) : j \in Kinds
    BY <2>1 DEF Heard, Elems
  <2>3. \A j \in Heard(e.id) : j \in Early \union Ends \/ (j = "holdExceeded" /\ e.kind = "released")
    BY <1>3, <2>2, Stages DEF Fresh, Late
  <2> SUFFICES ASSUME NEW j \in Heard(e.id) PROVE Stage(j) < Stage(e.kind)
    OBVIOUS
  <2>4. CASE j \in Early \union Ends
    <3>1. (Stage(j) = 1 \/ Stage(j) = 2 \/ Stage(j) = 3) /\ (Stage(e.kind) = 4 \/ Stage(e.kind) = 5)
      BY <1>3, <2>4, Stages DEF Fresh, Early, Late
    <3> QED
      BY <3>1
  <2>5. CASE j = "holdExceeded" /\ e.kind = "released"
    BY <2>5, Stages
  <2> QED
    BY <2>3, <2>4, <2>5
<1>5. /\ Ascending(seen'[e.id]) /\ Heard(e.id)' = Heard(e.id) \union {e.kind}
      /\ outbox'["call"][p] = Tail(s)
      /\ \A t \in Senders : \A q \in Procs : t # "call" \/ q # p => outbox'[t][q] = outbox[t][q]
      /\ \A q \in Procs : q # e.id => seen'[q] = seen[q]
      /\ \A q \in Procs : q # p => pc'[q] = pc[q]
      /\ pc'[p] = IF Tail(s) = <<>> THEN "back" ELSE "send"
      /\ UNCHANGED <<core, pending, holdTimer, want, left, holdReported,
                     waitLong, holdLong, waitTimer, waitReported>>
  <2>1. Ascending(seen[e.id])
    BY <1>3 DEF EInv, Life, SoFar
  <2>2. pc'[p] = IF Tail(s) = <<>> THEN "back" ELSE "send"
    BY <1>1, <1>2 DEF Tells
  <2> QED
    BY <1>1, <1>4, <2>1, <2>2 DEF Tells
<1>6. \A q \in Procs : /\ outbox'["wait"][q] = outbox["wait"][q]
                       /\ outbox'["hold"][q] = outbox["hold"][q]
                       /\ outbox'["release"][q] = outbox["release"][q]
                       /\ q # p => outbox'["call"][q] = outbox["call"][q]
                       /\ q # e.id => Heard(q)' = Heard(q)
                       /\ Heard(q) \subseteq Heard(q)'
                       /\ Granted(q)' <=> Granted(q)
                       /\ Announced(q)' <=> Announced(q)
                       /\ Concluding(q)' <=> Concluding(q)
  <2>1. ASSUME NEW q \in Procs
        PROVE  /\ outbox'["wait"][q] = outbox["wait"][q] /\ outbox'["hold"][q] = outbox["hold"][q]
               /\ outbox'["release"][q] = outbox["release"][q]
               /\ q # p => outbox'["call"][q] = outbox["call"][q]
    BY <1>5 DEF Senders
  <2>2. ASSUME NEW q \in Procs
        PROVE  (q # e.id => Heard(q)' = Heard(q)) /\ Heard(q) \subseteq Heard(q)'
    <3>1. q # e.id => Heard(q)' = Heard(q)
      BY <1>5 DEF Heard
    <3>2. q = e.id => Heard(q)' = Heard(q) \union {e.kind}
      BY <1>5 DEF Heard
    <3> QED
      BY <3>1, <3>2
  <2>3. ASSUME NEW q \in Procs
        PROVE  /\ Granted(q)' <=> Granted(q)
               /\ Announced(q)' <=> Announced(q)
               /\ Concluding(q)' <=> Concluding(q)
    BY <1>5 DEF Granted, Announced, Concluding
  <2> QED
    BY <2>1, <2>2, <2>3
<1>7. /\ Mail(p)' = Tail(s)
      /\ \A x \in Carriers \ {p} : Mail(x)' = Mail(x)
  <2>1. Mail(p)' = Tail(s)
    BY <1>0, <1>5, <1>6 DEF Mail
  <2>2. ASSUME NEW x \in Carriers \ {p} PROVE Mail(x)' = Mail(x)
    <3>1. CASE x = NoAttempt
      BY <1>5, <3>1 DEF Mail
    <3>2. CASE x \in Procs
      <4>1. x # NoAttempt
        BY <3>2, CoreAssumption
      <4> QED
        BY <1>5, <1>6, <2>2, <3>2, <4>1 DEF Mail
    <3> QED
      BY <2>2, <3>1, <3>2 DEF Carriers
  <2> QED
    BY <2>1, <2>2
<1> DEFINE At(x, i) == IF x = p THEN i + 1 ELSE i
<1>8. ASSUME NEW x \in Carriers, NEW i \in DOMAIN Mail(x)'
      PROVE  /\ At(x, i) \in DOMAIN Mail(x) /\ Mail(x)'[i] = Mail(x)[At(x, i)]
             /\ x = p => 1 < At(x, i)
             /\ x = p => i \in Nat
  <2>1. CASE x = p
    <3>1. i \in 1..(Len(s) - 1)
      BY <1>2, <1>7, <1>8, <2>1
    <3>2. i + 1 \in DOMAIN s /\ Tail(s)[i] = s[i + 1] /\ 1 < i + 1 /\ i \in Nat
      BY <1>2, <3>1
    <3> QED
      BY <1>2, <1>7, <2>1, <3>2
  <2>2. CASE x # p
    BY <1>7, <1>8, <2>2
  <2> QED
    BY <2>1, <2>2
<1>9. \A q, k : Posted(q, k) => Posted(q, k)' \/ (e.id = q /\ e.kind = k)
  <2> SUFFICES ASSUME NEW q, NEW k, NEW x \in Carriers, NEW i \in DOMAIN Mail(x),
                      Mail(x)[i].id = q, Mail(x)[i].kind = k
               PROVE  Posted(q, k)' \/ (e.id = q /\ e.kind = k)
    BY DEF Posted
  <2>1. CASE x # p
    BY <1>7, <2>1 DEF Posted, Carriers
  <2>2. CASE x = p /\ i = 1
    BY <1>2, <2>2
  <2>3. CASE x = p /\ i # 1
    <3>1. i - 1 \in 1..(Len(s) - 1) /\ (i - 1) + 1 = i
      BY <1>2, <2>3
    <3>2. i - 1 \in DOMAIN Mail(p)' /\ Mail(p)'[i - 1] = Mail(p)[i]
      BY <1>2, <1>7, <3>1
    <3> QED
      BY <1>0, <2>3, <3>2 DEF Posted, Carriers
  <2> QED
    BY <2>1, <2>2, <2>3
<1>10. ASSUME NEW q \in Procs, q # e.id, q # p
       PROVE  Life(q)'
  <2>1. LeftAlone(q)
    BY <1>5, <1>10 DEF LeftAlone, Undisturbed
  <2>2. Posted(q, "holdExceeded") => Posted(q, "holdExceeded")'
    BY <1>9, <1>10
  <2> QED
    BY <1>0, <2>1, <2>2, KeptLife DEF EInv
<1>11. Announced(p) /\ "acquired" \in Heard(p)
  BY <1>0 DEF Announced, Life, SoFar
<1>12. ASSUME NEW q \in Procs, q = e.id \/ q = p
       PROVE  Life(q)'
  <2>1. /\ Life(q) /\ Announced(q) /\ ~Concluding(q)
        /\ pc[q] \in {"complete", "send", "back"} /\ pc'[q] \in {"complete", "send", "back"}
        /\ "acquired" \in Heard(q)
    <3>1. Life(q) /\ Announced(q)
      BY <1>3, <1>11, <1>12 DEF EInv
    <3> QED
      BY <1>5, <3>1 DEF Announced, Concluding, Life, SoFar
  <2>2. ~Concluding(q)' /\ Announced(q)' /\ outbox["wait"][q] = <<>>
    BY <1>6, <2>1 DEF Life, WaitSends
  <2>3. Ascending(seen'[q]) /\ \A k \in Early : k \in Heard(q)' <=> k \in Heard(q)
    <3>1. CASE q = e.id
      <4>1. e.kind \notin Early
        BY <1>3 DEF Fresh, Late, Early
      <4> QED
        BY <1>5, <3>1, <4>1
    <3>2. CASE q # e.id
      BY <1>5, <1>6, <2>1, <3>2 DEF Life, SoFar
    <3> QED
      BY <3>1, <3>2
  <2>4. /\ "released" \in Heard(q)' => q \in left
        /\ "holdExceeded" \in Heard(q)' => q \in holdReported
    <3>1. CASE q = e.id
      BY <1>3, <1>5, <2>1, <3>1 DEF Fresh, Life, SoFar
    <3>2. CASE q # e.id
      BY <1>6, <2>1, <3>2 DEF Life, SoFar
    <3> QED
      BY <3>1, <3>2
  <2>5. CallSends(q)' /\ WaitSends(q)'
    BY <1>6, <2>1, <2>2 DEF CallSends, WaitSends
  <2>6. HoldSends(q)'
    <3>1. q = e.id => outbox["hold"][q] = <<>>
      BY <1>3 DEF Fresh
    <3> QED
      BY <1>5, <1>6, <2>1, <2>2, <3>1 DEF Life, HoldSends
  <2>7. ReleaseSends(q)'
    <3>1. q = e.id => outbox["release"][q] = <<>>
      BY <1>3 DEF Fresh
    <3>2. Len(<<>>) # 2
      OBVIOUS
    <3> QED
      BY <3>2, <1>5, <1>6, <2>1, <2>2, <3>1 DEF Life, ReleaseSends
  <2>8. SoFar(q)'
    <3>1. "acquired" \in Heard(q)'
      BY <1>6, <2>1
    <3> QED
      BY <1>5, <2>1, <2>2, <2>3, <2>4, <3>1 DEF Life, SoFar, Ends, Early
  <2>9. Noted(q)'
    <3>1. q \in holdReported' => \/ "holdExceeded" \in Heard(q)' \/ outbox'["hold"][q] # <<>>
                                 \/ Len(outbox'["release"][q]) = 2 \/ Posted(q, "holdExceeded")'
      <4>1. e.id = q /\ e.kind = "holdExceeded" => "holdExceeded" \in Heard(q)'
        BY <1>5
      <4> QED
        BY <1>5, <1>6, <1>9, <2>1, <4>1 DEF Life, Noted
    <3> QED
      BY <1>5, <1>6, <2>1, <2>2, <2>3, <3>1 DEF Life, Noted, Early
  <2> QED
    BY <2>5, <2>6, <2>7, <2>8, <2>9 DEF Life
<1>13. Mailed'
  <2> SUFFICES ASSUME NEW x \in Carriers, NEW i \in DOMAIN Mail(x)'
               PROVE  /\ Fresh(Mail(x)[i])'
                      /\ x # NoAttempt => Announced(Mail(x)[i].id)'
    BY DEF Mailed, Carriers
  <2> PICK f : f = Mail(x)'[i]
    OBVIOUS
  <2>1. At(x, i) \in DOMAIN Mail(x) /\ f = Mail(x)[At(x, i)] /\ (x = p => 1 < At(x, i))
    BY <1>8
  <2> HIDE DEF At
  <2>2. Fresh(f) /\ (x # NoAttempt => Announced(f.id)) /\ f.id \in Procs
    <3>1. Fresh(f) /\ (x # NoAttempt => Announced(f.id))
      BY <2>1 DEF EInv, Mailed
    <3> QED
      BY <1>0, <3>1 DEF Fresh, TypeOK
  <2>3. f.id = e.id => f.kind = "released" /\ e.kind = "holdExceeded"
    <3>1. 1 \in DOMAIN Mail(p) /\ Mail(p)[1] = e
      BY <1>2
    <3> SUFFICES ASSUME f.id = e.id PROVE f.kind = "released" /\ e.kind = "holdExceeded"
      OBVIOUS
    <3>2. /\ p = x
          /\ 1 < At(x, i) => Mail(p)[1].kind = "holdExceeded" /\ Mail(p)[At(x, i)].kind = "released"
      BY <1>0, <2>1, <3>1 DEF EInv, MailedOnce
    <3> QED
      BY <2>1, <3>1, <3>2
  <2>4. f.kind \notin Heard(f.id)' /\ "released" \notin Heard(f.id)'
    <3>1. CASE f.id = e.id
      BY <1>5, <2>2, <2>3, <3>1 DEF Fresh
    <3>2. CASE f.id # e.id
      BY <1>6, <2>2, <3>2 DEF Fresh
    <3> QED
      BY <3>1, <3>2
  <2>5. Fresh(f)' /\ (x # NoAttempt => Announced(f.id)')
    BY <1>5, <1>6, <2>2, <2>4 DEF Fresh
  <2> QED
    BY <2>5 DEF Fresh, Announced, Heard, Granted
<1>14. MailedOnce'
  <2> SUFFICES ASSUME NEW x \in Carriers, NEW y \in Carriers,
                      NEW i \in DOMAIN Mail(x)', NEW j \in DOMAIN Mail(y)',
                      Mail(x)'[i].id = Mail(y)'[j].id
               PROVE  /\ x = y
                      /\ i < j => /\ Mail(x)'[i].kind = "holdExceeded"
                                  /\ Mail(x)'[j].kind = "released"
    BY DEF MailedOnce, Carriers
  <2>1. /\ At(x, i) \in DOMAIN Mail(x) /\ Mail(x)'[i] = Mail(x)[At(x, i)]
        /\ x = p => i \in Nat
    BY <1>8
  <2>2. /\ At(y, j) \in DOMAIN Mail(y) /\ Mail(y)'[j] = Mail(y)[At(y, j)]
        /\ y = p => j \in Nat
    BY <1>8
  <2>3. x = y /\ i < j => At(x, i) < At(y, j)
    BY <2>1, <2>2
  <2> HIDE DEF At
  <2>4. /\ x = y
        /\ At(x, i) < At(y, j) => /\ Mail(x)[At(x, i)].kind = "holdExceeded"
                                  /\ Mail(x)[At(y, j)].kind = "released"
    BY <2>1, <2>2 DEF EInv, MailedOnce
  <2> QED
    BY <2>1, <2>2, <2>3, <2>4
<1>15. \A q \in Procs : Life(q)'
  BY <1>10, <1>12
<1> QED
  BY <1>13, <1>14, <1>15 DEF EInv

\* Whoever sends it, an event is told when all before it have been.
LEMMA OrderDeliver ==
  ASSUME EInv, OInv', NEW s \in Senders, NEW p \in Procs, Deliver(s, p)
  PROVE  EInv'
<1>1. CASE s \in {"wait", "hold"}
  BY <1>1, OrderDeliverReport
<1>2. CASE s = "release"
  BY <1>2, OrderDeliverRelease
<1>3. CASE s = "call"
  <2>1. outbox["call"][p] # <<>>
    BY <1>3 DEF Deliver
  <2>2. pc[p] \in {"announce", "deliver", "send"}
    BY <2>1 DEF EInv, OInv, PlacesTied
  <2>3. CASE pc[p] = "announce" \/ Concluding(p)
    BY <1>3, <2>3, OrderDeliverCall
  <2>4. CASE pc[p] = "send" /\ Granted(p)
    BY <1>3, <2>4, OrderDeliverMail
  <2> QED
    BY <2>2, <2>3, <2>4 DEF Concluding
<1> QED
  BY <1>1, <1>2, <1>3 DEF Senders

-----------------------------------------------------------------------------
(* The invariant and what follows from it. *)

\* Every step of the lock, its callers and its callbacks keeps the events in order.
LEMMA OrderStep ==
  EInv /\ [Next]_vars => EInv'
<1> SUFFICES ASSUME EInv, [Next]_vars
             PROVE  EInv'
  OBVIOUS
<1>1. OInv /\ OInv'
  BY StepPreserves DEF EInv
<1>2. CASE UNCHANGED vars
  <2>1. UNCHANGED <<core, pending, pc, want, left, outbox, seen, waitLong, holdLong,
                    waitTimer, waitReported, holdTimer, holdReported>>
    BY <1>2 DEF vars, coreVars, callVars, leaveVars, clockVars, waitVars, sendVars
  <2>2. \A q \in Procs : Life(q) /\ LeftAlone(q)
    BY <2>1 DEF EInv, LeftAlone, Undisturbed
  <2>3. \A x \in Carriers : Mail(x)' = Mail(x)
    BY <2>1 DEF Mail, Granted
  <2>4. \A q, k : Posted(q, k)' <=> Posted(q, k)
    BY <2>3 DEF Posted
  <2>5. \A q \in Procs : Life(q)'
    BY <1>1, <2>2, <2>4, KeptLife
  <2>6. MailedOnce'
    BY <2>3 DEF EInv, MailedOnce
  <2>7. Mailed'
    BY <2>1, <2>3 DEF EInv, Mailed, Fresh, Announced, Granted, Heard
  <2> QED
    BY <1>1, <2>5, <2>6, <2>7 DEF EInv
<1>3. ASSUME NEW p \in Procs, Start(p)
      PROVE  EInv'
  <2>1. PICK r \in Requests : \/ AcquireAtOnce(p, r[1], r[2]) \/ AcquireWait(p, r[1], r[2])
                              \/ TrySucceed(p, r[1], r[2])
    BY <1>3 DEF Start
  <2>2. r[1] \in Modes /\ r[2] \in BOOLEAN
    BY <2>1, ObserverAssumption
  <2>3. CASE AcquireAtOnce(p, r[1], r[2])
    BY <1>1, <1>3, <2>2, <2>3, OrderImmediately, EngineSound, ServedServes DEF AcquireAtOnce
  <2>4. CASE AcquireWait(p, r[1], r[2])
    BY <1>1, <1>3, <2>2, <2>4, OrderAcquireWait
  <2>5. CASE TrySucceed(p, r[1], r[2])
    <3>1. Serves(core, core, {})
      BY <1>1, EngineSound DEF Serves
    <3> QED
      BY <1>1, <1>3, <2>2, <2>5, <3>1, OrderImmediately DEF TrySucceed
  <2> QED
    BY <2>1, <2>3, <2>4, <2>5
<1>4. ASSUME NEW p \in Procs, Step(p)
      PROVE  EInv'
  <2>1. CASE Refuse(p, "rejected") \/ Refuse(p, "tryFailed")
    BY <1>1, <1>4, <2>1, OrderRefuse
  <2>2. CASE \/ Expire(p) \/ WaitElapses(p) \/ HoldElapses(p)
             \/ WaitFires(p) \/ HoldFires(p) \/ FindHold(p)
    BY <1>1, <1>4, <2>2, OrderClockSteps
  <2>3. CASE CheckWait(p)
    BY <1>1, <1>4, <2>3, OrderCheckWait
  <2>4. CASE CheckHold(p)
    BY <1>1, <1>4, <2>4, OrderCheckHold
  <2>5. CASE Wake(p)
    BY <1>1, <1>4, <2>5, OrderWake
  <2>6. CASE GiveUp(p)
    BY <1>1, <1>4, <2>6, OrderGiveUp
  <2>7. CASE FinishWait(p)
    BY <1>1, <1>4, <2>7, OrderFinishWait
  <2>8. CASE Complete(p)
    BY <1>1, <1>4, <2>8, OrderComplete
  <2>9. CASE ReleaseLock(p)
    BY <1>1, <1>4, <2>9, OrderRelease
  <2>10. CASE Recycle(p)
    BY <1>1, <1>4, <2>10, OrderRecycle
  <2> QED
    BY <1>4, <2>1, <2>2, <2>3, <2>4, <2>5, <2>6, <2>7, <2>8, <2>9, <2>10 DEF Step
<1>5. ASSUME NEW p \in Procs, NEW s \in Senders, Deliver(s, p)
      PROVE  EInv'
  BY <1>1, <1>5, OrderDeliver
<1> QED
  BY <1>2, <1>3, <1>4, <1>5 DEF Next

\* What the theorems below rest on.
LEMMA OrderInvariant == Spec => []EInv
<1> QED
  BY OrderInitially, OrderStep, PTL DEF Spec

\* A late event is heard of an attempt that had the lock and said so.
LEMMA LateAfterAcquired ==
  ASSUME EInv, NEW p \in Procs, NEW k \in Late, k \in Heard(p)
  PROVE  "acquired" \in Heard(p)
<1>1. Life(p) /\ pc[p] \in Places
  BY DEF EInv, OInv, TypeOK
<1>2. Granted(p)
  BY <1>1 DEF Life, SoFar, Noted, Late
<1>3. k \notin Early /\ Heard(p) # {}
  BY DEF Late, Early
<1>4. pc[p] \notin {"idle", "announce", "select", "finish", "deliver"}
  BY <1>1, <1>3 DEF Life, SoFar, Concluding
<1>5. Announced(p)
  BY <1>1, <1>2, <1>4 DEF Places, Announced
<1> QED
  BY <1>1, <1>5 DEF Life, SoFar

\* The observer hears of the life of every attempt in the order in which it is lived and
\* of nothing twice, however calls, releases and timers run into each other: reportMu,
\* holdReport and pendingEvents of rwCore leave each event to one sender, and only after
\* those before it.
THEOREM EventsInOrder == Spec => []EventOrder
<1>1. ASSUME EInv PROVE EventOrder
  <2> SUFFICES ASSUME NEW p \in Procs
               PROVE  /\ Ascending(seen[p])
                      /\ \A k \in Heard(p) :
                           /\ k = "waitExceeded" => "waitStarted" \in Heard(p)
                           /\ Stage(k) > 3 => "acquired" \in Heard(p)
                      /\ pc[p] = "back" => \E k \in Heard(p) : Stage(k) = 3
    BY DEF EventOrder, Ascending, Heard
  <2>1. Life(p)
    BY <1>1 DEF EInv
  <2>2. ASSUME NEW k \in Heard(p), Stage(k) > 3
        PROVE  k \in Late
    <3>1. seen[p] \in Seq(Kinds)
      BY <1>1 DEF EInv, OInv, TypeOK
    <3>2. k \in Kinds
      BY <3>1 DEF Heard, Elems
    <3>3. \A j \in Early \union Ends : Stage(j) \in {1, 2, 3}
      BY Stages DEF Early
    <3> QED
      BY <2>2, <3>2, <3>3, Stages
  <2>3. \A k \in Heard(p) : Stage(k) > 3 => "acquired" \in Heard(p)
    BY <1>1, <2>2, LateAfterAcquired
  <2>4. pc[p] = "back" => \E k \in Heard(p) : Stage(k) = 3
    BY <2>1, Stages DEF Life, SoFar
  <2> QED
    BY <2>1, <2>3, <2>4 DEF Life, SoFar
<1> QED
  BY <1>1, OrderInvariant, PTL

\* A threshold that passed is reported although its timer never ran: the end of the wait
\* or the release makes up for it, and before it says anything else.
THEOREM ReportsMade == Spec => []ThresholdsReported
<1>1. ASSUME EInv PROVE ThresholdsReported
  <2> SUFFICES ASSUME NEW p \in Procs
               PROVE  /\ Heard(p) \intersect {"acquired", "rejected"} # {} /\ p \in waitLong
                           => "waitExceeded" \in Heard(p)
                      /\ "released" \in Heard(p) /\ p \in holdLong
                           => "holdExceeded" \in Heard(p)
    BY DEF ThresholdsReported, Heard
  <2>1. Life(p)
    BY <1>1 DEF EInv
  <2>2. ASSUME Heard(p) \intersect {"acquired", "rejected"} # {}, p \in waitLong
        PROVE  "waitExceeded" \in Heard(p)
    <3>1. ~(Heard(p) \subseteq Early) /\ Heard(p) # {} /\ Heard(p) # {"waitStarted"}
      BY <2>2 DEF Early
    <3>2. pc[p] \notin {"announce", "select", "finish"} /\ ~Concluding(p)
      BY <2>1, <3>1 DEF Life, SoFar
    <3>3. outbox["wait"][p] = <<>> /\ p \in waitReported
      BY <2>1, <2>2, <3>2 DEF Life, WaitSends, Noted
    <3> QED
      BY <2>1, <3>2, <3>3 DEF Life, Noted
  <2>3. ASSUME "released" \in Heard(p), p \in holdLong
        PROVE  "holdExceeded" \in Heard(p)
    <3>1. p \in left /\ p \in holdReported
      BY <2>1, <2>3 DEF Life, SoFar, Noted
    <3>2. outbox["hold"][p] = <<>> /\ outbox["release"][p] = <<>>
      BY <2>1, <2>3, <3>1 DEF Life, HoldSends, ReleaseSends
    <3>3. Len(outbox["release"][p]) # 2
      BY <3>2
    <3>4. ~Posted(p, "holdExceeded")
      BY <1>1, <2>3 DEF EInv, Mailed, Fresh, Posted
    <3> QED
      BY <2>1, <3>1, <3>2, <3>3, <3>4 DEF Life, Noted
  <2> QED
    BY <2>2, <2>3
<1> QED
  BY <1>1, OrderInvariant, PTL

=============================================================================
