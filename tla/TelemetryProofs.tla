-------------------------- MODULE TelemetryProofs --------------------------
(* What the observers of Telemetry show, for every number of attempts and   *)
(* of locks that take the name.                                             *)
EXTENDS Telemetry, ObservedRWMutexProofs

-----------------------------------------------------------------------------
(* The version does not wrap *)

\* What an engine may still count before everybody in it has left: each waiter is granted
\* or rejected, and each owner leaves.
Ahead(c) == Clients(c) + Len(c.waiters)

\* The engine is where ObservedRWMutex has it, whichever lock it is, with room for the
\* changes to come.
LockInv ==
  /\ EInv /\ EngineTied
  /\ lockID \in 1..MaxLocks
  /\ core.version + Ahead(core) < VersionModulus

LEMMA AheadType ==
  ASSUME NEW c \in Core
  PROVE  Ahead(c) \in Nat /\ Clients(c) \in Nat /\ Len(c.waiters) \in Nat /\ c.version \in Nat
<1>1. Clients(c) \in Nat /\ Len(c.waiters) \in Nat
  BY ClientsType DEF Core
<1>2. c.version \in Nat
  BY CoreAssumption DEF Core
<1> QED
  BY <1>1, <1>2 DEF Ahead

\* Two sets without a common element.
LEMMA ApartCounted ==
  ASSUME NEW S, NEW T, IsFiniteSet(S), IsFiniteSet(T), S \intersect T = {}
  PROVE  /\ IsFiniteSet(S \union T)
         /\ Cardinality(S \union T) = Cardinality(S) + Cardinality(T)
<1>1. Cardinality(S \intersect T) = 0
  BY FS_EmptySet
<1>2. /\ IsFiniteSet(S \union T)
      /\ Cardinality(S \union T)
           = Cardinality(S) + Cardinality(T) - Cardinality(S \intersect T)
  BY FS_Union
<1>3. Cardinality(S) \in Nat /\ Cardinality(T) \in Nat
  BY FS_CardinalityType
<1> QED
  BY <1>1, <1>2, <1>3

\* Whoever is neither owner nor waiter leaves room for one.
LEMMA ClientsAreProcs ==
  ASSUME NEW c, NEW place, NEW w, Tied(c, place, w), NEW p \in Procs, OutOfIt(c, place, p)
  PROVE  Clients(c) + 1 <= Cardinality(Procs)
<1> DEFINE R == ReadersIn(c, place, w)
           W == WritersIn(c, place, w)
           Q == QueuedIn(c, place)
<1>1. /\ Typed(c, place, w) /\ LedgerTied(c, place, w) /\ Exclusive(c, place, w)
      /\ Len(c.waiters) = Cardinality(Q) /\ c.writer \in BOOLEAN
  BY QueueLengthIn DEF Tied, Typed, Core
<1>2. /\ R \subseteq Procs \ {p} /\ W \subseteq Procs \ {p} /\ Q \subseteq Procs \ {p}
      /\ R \intersect W = {} /\ R \intersect Q = {} /\ W \intersect Q = {}
  BY DEF ReadersIn, WritersIn, QueuedIn, OwnsIn, OutOfIt
<1>3. c.readers = Cardinality(R) /\ (c.writer <=> W # {}) /\ \A q, r \in W : q = r
  BY <1>1 DEF LedgerTied, Exclusive
<1> HIDE DEF R, W, Q
<1>4. IsFiniteSet(Procs \ {p}) /\ Cardinality(Procs \ {p}) = Cardinality(Procs) - 1
      /\ Cardinality(Procs) \in Nat
  BY CoreAssumption, FS_RemoveElement, FS_CardinalityType
<1>5. /\ IsFiniteSet(R) /\ IsFiniteSet(W) /\ IsFiniteSet(Q)
      /\ Cardinality(R) \in Nat /\ Cardinality(W) \in Nat /\ Cardinality(Q) \in Nat
  BY <1>2, <1>4, FS_Subset, FS_CardinalityType
<1>6. Cardinality(W) = IF c.writer THEN 1 ELSE 0
  <2>1. CASE W = {}
    BY <1>3, <2>1, FS_EmptySet
  <2>2. CASE W # {}
    <3>1. PICK q \in W : TRUE
      BY <2>2
    <3>2. W = {q}
      BY <1>3, <3>1
    <3> QED
      BY <1>3, <2>2, <3>2, FS_Singleton
  <2> QED
    BY <2>1, <2>2
<1>7. IsFiniteSet(R \union W) /\ Cardinality(R \union W) = Cardinality(R) + Cardinality(W)
  BY <1>2, <1>5, ApartCounted
<1>8. Cardinality((R \union W) \union Q) = Cardinality(R \union W) + Cardinality(Q)
  <2>1. (R \union W) \intersect Q = {}
    BY <1>2
  <2> QED
    BY <1>5, <1>7, <2>1, ApartCounted
<1>9. Cardinality((R \union W) \union Q) <= Cardinality(Procs \ {p})
  BY <1>2, <1>4, FS_Subset
<1> QED
  BY <1>1, <1>3, <1>4, <1>5, <1>6, <1>7, <1>8, <1>9 DEF Clients

\* A service of the queue leaves no more ahead than there was.
LEMMA ServiceAhead ==
  ASSUME NEW c \in Core, NEW d \in Core, Shrinks(c, d)
  PROVE  \E n \in Nat : Ticks(c, d, n) /\ n + Ahead(d) <= Ahead(c)
<1>1. PICK n \in Nat : Ticks(c, d, n) /\ n + Len(d.waiters) <= Len(c.waiters)
  BY DEF Shrinks
<1>2. Clients(d) <= Clients(c)
  BY DEF Shrinks
<1>3. Clients(c) \in Nat /\ Clients(d) \in Nat /\ Len(c.waiters) \in Nat /\ Len(d.waiters) \in Nat
  BY AheadType
<1>4. n + Ahead(d) <= Ahead(c)
  BY <1>1, <1>2, <1>3 DEF Ahead
<1> QED
  BY <1>1, <1>4

\* A step of an attempt that is under way.
LEMMA StepTicks ==
  ASSUME LockInv, NEW p \in Procs, Step(p), core' \in Core
  PROVE  \E n \in Nat : Ticks(core, core', n) /\ n + Ahead(core') <= Ahead(core)
<1>1. /\ core \in Core /\ Sound(core) /\ Tied(core, Standing, want) /\ want \in [Procs -> Waiter]
      /\ OInv
  BY EngineSound DEF LockInv, EInv, EngineTied, OInv, TypeOK
<1>2. Ahead(core) \in Nat /\ core.version \in Nat /\ VersionModulus \in Nat
      /\ Clients(core) \in Nat /\ Len(core.waiters) \in Nat
  BY <1>1, AheadType, CoreAssumption
<1>3. ASSUME core' = core \/ \E v : core' = [core EXCEPT !.verdict = v]
      PROVE  \E n \in Nat : Ticks(core, core', n) /\ n + Ahead(core') <= Ahead(core)
  <2>1. Counts(core') = Counts(core) /\ core'.version = core.version
        /\ Clients(core') = Clients(core) /\ core'.waiters = core.waiters
    BY <1>1, <1>3, VerdictsUncounted, ZenonT(60)
  <2>2. Ahead(core') = Ahead(core) /\ core.version \in 0..(VersionModulus - 1)
    BY <1>1, <2>1 DEF Ahead, Core
  <2>3. Ticks(core, core', 0) /\ 0 + Ahead(core') <= Ahead(core)
    BY <1>2, <2>1, <2>2 DEF Ticks, Later
  <2> QED
    BY <2>3
<1>4. CASE GiveUp(p)
  <2>1. core' = CancelWaiter(core, p, dead) /\ pc[p] = "select"
    BY <1>4 DEF GiveUp, Advance
  <2>2. CASE core.verdict[p] # "none"
    <3>1. core' = core
      BY <2>1, <2>2 DEF CancelWaiter
    <3> QED
      BY <1>3, <3>1
  <2>3. CASE core.verdict[p] = "none"
    <3>1. p \in QueuedIn(core, Standing)
      <4>1. p \notin left
        BY <2>3 DEF LockInv, EngineTied
      <4> QED
        BY <2>1, <2>3, <4>1, StandingOf DEF QueuedIn
    <3>2. want[p] \in Elems(core.waiters)
      BY <1>1, <3>1, QueueEntries DEF Tied
    <3>3. Len(core.waiters) # 0
      BY <1>1, <3>2 DEF Elems, Core
    <3>4. 1 < VersionModulus
      BY <1>2, <3>3 DEF LockInv, Ahead
    <3>5. Shrinks(core, core')
      BY <1>1, <2>1, <3>4, CancelWaiterShrinks
    <3> QED
      BY <1>1, <3>5, ServiceAhead
  <2> QED
    BY <2>2, <2>3
<1>5. CASE ReleaseLock(p)
  <2> DEFINE mode == want[p].mode
             attempt == IF want[p].guarded THEN p ELSE NoAttempt
  <2>1. core' = Release(core, mode, attempt, dead) /\ ReleaseMatches(core, mode, attempt)
    BY <1>5 DEF ReleaseLock, Leave, Advance, Relinquished
  <2>2. mode \in Modes
    BY <1>1 DEF Waiter
  <2> HIDE DEF mode, attempt
  <2>3. 1 < VersionModulus
    <3>1. Clients(core) # 0
      BY <1>1, <2>1 DEF ReleaseMatches, Clients, Core
    <3> QED
      BY <1>2, <3>1 DEF LockInv, Ahead
  <2>4. Clients(core') + 1 <= Clients(core)
    BY <1>1, <2>1, <2>2, <2>3, ReleaseTicks
  <2>5. PICK n \in Nat : Ticks(core, core', n + 1) /\ n + Len(core'.waiters) <= Len(core.waiters)
    BY <1>1, <2>1, <2>2, <2>3, ReleaseTicks
  <2>6. Clients(core') \in Nat /\ Len(core'.waiters) \in Nat
    BY AheadType
  <2>7. n + 1 \in Nat /\ (n + 1) + Ahead(core') <= Ahead(core)
    BY <1>2, <2>4, <2>5, <2>6 DEF Ahead
  <2> QED
    BY <2>5, <2>7
<1>6. CASE Recycle(p)
  <2>1. \E v : core' = [core EXCEPT !.verdict = v]
    BY <1>6 DEF Recycle
  <2> QED
    BY <1>3, <2>1
<1>7. CASE \/ Refuse(p, "rejected") \/ Refuse(p, "tryFailed")
           \/ Expire(p) \/ Wake(p) \/ FinishWait(p) \/ Complete(p)
           \/ WaitElapses(p) \/ WaitFires(p) \/ CheckWait(p)
           \/ HoldElapses(p) \/ HoldFires(p) \/ FindHold(p) \/ CheckHold(p)
  <2>1. core' = core
    BY <1>7 DEF Refuse, Expire, Wake, FinishWait, Complete, WaitElapses, WaitFires, CheckWait,
                HoldElapses, HoldFires, FindHold, CheckHold, coreVars
  <2> QED
    BY <1>3, <2>1
<1> QED
  BY <1>4, <1>5, <1>6, <1>7 DEF Step

\* A call that goes ahead stays below the bound of Room.
LEMMA StartTicks ==
  ASSUME LockInv, Room, NEW p \in Procs, Start(p), core' \in Core
  PROVE  \E n \in Nat : Ticks(core, core', n) /\ core.version + n + Ahead(core') < VersionModulus
<1>0. /\ core \in Core /\ Sound(core) /\ Tied(core, Standing, want) /\ pc[p] = "idle"
      /\ OInv /\ EngineTied
  BY EngineSound DEF LockInv, EInv, EngineTied, OInv, TypeOK, Start, AcquireAtOnce, AcquireWait,
     TrySucceed, Immediately
<1>1. /\ Ahead(core) \in Nat /\ core.version \in Nat /\ VersionModulus \in Nat
      /\ Clients(core) \in Nat /\ Len(core.waiters) \in Nat /\ Cardinality(Procs) \in Nat
  BY <1>0, AheadType, CoreAssumption, FS_CardinalityType
<1>2. Standing[p] = "idle"
  BY <1>0, StandingOf DEF OInv, PlacesTied, EngineTied
<1>3. Clients(core) + 1 <= Cardinality(Procs)
  <2>1. OutOfIt(core, Standing, p)
    BY <1>2 DEF OutOfIt
  <2> QED
    BY <1>0, <2>1, ClientsAreProcs
<1>4. Len(core.waiters) <= Clients(core)
  BY <1>0, <1>1 DEF Clients, Core
<1>5. 1 < VersionModulus
  BY <1>1, <1>3 DEF Room
<1>6. PICK r \in Requests : \/ AcquireAtOnce(p, r[1], r[2]) \/ AcquireWait(p, r[1], r[2])
                            \/ TrySucceed(p, r[1], r[2])
  BY DEF Start
<1> DEFINE m == r[1]
           g == r[2]
           x == Attempt(p, m, g)
<1>7. m \in Modes /\ g \in BOOLEAN /\ x \in Waiter /\ x.mode = m
  BY <1>6, ObserverAssumption DEF Attempt, Waiter
<1>8. Served \in Core /\ Shrinks(core, Served)
  <2>1. Served \in Core
    BY <1>0, ServedTied DEF Tied, Typed
  <2>2. Shrinks(core, Served)
    BY <1>0, <1>5, ShrinksNothing, GrantWaitersShrinks DEF Served
  <2> QED
    BY <2>1, <2>2
<1>9. PICK i \in Nat : Ticks(core, Served, i) /\ i + Ahead(Served) <= Ahead(core)
  BY <1>0, <1>8, ServiceAhead
<1>10. /\ Clients(Served) \in Nat /\ Len(Served.waiters) \in Nat /\ Ahead(Served) \in Nat
       /\ Clients(core') \in Nat /\ Len(core'.waiters) \in Nat /\ Ahead(core') \in Nat
  BY <1>8, AheadType
<1>11. ASSUME Ticks(Served, core', 1), Clients(core') <= Clients(Served) + 1,
              Len(core'.waiters) <= Len(Served.waiters) + 1
       PROVE  \E n \in Nat : /\ Ticks(core, core', n)
                             /\ core.version + n + Ahead(core') < VersionModulus
  <2>1. Ticks(core, core', i + 1)
    BY <1>0, <1>9, <1>11, TicksTransitive
  <2>2. Ahead(core') <= Ahead(Served) + 2
    BY <1>10, <1>11 DEF Ahead
  <2>3. Ahead(core) + 2 <= 2 * Cardinality(Procs)
    BY <1>1, <1>3, <1>4 DEF Ahead
  <2>4. core.version + (i + 1) + Ahead(core') < VersionModulus
    <3> DEFINE k == Cardinality(Procs)
               v == core.version
               a == Ahead(core)
               b == Ahead(Served)
               d == Ahead(core')
    <3>1. k \in Nat /\ k >= 1 /\ v + 3 * k < VersionModulus
      BY <1>1, <1>3 DEF Room
    <3>2. a + 2 <= 2 * k /\ i + b <= a /\ d <= b + 2
      BY <1>9, <2>2, <2>3
    <3>3. v \in Nat /\ a \in Nat /\ b \in Nat /\ d \in Nat /\ VersionModulus \in Nat
      BY <1>1, <1>10
    <3> HIDE DEF k, v, a, b, d
    <3>4. v + (i + 1) + d < VersionModulus
      BY <3>1, <3>2, <3>3
    <3> QED
      BY <3>4 DEF v, d
  <2> QED
    BY <2>1, <2>4
<1>12. ASSUME core' = [Grant(Served, x) EXCEPT !.verdict = [@ EXCEPT ![p] = "granted"]],
              CanAcquireImmediately(Served, m)
       PROVE  \E n \in Nat : /\ Ticks(core, core', n)
                             /\ core.version + n + Ahead(core') < VersionModulus
  <2> DEFINE a == Grant(Served, x)
             v == [a.verdict EXCEPT ![p] = "granted"]
  <2>1. a \in Core
    BY <1>7, <1>8, GrantKeepsQueue
  <2>2. /\ Ticks(Served, a, 1) /\ Clients(a) <= Clients(Served) + 1
        /\ Len(a.waiters) = Len(Served.waiters)
    BY <1>5, <1>7, <1>8, <1>12, GrantTicks DEF CanAcquireImmediately
  <2>3. core' = [a EXCEPT !.verdict = v]
    BY <1>12
  <2> HIDE DEF a, v
  <2>4. /\ Counts(core') = Counts(a) /\ core'.version = a.version
        /\ Clients(core') = Clients(a) /\ core'.waiters = a.waiters
    BY <2>1, <2>3, VerdictsUncounted
  <2>5. Ticks(Served, core', 1)
    BY <2>2, <2>4 DEF Ticks
  <2> QED
    BY <1>10, <1>11, <2>2, <2>4, <2>5
<1>13. CASE AcquireAtOnce(p, m, g)
  BY <1>12, <1>13 DEF AcquireAtOnce, Immediately, Advance
<1>14. CASE TrySucceed(p, m, g)
  <2>1. AcquireAtOnce(p, m, g)
    BY <1>14, TryIsAtOnce
  <2> QED
    BY <1>12, <2>1 DEF AcquireAtOnce, Immediately, Advance
<1>15. CASE AcquireWait(p, m, g)
  <2>1. core' = Enqueue(Served, x)
    BY <1>15 DEF AcquireWait, Advance
  <2>2. /\ Ticks(Served, core', 1) /\ Clients(core') <= Clients(Served) + 1
        /\ Len(core'.waiters) = Len(Served.waiters) + 1
    BY <1>5, <1>7, <1>8, <2>1, EnqueueTicks
  <2> QED
    BY <1>10, <1>11, <2>2
<1> QED
  BY <1>6, <1>13, <1>14, <1>15

\* The lock counts on: a version that stays stands for the same counts.
Onward ==
  /\ lockID' = lockID
  /\ core'.version >= core.version
  /\ core'.version = core.version => Counts(core') = Counts(core)

LEMMA CountedOnward ==
  ASSUME LockInv, core' \in Core, lockID' = lockID, NEW n \in Nat, Ticks(core, core', n),
         core.version + n + Ahead(core') < VersionModulus
  PROVE  Onward /\ core'.version + Ahead(core') < VersionModulus
<1>1. core \in Core
  BY DEF LockInv, EInv, OInv, TypeOK
<1>2. core.version \in Nat /\ Ahead(core') \in Nat /\ VersionModulus \in Nat
  BY <1>1, AheadType, CoreAssumption
<1>3. core'.version = core.version + n
  BY <1>2 DEF Ticks, Later
<1> QED
  BY <1>2, <1>3 DEF Onward, Ticks

\* A step of the lock, whatever the observers make of the events.
LEMMA LockStep ==
  ASSUME LockInv, NEW p \in Procs,
         \/ Room /\ Start(p)
         \/ Step(p)
         \/ \E s \in Senders : Deliver(s, p)
  PROVE  LockInv' /\ Onward
<1>1. Next
  BY DEF Next
<1>2. EInv' /\ EngineTied' /\ core' \in Core /\ core \in Core
  <2>1. EInv /\ OInv /\ EngineTied
    BY DEF LockInv, EInv
  <2>2. OInv' /\ EInv' /\ EngineTied'
    BY <1>1, <2>1, StepPreserves, OrderStep, StepTied
  <2> QED
    BY <2>1, <2>2 DEF OInv, TypeOK
<1>3. lockID' = lockID
  BY DEF Start, Step, Deliver, AcquireAtOnce, AcquireWait, TrySucceed, Immediately, Advance,
         Refuse, Expire, Wake, GiveUp, FinishWait, Complete, ReleaseLock, Leave, WaitElapses,
         WaitFires, CheckWait, HoldElapses, HoldFires, FindHold, CheckHold, Recycle, coreVars
<1>4. \E n \in Nat : /\ Ticks(core, core', n)
                     /\ core.version + n + Ahead(core') < VersionModulus
  <2>1. CASE Room /\ Start(p)
    BY <1>2, <2>1, StartTicks
  <2>2. ASSUME NEW n \in Nat, Ticks(core, core', n), n + Ahead(core') <= Ahead(core)
        PROVE  core.version + n + Ahead(core') < VersionModulus
    <3>1. /\ core.version \in Nat /\ VersionModulus \in Nat
          /\ Ahead(core) \in Nat /\ Ahead(core') \in Nat
      BY <1>2, AheadType, CoreAssumption
    <3> QED
      BY <2>2, <3>1 DEF LockInv
  <2>3. CASE Step(p)
    BY <1>2, <2>2, <2>3, StepTicks
  <2>4. CASE \E s \in Senders : Deliver(s, p)
    <3>1. core' = core
      BY <2>4 DEF Deliver, coreVars
    <3>2. core.version \in 0..(VersionModulus - 1) /\ Ahead(core') \in Nat
      BY <1>2, AheadType DEF Core
    <3>3. Ticks(core, core', 0) /\ 0 + Ahead(core') <= Ahead(core)
      BY <3>1, <3>2, CoreAssumption DEF Ticks, Later
    <3> QED
      BY <2>2, <3>3
  <2> QED
    BY <2>1, <2>3, <2>4
<1> QED
  BY <1>2, <1>3, <1>4, CountedOnward DEF LockInv

\* A lock that is retired has neither owners nor waiters.
LEMMA RetiredIsFree ==
  ASSUME LockInv, Retired
  PROVE  /\ Counts(core) = Counts(InitialCore) /\ core.waiters = <<>>
         /\ \A p \in Procs : ~OwnsIn(core, Standing, p) /\ p \notin QueuedIn(core, Standing)
<1>1. /\ core \in Core /\ Tied(core, Standing, want) /\ ~core.cancelled
  BY DEF LockInv, EngineTied, EInv, OInv, TypeOK
<1>2. \A p \in Procs : ~OwnsIn(core, Standing, p) /\ p \notin QueuedIn(core, Standing)
  BY StandingOf DEF Retired, OwnsIn, QueuedIn, Owns, LockInv, EngineTied
<1>3. core.waiters = <<>>
  <2>1. Elems(core.waiters) = {}
    BY <1>1, <1>2 DEF Tied, QueueTied, QueuedIn
  <2>2. core.waiters \in Seq(Waiter)
    BY <1>1 DEF Core
  <2>3. ASSUME Len(core.waiters) # 0 PROVE FALSE
    <3>1. 1 \in DOMAIN core.waiters
      BY <2>2, <2>3
    <3>2. core.waiters[1] \in Elems(core.waiters)
      BY <3>1 DEF Elems
    <3> QED
      BY <2>1, <3>2
  <2> QED
    BY <2>2, <2>3, EmptySeq
<1>4. core.readers = 0 /\ core.writer = FALSE
  <2>1. ReadersIn(core, Standing, want) = {} /\ WritersIn(core, Standing, want) = {}
    BY <1>2 DEF ReadersIn, WritersIn
  <2>2. core.writer \in BOOLEAN
    BY <1>1 DEF Core
  <2> QED
    BY <1>1, <2>1, <2>2, FS_EmptySet DEF Tied, LedgerTied
<1>5. core.cancelled = FALSE
  BY <1>1 DEF Core
<1>6. Counts(core) = Counts(InitialCore)
  BY <1>3, <1>4, <1>5, CountsKept, <1>1 DEF InitialCore, Counts
<1> QED
  BY <1>2, <1>3, <1>6

\* A lock that has just been given the name is as sound as the one before it was.
LEMMA ReplaceKeepsLock ==
  ASSUME LockInv, Replace
  PROVE  LockInv' /\ core'.version = 0 /\ core'.waiters = <<>>
         /\ Counts(core') = Counts(InitialCore)
<1>0. EInv /\ OInv /\ TypeOK /\ EngineTied /\ core \in Core
  BY DEF LockInv, EInv, OInv, TypeOK
<1>1. /\ Retired /\ lockID < MaxLocks /\ lockID' = lockID + 1
      /\ core' = [InitialCore EXCEPT !.verdict = core.verdict]
      /\ UNCHANGED <<undelivered, pending, holdTimer, pc, want, dead, left, holdReported,
                     waitLong, holdLong, waitTimer, waitReported, outbox, seen>>
  BY DEF Replace, callVars, leaveVars, clockVars, waitVars, sendVars
<1>2. InitialCore \in Core
  BY CoreAssumption, EmptySeq DEF InitialCore, Core, Verdicts
<1>3. /\ core' \in Core /\ core'.verdict = core.verdict /\ core'.waiters = <<>>
      /\ core'.readers = 0 /\ core'.writer = FALSE /\ core'.guardedReaders = {}
      /\ core'.cancelled = FALSE /\ core'.version = 0
  <2>1. core.verdict \in [Procs -> Verdicts]
    BY <1>0 DEF Core
  <2> QED
    BY <1>1, <1>2, <2>1 DEF InitialCore, Core
<1>4. Counts(core') = Counts(InitialCore)
  <2>1. /\ InitialCore.waiters = <<>> /\ InitialCore.readers = 0
        /\ InitialCore.writer = FALSE /\ InitialCore.cancelled = FALSE
    BY DEF InitialCore
  <2> QED
    BY <1>2, <1>3, <2>1, CountsKept
<1>5. OInv'
  <2>1. TypeOK'
    BY <1>0, <1>1, <1>3 DEF TypeOK
  <2>2. PlacesTied'
    <3>1. Distinct(<<>>) /\ Ids(<<>>) = {}
      BY DEF Distinct, Ids, Elems
    <3> QED
      BY <1>0, <1>1, <1>3, <3>1 DEF OInv, PlacesTied
  <2>3. DeliveriesCounted' /\ NothingStranded'
    BY <1>0, <1>1, <1>3 DEF OInv, DeliveriesCounted, NothingStranded
  <2> QED
    BY <2>1, <2>2, <2>3 DEF OInv
<1>6. \A q \in Procs : LeftAlone(q)
  BY <1>1, <1>3 DEF LeftAlone, Undisturbed
<1>7. \A x \in Carriers : Mail(x)' = Mail(x)
  BY <1>1, <1>3 DEF Mail, Granted
<1>8. EInv'
  <2>1. \A q \in Procs : Life(q)'
    BY <1>0, <1>6, <1>7, KeptLife DEF EInv, Posted
  <2>2. MailedOnce'
    BY <1>0, <1>7 DEF EInv, MailedOnce
  <2>3. Mailed'
    <3>1. \A e : (Fresh(e)' <=> Fresh(e)) /\ (Announced(e.id)' <=> Announced(e.id))
      BY <1>1, <1>3 DEF Fresh, Announced, Granted, Heard
    <3> QED
      BY <1>0, <1>7, <3>1 DEF EInv, Mailed
  <2> QED
    BY <1>5, <2>1, <2>2, <2>3 DEF EInv
<1>9. Standing' = Standing
  BY <1>1, <1>3 DEF Standing
<1>10. EngineTied'
  <2>1. Tied(core, Standing, want)
    BY <1>0 DEF EngineTied
  <2>2. \A p \in Procs : OwnsIn(core', Standing, p) <=> OwnsIn(core, Standing, p)
    BY <1>3 DEF OwnsIn
  <2>3. /\ ReadersIn(core', Standing, want) = {} /\ WritersIn(core', Standing, want) = {}
        /\ QueuedIn(core', Standing) = {}
    BY <1>1, <1>3, <2>2, RetiredIsFree DEF ReadersIn, WritersIn, QueuedIn
  <2>4. Typed(core', Standing, want)
    BY <1>3, <2>1 DEF Tied, Typed
  <2>5. QueueTied(core', Standing, want)
    <3>1. Distinct(<<>>) /\ Elems(<<>>) = {}
      BY DEF Distinct, Elems
    <3> QED
      BY <1>3, <2>3, <3>1 DEF QueueTied
  <2>6. LedgerTied(core', Standing, want) /\ Exclusive(core', Standing, want)
    BY <1>3, <2>3, FS_EmptySet DEF LedgerTied, Exclusive
  <2>7. Tied(core', Standing, want) /\ ~HeadCompatible(core')
    BY <1>3, <2>4, <2>5, <2>6 DEF Tied, HeadCompatible
  <2> QED
    BY <1>0, <1>1, <1>3, <1>9, <2>7 DEF EngineTied
<1>11. lockID' \in 1..MaxLocks
  BY <1>1, TelemetryAssumption DEF LockInv
<1>12. core'.version + Ahead(core') < VersionModulus
  <2>1. Clients(core') = 0 /\ Len(core'.waiters) = 0
    BY <1>3 DEF Clients
  <2> QED
    BY <1>3, <2>1, CoreAssumption DEF Ahead
<1> QED
  BY <1>3, <1>4, <1>8, <1>10, <1>11, <1>12 DEF LockInv

LEMMA LockInitially == TelemetryInit => LockInv
<1> SUFFICES ASSUME TelemetryInit PROVE LockInv
  OBVIOUS
<1>1. Init /\ core = InitialCore /\ lockID = 1
  BY DEF TelemetryInit, Init
<1>2. EInv /\ EngineTied
  BY <1>1, OrderInitially, TiedAtFirst
<1>3. InitialCore.version = 0 /\ Clients(InitialCore) = 0 /\ Len(InitialCore.waiters) = 0
  BY DEF InitialCore, Clients
<1> QED
  BY <1>1, <1>2, <1>3, CoreAssumption, TelemetryAssumption DEF LockInv, Ahead

-----------------------------------------------------------------------------
(* What the steps of an attempt send *)

\* The events on their way.
Sent ==
  {e \in Event : \/ e \in Elems(pending)
                \/ \E s \in Senders, p \in Procs : e \in Elems(outbox[s][p])}

LEMMA SentMembers ==
  /\ \A e : e \in Sent <=> /\ e \in Event
                          /\ \/ e \in Elems(pending)
                             \/ \E s \in Senders, p \in Procs : e \in Elems(outbox[s][p])
  /\ \A e : e \in Sent' <=> /\ e \in Event
                           /\ \/ e \in Elems(pending')
                              \/ \E s \in Senders, p \in Procs : e \in Elems(outbox'[s][p])
BY DEF Sent, Elems

\* Who has changed the engine and is going to tell.
Owing(p) == pc[p] = "finish" \/ (pc[p] \in {"announce", "select"} /\ core.verdict[p] # "none")

\* In which of the gauges an attempt counts, who is about to tell that it does, with the
\* last event of its call, and who has told it.
Roles == {"waiting", "held"}
CountsAs(p, f) ==
  IF f = "held" THEN Owns(p) ELSE pc[p] \in {"announce", "select"} /\ core.verdict[p] = "none"
ToTell(p, f) == pc[p] = IF f = "held" THEN "deliver" ELSE "announce"
HasTold(p, f) ==
  IF f = "held" THEN pc[p] \in {"complete", "send", "back"} ELSE pc[p] = "select"
Final(p) == outbox["call"][p][Len(outbox["call"][p])].state

\* A Try that found the lock taken and is about to tell.
Failing(p) ==
  Concluding(p) /\ \E i \in DOMAIN outbox["call"][p] : outbox["call"][p][i].kind = "tryFailed"

\* The attempts the profile shows as waiting and as holding.
ShownWaiting(p) ==
  pc[p] \in {"select", "finish"} \/ (Concluding(p) /\ "waitStarted" \in Heard(p))
ShownHeld(p) == Announced(p) /\ Exact(want[p]) /\ "released" \notin Heard(p)

\* The released event of an attempt that has left is not lost.
Announces(p) ==
  p \in left => \/ "released" \in Heard(p)
                \/ \E e \in Sent : e.id = p /\ e.kind = "released"

\* What a step tells of the engine: states of before or after it, and the one after it
\* unless somebody owes it.
Speaks(p) ==
  /\ \A e \in Sent : e \in Sent'
  /\ \A e \in Sent' : e \in Sent \/ (e.id = p /\ e.state \in {StateOf(core), StateOf(core)'})
  /\ \/ \E e \in Sent' : e.state = StateOf(core)'
     \/ \E q \in Procs : Owing(q)'
     \/ StateOf(core)' = StateOf(core) /\ \A q \in Procs : Owing(q) => Owing(q)'

\* An attempt counts as before, or begins to and has not told.
MarkKept(q) ==
  \A f \in Roles : CountsAs(q, f)' =>
    /\ ToTell(q, f)' => \/ Final(q)' = StateOf(core)'
                        \/ CountsAs(q, f) /\ ToTell(q, f) /\ Final(q)' = Final(q)
    /\ HasTold(q, f)' => HasTold(q, f) /\ CountsAs(q, f)
    /\ CountsAs(q, f) => want'[q] = want[q]

\* What a profile should show of an attempt stays.
ProfileKept(q) ==
  /\ Failing(q)' => Heard(q)' = {} \/ (Failing(q) /\ Heard(q)' = Heard(q))
  /\ q \in left' => \/ q \in left /\ Heard(q)' = Heard(q)
                    \/ \E e \in Sent' : e.id = q /\ e.kind = "released"
  /\ ShownWaiting(q)' <=> ShownWaiting(q)
  /\ ShownHeld(q)' <=> ShownHeld(q)

\* An attempt that a step does nothing to, except that the engine may finish it.
Aside(q) ==
  /\ pc'[q] = pc[q] /\ want'[q] = want[q] /\ seen'[q] = seen[q]
  /\ outbox'["call"][q] = outbox["call"][q]
  /\ q \in left' <=> q \in left
  /\ \/ core'.verdict[q] = core.verdict[q]
     \/ core.verdict[q] = "none" /\ pc[q] \in {"announce", "select"}

LEMMA AsideKeeps ==
  ASSUME OInv, NEW q \in Procs, Aside(q)
  PROVE  MarkKept(q) /\ ProfileKept(q)
<1>1. /\ Heard(q)' = Heard(q) /\ Final(q)' = Final(q)
      /\ Concluding(q)' <=> Concluding(q)
      /\ Announced(q)' <=> Announced(q)
  BY DEF Aside, Heard, Final, Concluding, Announced, Granted
<1>2. MarkKept(q)
  <2>1. \A f \in Roles : (ToTell(q, f)' <=> ToTell(q, f)) /\ (HasTold(q, f)' <=> HasTold(q, f))
    BY DEF Aside, ToTell, HasTold
  <2>2. \A f \in Roles : CountsAs(q, f)' /\ (ToTell(q, f) \/ HasTold(q, f)) => CountsAs(q, f)
    BY DEF Aside, CountsAs, ToTell, HasTold, Owns, Roles
  <2> QED
    BY <1>1, <2>1, <2>2 DEF MarkKept, Aside
<1>3. ProfileKept(q)
  BY <1>1 DEF ProfileKept, Failing, ShownWaiting, ShownHeld, Aside
<1> QED
  BY <1>2, <1>3

\* Events that are posted are on their way, and those before them still.
LEMMA SentPosted ==
  ASSUME OInv, NEW s \in Senders, NEW p \in Procs, outbox[s][p] = <<>>, NEW events \in Seq(Event),
         outbox'[s][p] = events,
         \A t \in Senders : \A q \in Procs : t # s \/ q # p => outbox'[t][q] = outbox[t][q],
         pending' = pending
  PROVE  \A e : e \in Sent' <=> e \in Sent \/ e \in Elems(events)
<1>1. Elems(<<>>) = {} /\ \A e \in Elems(events) : e \in Event
  BY DEF Elems
<1> QED
  BY <1>1, SentMembers

LEMMA SentStill ==
  ASSUME outbox' = outbox, pending' = pending
  PROVE  Sent' = Sent
BY DEF Sent

\* One event, or two.
LEMMA OneEvent ==
  ASSUME NEW e \in Event
  PROVE  /\ <<e>> \in Seq(Event) /\ Elems(<<e>>) = {e} /\ <<e>>[Len(<<e>>)] = e
         /\ Append(<<>>, e) = <<e>>
<1>1. Elems(<<e>>) = {e}
  BY DEF Elems
<1> QED
  BY <1>1, Composed

LEMMA TwoEvents ==
  ASSUME NEW e \in Event, NEW f \in Event
  PROVE  /\ <<f, e>> \in Seq(Event) /\ Elems(<<f, e>>) = {e, f} /\ <<f, e>>[Len(<<f, e>>)] = e
         /\ Append(<<f>>, e) = <<f, e>>
<1>1. Elems(<<f, e>>) = {e, f}
  <2>1. DOMAIN <<f, e>> = {1, 2} /\ <<f, e>>[1] = f /\ <<f, e>>[2] = e
    OBVIOUS
  <2> QED
    BY <2>1 DEF Elems
<1>2. Append(<<f>>, e) = <<f, e>>
  BY Composed
<1>3. <<f, e>> \in Seq(Event) /\ <<f, e>>[Len(<<f, e>>)] = e
  OBVIOUS
<1> QED
  BY <1>1, <1>2, <1>3

\* One step, as far as the observers are concerned.
Moved(p) ==
  /\ Speaks(p) /\ MarkKept(p) /\ ProfileKept(p)
  /\ \A q \in Procs \ {p} : Aside(q)

LEMMA StateKept ==
  ASSUME core' = core, lockID' = lockID
  PROVE  StateOf(core)' = StateOf(core)
BY DEF StateOf

LEMMA Stated ==
  ASSUME NEW c, lockID' = lockID, core' = c
  PROVE  StateOf(core)' = StateOf(c)
BY DEF StateOf

\* The timers and the contexts.
LEMMA ClocksMove ==
  ASSUME EInv, NEW p \in Procs,
         \/ Expire(p) \/ WaitElapses(p) \/ HoldElapses(p)
         \/ WaitFires(p) \/ HoldFires(p) \/ FindHold(p)
  PROVE  Moved(p)
<1>1. /\ core' = core /\ lockID' = lockID
      /\ UNCHANGED <<pc, want, seen, left, outbox, pending>>
  BY DEF Expire, WaitElapses, HoldElapses, WaitFires, HoldFires, FindHold,
         coreVars, callVars, leaveVars, sendVars
<1>2. \A q \in Procs : Aside(q)
  BY <1>1 DEF Aside
<1>3. MarkKept(p) /\ ProfileKept(p)
  BY <1>2, AsideKeeps DEF EInv
<1>4. Speaks(p)
  BY <1>1, SentStill, StateKept DEF Speaks, Owing
<1> QED
  BY <1>2, <1>3, <1>4 DEF Moved

\* A timer that finds its threshold still passed.
LEMMA CheckMoves ==
  ASSUME EInv, NEW p \in Procs, CheckWait(p) \/ CheckHold(p)
  PROVE  Moved(p)
<1>0. OInv /\ TypeOK /\ "wait" \in Senders /\ "hold" \in Senders /\ "call" \in Senders
  BY DEF EInv, OInv, Senders
<1>1. core' = core /\ lockID' = lockID /\ UNCHANGED <<pc, want, left, pending>>
  BY DEF CheckWait, CheckHold, coreVars, callVars, leaveVars
<1>2. PICK s \in {"wait", "hold"}, k \in Kinds :
        /\ outbox[s][p] = <<>>
        /\ Post(s, p, <<Ev(p, k, core)>>) \/ UNCHANGED <<outbox, seen>>
  BY DEF CheckWait, CheckHold, ReportMuFree, HoldMuFree, sendVars, Kinds
<1> DEFINE e == Ev(p, k, core)
<1>3. e \in Event /\ e.id = p /\ e.state = StateOf(core)
  <2>1. Ev(p, k, core) \in Event
    BY <1>0, EvType DEF TypeOK
  <2> QED
    BY <2>1 DEF Ev
<1> HIDE DEF e
<1>4. CASE UNCHANGED <<outbox, seen>>
  <2>1. \A q \in Procs : Aside(q)
    BY <1>1, <1>4 DEF Aside
  <2>2. MarkKept(p) /\ ProfileKept(p)
    BY <1>0, <2>1, AsideKeeps
  <2>3. Speaks(p)
    BY <1>1, <1>4, SentStill, StateKept DEF Speaks, Owing
  <2> QED
    BY <2>1, <2>2, <2>3 DEF Moved
<1>5. CASE Post(s, p, <<e>>)
  <2>1. /\ seen' = seen /\ outbox'[s][p] = <<e>>
        /\ \A t \in Senders : \A q \in Procs : t # s \/ q # p => outbox'[t][q] = outbox[t][q]
    BY <1>0, <1>5, Posting
  <2>2. \A q \in Procs : Aside(q)
    BY <1>0, <1>1, <2>1 DEF Aside
  <2>3. MarkKept(p) /\ ProfileKept(p)
    BY <1>0, <2>2, AsideKeeps
  <2>4. \A x : x \in Sent' <=> x \in Sent \/ x \in {e}
    <3>1. <<e>> \in Seq(Event) /\ Elems(<<e>>) = {e}
      BY <1>3, OneEvent
    <3> QED
      BY <1>0, <1>1, <1>2, <2>1, <3>1, SentPosted, ZenonT(60)
  <2>5. Speaks(p)
    BY <1>1, <1>3, <2>4, StateKept DEF Speaks
  <2> QED
    BY <2>2, <2>3, <2>5 DEF Moved
<1> QED
  BY <1>2, <1>4, <1>5 DEF e

\* The select takes ready.
LEMMA WakeMoves ==
  ASSUME EInv, NEW p \in Procs, Wake(p)
  PROVE  Moved(p)
<1>0. OInv /\ TypeOK
  BY DEF EInv, OInv
<1>1. /\ core' = core /\ lockID' = lockID /\ pc[p] = "select" /\ pc' = [pc EXCEPT ![p] = "finish"]
      /\ UNCHANGED <<want, seen, left, outbox, pending>>
  BY DEF Wake, GoTo, coreVars, leaveVars, sendVars
<1>2. pc'[p] = "finish" /\ \A q \in Procs : q # p => pc'[q] = pc[q]
  BY <1>0, <1>1 DEF TypeOK
<1>3. \A q \in Procs \ {p} : Aside(q)
  BY <1>1, <1>2 DEF Aside
<1>4. MarkKept(p)
  BY <1>1, <1>2 DEF MarkKept, CountsAs, ToTell, HasTold, Roles
<1>5. ProfileKept(p)
  BY <1>1, <1>2 DEF ProfileKept, Failing, ShownWaiting, ShownHeld, Announced, Concluding, Heard
<1>6. Speaks(p)
  BY <1>1, <1>2, SentStill DEF Speaks, Owing
<1> QED
  BY <1>3, <1>4, <1>5, <1>6 DEF Moved

\* The select takes ctx.Done().
LEMMA GiveUpMoved ==
  ASSUME EInv, NEW p \in Procs, GiveUp(p)
  PROVE  Moved(p)
<1> DEFINE d == CancelWaiter(core, p, dead)
<1>0. OInv /\ TypeOK
  BY DEF EInv, OInv
<1>1. Serves(core, d, {p})
  BY <1>0, EngineSound, CancelWaiterServes
<1>2. /\ pc[p] = "select" /\ Advance(d, want, holdTimer) /\ pc' = [pc EXCEPT ![p] = "finish"]
      /\ UNCHANGED <<pending, want, left, outbox, seen>>
  BY DEF GiveUp, GoTo, leaveVars, sendVars
<1> HIDE DEF d
<1>3. core' = d /\ \A q \in Procs \ {p} : Undisturbed(q)
  BY <1>0, <1>1, <1>2, AdvanceUndisturbs
<1>4. pc'[p] = "finish" /\ \A q \in Procs : q # p => pc'[q] = pc[q]
  BY <1>0, <1>2 DEF TypeOK
<1>5. \A q \in Procs \ {p} : Aside(q)
  BY <1>2, <1>3, <1>4 DEF Aside, Undisturbed
<1>6. MarkKept(p)
  BY <1>2, <1>4 DEF MarkKept, CountsAs, ToTell, HasTold, Roles
<1>7. ProfileKept(p)
  BY <1>2, <1>4 DEF ProfileKept, Failing, ShownWaiting, ShownHeld, Announced, Concluding, Heard
<1>8. Speaks(p)
  BY <1>2, <1>4, SentStill DEF Speaks, Owing
<1> QED
  BY <1>5, <1>6, <1>7, <1>8 DEF Moved

\* A call that is refused.
LEMMA RefuseMoves ==
  ASSUME EInv, NEW p \in Procs, NEW k \in {"rejected", "tryFailed"}, Refuse(p, k)
  PROVE  Moved(p)
<1> DEFINE e == Ev(p, k, core)
<1>0. OInv /\ TypeOK /\ "call" \in Senders
  BY DEF EInv, OInv, Senders
<1>1. /\ core' = core /\ lockID' = lockID /\ pc[p] = "idle" /\ pc' = [pc EXCEPT ![p] = "send"]
      /\ Post("call", p, <<e>>)
      /\ UNCHANGED <<want, left, pending>>
  BY DEF Refuse, GoTo, coreVars, leaveVars
<1>2. e \in Event /\ e.state = StateOf(core) /\ e.id = p
  <2>1. Ev(p, k, core) \in Event
    BY <1>0, EvType DEF TypeOK, Kinds
  <2> QED
    BY <2>1 DEF Ev
<1> HIDE DEF e
<1>3. pc'[p] = "send" /\ \A q \in Procs : q # p => pc'[q] = pc[q]
  BY <1>0, <1>1 DEF TypeOK
<1>4. /\ seen' = seen /\ outbox'["call"][p] = <<e>>
      /\ \A t \in Senders : \A q \in Procs : t # "call" \/ q # p => outbox'[t][q] = outbox[t][q]
  BY <1>0, <1>1, Posting
<1>5. core.verdict[p] = "none" /\ Heard(p) = {} /\ Heard(p)' = {} /\ outbox["call"][p] = <<>>
      /\ p \notin left
  BY <1>1, <1>4, Beginning DEF Heard
<1>6. \A q \in Procs \ {p} : Aside(q)
  BY <1>0, <1>1, <1>3, <1>4 DEF Aside
<1>7. MarkKept(p)
  BY <1>1, <1>3, <1>5 DEF MarkKept, CountsAs, Owns, Roles
<1>8. ProfileKept(p)
  BY <1>1, <1>3, <1>5
  DEF ProfileKept, Failing, ShownWaiting, ShownHeld, Announced, Concluding, Granted
<1>9. \A x : x \in Sent' <=> x \in Sent \/ x \in {e}
  <2>1. <<e>> \in Seq(Event) /\ Elems(<<e>>) = {e}
    BY <1>2, OneEvent
  <2> QED
    BY <1>0, <1>1, <1>4, <1>5, <2>1, SentPosted
<1>10. Speaks(p)
  BY <1>1, <1>2, <1>9, StateKept DEF Speaks
<1> QED
  BY <1>6, <1>7, <1>8, <1>10 DEF Moved

\* finishWait tells what became of the wait.
LEMMA FinishWaitMoves ==
  ASSUME EInv, NEW p \in Procs, FinishWait(p)
  PROVE  Moved(p)
<1> DEFINE k == IF Granted(p) THEN "acquired" ELSE "rejected"
           e == Ev(p, k, core)
           f == Ev(p, "waitExceeded", core)
           place == IF Granted(p) THEN "deliver" ELSE "send"
<1>0. OInv /\ TypeOK /\ Life(p) /\ "call" \in Senders
  BY DEF EInv, OInv, Senders
<1>1. /\ pc[p] = "finish" /\ core' = core /\ lockID' = lockID /\ outbox["call"][p] = <<>>
      /\ UNCHANGED <<pending, want, left>>
  BY <1>0 DEF FinishWait, coreVars, leaveVars, OInv, PlacesTied
<1>2. PICK events : /\ Post("call", p, events) /\ pc' = [pc EXCEPT ![p] = place]
                    /\ events = Append(<<f>>, e) \/ events = Append(<<>>, e)
  BY DEF FinishWait, Conclude, GoTo, Granted
<1>3. /\ e.id = p /\ e.kind = k /\ e.state = StateOf(core) /\ e \in Event
      /\ f.id = p /\ f.kind = "waitExceeded" /\ f.state = StateOf(core) /\ f \in Event
      /\ k # "tryFailed"
  BY <1>0, EvType DEF Ev, TypeOK, Kinds
<1> HIDE DEF e, f, k
<1>4. /\ events \in Seq(Event) /\ events[Len(events)] = e
      /\ Elems(events) = {e} \/ Elems(events) = {e, f}
  <2>1. CASE events = Append(<<f>>, e)
    <3>1. events = <<f, e>>
      BY <1>3, <2>1, TwoEvents
    <3>2. <<f, e>> \in Seq(Event) /\ Elems(<<f, e>>) = {e, f} /\ <<f, e>>[Len(<<f, e>>)] = e
      BY <1>3, TwoEvents
    <3> QED
      BY <3>1, <3>2
  <2>2. CASE events = Append(<<>>, e)
    <3>1. events = <<e>>
      BY <1>3, <2>2, OneEvent
    <3>2. <<e>> \in Seq(Event) /\ Elems(<<e>>) = {e} /\ <<e>>[Len(<<e>>)] = e
      BY <1>3, OneEvent
    <3> QED
      BY <3>1, <3>2
  <2> QED
    BY <1>2, <2>1, <2>2
<1>5. pc'[p] = place /\ \A q \in Procs : q # p => pc'[q] = pc[q]
  BY <1>0, <1>2 DEF TypeOK
<1>6. /\ seen' = seen /\ outbox'["call"][p] = events
      /\ \A t \in Senders : \A q \in Procs : t # "call" \/ q # p => outbox'[t][q] = outbox[t][q]
  BY <1>0, <1>2, Posting
<1>7. \A q \in Procs \ {p} : Aside(q)
  BY <1>0, <1>1, <1>5, <1>6 DEF Aside
<1>8. (Granted(p)' <=> Granted(p)) /\ Heard(p)' = Heard(p) /\ "waitStarted" \in Heard(p)
      /\ Final(p)' = StateOf(core)' /\ StateOf(core)' = StateOf(core)
  <2>1. Final(p)' = e.state
    BY <1>4, <1>6 DEF Final
  <2> QED
    BY <1>0, <1>1, <1>3, <1>6, <2>1, StateKept DEF Granted, Heard, Life, SoFar
<1>9. MarkKept(p)
  <2>1. \A f1 \in Roles : CountsAs(p, f1)' => f1 = "held" /\ CountsAs(p, f1) /\ Granted(p)
    BY <1>1, <1>5 DEF CountsAs, Owns, Roles, Granted
  <2> QED
    BY <1>1, <1>5, <1>8, <2>1 DEF MarkKept, HasTold
<1>10. ProfileKept(p)
  <2>1. ~Failing(p)'
    <3>1. \A i \in DOMAIN events : events[i].kind # "tryFailed"
      BY <1>3, <1>4 DEF Elems
    <3> QED
      BY <1>6, <3>1 DEF Failing
  <2>2. Concluding(p)' /\ ~Announced(p) /\ ~Announced(p)'
    BY <1>1, <1>5, <1>8 DEF Concluding, Announced
  <2> QED
    BY <1>1, <1>8, <2>1, <2>2 DEF ProfileKept, ShownWaiting, ShownHeld
<1>11. \A x : x \in Sent' <=> x \in Sent \/ x \in Elems(events)
  BY <1>0, <1>1, <1>4, <1>6, SentPosted
<1>12. Speaks(p)
  BY <1>3, <1>4, <1>8, <1>11 DEF Speaks
<1> QED
  BY <1>7, <1>9, <1>10, <1>12 DEF Moved

\* The events of the queue pass to the call that completes the last delivery.
LEMMA CompleteMoves ==
  ASSUME EInv, NEW p \in Procs, Complete(p)
  PROVE  Moved(p)
<1>0. OInv /\ TypeOK /\ "call" \in Senders
  BY DEF EInv, OInv, Senders
<1>1. /\ pc[p] = "complete" /\ core' = core /\ lockID' = lockID /\ UNCHANGED <<want, left>>
      /\ \/ /\ pc' = [pc EXCEPT ![p] = "back"] /\ UNCHANGED <<pending, outbox, seen>>
         \/ /\ pc' = [pc EXCEPT ![p] = "send"] /\ pending' = <<>> /\ Post("call", p, pending)
  BY DEF Complete, GoTo, leaveVars, sendVars
<1>2. Granted(p) /\ outbox["call"][p] = <<>> /\ (Granted(p)' <=> Granted(p))
  BY <1>0, <1>1 DEF OInv, PlacesTied, Granted
<1>3. pc'[p] \in {"send", "back"} /\ \A q \in Procs : q # p => pc'[q] = pc[q]
  BY <1>0, <1>1 DEF TypeOK
<1>4. /\ seen' = seen
      /\ \A t \in Senders : \A q \in Procs : t # "call" \/ q # p => outbox'[t][q] = outbox[t][q]
      /\ \/ pending' = pending /\ outbox' = outbox
         \/ pending' = <<>> /\ outbox'["call"][p] = pending
  <2>1. CASE Post("call", p, pending) /\ pending' = <<>>
    BY <1>0, <2>1, Posting
  <2> QED
    BY <1>1, <2>1
<1>5. \A q \in Procs \ {p} : Aside(q)
  BY <1>0, <1>1, <1>3, <1>4 DEF Aside
<1>6. MarkKept(p)
  BY <1>1, <1>2, <1>3 DEF MarkKept, CountsAs, Owns, ToTell, HasTold, Roles
<1>7. ProfileKept(p)
  BY <1>1, <1>2, <1>3, <1>4
  DEF ProfileKept, Failing, ShownWaiting, ShownHeld, Announced, Concluding, Heard
<1>8. \A x : x \in Sent' <=> x \in Sent
  <2>1. Elems(<<>>) = {}
    BY DEF Elems
  <2> QED
    BY <1>0, <1>2, <1>4, <2>1, SentMembers
<1>9. Speaks(p)
  <2>1. \A q \in Procs : Owing(q) => Owing(q)'
    BY <1>1, <1>3 DEF Owing
  <2> QED
    BY <1>1, <1>8, <2>1, StateKept DEF Speaks
<1> QED
  BY <1>5, <1>6, <1>7, <1>9 DEF Moved

\* The events of a release, and their states.
LEMMA FarewellStates ==
  ASSUME TypeOK, NEW p \in Procs, NEW d \in Core
  PROVE  /\ Farewell(p, d) \in Seq(Event)
         /\ \A e \in Elems(Farewell(p, d)) : e.id = p /\ e.state \in {StateOf(core), StateOf(d)}
         /\ \E e \in Elems(Farewell(p, d)) : e.kind = "released" /\ e.state = StateOf(d)
<1> DEFINE e == Ev(p, "released", d)
           f == Ev(p, "holdExceeded", core)
<1>1. /\ e \in Event /\ e.id = p /\ e.kind = "released" /\ e.state = StateOf(d)
      /\ f \in Event /\ f.id = p /\ f.state = StateOf(core)
  BY EvType DEF TypeOK, Ev, Kinds
<1>2. Farewell(p, d) = IF DueHold(p) THEN <<f>> \o <<e>> ELSE <<>> \o <<e>>
  BY DEF Farewell
<1> HIDE DEF e, f
<1>3. <<>> \o <<e>> = <<e>> /\ <<f>> \o <<e>> = <<f, e>>
  BY <1>1, Composed
<1> DEFINE s == Farewell(p, d)
<1>4. s = <<f, e>> \/ s = <<e>>
  BY <1>2, <1>3
<1>5. /\ <<f, e>> \in Seq(Event) /\ Elems(<<f, e>>) = {e, f}
      /\ <<e>> \in Seq(Event) /\ Elems(<<e>>) = {e}
  BY <1>1, OneEvent, TwoEvents
<1> HIDE DEF s
<1>6. s \in Seq(Event) /\ (Elems(s) = {e} \/ Elems(s) = {e, f})
  BY <1>4, <1>5
<1>7. /\ \A x \in Elems(s) : x.id = p /\ x.state \in {StateOf(core), StateOf(d)}
      /\ \E x \in Elems(s) : x.kind = "released" /\ x.state = StateOf(d)
  BY <1>1, <1>6
<1> QED
  BY <1>6, <1>7 DEF s

LEMMA ReleaseMoved ==
  ASSUME EInv, NEW p \in Procs, ReleaseLock(p)
  PROVE  Moved(p)
<1> DEFINE d == Relinquished(p)
           timer == [holdTimer EXCEPT ![p] = IF @ = "armed" THEN "off" ELSE @]
           events == Farewell(p, d)
<1>0. OInv /\ TypeOK /\ Life(p) /\ "release" \in Senders /\ "call" \in Senders
      /\ want[p].mode \in Modes
  BY DEF EInv, OInv, Senders, TypeOK, Waiter
<1>1. /\ MayRelease(p)
      /\ ReleaseMatches(core, want[p].mode, IF want[p].guarded THEN p ELSE NoAttempt)
      /\ Advance(d, want, timer)
      /\ left' = left \union {p}
      /\ UNCHANGED <<pc, want>>
      /\ \/ undelivered > 0 /\ pending' = pending \o events /\ outbox' = outbox /\ seen' = seen
         \/ ~(undelivered > 0) /\ Post("release", p, events) /\ pending' = pending
  BY DEF ReleaseLock, Leave, callVars, sendVars
<1>2. /\ Serves(core, d, {p}) /\ d \in Core
      /\ core.verdict[p] = "granted" => d.verdict[p] = "granted"
  <2>1. Serves(core, d, {})
    BY <1>0, <1>1, EngineSound, ReleaseServes DEF Relinquished
  <2> QED
    BY <1>0, <2>1, ServedAttempts DEF Serves, Sound, Suits, OInv
<1>3. /\ events \in Seq(Event)
      /\ \A e \in Elems(events) : e.id = p /\ e.state \in {StateOf(core), StateOf(d)}
      /\ \E e \in Elems(events) : e.kind = "released" /\ e.state = StateOf(d)
  BY <1>0, <1>2, FarewellStates
<1> HIDE DEF d, events
<1>4. Granted(p) /\ outbox["release"][p] = <<>>
  BY <1>1, BeforeLeaving
<1>5. \A q \in Procs \ {p} : timer[q] = holdTimer[q]
  BY <1>0 DEF TypeOK
<1> HIDE DEF timer
<1>6. core' = d /\ lockID' = lockID /\ \A q \in Procs \ {p} : Undisturbed(q)
  <2>1. core' = d /\ \A q \in Procs \ {p} : Undisturbed(q)
    BY <1>0, <1>1, <1>2, <1>5, AdvanceUndisturbs
  <2> QED
    BY <1>1, <2>1 DEF Advance
<1>7. StateOf(core)' = StateOf(d)
  BY <1>6, Stated
<1>8. Granted(p)' /\ core'.verdict[p] = "granted" /\ p \in left'
  BY <1>1, <1>2, <1>4, <1>6 DEF Granted
<1>9. seen' = seen /\ outbox'["call"] = outbox["call"]
  BY <1>0, <1>1 DEF Post, TypeOK, Senders
<1>10. \A x : x \in Sent' <=> x \in Sent \/ x \in Elems(events)
  <2>1. CASE outbox' = outbox /\ pending' = pending \o events
    <3>1. Elems(pending') = Elems(pending) \union Elems(events)
      <4>1. pending \in Seq(Event)
        BY <1>0 DEF TypeOK
      <4> DEFINE all == pending \o events
                 m == Len(pending)
                 n == Len(events)
      <4>2. /\ m \in Nat /\ n \in Nat
            /\ DOMAIN pending = 1..m /\ DOMAIN events = 1..n /\ DOMAIN all = 1..(m + n)
            /\ \A i \in 1..m : all[i] = pending[i]
            /\ \A i \in 1..n : all[m + i] = events[i]
        BY <1>3, <4>1
      <4> HIDE DEF all, m, n
      <4>3. Elems(all) = Elems(pending) \union Elems(events)
        <5>1. \A i \in 1..(m + n) : i \in 1..m \/ (i - m \in 1..n /\ i = m + (i - m))
          BY <4>2
        <5>2. \A i \in 1..m : i \in 1..(m + n)
          BY <4>2
        <5>3. \A i \in 1..n : m + i \in 1..(m + n)
          BY <4>2
        <5> QED
          BY <4>2, <5>1, <5>2, <5>3 DEF Elems
      <4> QED
        BY <2>1, <4>3 DEF all
    <3>2. \A e \in Elems(events) : e \in Event
      BY <1>3 DEF Elems
    <3> QED
      BY <2>1, <3>1, <3>2, SentMembers
  <2>2. CASE Post("release", p, events) /\ pending' = pending
    <3>1. /\ outbox'["release"][p] = events
          /\ \A t \in Senders : \A q \in Procs :
               t # "release" \/ q # p => outbox'[t][q] = outbox[t][q]
      BY <1>0, <2>2, Posting
    <3> QED
      BY <1>0, <1>3, <1>4, <2>2, <3>1, SentPosted
  <2> QED
    BY <1>1, <2>1, <2>2
<1>11. Speaks(p)
  BY <1>3, <1>7, <1>10 DEF Speaks
<1>12. \A q \in Procs \ {p} : Aside(q)
  BY <1>1, <1>6, <1>9 DEF Aside, Undisturbed
<1>13. MarkKept(p)
  BY <1>8 DEF MarkKept, CountsAs, Owns, Roles
<1>14. ProfileKept(p)
  <2>1. \E e \in Sent' : e.id = p /\ e.kind = "released"
    BY <1>3, <1>10
  <2> QED
    BY <1>1, <1>4, <1>8, <1>9, <2>1
    DEF ProfileKept, Failing, ShownWaiting, ShownHeld, Announced, Concluding, Heard
<1> QED
  BY <1>11, <1>12, <1>13, <1>14 DEF Moved

\* An attempt that is over has no event on its way.
LEMMA OverIsTold ==
  ASSUME EInv, NEW p \in Procs, Over(p)
  PROVE  \A e \in Sent : e.id # p
<1>0. OInv /\ TypeOK /\ \A q \in Procs : WaitSends(q) /\ HoldSends(q) /\ ReleaseSends(q)
  BY DEF EInv, OInv, Life
<1>1. \A e \in Elems(pending) : e.id # p
  BY DEF Over
<1>2. \A q \in Procs : \A e \in Elems(outbox["call"][q]) : e.id # p
  BY DEF Over
<1>3. ASSUME NEW s \in Senders, s # "call", NEW q \in Procs, NEW e \in Elems(outbox[s][q])
      PROVE  e.id # p
  <2> DEFINE b == outbox[s][q]
  <2>1. b \in Seq(Event)
    BY <1>0 DEF TypeOK
  <2>2. PICK i \in DOMAIN b : e = b[i]
    BY <1>3 DEF Elems
  <2>3. b # <<>> /\ q # p
    <3>1. b # <<>>
      BY <2>1, <2>2
    <3> QED
      BY <3>1 DEF Over
  <2>4. \/ \E k : One(b, q, k)
        \/ \E k, l : Two(b, q, k, l)
    BY <1>0, <1>3, <2>3 DEF Senders, WaitSends, HoldSends, ReleaseSends
  <2>5. DOMAIN b = 1..Len(b)
    BY <2>1
  <2> HIDE DEF b
  <2>6. i = 1 \/ i = 2
    BY <2>2, <2>4, <2>5 DEF One, Two
  <2>7. b[i].id = q
    BY <2>2, <2>4, <2>5, <2>6 DEF One, Two
  <2> QED
    BY <2>2, <2>3, <2>7
<1> QED
  BY <1>1, <1>2, <1>3, SentMembers

LEMMA RecycleMoves ==
  ASSUME EInv, NEW p \in Procs, Recycle(p), Announces(p)
  PROVE  Moved(p)
<1>0. OInv /\ TypeOK /\ core \in Core /\ Life(p)
  BY DEF EInv, OInv, TypeOK
<1>1. /\ Over(p) /\ pc[p] = "back" /\ ~Owns(p) /\ pc' = [pc EXCEPT ![p] = "idle"]
      /\ core' = [core EXCEPT !.verdict = [@ EXCEPT ![p] = "none"]]
      /\ want' = [want EXCEPT ![p] = Attempt(p, "read", FALSE)]
      /\ seen' = [seen EXCEPT ![p] = <<>>] /\ left' = left \ {p}
      /\ UNCHANGED <<lockID, pending, outbox>>
  BY DEF Recycle, GoTo, Over
<1>2. /\ core'.verdict[p] = "none" /\ \A q \in Procs : q # p => core'.verdict[q] = core.verdict[q]
      /\ core'.version = core.version /\ Counts(core') = Counts(core)
  BY <1>0, <1>1, VerdictsUncounted DEF Core
<1>3. /\ pc'[p] = "idle" /\ seen'[p] = <<>>
      /\ \A q \in Procs : q # p => pc'[q] = pc[q] /\ seen'[q] = seen[q] /\ want'[q] = want[q]
  BY <1>0, <1>1 DEF TypeOK
<1>4. \A q \in Procs \ {p} : Aside(q)
  BY <1>1, <1>2, <1>3 DEF Aside
<1>5. MarkKept(p)
  BY <1>2, <1>3 DEF MarkKept, CountsAs, Owns, Roles
<1>6. ~ShownHeld(p)
  <2>1. CASE Granted(p)
    <3>1. p \in left
      BY <1>1, <2>1 DEF Owns, Granted
    <3>2. "released" \in Heard(p)
      BY <1>1, <3>1, OverIsTold DEF Announces
    <3> QED
      BY <3>2 DEF ShownHeld
  <2>2. CASE ~Granted(p)
    BY <2>2 DEF ShownHeld, Announced
  <2> QED
    BY <2>1, <2>2
<1>7. ProfileKept(p)
  <2>1. Heard(p)' = {} /\ p \notin left'
    BY <1>1, <1>3 DEF Heard, Elems
  <2>2. ~ShownWaiting(p) /\ ~ShownWaiting(p)' /\ ~ShownHeld(p)'
    BY <1>1, <1>3 DEF ShownWaiting, ShownHeld, Announced, Concluding
  <2> QED
    BY <1>6, <2>1, <2>2 DEF ProfileKept
<1>8. Speaks(p)
  <2>1. Sent' = Sent
    BY <1>1, SentStill
  <2>2. StateOf(core)' = StateOf(core)
    BY <1>1, <1>2 DEF StateOf
  <2>3. \A q \in Procs : Owing(q) => Owing(q)'
    BY <1>1, <1>2, <1>3 DEF Owing
  <2> QED
    BY <2>1, <2>2, <2>3 DEF Speaks
<1> QED
  BY <1>4, <1>5, <1>7, <1>8 DEF Moved

\* A call that acquires at once, and one that waits.
LEMMA ImmediatelyMoves ==
  ASSUME EInv, NEW p \in Procs, NEW m \in Modes, NEW g \in BOOLEAN, NEW c,
         Serves(core, c, {}), Immediately(p, m, g, c)
  PROVE  Moved(p)
<1> DEFINE w == Attempt(p, m, g)
           a == Grant(c, w)
           d == [a EXCEPT !.verdict = [@ EXCEPT ![p] = "granted"]]
           e == Ev(p, "acquired", d)
<1>0. OInv /\ TypeOK /\ Life(p) /\ "call" \in Senders /\ w \in Waiter
  BY DEF EInv, OInv, Senders, Attempt, Waiter
<1>1. /\ pc[p] = "idle" /\ pc' = [pc EXCEPT ![p] = "deliver"]
      /\ want' = [want EXCEPT ![p] = w] /\ Advance(d, want', holdTimer)
      /\ Post("call", p, <<e>>)
      /\ UNCHANGED <<pending, left>>
  BY DEF Immediately, GoTo, leaveVars
<1>2. d \in Core /\ d.verdict[p] = "granted" /\ \A q \in Procs \ {p} : d.verdict[q] = c.verdict[q]
  <2> DEFINE v == [c.verdict EXCEPT ![p] = "granted"]
  <2>1. c \in Core
    BY DEF Serves, Sound
  <2>2. a \in Core /\ a.verdict = c.verdict
    BY <1>0, <2>1, GrantKeepsQueue
  <2> HIDE DEF a, w
  <2>3. /\ v \in [Procs -> Verdicts] /\ d = [a EXCEPT !.verdict = v]
        /\ v[p] = "granted" /\ \A q \in Procs \ {p} : v[q] = c.verdict[q]
    BY <2>1, <2>2 DEF Core, Verdicts
  <2> HIDE DEF d, v
  <2>4. d \in Core /\ d.verdict = v
    BY <2>2, <2>3 DEF Core
  <2> QED
    BY <2>3, <2>4
<1>3. e.id = p /\ e.kind = "acquired" /\ e \in Event /\ e.state = StateOf(d)
  <2>1. Ev(p, "acquired", d) \in Event
    BY <1>0, <1>2, EvType DEF TypeOK, Kinds
  <2> QED
    BY <2>1 DEF Ev
<1> HIDE DEF a, d, e, w
<1>4. <<e>> \in Seq(Event) /\ Elems(<<e>>) = {e} /\ <<e>>[Len(<<e>>)] = e
  BY <1>3, OneEvent
<1>5. /\ pc'[p] = "deliver" /\ \A q \in Procs : q # p => pc'[q] = pc[q]
      /\ \A q \in Procs : q # p => want'[q] = want[q]
  BY <1>0, <1>1 DEF TypeOK
<1>6. /\ seen' = seen /\ outbox'["call"][p] = <<e>>
      /\ \A t \in Senders : \A q \in Procs : t # "call" \/ q # p => outbox'[t][q] = outbox[t][q]
  BY <1>0, <1>1, Posting
<1>7. core' = d /\ \A q \in Procs \ {p} : Undisturbed(q)
  <2>1. Serves(core, c, {p})
    BY DEF Serves
  <2> QED
    BY <1>0, <1>1, <1>2, <2>1, AdvanceUndisturbs
<1>8. StateOf(core)' = e.state
  <2>1. lockID' = lockID
    BY <1>1 DEF Advance
  <2> QED
    BY <1>3, <1>7, <2>1, Stated
<1>9. Heard(p) = {} /\ Heard(p)' = {} /\ p \notin left /\ core.verdict[p] = "none"
      /\ outbox["call"][p] = <<>>
  BY <1>1, <1>6, Beginning DEF Heard
<1>10. \A q \in Procs \ {p} : Aside(q)
  BY <1>0, <1>1, <1>5, <1>6, <1>7 DEF Aside, Undisturbed
<1>11. MarkKept(p)
  <2>1. Final(p)' = StateOf(core)'
    BY <1>4, <1>6, <1>8 DEF Final
  <2>2. \A f \in Roles : ~HasTold(p, f)' /\ ~CountsAs(p, f)
    BY <1>1, <1>5, <1>9 DEF HasTold, CountsAs, Owns, Roles
  <2> QED
    BY <2>1, <2>2 DEF MarkKept
<1>12. ProfileKept(p)
  BY <1>1, <1>5, <1>9 DEF ProfileKept, ShownWaiting, ShownHeld, Announced, Concluding
<1>13. \A x : x \in Sent' <=> x \in Sent \/ x \in {e}
  BY <1>0, <1>1, <1>4, <1>6, <1>9, SentPosted
<1>14. Speaks(p)
  BY <1>3, <1>8, <1>13 DEF Speaks
<1> QED
  BY <1>10, <1>11, <1>12, <1>14 DEF Moved

LEMMA AcquireWaitMoves ==
  ASSUME EInv, NEW p \in Procs, NEW m \in Modes, NEW g \in BOOLEAN, AcquireWait(p, m, g)
  PROVE  Moved(p)
<1> DEFINE c == Served
           w == Attempt(p, m, g)
           d == Enqueue(c, w)
           e == Ev(p, "waitStarted", d)
<1>0. OInv /\ TypeOK /\ Life(p) /\ "call" \in Senders /\ w \in Waiter /\ w.id = p
  BY DEF EInv, OInv, Senders, Attempt, Waiter
<1>1. /\ pc[p] = "idle" /\ pc' = [pc EXCEPT ![p] = "announce"]
      /\ want' = [want EXCEPT ![p] = w] /\ Advance(d, want', holdTimer)
      /\ Post("call", p, <<e>>)
      /\ UNCHANGED <<pending, left>>
  BY DEF AcquireWait, GoTo, leaveVars
<1>2. Serves(core, c, {}) /\ Sound(c) /\ c.verdict[p] = "none" /\ p \notin Ids(c.waiters)
  <2>1. Serves(core, c, {}) /\ Sound(c)
    BY <1>0, EngineSound, ServedServes
  <2>2. Suits(c, p)
    BY <1>0, <2>1, ServedAttempts DEF OInv
  <2> QED
    BY <1>1, <2>1, <2>2 DEF Suits
<1> HIDE DEF c, w
<1>3. d \in Core /\ d.verdict = c.verdict
  BY <1>0, <1>2, Joined DEF Sound
<1>4. e.id = p /\ e.kind = "waitStarted" /\ e \in Event /\ e.state = StateOf(d)
  <2>1. Ev(p, "waitStarted", d) \in Event
    BY <1>0, <1>3, EvType DEF TypeOK, Kinds
  <2> QED
    BY <2>1 DEF Ev
<1> HIDE DEF d, e
<1>5. <<e>> \in Seq(Event) /\ Elems(<<e>>) = {e} /\ <<e>>[Len(<<e>>)] = e
  BY <1>4, OneEvent
<1>6. /\ pc'[p] = "announce" /\ \A q \in Procs : q # p => pc'[q] = pc[q]
      /\ \A q \in Procs : q # p => want'[q] = want[q]
  BY <1>0, <1>1 DEF TypeOK
<1>7. /\ seen' = seen /\ outbox'["call"][p] = <<e>>
      /\ \A t \in Senders : \A q \in Procs : t # "call" \/ q # p => outbox'[t][q] = outbox[t][q]
  BY <1>0, <1>1, Posting
<1>8. core' = d /\ \A q \in Procs \ {p} : Undisturbed(q)
  <2>1. Serves(core, c, {p})
    BY <1>2 DEF Serves
  <2> QED
    BY <1>0, <1>1, <1>3, <2>1, AdvanceUndisturbs
<1>9. StateOf(core)' = e.state
  <2>1. lockID' = lockID
    BY <1>1 DEF Advance
  <2> QED
    BY <1>4, <1>8, <2>1, Stated
<1>10. Heard(p) = {} /\ Heard(p)' = {} /\ p \notin left /\ core.verdict[p] = "none"
       /\ outbox["call"][p] = <<>>
  BY <1>1, <1>7, Beginning DEF Heard
<1>11. \A q \in Procs \ {p} : Aside(q)
  BY <1>0, <1>1, <1>6, <1>7, <1>8 DEF Aside, Undisturbed
<1>12. MarkKept(p)
  <2>1. Final(p)' = StateOf(core)'
    BY <1>5, <1>7, <1>9 DEF Final
  <2>2. \A f \in Roles : ~HasTold(p, f)' /\ ~CountsAs(p, f)
    BY <1>1, <1>6, <1>10 DEF HasTold, CountsAs, Owns, Roles
  <2> QED
    BY <2>1, <2>2 DEF MarkKept
<1>13. ProfileKept(p)
  BY <1>1, <1>6, <1>10 DEF ProfileKept, ShownWaiting, ShownHeld, Announced, Concluding
<1>14. \A x : x \in Sent' <=> x \in Sent \/ x \in {e}
  BY <1>0, <1>1, <1>5, <1>7, <1>10, SentPosted, ZenonT(60)
<1>15. Speaks(p)
  BY <1>4, <1>9, <1>14 DEF Speaks
<1> QED
  BY <1>11, <1>12, <1>13, <1>15 DEF Moved

LEMMA LockMoves ==
  ASSUME EInv, NEW p \in Procs, Announces(p), Start(p) \/ Step(p)
  PROVE  Moved(p)
<1>1. CASE Start(p)
  <2>1. PICK r \in Requests : \/ AcquireAtOnce(p, r[1], r[2]) \/ AcquireWait(p, r[1], r[2])
                              \/ TrySucceed(p, r[1], r[2])
    BY <1>1 DEF Start
  <2>2. r[1] \in Modes /\ r[2] \in BOOLEAN
    BY <2>1, ObserverAssumption
  <2>3. CASE AcquireAtOnce(p, r[1], r[2]) \/ TrySucceed(p, r[1], r[2])
    <3>1. Immediately(p, r[1], r[2], Served)
      BY <2>3, TryIsAtOnce DEF AcquireAtOnce
    <3>2. Serves(core, Served, {})
      BY EngineSound, ServedServes DEF EInv
    <3> QED
      BY <2>2, <3>1, <3>2, ImmediatelyMoves
  <2> QED
    BY <2>1, <2>2, <2>3, AcquireWaitMoves
<1> QED
  BY <1>1, ClocksMove, CheckMoves, WakeMoves, GiveUpMoved, RefuseMoves, FinishWaitMoves,
     CompleteMoves, ReleaseMoved, RecycleMoves DEF Step

\* The observers are told one event, and the others stay on their way.
LEMMA DeliverMoves ==
  ASSUME OInv, NEW s \in Senders, NEW p \in Procs, Deliver(s, p),
         NEW e, e = Head(outbox[s][p])
  PROVE  /\ e \in Sent /\ \A x \in Sent' : x \in Sent
         /\ \A x \in Sent : x = e \/ x \in Sent'
         /\ StateOf(core)' = StateOf(core) /\ lockID' = lockID /\ core' = core
         /\ \A q \in Procs : Owing(q)' <=> Owing(q)
<1> DEFINE b == outbox[s][p]
<1>0. Tells(s, p, e) /\ lockID' = lockID
  BY Telling DEF Deliver, coreVars
<1>1. b \in Seq(Event) /\ b # <<>>
  BY <1>0 DEF Tells
<1>2. e = b[1] /\ 1 \in DOMAIN b /\ Tail(b) \in Seq(Event)
      /\ Len(b) \in Nat \ {0} /\ Len(Tail(b)) = Len(b) - 1
      /\ \A i \in 1..(Len(b) - 1) : Tail(b)[i] = b[i + 1]
  BY <1>1, NextEvent
<1>3. DOMAIN b = 1..Len(b) /\ DOMAIN Tail(b) = 1..(Len(b) - 1)
  BY <1>1, <1>2
<1> HIDE DEF b
<1>4. \A x \in Elems(Tail(b)) : x \in Elems(b)
  <2>1. \A i \in 1..(Len(b) - 1) : i + 1 \in 1..Len(b)
    BY <1>2
  <2> QED
    BY <1>2, <1>3, <2>1 DEF Elems
<1>5. ASSUME NEW x \in Elems(b) PROVE x = e \/ x \in Elems(Tail(b))
  <2>1. PICK i \in 1..Len(b) : x = b[i]
    BY <1>3 DEF Elems
  <2>2. CASE i # 1
    <3>1. i - 1 \in 1..(Len(b) - 1) /\ (i - 1) + 1 = i
      BY <1>2, <2>1, <2>2
    <3>2. Tail(b)[i - 1] = b[(i - 1) + 1]
      BY <1>2, <3>1
    <3>3. Tail(b)[i - 1] = x /\ i - 1 \in DOMAIN Tail(b)
      BY <1>3, <2>1, <3>1, <3>2
    <3> QED
      BY <3>3 DEF Elems
  <2> QED
    BY <1>2, <2>1, <2>2
<1>6. e \in Event /\ e \in Elems(b)
  BY <1>0, <1>2 DEF Tells, Elems
<1>7. /\ outbox'[s][p] = Tail(b) /\ pending' = pending
      /\ \A t \in Senders : \A q \in Procs : t # s \/ q # p => outbox'[t][q] = outbox[t][q]
  BY <1>0 DEF Tells, b
<1>8. b = outbox[s][p]
  BY DEF b
<1>9. /\ e \in Sent /\ \A x \in Sent' : x \in Sent
      /\ \A x \in Sent : x = e \/ x \in Sent'
  BY <1>4, <1>5, <1>6, <1>7, <1>8, SentMembers
<1>10. core' = core /\ StateOf(core)' = StateOf(core)
  <2>1. core' = core
    BY <1>0 DEF Tells
  <2> QED
    BY <1>0, <2>1, StateKept
<1>11. \A q \in Procs : Owing(q)' <=> Owing(q)
  <2>1. \A q \in Procs : q # p => pc'[q] = pc[q]
    BY <1>0 DEF Tells
  <2>2. pc'[p] = pc[p] \/ (pc[p] = "announce" /\ pc'[p] = "select")
        \/ (pc[p] \in {"deliver", "send"} /\ pc'[p] \in {"complete", "back"})
    <3>1. CASE s = "call" /\ Len(outbox[s][p]) = 1
      <4>1. pc[p] \in {"announce", "deliver", "send"}
        BY <1>1, <1>8, <3>1 DEF OInv, PlacesTied
      <4> QED
        BY <1>0, <3>1, <4>1 DEF Tells
    <3>2. CASE s # "call" \/ Len(outbox[s][p]) # 1
      BY <1>0, <3>2 DEF Tells
    <3> QED
      BY <3>1, <3>2
  <2> QED
    BY <1>10, <2>1, <2>2 DEF Owing
<1> QED
  BY <1>0, <1>9, <1>10, <1>11

\* What a step of the whole system is.
Observes(e) ==
  /\ metrics' = UpdateState(metrics, e.state)
  /\ legacy' = [legacy EXCEPT ![e.state.lock] = Contribution(@, e.state)]
  /\ totals' = Shift(totals, legacy[e.state.lock].part, legacy'[e.state.lock].part)
  /\ profile' = ProfileEvent(profile, e)

Silent == UNCHANGED observerVars

LEMMA SystemSteps ==
  ASSUME LockInv, \A p \in Procs : Announces(p), [TelemetryNext]_telemetryVars
  PROVE  /\ LockInv'
         /\ \/ UNCHANGED telemetryVars
            \/ Onward /\ Silent /\ \E p \in Procs : Moved(p)
            \/ Replace /\ Silent
            \/ \E s \in Senders, p \in Procs : Deliver(s, p) /\ Observes(Head(outbox[s][p]))
<1>1. CASE UNCHANGED telemetryVars
  <2>1. OInv /\ EInv /\ UNCHANGED vars
    BY <1>1 DEF LockInv, EInv, telemetryVars
  <2>2. EInv' /\ EngineTied'
    BY <2>1, OrderStep, StepTied DEF LockInv
  <2>3. core' = core /\ lockID' = lockID
    BY <2>1 DEF vars, coreVars
  <2> QED
    BY <1>1, <2>2, <2>3 DEF LockInv
<1>2. CASE Replace
  <2>1. Silent
    BY <1>2 DEF Replace, Silent, observerVars
  <2> QED
    BY <1>2, <2>1, ReplaceKeepsLock
<1>3. ASSUME NEW p \in Procs,
             (Room /\ Start(p) /\ UNCHANGED observerVars) \/ (Step(p) /\ UNCHANGED observerVars)
      PROVE  LockInv' /\ Onward /\ Silent /\ Moved(p)
  <2>1. LockInv' /\ Onward
    BY <1>3, LockStep
  <2>2. Moved(p)
    BY <1>3, LockMoves DEF LockInv
  <2> QED
    BY <1>3, <2>1, <2>2 DEF Silent
<1>4. ASSUME NEW p \in Procs, NEW s \in Senders, DeliverObserved(s, p)
      PROVE  LockInv' /\ Deliver(s, p) /\ Observes(Head(outbox[s][p]))
  <2>1. Deliver(s, p)
    BY <1>4 DEF DeliverObserved
  <2>2. LockInv'
    BY <2>1, LockStep
  <2>3. Observes(Head(outbox[s][p]))
    BY <1>4 DEF DeliverObserved, Observe, Observes
  <2> QED
    BY <2>1, <2>2, <2>3
<1> QED
  BY <1>1, <1>2, <1>3, <1>4 DEF TelemetryNext

-----------------------------------------------------------------------------
(* What a delivery does to the life of an attempt *)

LEMMA HeardToo ==
  ASSUME NEW s \in Seq(Kinds), NEW k \in Kinds
  PROVE  Elems(Append(s, k)) = Elems(s) \union {k}
<1> DEFINE a == Append(s, k)
<1>1. /\ Len(s) \in Nat /\ DOMAIN s = 1..Len(s) /\ DOMAIN a = 1..(Len(s) + 1)
      /\ a[Len(s) + 1] = k /\ \A i \in 1..Len(s) : a[i] = s[i]
  OBVIOUS
<1> HIDE DEF a
<1>2. Elems(a) = Elems(s) \union {k}
  BY <1>1 DEF Elems
<1> QED
  BY <1>2 DEF a

\* Of whom an event is, when it is told, and what its teller does next.
Opens(s, p, e) ==
  /\ e.kind = "waitStarted" /\ e.id = p /\ s = "call" /\ Len(outbox["call"][p]) = 1
  /\ pc[p] = "announce" /\ pc'[p] = "select"
Reports(s, p, e) == e.kind = "waitExceeded" /\ e.id = p /\ pc'[p] = pc[p]
Closes(s, p, e) ==
  /\ e.kind \in Ends /\ e.id = p /\ s = "call" /\ Len(outbox["call"][p]) = 1
  /\ Concluding(p) /\ Heard(p) \subseteq Early
  /\ e.kind = "acquired" <=> Granted(p)
  /\ e.kind = "tryFailed" => Failing(p)
  /\ pc'[p] = IF Granted(p) THEN "complete" ELSE "back"
Follows(s, p, e) ==
  /\ e.kind \in Late /\ e.id \in Procs /\ Announced(e.id)
  /\ e.kind = "released" => e.id \in left /\ "released" \notin Heard(e.id)
  /\ pc'[p] = pc[p] \/ (pc[p] = "send" /\ Granted(p) /\ pc'[p] = "back")

LEMMA DeliverHears ==
  ASSUME EInv, NEW s \in Senders, NEW p \in Procs, Deliver(s, p),
         NEW e, e = Head(outbox[s][p])
  PROVE  /\ e.id \in Procs /\ Heard(e.id)' = Heard(e.id) \union {e.kind}
         /\ \A q \in Procs : q # e.id => Heard(q)' = Heard(q)
<1>1. OInv /\ TypeOK /\ Tells(s, p, e)
  <2>1. OInv
    BY DEF EInv
  <2> QED
    BY <2>1, Telling DEF OInv
<1>2. e.id \in Procs /\ e.kind \in Kinds /\ seen[e.id] \in Seq(Kinds)
  BY <1>1 DEF Tells, TypeOK
<1>3. seen'[e.id] = Append(seen[e.id], e.kind) /\ \A q \in Procs : q # e.id => seen'[q] = seen[q]
  BY <1>1, <1>2 DEF Deliver, TypeOK
<1> QED
  BY <1>2, <1>3, HeardToo, ZenonT(60) DEF Heard

LEMMA DeliverKinds ==
  ASSUME EInv, NEW s \in Senders, NEW p \in Procs, Deliver(s, p),
         NEW e, e = Head(outbox[s][p])
  PROVE  Opens(s, p, e) \/ Reports(s, p, e) \/ Closes(s, p, e) \/ Follows(s, p, e)
<1> DEFINE b == outbox[s][p]
<1>0. OInv /\ TypeOK /\ Life(p) /\ CallSends(p) /\ WaitSends(p) /\ HoldSends(p) /\ ReleaseSends(p)
      /\ SoFar(p)
  BY DEF EInv, OInv, Life
<1>1. Tells(s, p, e)
  BY <1>0, Telling
<1>2. b \in Seq(Event) /\ b # <<>> /\ 1 \in DOMAIN b /\ b[1] = e
  <2>1. b \in Seq(Event) /\ b # <<>>
    BY <1>1 DEF Tells
  <2> QED
    BY <2>1, NextEvent
<1>3. CASE s = "call" /\ pc[p] = "announce"
  <2>1. One(b, p, "waitStarted")
    BY <1>0, <1>3 DEF CallSends
  <2>2. Len(b) = 1 /\ e.id = p /\ e.kind = "waitStarted"
    BY <1>2, <2>1 DEF One
  <2>3. pc'[p] = "select"
    BY <1>1, <1>3, <2>2 DEF Tells
  <2> QED
    BY <1>3, <2>2, <2>3 DEF Opens
<1>4. CASE s = "call" /\ Concluding(p)
  <2>1. PICK k \in Ends : /\ k = "acquired" <=> Granted(p)
                          /\ One(b, p, k) \/ Two(b, p, "waitExceeded", k)
    BY <1>0, <1>4 DEF CallSends
  <2>2. CASE One(b, p, k)
    <3>1. Len(b) = 1 /\ e.id = p /\ e.kind = k
      BY <1>2, <2>2 DEF One
    <3>2. pc'[p] = IF Granted(p) THEN "complete" ELSE "back"
      <4>1. pc[p] = "deliver" => Granted(p)
        BY <1>0 DEF OInv, PlacesTied, Granted
      <4> QED
        BY <1>1, <1>4, <3>1, <4>1 DEF Tells, Concluding
    <3>3. Heard(p) \subseteq Early
      BY <1>0, <1>4 DEF SoFar
    <3>4. e.kind = "tryFailed" => Failing(p)
      BY <1>2, <1>4 DEF Failing
    <3> QED
      BY <1>4, <2>1, <3>1, <3>2, <3>3, <3>4 DEF Closes
  <2>3. CASE Two(b, p, "waitExceeded", k)
    <3>1. Len(b) # 1 /\ e.id = p /\ e.kind = "waitExceeded"
      BY <1>2, <2>3 DEF Two
    <3> QED
      BY <1>1, <1>4, <3>1 DEF Reports, Tells
  <2> QED
    BY <2>1, <2>2, <2>3
<1>5. CASE s = "call" /\ pc[p] = "send" /\ Granted(p)
  <2>1. p \in Carriers /\ p # NoAttempt /\ Mail(p) = b
    BY <1>5, CoreAssumption DEF Mail, Carriers
  <2>2. Fresh(e) /\ Announced(e.id)
    BY <1>2, <2>1 DEF EInv, Mailed
  <2>3. pc'[p] = pc[p] \/ pc'[p] = "back"
    BY <1>1, <1>5 DEF Tells
  <2> QED
    BY <1>1, <1>5, <2>2, <2>3 DEF Follows, Fresh, Tells
<1>6. CASE s = "call"
  <2>1. pc[p] \in {"announce", "deliver", "send"}
    BY <1>0, <1>2, <1>6 DEF OInv, PlacesTied
  <2> QED
    BY <1>3, <1>4, <1>5, <1>6, <2>1 DEF Concluding
<1>7. CASE s # "call"
  <2>1. pc'[p] = pc[p]
    BY <1>1, <1>7 DEF Tells
  <2>2. CASE s = "wait"
    <3>1. e.kind = "waitExceeded" /\ e.id = p
      BY <1>0, <1>2, <2>2 DEF WaitSends, One
    <3> QED
      BY <2>1, <3>1 DEF Reports
  <2>3. CASE s = "hold"
    <3>1. e.kind = "holdExceeded" /\ e.id = p /\ Announced(p)
      BY <1>0, <1>2, <2>3 DEF HoldSends, One
    <3> QED
      BY <2>1, <3>1 DEF Follows, Late
  <2>4. CASE s = "release"
    <3>1. e.kind \in Late /\ e.id = p
      BY <1>0, <1>2, <2>4 DEF ReleaseSends, One, Two, Late
    <3>2. Announced(p) /\ p \in left /\ "released" \notin Heard(p)
      BY <1>0, <1>2, <2>4 DEF ReleaseSends
    <3> QED
      BY <2>1, <3>1, <3>2 DEF Follows
  <2> QED
    BY <1>7, <2>2, <2>3, <2>4 DEF Senders
<1> QED
  BY <1>6, <1>7

\* What is not being told stays: rights, requests, and the Try that failed.
LEMMA DeliverLeaves ==
  ASSUME EInv, NEW s \in Senders, NEW p \in Procs, Deliver(s, p)
  PROVE  /\ want' = want /\ left' = left
         /\ \A q \in Procs : Granted(q)' <=> Granted(q)
         /\ \A q \in Procs : q # p => pc'[q] = pc[q]
         /\ \A q \in Procs : Concluding(q)' => Concluding(q)
         /\ \A q \in Procs : Failing(q)' => Failing(q)
<1> PICK e : e = Head(outbox[s][p])
  OBVIOUS
<1>0. OInv /\ TypeOK
  BY DEF EInv, OInv
<1>1. Tells(s, p, e)
  BY <1>0, Telling
<1>2. /\ want' = want /\ left' = left /\ \A q \in Procs : q # p => pc'[q] = pc[q]
      /\ \A q \in Procs : Granted(q)' <=> Granted(q)
  BY <1>1 DEF Tells, Granted
<1>3. \A q \in Procs : Concluding(q)' => Concluding(q)
  <2>1. pc'[p] = pc[p] \/ pc'[p] \in {"select", "complete", "back"}
    <3>1. Opens(s, p, e) \/ Reports(s, p, e) \/ Closes(s, p, e) \/ Follows(s, p, e)
      BY DeliverKinds
    <3> QED
      BY <3>1 DEF Opens, Reports, Closes, Follows
  <2> QED
    BY <1>2, <2>1 DEF Concluding
<1>4. ASSUME NEW q \in Procs, NEW i \in DOMAIN outbox'["call"][q]
      PROVE  \E j \in DOMAIN outbox["call"][q] : outbox'["call"][q][i] = outbox["call"][q][j]
  <2> DEFINE b == outbox["call"][q]
  <2>1. CASE s = "call" /\ q = p
    <3>1. b \in Seq(Event) /\ b # <<>> /\ outbox'["call"][q] = Tail(b)
      BY <1>1, <2>1 DEF Tells
    <3> HIDE DEF b
    <3>2. /\ Len(b) \in Nat \ {0} /\ Tail(b) \in Seq(Event) /\ Len(Tail(b)) = Len(b) - 1
          /\ \A j \in 1..(Len(b) - 1) : Tail(b)[j] = b[j + 1]
      BY <3>1, NextEvent
    <3>3. DOMAIN b = 1..Len(b) /\ DOMAIN Tail(b) = 1..(Len(b) - 1)
      BY <3>1, <3>2
    <3>4. i \in 1..(Len(b) - 1)
      BY <1>4, <3>1, <3>3
    <3>5. i + 1 \in DOMAIN b /\ Tail(b)[i] = b[i + 1]
      BY <3>2, <3>3, <3>4
    <3> QED
      BY <3>1, <3>5 DEF b
  <2>2. CASE s # "call" \/ q # p
    BY <1>1, <1>4, <2>2 DEF Tells, Senders
  <2> QED
    BY <2>1, <2>2
<1>5. \A q \in Procs : Failing(q)' => Failing(q)
  BY <1>3, <1>4 DEF Failing
<1> QED
  BY <1>2, <1>3, <1>5

\* The released event of an attempt that has left is on its way until it is heard.
LEMMA AnnouncesKept ==
  ASSUME LockInv, \A p \in Procs : Announces(p), [TelemetryNext]_telemetryVars
  PROVE  \A p \in Procs : Announces(p)'
<1>0. EInv /\ OInv
  BY DEF LockInv, EInv
<1>1. CASE UNCHANGED <<left, seen, outbox, pending>>
  <2>1. Sent' = Sent
    BY <1>1, SentStill
  <2>2. \A p \in Procs : Heard(p)' = Heard(p)
    BY <1>1 DEF Heard
  <2> QED
    BY <1>1, <2>1, <2>2 DEF Announces
<1>2. ASSUME NEW p \in Procs, Moved(p)
      PROVE  \A q \in Procs : Announces(q)'
  <2>1. \A q \in Procs : ProfileKept(q)
    BY <1>0, <1>2, AsideKeeps DEF Moved
  <2> QED
    BY <1>2, <2>1 DEF Moved, Speaks, ProfileKept, Announces
<1>3. ASSUME NEW p \in Procs, NEW s \in Senders, Deliver(s, p)
      PROVE  \A q \in Procs : Announces(q)'
  <2> PICK e : e = Head(outbox[s][p])
    OBVIOUS
  <2>1. left' = left /\ \A x \in Sent : x = e \/ x \in Sent'
    BY <1>0, <1>3, DeliverLeaves, DeliverMoves
  <2>2. /\ e.id \in Procs /\ Heard(e.id)' = Heard(e.id) \union {e.kind}
        /\ \A q \in Procs : q # e.id => Heard(q)' = Heard(q)
    BY <1>0, <1>3, DeliverHears
  <2>3. \A q \in Procs : Heard(q) \subseteq Heard(q)'
    BY <2>2
  <2> QED
    BY <2>1, <2>2, <2>3 DEF Announces
<1>4. UNCHANGED telemetryVars \/ Replace => UNCHANGED <<left, seen, outbox, pending>>
  BY DEF telemetryVars, vars, coreVars, leaveVars, sendVars, Replace
<1> QED
  BY <1>1, <1>2, <1>3, <1>4, SystemSteps

-----------------------------------------------------------------------------
(* The profiles *)

\* The profile is at all times what the attempts have come to; no release comes before its
\* acquired event, and a Try that failed has not waited.
ProfileShows ==
  profile = [waiting |-> {p \in Procs : ShownWaiting(p)},
             held |-> {p \in Procs : ShownHeld(p)}, released |-> {}]
Unwaited(p) == Failing(p) => "waitStarted" \notin Heard(p)

\* What a delivery makes of those an attempt is shown with.
LEMMA DeliverShows ==
  ASSUME EInv, \A q \in Procs : Unwaited(q), NEW s \in Senders, NEW p \in Procs, Deliver(s, p),
         NEW e, e = Head(outbox[s][p])
  PROVE  /\ \A q \in Procs : Unwaited(q)'
         /\ \A q \in Procs : ShownWaiting(q)' <=>
              \/ e.kind = "waitStarted" /\ q = e.id
              \/ ShownWaiting(q) /\ ~(e.kind \in Ends /\ q = e.id)
         /\ \A q \in Procs : ShownHeld(q)' <=>
              \/ e.kind = "acquired" /\ q = e.id /\ Exact(want[q])
              \/ ShownHeld(q) /\ ~(e.kind = "released" /\ q = e.id)
         /\ e.kind = "tryFailed" => ~ShownWaiting(e.id)
         /\ e.kind = "released" /\ Exact(want[e.id]) => ShownHeld(e.id)
<1>1. /\ e.id \in Procs /\ Heard(e.id)' = Heard(e.id) \union {e.kind}
      /\ \A q \in Procs : q # e.id => Heard(q)' = Heard(q)
  BY DeliverHears
<1>2. /\ want' = want /\ left' = left
      /\ \A q \in Procs : Granted(q)' <=> Granted(q)
      /\ \A q \in Procs : q # p => pc'[q] = pc[q]
      /\ \A q \in Procs : Failing(q)' => Failing(q)
  BY DeliverLeaves
<1>3. CASE Opens(s, p, e)
  <2>1. /\ e.kind = "waitStarted" /\ e.id = p /\ pc[p] = "announce" /\ pc'[p] = "select"
        /\ e.kind \notin Ends
    BY <1>3 DEF Opens, Ends
  <2>2. \A q \in Procs : Unwaited(q)'
    <3>1. ~Failing(p)'
      BY <2>1 DEF Failing, Concluding
    <3> QED
      BY <1>1, <1>2, <2>1, <3>1 DEF Unwaited
  <2>3. \A q \in Procs : q # p => (ShownWaiting(q)' <=> ShownWaiting(q)) /\ (ShownHeld(q)' <=> ShownHeld(q))
    BY <1>1, <1>2, <2>1 DEF ShownWaiting, ShownHeld, Concluding, Announced
  <2>4. ShownWaiting(p)' /\ ~ShownHeld(p) /\ ~ShownHeld(p)'
    BY <2>1 DEF ShownWaiting, ShownHeld, Announced
  <2> QED
    BY <2>1, <2>2, <2>3, <2>4
<1>4. CASE Reports(s, p, e)
  <2>1. e.kind = "waitExceeded" /\ e.id = p /\ e.kind \notin Ends /\ \A q \in Procs : pc'[q] = pc[q]
    BY <1>2, <1>4 DEF Reports, Ends
  <2>2. \A q \in Procs : /\ "waitStarted" \in Heard(q)' <=> "waitStarted" \in Heard(q)
                         /\ "released" \in Heard(q)' <=> "released" \in Heard(q)
    BY <1>1, <2>1
  <2>3. \A q \in Procs : Unwaited(q)'
    BY <1>2, <2>2 DEF Unwaited
  <2>4. \A q \in Procs : (ShownWaiting(q)' <=> ShownWaiting(q)) /\ (ShownHeld(q)' <=> ShownHeld(q))
    BY <1>2, <2>1, <2>2 DEF ShownWaiting, ShownHeld, Concluding, Announced
  <2> QED
    BY <2>1, <2>3, <2>4
<1>5. CASE Closes(s, p, e)
  <2>1. /\ e.kind \in Ends /\ e.id = p /\ Concluding(p) /\ Heard(p) \subseteq Early
        /\ e.kind = "acquired" <=> Granted(p)
        /\ e.kind = "tryFailed" => Failing(p)
        /\ pc'[p] = IF Granted(p) THEN "complete" ELSE "back"
        /\ e.kind \notin {"waitStarted", "released"}
    BY <1>5 DEF Closes, Ends
  <2>2. ~Concluding(p)' /\ (Announced(p)' <=> Granted(p)) /\ ~Announced(p)
    BY <1>2, <2>1 DEF Concluding, Announced
  <2>3. \A q \in Procs : Unwaited(q)'
    <3>1. ~Failing(p)'
      BY <2>2 DEF Failing
    <3> QED
      BY <1>1, <1>2, <2>1, <3>1 DEF Unwaited
  <2>4. \A q \in Procs : q # p => (ShownWaiting(q)' <=> ShownWaiting(q)) /\ (ShownHeld(q)' <=> ShownHeld(q))
    BY <1>1, <1>2, <2>1 DEF ShownWaiting, ShownHeld, Concluding, Announced
  <2>5. ~ShownWaiting(p)' /\ (e.kind = "tryFailed" => ~ShownWaiting(p))
    BY <2>1, <2>2 DEF ShownWaiting, Unwaited, Concluding
  <2>6. (ShownHeld(p)' <=> Granted(p) /\ Exact(want[p])) /\ ~ShownHeld(p)
    <3>1. "released" \notin Heard(p)'
      BY <1>1, <2>1 DEF Early
    <3> QED
      BY <1>2, <2>2, <3>1 DEF ShownHeld
  <2> QED
    BY <2>1, <2>3, <2>4, <2>5, <2>6
<1>6. CASE Follows(s, p, e)
  <2>1. /\ e.kind \in Late /\ Announced(e.id) /\ e.kind \notin Ends
        /\ e.kind \notin {"waitStarted", "acquired", "tryFailed"}
        /\ e.kind = "released" => "released" \notin Heard(e.id)
        /\ pc'[p] = pc[p] \/ (pc[p] = "send" /\ Granted(p) /\ pc'[p] = "back")
    BY <1>6 DEF Follows, Late, Ends
  <2>2. \A q \in Procs : /\ "waitStarted" \in Heard(q)' <=> "waitStarted" \in Heard(q)
                         /\ "released" \in Heard(q)' <=>
                              "released" \in Heard(q) \/ (e.kind = "released" /\ q = e.id)
    BY <1>1, <2>1
  <2>3. \A q \in Procs : /\ Concluding(q)' <=> Concluding(q)
                         /\ Announced(q)' <=> Announced(q)
                         /\ pc'[q] \in {"select", "finish"} <=> pc[q] \in {"select", "finish"}
    BY <1>2, <2>1 DEF Concluding, Announced
  <2>4. \A q \in Procs : Unwaited(q)'
    BY <1>2, <2>2 DEF Unwaited
  <2>5. \A q \in Procs : ShownWaiting(q)' <=> ShownWaiting(q)
    BY <2>2, <2>3 DEF ShownWaiting
  <2>6. \A q \in Procs : ShownHeld(q)' <=> ShownHeld(q) /\ ~(e.kind = "released" /\ q = e.id)
    BY <1>2, <2>2, <2>3 DEF ShownHeld
  <2>7. e.kind = "released" /\ Exact(want[e.id]) => ShownHeld(e.id)
    BY <2>1 DEF ShownHeld
  <2> QED
    BY <2>1, <2>4, <2>5, <2>6, <2>7
<1> QED
  BY <1>3, <1>4, <1>5, <1>6, DeliverKinds

\* What the observer makes of an event, in the sets that the profile is.
LEMMA ProfileFollows ==
  ASSUME NEW f, NEW e, e.kind \in Kinds,
         f = [waiting |-> f.waiting, held |-> f.held, released |-> {}],
         e.kind = "released" /\ Exact(want[e.id]) => e.id \in f.held,
         e.kind = "tryFailed" => e.id \notin f.waiting
  PROVE  ProfileEvent(f, e) =
           [waiting |-> (IF e.kind \in Ends THEN f.waiting \ {e.id}
                         ELSE IF e.kind = "waitStarted" THEN f.waiting \union {e.id} ELSE f.waiting),
            held |-> (IF e.kind = "acquired" /\ Exact(want[e.id]) THEN f.held \union {e.id}
                      ELSE IF e.kind = "released" /\ Exact(want[e.id]) THEN f.held \ {e.id}
                      ELSE f.held),
            released |-> {}]
<1>1. e.id \notin f.released /\ f.released = {}
  OBVIOUS
<1>2. CASE e.kind = "waitStarted"
  BY <1>1, <1>2 DEF ProfileEvent, Ends
<1>3. CASE e.kind = "rejected"
  BY <1>1, <1>3 DEF ProfileEvent, Ends
<1>4. CASE e.kind = "acquired" /\ ~Exact(want[e.id])
  BY <1>1, <1>4 DEF ProfileEvent, Ends
<1>5. CASE e.kind = "acquired" /\ Exact(want[e.id])
  BY <1>1, <1>5 DEF ProfileEvent, Ends
<1>6. CASE e.kind = "released" /\ Exact(want[e.id])
  <2>1. e.id \in f.held
    BY <1>1, <1>6
  <2> QED
    BY <1>1, <1>6, <2>1 DEF ProfileEvent, Ends
<1>7. CASE \/ e.kind \in {"waitExceeded", "holdExceeded"}
           \/ e.kind = "released" /\ ~Exact(want[e.id])
  BY <1>1, <1>7 DEF ProfileEvent, Ends
<1>8. CASE e.kind = "tryFailed"
  <2>1. f.waiting \ {e.id} = f.waiting
    BY <1>8
  <2>2. ProfileEvent(f, e) = f
    BY <1>8 DEF ProfileEvent
  <2> QED
    BY <1>8, <2>1, <2>2 DEF Ends
<1> QED
  BY <1>2, <1>3, <1>4, <1>5, <1>6, <1>7, <1>8 DEF Kinds

\* What is kept of the lock and of the profile.
ToldInv == LockInv /\ \A p \in Procs : Announces(p)
ProfileInv == ProfileShows /\ \A p \in Procs : Unwaited(p)

LEMMA ToldInvariant == TelemetrySpec => []ToldInv
<1>1. TelemetryInit => ToldInv
  <2> SUFFICES ASSUME TelemetryInit PROVE ToldInv
    OBVIOUS
  <2>1. left = {}
    BY DEF TelemetryInit, Init
  <2> QED
    BY <2>1, LockInitially DEF ToldInv, Announces
<1>2. ToldInv /\ [TelemetryNext]_telemetryVars => ToldInv'
  <2> SUFFICES ASSUME ToldInv, [TelemetryNext]_telemetryVars PROVE ToldInv'
    OBVIOUS
  <2>1. LockInv /\ \A p \in Procs : Announces(p)
    BY DEF ToldInv
  <2>2. LockInv'
    BY <2>1, SystemSteps
  <2>3. \A p \in Procs : Announces(p)'
    BY <2>1, AnnouncesKept
  <2> QED
    BY <2>2, <2>3 DEF ToldInv
<1> QED
  BY <1>1, <1>2, PTL DEF TelemetrySpec

LEMMA ProfileInitially == TelemetryInit => ProfileInv
<1> SUFFICES ASSUME TelemetryInit PROVE ProfileInv
  OBVIOUS
<1>1. /\ \A p \in Procs : pc[p] = "idle"
      /\ profile = [waiting |-> {}, held |-> {}, released |-> {}]
  BY DEF TelemetryInit, Init
<1>2. \A p \in Procs : ~ShownWaiting(p) /\ ~ShownHeld(p) /\ Unwaited(p)
  BY <1>1 DEF ShownWaiting, ShownHeld, Unwaited, Failing, Concluding, Announced
<1> QED
  BY <1>1, <1>2 DEF ProfileInv, ProfileShows

LEMMA ProfileStep ==
  ASSUME ToldInv, ProfileInv, [TelemetryNext]_telemetryVars
  PROVE  ProfileInv'
<1> DEFINE W == {p \in Procs : ShownWaiting(p)}
           H == {p \in Procs : ShownHeld(p)}
<1>0. LockInv /\ EInv /\ (\A p \in Procs : Announces(p))
      /\ (\A p \in Procs : Unwaited(p))
      /\ profile = [waiting |-> W, held |-> H, released |-> {}]
  BY DEF ToldInv, LockInv, ProfileInv, ProfileShows
<1>1. ASSUME profile' = profile,
             \A p \in Procs : ShownWaiting(p)' <=> ShownWaiting(p),
             \A p \in Procs : ShownHeld(p)' <=> ShownHeld(p)
      PROVE  ProfileShows'
  BY <1>0, <1>1 DEF ProfileShows
<1>2. CASE UNCHANGED <<profile, pc, core.verdict, want, seen, outbox>>
  <2>1. ASSUME NEW p \in Procs
        PROVE  /\ ShownWaiting(p)' <=> ShownWaiting(p)
               /\ ShownHeld(p)' <=> ShownHeld(p)
               /\ Unwaited(p)' <=> Unwaited(p)
    <3>1. pc'[p] = pc[p] /\ core'.verdict[p] = core.verdict[p] /\ want'[p] = want[p]
          /\ seen'[p] = seen[p] /\ outbox'["call"][p] = outbox["call"][p]
      BY <1>2
    <3> QED
      BY <3>1 DEF ShownWaiting, ShownHeld, Unwaited, Failing, Concluding, Announced, Granted, Heard
  <2> QED
    BY <1>0, <1>1, <1>2, <2>1 DEF ProfileInv
<1>3. ASSUME NEW p \in Procs, Moved(p), Silent
      PROVE  ProfileInv'
  <2>1. \A q \in Procs : ProfileKept(q)
    BY <1>0, <1>3, AsideKeeps DEF Moved, EInv
  <2>2. profile' = profile
    BY <1>3 DEF Silent, observerVars
  <2>3. \A q \in Procs : Unwaited(q)'
    BY <1>0, <2>1 DEF ProfileKept, Unwaited
  <2>4. ProfileShows'
    BY <1>1, <2>1, <2>2 DEF ProfileKept
  <2> QED
    BY <2>3, <2>4 DEF ProfileInv
<1>4. ASSUME NEW p \in Procs, NEW s \in Senders, Deliver(s, p), Observes(Head(outbox[s][p]))
      PROVE  ProfileInv'
  <2> PICK e : e = Head(outbox[s][p])
    OBVIOUS
  <2>1. /\ \A q \in Procs : Unwaited(q)'
        /\ \A q \in Procs : ShownWaiting(q)' <=>
             \/ e.kind = "waitStarted" /\ q = e.id
             \/ ShownWaiting(q) /\ ~(e.kind \in Ends /\ q = e.id)
        /\ \A q \in Procs : ShownHeld(q)' <=>
             \/ e.kind = "acquired" /\ q = e.id /\ Exact(want[q])
             \/ ShownHeld(q) /\ ~(e.kind = "released" /\ q = e.id)
        /\ e.kind = "tryFailed" => ~ShownWaiting(e.id)
        /\ e.kind = "released" /\ Exact(want[e.id]) => ShownHeld(e.id)
    BY <1>0, <1>4, DeliverShows
  <2>2. e.id \in Procs /\ e.kind \in Kinds
    <3>1. OInv
      BY <1>0 DEF EInv
    <3>2. Tells(s, p, e)
      BY <1>4, <3>1, Telling
    <3> QED
      BY <3>2 DEF Tells
  <2>3. profile' = ProfileEvent(profile, e)
    BY <1>4 DEF Observes
  <2>4. /\ e.kind = "released" /\ Exact(want[e.id]) => e.id \in H
        /\ e.kind = "tryFailed" => e.id \notin W
    BY <2>1, <2>2
  <2> DEFINE V == IF e.kind \in Ends THEN W \ {e.id}
                  ELSE IF e.kind = "waitStarted" THEN W \union {e.id} ELSE W
             G == IF e.kind = "acquired" /\ Exact(want[e.id]) THEN H \union {e.id}
                  ELSE IF e.kind = "released" /\ Exact(want[e.id]) THEN H \ {e.id} ELSE H
  <2>5. V = {q \in Procs : ShownWaiting(q)'}
    <3>1. "waitStarted" \notin Ends
      BY DEF Ends
    <3> QED
      BY <2>1, <2>2, <3>1
  <2>6. G = {q \in Procs : ShownHeld(q)'}
    <3>1. \A q \in Procs : ShownHeld(q) => Exact(want[q])
      BY DEF ShownHeld
    <3> QED
      BY <2>1, <2>2, <3>1
  <2>7. /\ profile.waiting = W /\ profile.held = H
        /\ profile = [waiting |-> profile.waiting, held |-> profile.held, released |-> {}]
    BY <1>0
  <2> HIDE DEF W, H
  <2>9. profile' = [waiting |-> V, held |-> G, released |-> {}]
    BY <2>2, <2>3, <2>4, <2>7, ProfileFollows
  <2> HIDE DEF V, G
  <2>8. ProfileShows'
    BY <2>5, <2>6, <2>9 DEF ProfileShows
  <2> QED
    BY <2>1, <2>8 DEF ProfileInv
<1>5. CASE UNCHANGED telemetryVars
  <2>1. UNCHANGED <<profile, pc, core.verdict, want, seen, outbox>>
    BY <1>5 DEF telemetryVars, vars, observerVars, coreVars, callVars, sendVars
  <2> QED
    BY <1>2, <2>1
<1>6. CASE Replace
  <2>1. core'.verdict = core.verdict
    <3>1. core' = [InitialCore EXCEPT !.verdict = core.verdict]
      BY <1>6 DEF Replace
    <3> QED
      BY <3>1 DEF InitialCore
  <2>2. UNCHANGED <<profile, pc, core.verdict, want, seen, outbox>>
    BY <1>6, <2>1 DEF Replace, observerVars, callVars, sendVars
  <2> QED
    BY <1>2, <2>2
<1> QED
  BY <1>0, <1>3, <1>4, <1>5, <1>6, SystemSteps

\* The profiles are what becomes of the attempts, whoever tells of them and however late:
\* ProfileObserver drops who is over, shows who waits and keeps an exact acquisition from
\* the return of its call to its release.
THEOREM ProfilesFollow == TelemetrySpec => []ProfilesExact
<1>1. TelemetryInit => ProfileInv
  BY ProfileInitially
<1>2. ToldInv /\ ProfileInv /\ [TelemetryNext]_telemetryVars => ProfileInv'
  BY ProfileStep
<1>3. ASSUME ToldInv, ProfileInv PROVE ProfilesExact
  <2>0. EInv /\ (\A p \in Procs : Announces(p)) /\ ProfileShows
    BY <1>3 DEF ToldInv, LockInv, ProfileInv
  <2>1. /\ profile.waiting = {p \in Procs : ShownWaiting(p)}
        /\ profile.held = {p \in Procs : ShownHeld(p)}
        /\ profile.released = {}
    BY <2>0 DEF ProfileShows
  <2> SUFFICES ASSUME NEW p \in Procs
               PROVE  /\ Over(p) => p \notin profile.waiting \union profile.held \union profile.released
                      /\ pc[p] = "select" /\ core.verdict[p] = "none" => p \in profile.waiting
                      /\ pc[p] = "back" => p \notin profile.waiting
                      /\ pc[p] = "back" /\ Owns(p) /\ Exact(want[p]) => p \in profile.held
    BY DEF ProfilesExact
  <2>2. pc[p] = "back" => ~ShownWaiting(p)
    BY DEF ShownWaiting, Concluding
  <2>3. pc[p] = "select" => ShownWaiting(p)
    BY DEF ShownWaiting
  <2>4. pc[p] = "back" /\ Owns(p) /\ Exact(want[p]) => ShownHeld(p)
    <3>1. "released" \in Heard(p) => p \in left
      BY <2>0 DEF EInv, Life, SoFar
    <3> QED
      BY <3>1 DEF ShownHeld, Announced, Granted, Owns
  <2>5. Over(p) => pc[p] = "back" /\ ~ShownHeld(p)
    <3> SUFFICES ASSUME Over(p), ShownHeld(p) PROVE FALSE
      BY DEF Over
    <3>1. p \in left
      BY DEF Over, ShownHeld, Announced, Granted, Owns
    <3>2. "released" \in Heard(p)
      BY <2>0, <3>1, OverIsTold DEF Announces
    <3> QED
      BY <3>2 DEF ShownHeld
  <2> QED
    BY <2>1, <2>2, <2>3, <2>4, <2>5
<1> QED
  BY <1>1, <1>2, <1>3, ToldInvariant, PTL DEF TelemetrySpec

-----------------------------------------------------------------------------
(* Versions name states *)

\* The state of the lock and those that events on their way tell of.
Now == StateOf(core)
Known == {Now} \union {e.state : e \in Sent}

\* All are of the lock or of one before it, none is newer than the lock, and where lock and
\* version are the same, so is what they tell.
KnownInv ==
  /\ \A x \in Known : x.lock \in 1..lockID /\ x.version \in Nat
                      /\ (x.lock = lockID => x.version <= core.version)
  /\ \A x, y \in Known : x.lock = y.lock /\ x.version = y.version => x.counts = y.counts
  /\ metrics.lock \in 0..lockID /\ metrics.version \in Nat
  /\ metrics.lock = lockID => metrics.version <= core.version
  /\ \A x \in Known : x.lock = metrics.lock /\ x.version = metrics.version
                        => Gauges(x.counts) = metrics.gauges

LEMMA NowIs ==
  /\ Now.lock = lockID /\ Now.version = core.version /\ Now.counts = Counts(core)
  /\ Now'.lock = lockID' /\ Now'.version = core'.version /\ Now'.counts = Counts(core')
  /\ Now = [lock |-> lockID, version |-> core.version, counts |-> Counts(core)]
BY TelemetryAssumption DEF Now, StateOf

LEMMA KnownMembers ==
  /\ \A x : x \in Known <=> x = Now \/ \E e \in Sent : x = e.state
  /\ \A x : x \in Known' <=> x = Now' \/ \E e \in Sent' : x = e.state
BY DEF Known

\* The lock goes on, or another takes its name.
LEMMA KnownGrows ==
  ASSUME KnownInv, \A x \in Known' : x \in Known \/ x = Now', metrics' = metrics,
         lockID \in Nat \ {0}, core.version \in Nat, core'.version \in Nat,
         Onward \/ lockID' = lockID + 1
  PROVE  KnownInv'
<1>1. Now \in Known
  BY KnownMembers
<1> DEFINE n == Now'
           l == lockID'
           v == core'.version
<1>2. n.lock = l /\ n.version = v /\ n.counts = Counts(core')
  BY NowIs
<1>3. l \in Nat /\ (l = lockID \/ l = lockID + 1) /\ v \in Nat
      /\ (l = lockID => v >= core.version)
  BY DEF Onward
<1>4. ASSUME NEW y \in Known
      PROVE  /\ y.lock = l /\ y.version = v => y.counts = n.counts
             /\ y.lock \in 1..l /\ y.version \in Nat /\ (y.lock = l => y.version <= v)
  <2>1. y.lock \in 1..lockID /\ y.version \in Nat /\ (y.lock = lockID => y.version <= core.version)
    BY DEF KnownInv
  <2>2. y.lock = lockID /\ y.version = core.version => y.counts = Counts(core)
    BY <1>1, NowIs DEF KnownInv
  <2>3. ASSUME y.lock = l PROVE l = lockID
    BY <1>3, <2>1, <2>3
  <2>4. y.lock = l /\ y.version = v => y.version = core.version /\ Counts(core') = Counts(core)
    BY <1>3, <2>1, <2>3 DEF Onward
  <2> QED
    BY <1>2, <1>3, <2>1, <2>2, <2>3, <2>4
<1>5. /\ metrics.lock \in 0..l /\ metrics.version \in Nat
      /\ metrics.lock = l => metrics.version <= v
      /\ metrics.lock = l /\ metrics.version = v => Gauges(n.counts) = metrics.gauges
  <2>1. /\ metrics.lock \in 0..lockID /\ metrics.version \in Nat
        /\ metrics.lock = lockID => metrics.version <= core.version
        /\ metrics.lock = lockID /\ metrics.version = core.version
             => Gauges(Counts(core)) = metrics.gauges
    BY <1>1, NowIs DEF KnownInv
  <2>2. metrics.lock = l => l = lockID
    BY <1>3, <2>1
  <2>3. metrics.lock = l /\ metrics.version = v
          => metrics.version = core.version /\ Counts(core') = Counts(core)
    BY <1>3, <2>1, <2>2 DEF Onward
  <2> QED
    BY <1>2, <1>3, <2>1, <2>2, <2>3
<1>6. \A x \in Known' : x \in Known \/ x = n
  OBVIOUS
<1> HIDE DEF n
<1>7. \A x \in Known' : x.lock \in 1..l /\ x.version \in Nat /\ (x.lock = l => x.version <= v)
  <2>1. n.lock \in 1..l
    BY <1>2, <1>3
  <2> QED
    BY <1>2, <1>3, <1>4, <1>6, <2>1
<1>8. \A x, y \in Known' : x.lock = y.lock /\ x.version = y.version => x.counts = y.counts
  <2> SUFFICES ASSUME NEW x \in Known', NEW y \in Known', x.lock = y.lock, x.version = y.version
               PROVE  x.counts = y.counts
    OBVIOUS
  <2>1. CASE x \in Known /\ y \in Known
    BY <2>1 DEF KnownInv
  <2>2. CASE x = n
    BY <1>2, <1>4, <1>6, <2>2
  <2>3. CASE y = n
    BY <1>2, <1>4, <1>6, <2>3
  <2> QED
    BY <1>6, <2>1, <2>2, <2>3
<1>9. \A x \in Known' : x.lock = metrics.lock /\ x.version = metrics.version
                          => Gauges(x.counts) = metrics.gauges
  <2> SUFFICES ASSUME NEW x \in Known', x.lock = metrics.lock, x.version = metrics.version
               PROVE  Gauges(x.counts) = metrics.gauges
    OBVIOUS
  <2>1. CASE x \in Known
    BY <2>1 DEF KnownInv
  <2>2. CASE x = n
    BY <1>2, <1>5, <2>2
  <2> QED
    BY <1>6, <2>1, <2>2
<1> QED
  BY <1>5, <1>7, <1>8, <1>9 DEF KnownInv

\* The gauges take over the state of an event, or leave it for a newer one.
LEMMA KnownObserved ==
  ASSUME KnownInv, \A x \in Known' : x \in Known, core' = core, lockID' = lockID,
         NEW e \in Sent, metrics' = UpdateState(metrics, e.state)
  PROVE  KnownInv'
<1>1. e.state \in Known
  BY KnownMembers
<1>2. \/ metrics' = metrics
      \/ /\ metrics'.lock = e.state.lock /\ metrics'.version = e.state.version
         /\ metrics'.gauges = Gauges(e.state.counts)
  BY DEF UpdateState
<1>3. CASE metrics' = metrics
  BY <1>3 DEF KnownInv
<1>4. CASE /\ metrics'.lock = e.state.lock /\ metrics'.version = e.state.version
           /\ metrics'.gauges = Gauges(e.state.counts)
  <2> DEFINE z == e.state
  <2>1. z.lock \in 1..lockID /\ z.version \in Nat /\ (z.lock = lockID => z.version <= core.version)
    BY <1>1 DEF KnownInv
  <2>2. metrics'.lock \in 0..lockID /\ metrics'.version \in Nat
        /\ (metrics'.lock = lockID => metrics'.version <= core.version)
    BY <1>4, <2>1
  <2>3. \A x \in Known : x.lock = z.lock /\ x.version = z.version => x.counts = z.counts
    BY <1>1 DEF KnownInv
  <2>4. \A x \in Known' : x.lock = metrics'.lock /\ x.version = metrics'.version
                            => Gauges(x.counts) = metrics'.gauges
    BY <1>4, <2>3
  <2> QED
    BY <2>2, <2>4 DEF KnownInv
<1> QED
  BY <1>2, <1>3, <1>4

\* What a step adds to the states that are known.
LEMMA KnownNext ==
  ASSUME ToldInv, [TelemetryNext]_telemetryVars
  PROVE  /\ LockInv' /\ lockID \in Nat \ {0} /\ core.version \in Nat /\ core'.version \in Nat
         /\ \/ /\ Onward \/ (Replace /\ lockID' = lockID + 1 /\ Sent' = Sent)
               /\ Silent /\ \A x \in Known' : x \in Known \/ x = Now'
               /\ \A e \in Sent' : e \in Sent \/ e.state \in {Now, Now'}
            \/ \E s \in Senders, p \in Procs : \E e \in Sent :
                 /\ Deliver(s, p) /\ e = Head(outbox[s][p]) /\ Observes(e)
                 /\ core' = core /\ lockID' = lockID /\ Now' = Now
                 /\ \A x \in Known' : x \in Known
                 /\ \A d \in Sent' : d \in Sent
                 /\ \A d \in Sent : d = e \/ d \in Sent'
<1>0. LockInv /\ OInv /\ LockInv' /\ \A p \in Procs : Announces(p)
  <2>1. LockInv /\ \A p \in Procs : Announces(p)
    BY DEF ToldInv
  <2>2. LockInv'
    BY <2>1, SystemSteps
  <2> QED
    BY <2>1, <2>2 DEF LockInv, EInv
<1>1. lockID \in Nat \ {0} /\ core.version \in Nat /\ core'.version \in Nat
  <2>1. core \in Core /\ core' \in Core
    BY <1>0 DEF LockInv, EInv, OInv, TypeOK
  <2>2. core.version \in Nat /\ core'.version \in Nat
    BY <2>1, CoreAssumption DEF Core
  <2> QED
    BY <1>0, <2>2, TelemetryAssumption DEF LockInv
<1>2. CASE UNCHANGED telemetryVars
  <2>1. core' = core /\ lockID' = lockID /\ outbox' = outbox /\ pending' = pending
        /\ UNCHANGED observerVars
    BY <1>2 DEF telemetryVars, vars, coreVars, sendVars
  <2>2. Sent' = Sent /\ Now' = Now
    BY <2>1, SentStill, StateKept DEF Now
  <2>3. Onward
    BY <1>1, <2>1 DEF Onward
  <2> QED
    BY <1>0, <1>1, <2>1, <2>2, <2>3, KnownMembers DEF Silent
<1>3. CASE Onward /\ Silent /\ \E p \in Procs : Moved(p)
  <2>1. \A e \in Sent' : e \in Sent \/ e.state \in {Now, Now'}
    BY <1>3 DEF Moved, Speaks, Now
  <2>2. \A x \in Known' : x \in Known \/ x = Now'
    BY <2>1, KnownMembers
  <2> QED
    BY <1>0, <1>1, <1>3, <2>1, <2>2
<1>4. CASE Replace /\ Silent
  <2>1. lockID' = lockID + 1 /\ outbox' = outbox /\ pending' = pending
    BY <1>4 DEF Replace, sendVars
  <2>2. Sent' = Sent
    BY <2>1, SentStill
  <2>3. \A x \in Known' : x \in Known \/ x = Now'
    BY <2>2, KnownMembers
  <2> QED
    BY <1>0, <1>1, <1>4, <2>1, <2>2, <2>3
<1>5. ASSUME NEW s \in Senders, NEW p \in Procs, Deliver(s, p), Observes(Head(outbox[s][p]))
      PROVE  \E e \in Sent :
                 /\ Deliver(s, p) /\ e = Head(outbox[s][p]) /\ Observes(e)
                 /\ core' = core /\ lockID' = lockID /\ Now' = Now
                 /\ \A x \in Known' : x \in Known
                 /\ \A d \in Sent' : d \in Sent
                 /\ \A d \in Sent : d = e \/ d \in Sent'
  <2> PICK e : e = Head(outbox[s][p])
    OBVIOUS
  <2>1. /\ e \in Sent /\ (\A d \in Sent' : d \in Sent)
        /\ \A d \in Sent : d = e \/ d \in Sent'
        /\ core' = core /\ lockID' = lockID /\ Now' = Now
    BY <1>0, <1>5, DeliverMoves DEF Now
  <2>2. \A x \in Known' : x \in Known
    BY <2>1, KnownMembers
  <2>3. Observes(e)
    BY <1>5
  <2> QED
    BY <1>5, <2>1, <2>2, <2>3
<1>6. \/ UNCHANGED telemetryVars
      \/ Onward /\ Silent /\ \E p \in Procs : Moved(p)
      \/ Replace /\ Silent
      \/ \E s \in Senders, p \in Procs : Deliver(s, p) /\ Observes(Head(outbox[s][p]))
  BY <1>0, SystemSteps
<1> QED
  BY <1>0, <1>1, <1>2, <1>3, <1>4, <1>5, <1>6

LEMMA NothingSentAtFirst == Init => Sent = {}
<1> SUFFICES ASSUME Init PROVE Sent = {}
  OBVIOUS
<1>1. pending = <<>> /\ \A s \in Senders, p \in Procs : outbox[s][p] = <<>>
  BY DEF Init
<1>2. Elems(<<>>) = {}
  BY DEF Elems
<1> QED
  BY <1>1, <1>2 DEF Sent

LEMMA KnownInitially == TelemetryInit => KnownInv
<1> SUFFICES ASSUME TelemetryInit PROVE KnownInv
  OBVIOUS
<1>1. /\ Init /\ lockID = 1 /\ core = InitialCore /\ InitialCore.version = 0
      /\ metrics.lock = 0 /\ metrics.version = 0
  BY DEF TelemetryInit, Init, InitialCore
<1>2. Known = {Now} /\ Now.lock = 1 /\ Now.version = 0
  BY <1>1, NothingSentAtFirst, NowIs DEF Known
<1> QED
  BY <1>1, <1>2 DEF KnownInv

LEMMA KnownStep ==
  ASSUME ToldInv, KnownInv, [TelemetryNext]_telemetryVars
  PROVE  KnownInv'
<1>1. /\ lockID \in Nat \ {0} /\ core.version \in Nat /\ core'.version \in Nat
      /\ \/ /\ Onward \/ lockID' = lockID + 1
            /\ Silent /\ \A x \in Known' : x \in Known \/ x = Now'
         \/ \E e \in Sent : /\ Observes(e) /\ core' = core /\ lockID' = lockID
                            /\ \A x \in Known' : x \in Known
  BY KnownNext
<1>2. CASE /\ Onward \/ lockID' = lockID + 1
           /\ Silent /\ \A x \in Known' : x \in Known \/ x = Now'
  <2>1. metrics' = metrics
    BY <1>2 DEF Silent, observerVars
  <2> QED
    BY <1>1, <1>2, <2>1, KnownGrows
<1>3. ASSUME NEW e \in Sent, Observes(e), core' = core, lockID' = lockID,
             \A x \in Known' : x \in Known
      PROVE  KnownInv'
  <2>1. metrics' = UpdateState(metrics, e.state)
    BY <1>3 DEF Observes
  <2> QED
    BY <1>3, <2>1, KnownObserved
<1> QED
  BY <1>1, <1>2, <1>3

LEMMA KnownInvariant == TelemetrySpec => [](ToldInv /\ KnownInv)
<1>1. TelemetryInit => KnownInv
  BY KnownInitially
<1>2. ToldInv /\ KnownInv /\ [TelemetryNext]_telemetryVars => KnownInv'
  BY KnownStep
<1> QED
  BY <1>1, <1>2, ToldInvariant, PTL DEF TelemetrySpec

\* A version of a lock names one state of it, as Observer.updateState takes for granted:
\* rwCore draws a new version with every change of the counts, and a lock that takes the
\* name over draws a new identity.
THEOREM VersionsNameStates == TelemetrySpec => []VersionNamesState
<1>1. ASSUME ToldInv, KnownInv PROVE VersionNamesState
  <2> DEFINE boxes == {Elems(outbox[s][p]) : s \in Senders, p \in Procs}
             sent == Elems(pending) \union UNION boxes
             known == {StateOf(core)} \union {e.state : e \in sent}
  <2>1. TypeOK
    BY <1>1 DEF ToldInv, LockInv, EInv, OInv
  <2>2. \A e : e \in UNION boxes <=> \E s \in Senders, p \in Procs : e \in Elems(outbox[s][p])
    <3>1. \A b : b \in boxes <=> \E s \in Senders, p \in Procs : b = Elems(outbox[s][p])
      OBVIOUS
    <3> HIDE DEF boxes
    <3> QED
      BY <3>1
  <2> HIDE DEF boxes
  <2>3. \A e \in sent : e \in Sent
    <3> SUFFICES ASSUME NEW e \in sent PROVE e \in Sent
      OBVIOUS
    <3>1. \/ \E s \in Senders, p \in Procs : e \in Elems(outbox[s][p])
          \/ e \in Elems(pending)
      BY <2>2
    <3>2. e \in Event
      <4>1. \A b \in Seq(Event) : \A x \in Elems(b) : x \in Event
        BY DEF Elems
      <4> QED
        BY <2>1, <3>1, <4>1 DEF TypeOK
    <3> QED
      BY <3>1, <3>2, SentMembers
  <2> HIDE DEF sent
  <2>4. \A x \in known : x \in Known
    BY <2>3, KnownMembers DEF Now
  <2> HIDE DEF known
  <2>5. /\ \A x, y \in known : x.lock = y.lock /\ x.version = y.version => x.counts = y.counts
        /\ \A x \in known : x.lock = metrics.lock /\ x.version = metrics.version
                              => Gauges(x.counts) = metrics.gauges
    BY <1>1, <2>4 DEF KnownInv
  <2> QED
    BY <2>5 DEF VersionNamesState, known, sent, boxes
<1> QED
  BY <1>1, KnownInvariant, PTL

-----------------------------------------------------------------------------
(* The gauges settle *)

\* What the gauges show, and what they would after an event on its way.
View(x) == [lock |-> x.lock, version |-> x.version, gauges |-> Gauges(x.counts)]
Views == {metrics} \union {View(e.state) : e \in Sent}

Newer(y, w) == y.lock > w.lock \/ (y.lock = w.lock /\ y.version > w.version)

\* Somebody is going to tell of the lock as it is, or the newest of what was told does.
FreshInv ==
  \/ \E q \in Procs : Owing(q)
  \/ \E w \in Views : w.gauges = Gauges(Counts(core)) /\ \A y \in Views : ~Newer(y, w)

LEMMA ViewsMembers ==
  /\ \A y : y \in Views <=> y = metrics \/ \E e \in Sent : y = View(e.state)
  /\ \A y : y \in Views' <=> y = metrics' \/ \E e \in Sent' : y = View(e.state)
  /\ \A x : View(x).lock = x.lock /\ View(x).version = x.version
            /\ View(x).gauges = Gauges(x.counts)
BY DEF Views, View

\* No view is newer than the lock, and one of the lock's version shows the lock.
LEMMA ViewsAreKnown ==
  ASSUME KnownInv, NEW y \in Views
  PROVE  /\ y.lock \in 0..lockID /\ y.version \in Nat
         /\ y.lock = lockID => y.version <= core.version
         /\ y.lock = lockID /\ y.version = core.version => y.gauges = Gauges(Counts(core))
<1>1. Now \in Known /\ Now.lock = lockID /\ Now.version = core.version /\ Now.counts = Counts(core)
  BY KnownMembers, NowIs
<1>2. CASE y = metrics
  BY <1>1, <1>2 DEF KnownInv
<1>3. ASSUME NEW e \in Sent, y = View(e.state)
      PROVE  /\ y.lock \in 0..lockID /\ y.version \in Nat
             /\ y.lock = lockID => y.version <= core.version
             /\ y.lock = lockID /\ y.version = core.version => y.gauges = Gauges(Counts(core))
  <2> DEFINE x == e.state
  <2>1. x \in Known /\ y.lock = x.lock /\ y.version = x.version /\ y.gauges = Gauges(x.counts)
    BY <1>3, KnownMembers, ViewsMembers
  <2> HIDE DEF x
  <2>2. x.lock \in 1..lockID /\ x.version \in Nat /\ (x.lock = lockID => x.version <= core.version)
    BY <2>1 DEF KnownInv
  <2>3. x.lock = lockID /\ x.version = core.version => x.counts = Counts(core)
    BY <1>1, <2>1 DEF KnownInv
  <2> QED
    BY <2>1, <2>2, <2>3
<1> QED
  BY <1>2, <1>3, ViewsMembers

LEMMA ViewsAreKnownNext ==
  ASSUME KnownInv', NEW y \in Views'
  PROVE  /\ y.lock \in 0..lockID' /\ y.version \in Nat
         /\ y.lock = lockID' => y.version <= core'.version
         /\ y.lock = lockID' /\ y.version = core'.version => y.gauges = Gauges(Counts(core'))
<1>1. /\ Now' \in Known' /\ Now'.lock = lockID' /\ Now'.version = core'.version
      /\ Now'.counts = Counts(core')
  BY KnownMembers, NowIs
<1>2. CASE y = metrics'
  BY <1>1, <1>2 DEF KnownInv
<1>3. ASSUME NEW e \in Sent', y = View(e.state)
      PROVE  /\ y.lock \in 0..lockID' /\ y.version \in Nat
             /\ y.lock = lockID' => y.version <= core'.version
             /\ y.lock = lockID' /\ y.version = core'.version => y.gauges = Gauges(Counts(core'))
  <2> DEFINE x == e.state
  <2>1. x \in Known' /\ y.lock = x.lock /\ y.version = x.version /\ y.gauges = Gauges(x.counts)
    BY <1>3, KnownMembers, ViewsMembers
  <2> HIDE DEF x
  <2>2. x.lock \in 1..lockID' /\ x.version \in Nat
        /\ (x.lock = lockID' => x.version <= core'.version)
    BY <2>1 DEF KnownInv
  <2>3. x.lock = lockID' /\ x.version = core'.version => x.counts = Counts(core')
    BY <1>1, <2>1 DEF KnownInv
  <2> QED
    BY <2>1, <2>2, <2>3
<1> QED
  BY <1>2, <1>3, ViewsMembers

\* The gauges keep one of two views, and never the older.
LEMMA GaugesObserve ==
  ASSUME KnownInv, NEW e \in Sent, metrics' = UpdateState(metrics, e.state),
         \A d \in Sent' : d \in Sent, \A d \in Sent : d = e \/ d \in Sent'
  PROVE  /\ \A y \in Views' : y \in Views
         /\ metrics' = metrics \/ metrics' = View(e.state)
         /\ metrics' = metrics => metrics = View(e.state) \/ Newer(metrics, View(e.state))
         /\ ~Newer(metrics, metrics')
         /\ \A w \in Views : (\A y \in Views : ~Newer(y, w)) =>
              \E z \in Views' : /\ z.lock = w.lock /\ z.version = w.version
                                /\ z.gauges = w.gauges
<1> DEFINE v == View(e.state)
           x == e.state
<1>1. /\ v.lock = x.lock /\ v.version = x.version /\ v.gauges = Gauges(x.counts)
      /\ v \in Views /\ metrics \in Views /\ metrics' \in Views' /\ x \in Known
  BY ViewsMembers, KnownMembers
<1>2. /\ v.lock \in 0..lockID /\ v.version \in Nat
      /\ metrics.lock \in 0..lockID /\ metrics.version \in Nat
  BY <1>1, ViewsAreKnown
<1>3. \/ metrics' = metrics /\ Newer(metrics, v)
      \/ metrics' = v /\ ~Newer(metrics, v)
  <2>1. metrics' = UpdateState(metrics, x) /\ v = View(x)
    OBVIOUS
  <2> HIDE DEF v, x
  <2>2. x.lock \in Nat /\ x.version \in Nat /\ metrics.lock \in Nat
    BY <1>1, <1>2 DEF KnownInv
  <2> QED
    BY <1>1, <1>2, <2>1, <2>2 DEF UpdateState, Newer, View
<1>4. v.lock = metrics.lock /\ v.version = metrics.version => v.gauges = metrics.gauges
  BY <1>1 DEF KnownInv
<1>5. \A y \in Views' : y = metrics' \/ y \in Views
  BY ViewsMembers
<1>6. \A y \in Views : y = metrics \/ y = v \/ y \in Views'
  BY ViewsMembers
<1>7. ~Newer(metrics, metrics')
  BY <1>2, <1>3 DEF Newer
<1> HIDE DEF v, x
<1>8. ASSUME NEW w \in Views, \A y \in Views : ~Newer(y, w)
      PROVE  \E z \in Views' : /\ z.lock = w.lock /\ z.version = w.version
                               /\ z.gauges = w.gauges
  <2>1. CASE w \in Views'
    BY <2>1
  <2>2. CASE w = metrics /\ metrics' = v
    <3>1. ~Newer(v, w) /\ ~Newer(w, v)
      BY <1>1, <1>3, <1>7, <1>8, <2>2
    <3>2. v.lock = w.lock /\ v.version = w.version
      BY <1>2, <2>2, <3>1 DEF Newer
    <3> QED
      BY <1>1, <1>4, <2>2, <3>2
  <2>3. CASE w = v /\ metrics' = metrics
    BY <1>1, <1>3, <1>7, <1>8, <2>3 DEF Newer
  <2> QED
    BY <1>1, <1>3, <1>6, <2>1, <2>2, <2>3
<1>9. \A y \in Views' : y \in Views
  BY <1>1, <1>3, <1>5
<1> QED
  BY <1>3, <1>7, <1>8, <1>9 DEF v

LEMMA FreshInitially == TelemetryInit => FreshInv
<1> SUFFICES ASSUME TelemetryInit PROVE FreshInv
  OBVIOUS
<1>1. Init /\ core = InitialCore /\ metrics.gauges = Gauges(Counts(InitialCore))
  BY DEF TelemetryInit, Init
<1>2. metrics \in Views /\ \A y \in Views : y = metrics
  BY <1>1, NothingSentAtFirst, ViewsMembers
<1>3. ~Newer(metrics, metrics)
  <2>1. metrics.lock = 0 /\ metrics.version = 0
    BY DEF TelemetryInit
  <2> QED
    BY <2>1 DEF Newer
<1> QED
  BY <1>1, <1>2, <1>3 DEF FreshInv

\* An event that tells of the lock as it is is as new as any.
LEMMA FreshlyTold ==
  ASSUME KnownInv', NEW e \in Sent', e.state = Now'
  PROVE  FreshInv'
<1> PICK w : w = View(e.state)
  OBVIOUS
<1>1. /\ w \in Views' /\ w.lock = lockID' /\ w.version = core'.version
      /\ w.gauges = Gauges(Counts(core'))
  BY ViewsMembers, NowIs
<1>2. ASSUME NEW y \in Views' PROVE ~Newer(y, w)
  <2>1. /\ y.lock \in 0..lockID' /\ y.version \in Nat
        /\ y.lock = lockID' => y.version <= core'.version
        /\ w.lock \in 0..lockID' /\ w.version \in Nat
    BY <1>1, ViewsAreKnownNext
  <2> QED
    BY <1>1, <2>1 DEF Newer
<1> QED
  BY <1>1, <1>2 DEF FreshInv

LEMMA FreshStep ==
  ASSUME ToldInv, KnownInv, FreshInv, [TelemetryNext]_telemetryVars
  PROVE  FreshInv'
<1>0. LockInv /\ OInv /\ KnownInv' /\ \A p \in Procs : Announces(p)
  BY KnownStep DEF ToldInv, LockInv, EInv
<1>1. ASSUME metrics' = metrics, \A e : e \in Sent' <=> e \in Sent, Counts(core') = Counts(core),
             \A q \in Procs : Owing(q) => Owing(q)'
      PROVE  FreshInv'
  <2>1. Views' = Views
    BY <1>1, ViewsMembers
  <2> QED
    BY <1>1, <2>1 DEF FreshInv
<1>2. CASE UNCHANGED telemetryVars
  <2>1. UNCHANGED <<core, pc, outbox, pending, metrics>>
    BY <1>2 DEF telemetryVars, vars, coreVars, callVars, sendVars, observerVars
  <2>2. Sent' = Sent /\ \A q \in Procs : Owing(q) => Owing(q)'
    BY <2>1, SentStill DEF Owing
  <2> QED
    BY <1>1, <2>1, <2>2
<1>3. ASSUME NEW p \in Procs, Moved(p), Silent
      PROVE  FreshInv'
  <2>1. Speaks(p) /\ metrics' = metrics
    BY <1>3 DEF Moved, Silent, observerVars
  <2>2. CASE \E e \in Sent' : e.state = Now'
    BY <1>0, <2>2, FreshlyTold
  <2>3. CASE \E q \in Procs : Owing(q)'
    BY <2>3 DEF FreshInv
  <2>4. CASE /\ ~\E e \in Sent' : e.state = Now'
             /\ Now' = Now /\ \A q \in Procs : Owing(q) => Owing(q)'
    <3>1. \A e : e \in Sent' <=> e \in Sent
      BY <2>1, <2>4 DEF Speaks, Now
    <3>2. Counts(core') = Counts(core)
      BY <2>4, NowIs
    <3> QED
      BY <1>1, <2>1, <2>4, <3>1, <3>2
  <2> QED
    BY <2>1, <2>2, <2>3, <2>4 DEF Speaks, Now
<1>4. CASE Replace
  <2>1. /\ Retired /\ metrics' = metrics /\ outbox' = outbox /\ pending' = pending
    BY <1>4 DEF Replace, sendVars, observerVars
  <2>2. \A q \in Procs : ~Owing(q)
    BY <2>1 DEF Retired, Owing
  <2>3. Counts(core') = Counts(core)
    BY <1>0, <1>4, <2>1, RetiredIsFree, ReplaceKeepsLock
  <2> QED
    BY <1>1, <2>1, <2>2, <2>3, SentStill
<1>5. ASSUME NEW p \in Procs, NEW s \in Senders, Deliver(s, p), Observes(Head(outbox[s][p]))
      PROVE  FreshInv'
  <2> PICK e : e = Head(outbox[s][p])
    OBVIOUS
  <2>1. /\ e \in Sent /\ (\A x \in Sent' : x \in Sent)
        /\ \A x \in Sent : x = e \/ x \in Sent'
        /\ lockID' = lockID /\ core' = core
        /\ \A q \in Procs : Owing(q)' <=> Owing(q)
    BY <1>0, <1>5, DeliverMoves
  <2>2. metrics' = UpdateState(metrics, e.state)
    BY <1>5 DEF Observes
  <2>3. CASE \E q \in Procs : Owing(q)
    BY <2>1, <2>3 DEF FreshInv
  <2>4. CASE \E w \in Views : w.gauges = Gauges(Counts(core)) /\ \A y \in Views : ~Newer(y, w)
    <3>1. PICK w \in Views : w.gauges = Gauges(Counts(core)) /\ \A y \in Views : ~Newer(y, w)
      BY <2>4
    <3>2. /\ \A y \in Views' : y \in Views
          /\ \E z \in Views' : z.lock = w.lock /\ z.version = w.version /\ z.gauges = w.gauges
      BY <1>0, <2>1, <2>2, <3>1, GaugesObserve
    <3>3. PICK z \in Views' : z.lock = w.lock /\ z.version = w.version /\ z.gauges = w.gauges
      BY <3>2
    <3>4. \A y \in Views' : ~Newer(y, z)
      BY <3>1, <3>2, <3>3 DEF Newer
    <3>5. z.gauges = Gauges(Counts(core'))
      BY <2>1, <3>1, <3>3
    <3> QED
      BY <3>4, <3>5 DEF FreshInv
  <2> QED
    BY <2>3, <2>4 DEF FreshInv
<1> QED
  BY <1>0, <1>2, <1>3, <1>4, <1>5, SystemSteps

\* When everybody has told there is nothing on its way.
LEMMA QuietIsTold ==
  ASSUME Quiet
  PROVE  Sent = {} /\ \A q \in Procs : ~Owing(q)
<1>1. pending = <<>> /\ \A s \in Senders, p \in Procs : outbox[s][p] = <<>>
  BY DEF Quiet
<1>2. Elems(<<>>) = {}
  BY DEF Elems
<1> QED
  BY <1>1, <1>2 DEF Sent, Quiet, Owing

\* Once all has been told the gauges show the lock as it is, in whatever order it was told:
\* every change of the counts is in an event of rwCore, and Observer.updateState never goes
\* back, to an older state or to an older lock of the name.
THEOREM GaugesCatchUp == TelemetrySpec => []GaugesSettle
<1>1. TelemetryInit => FreshInv
  BY FreshInitially
<1>2. (ToldInv /\ KnownInv) /\ FreshInv /\ [TelemetryNext]_telemetryVars => FreshInv'
  BY FreshStep
<1>3. ASSUME FreshInv PROVE GaugesSettle
  <2> SUFFICES ASSUME Quiet PROVE metrics.gauges = Gauges(Counts(core))
    BY DEF GaugesSettle
  <2>1. Sent = {} /\ \A q \in Procs : ~Owing(q)
    BY QuietIsTold
  <2>2. \A y \in Views : y = metrics
    BY <2>1, ViewsMembers
  <2> QED
    BY <1>3, <2>1, <2>2 DEF FreshInv
<1> QED
  BY <1>1, <1>2, <1>3, KnownInvariant, PTL DEF TelemetrySpec

-----------------------------------------------------------------------------
(* The gauges show what has returned *)

\* From version v on the gauges count p in the role f, and they are as new as v if p has told.
Marked(p, f, v) ==
  /\ v \in Nat /\ v <= core.version
  /\ \A y \in Views : y.lock = lockID /\ y.version >= v => y.gauges[f][want[p].mode] > 0
  /\ ToTell(p, f) => Final(p).lock = lockID /\ Final(p).version >= v
  /\ HasTold(p, f) => metrics.lock = lockID /\ metrics.version >= v

MarkInv ==
  \A p \in Procs : \A f \in Roles : CountsAs(p, f) => \E v \in Nat : Marked(p, f, v)

\* An owner and a waiter of the engine are in its counts.
LEMMA CountedIn ==
  ASSUME NEW c, NEW place, NEW w, Tied(c, place, w), NEW p \in Procs
  PROVE  /\ OwnsIn(c, place, p) => Gauges(Counts(c))["held"][w[p].mode] > 0
         /\ p \in QueuedIn(c, place) => Gauges(Counts(c))["waiting"][w[p].mode] > 0
<1> DEFINE R == ReadersIn(c, place, w)
           m == w[p].mode
           g == Gauges(Counts(c))
           q == c.waiters
           A == {i \in DOMAIN q : q[i].mode = "read"}
           B == {i \in DOMAIN q : q[i].mode = "write"}
<1>1. /\ Typed(c, place, w) /\ LedgerTied(c, place, w) /\ QueueTied(c, place, w) /\ c \in Core
  BY DEF Tied, Typed
<1>2. m \in {"read", "write"}
  BY <1>1 DEF Typed, Waiter, Modes
<1>3. /\ g["held"]["read"] = c.readers /\ g["held"]["write"] = IF c.writer THEN 1 ELSE 0
      /\ g["waiting"]["read"] = Cardinality(A) /\ g["waiting"]["write"] = Cardinality(B)
  BY DEF Gauges, Counts
<1>4. ASSUME NEW S, IsFiniteSet(S), S # {}
      PROVE  Cardinality(S) > 0
  <2>1. Cardinality(S) \in Nat /\ (Cardinality(S) = 0 <=> S = {})
    BY <1>4, FS_EmptySet, FS_CardinalityType
  <2> QED
    BY <1>4, <2>1
<1>5. ASSUME OwnsIn(c, place, p) PROVE g["held"][m] > 0
  <2>1. CASE m = "read"
    <3>1. p \in R /\ R \subseteq Procs
      BY <1>5, <2>1 DEF ReadersIn
    <3>2. IsFiniteSet(R)
      BY <3>1, CoreAssumption, FS_Subset
    <3>3. c.readers = Cardinality(R)
      BY <1>1 DEF LedgerTied
    <3> HIDE DEF R, g, m
    <3> QED
      BY <1>3, <1>4, <2>1, <3>1, <3>2, <3>3
  <2>2. CASE m = "write"
    <3>1. c.writer
      BY <1>1, <1>5, <2>2 DEF LedgerTied, WritersIn
    <3> HIDE DEF g, m
    <3> QED
      BY <1>3, <2>2, <3>1
  <2> QED
    BY <1>2, <2>1, <2>2
<1>6. ASSUME p \in QueuedIn(c, place) PROVE g["waiting"][m] > 0
  <2>1. w[p] \in Elems(q) /\ q \in Seq(Waiter)
    BY <1>1, <1>6, QueueEntries
  <2>2. PICK i \in DOMAIN q : q[i] = w[p]
    BY <2>1 DEF Elems
  <2>3. IsFiniteSet(DOMAIN q)
    BY <2>1, FS_Interval
  <2>4. IsFiniteSet(A) /\ IsFiniteSet(B)
    BY <2>3, FS_Subset
  <2>5. m = "read" => A # {}
    BY <2>2
  <2>6. m = "write" => B # {}
    BY <2>2
  <2> HIDE DEF A, B, g, m
  <2> QED
    BY <1>2, <1>3, <1>4, <2>4, <2>5, <2>6
<1> QED
  BY <1>5, <1>6

LEMMA Counted ==
  ASSUME EngineTied, NEW p \in Procs, NEW f \in Roles, CountsAs(p, f)
  PROVE  Gauges(Counts(core))[f][want[p].mode] > 0
<1>1. Tied(core, Standing, want) /\ (p \in left => core.verdict[p] = "granted")
  BY DEF EngineTied
<1>2. CASE f = "held"
  <2>1. OwnsIn(core, Standing, p)
    BY <1>2, StandingOf DEF CountsAs, Owns, OwnsIn
  <2> QED
    BY <1>1, <1>2, <2>1, CountedIn
<1>3. CASE f = "waiting"
  <2>1. p \in QueuedIn(core, Standing)
    BY <1>1, <1>3, StandingOf DEF CountsAs, QueuedIn
  <2> QED
    BY <1>1, <1>3, <2>1, CountedIn
<1> QED
  BY <1>2, <1>3 DEF Roles

LEMMA CountedNext ==
  ASSUME EngineTied', NEW p \in Procs, NEW f \in Roles, CountsAs(p, f)'
  PROVE  Gauges(Counts(core'))[f][want'[p].mode] > 0
<1>1. Tied(core', Standing', want') /\ (p \in left' => core'.verdict[p] = "granted")
  BY DEF EngineTied
<1>2. CASE f = "held"
  <2>1. OwnsIn(core', Standing', p)
    BY <1>2, StandingNext DEF CountsAs, Owns, OwnsIn
  <2> QED
    BY <1>1, <1>2, <2>1, CountedIn
<1>3. CASE f = "waiting"
  <2>1. p \in QueuedIn(core', Standing')
    BY <1>1, <1>3, StandingNext DEF CountsAs, QueuedIn
  <2> QED
    BY <1>1, <1>3, <2>1, CountedIn
<1> QED
  BY <1>2, <1>3 DEF Roles

\* The lock goes on: a mark stays, or a new one is set where the lock is now.
LEMMA MarkOnward ==
  ASSUME KnownInv, KnownInv', EngineTied, EngineTied', MarkInv, Onward, metrics' = metrics,
         core.version \in Nat, core'.version \in Nat,
         \A e \in Sent' : e \in Sent \/ e.state \in {Now, Now'},
         NEW q \in Procs, NEW f \in Roles, MarkKept(q), CountsAs(q, f)'
  PROVE  \E v \in Nat : Marked(q, f, v)'
<1> PICK n \in Nat : n = core'.version
  OBVIOUS
<1> DEFINE m == want'[q].mode
<1>1. Gauges(Counts(core'))[f][m] > 0
  BY CountedNext
<1>2. n >= core.version /\ lockID' = lockID
  BY DEF Onward
<1>3. /\ Now'.lock = lockID' /\ Now'.version = n /\ View(Now).gauges = Gauges(Counts(core))
      /\ View(Now').gauges = Gauges(Counts(core'))
  BY NowIs, ViewsMembers
<1>4. \A y \in Views' : y \in Views \/ y = View(Now) \/ y = View(Now')
  BY ViewsMembers
<1>5. CASE CountsAs(q, f)
  <2>1. PICK v \in Nat : Marked(q, f, v)
    BY <1>5 DEF MarkInv
  <2>2. /\ v <= core.version /\ want'[q] = want[q]
        /\ \A y \in Views : y.lock = lockID /\ y.version >= v => y.gauges[f][m] > 0
        /\ ToTell(q, f) => Final(q).lock = lockID /\ Final(q).version >= v
        /\ HasTold(q, f) => metrics.lock = lockID /\ metrics.version >= v
    BY <1>5, <2>1 DEF Marked, MarkKept
  <2>3. Gauges(Counts(core))[f][m] > 0
    BY <1>5, <2>2, Counted
  <2>4. v <= n
    BY <1>2, <2>2
  <2>5. \A y \in Views' : y.lock = lockID' /\ y.version >= v => y.gauges[f][m] > 0
    BY <1>1, <1>2, <1>3, <1>4, <2>2, <2>3
  <2>6. ToTell(q, f)' => Final(q)'.lock = lockID' /\ Final(q)'.version >= v
    <3> SUFFICES ASSUME ToTell(q, f)' PROVE Final(q)'.lock = lockID' /\ Final(q)'.version >= v
      OBVIOUS
    <3>1. CASE Final(q)' = Now'
      BY <1>3, <2>4, <3>1
    <3>2. CASE ToTell(q, f) /\ Final(q)' = Final(q)
      BY <1>2, <2>2, <3>2
    <3> QED
      BY <3>1, <3>2 DEF MarkKept, Now
  <2>7. HasTold(q, f)' => metrics'.lock = lockID' /\ metrics'.version >= v
    BY <1>2, <2>2 DEF MarkKept
  <2>8. Marked(q, f, v)'
    BY <2>4, <2>5, <2>6, <2>7 DEF Marked
  <2> QED
    BY <2>8
<1>6. CASE ~CountsAs(q, f)
  <2>1. ASSUME NEW y \in Views', y.lock = lockID', y.version >= n PROVE y.gauges[f][m] > 0
    <3>1. y.version \in Nat /\ y.version <= n
      BY <2>1, ViewsAreKnownNext
    <3>2. y.version = n
      BY <2>1, <3>1
    <3>3. y.gauges = Gauges(Counts(core'))
      BY <2>1, <3>2, ViewsAreKnownNext
    <3> QED
      BY <1>1, <3>3
  <2>2. ToTell(q, f)' => Final(q)'.lock = lockID' /\ Final(q)'.version >= n
    BY <1>3, <1>6 DEF MarkKept, Now
  <2>3. ~HasTold(q, f)'
    BY <1>6 DEF MarkKept
  <2>4. n \in Nat /\ n <= n
    OBVIOUS
  <2> HIDE DEF m
  <2>5. Marked(q, f, n)'
    BY <2>1, <2>2, <2>3, <2>4 DEF Marked, m
  <2> QED
    BY <2>4, <2>5
<1> QED
  BY <1>5, <1>6

\* Who is about to tell still is, with the same last event, or that is what has been told.
LEMMA DeliverTold ==
  ASSUME EInv, NEW s \in Senders, NEW p \in Procs, Deliver(s, p),
         NEW e, e = Head(outbox[s][p]), NEW q \in Procs, NEW f \in Roles, CountsAs(q, f)'
  PROVE  /\ CountsAs(q, f)
         /\ ToTell(q, f)' => ToTell(q, f) /\ Final(q)' = Final(q)
         /\ HasTold(q, f)' => HasTold(q, f) \/ (ToTell(q, f) /\ Final(q) = e.state)
<1> DEFINE b == outbox["call"][p]
<1>0. OInv /\ Tells(s, p, e) /\ "call" \in Senders
  BY Telling DEF EInv, Senders
<1>1. /\ core' = core /\ left' = left /\ \A r \in Procs : r # p => pc'[r] = pc[r]
      /\ \A r \in Procs : s # "call" \/ r # p => outbox'["call"][r] = outbox["call"][r]
  BY <1>0 DEF Tells
<1>2. \/ pc'[p] = pc[p]
      \/ pc[p] = "announce" /\ pc'[p] = "select" /\ s = "call" /\ Len(b) = 1
      \/ Concluding(p) /\ pc'[p] \in {"complete", "back"} /\ s = "call" /\ Len(b) = 1
      \/ pc[p] = "send" /\ pc'[p] = "back"
  BY DeliverKinds DEF Opens, Reports, Closes, Follows
<1>3. s = "call" /\ Len(b) = 1 => Final(p) = e.state
  <2> SUFFICES ASSUME s = "call", Len(b) = 1 PROVE b[Len(b)].state = e.state
    BY DEF Final
  <2>1. b \in Seq(Event) /\ b # <<>> /\ e = Head(b)
    BY <1>0 DEF Tells
  <2> HIDE DEF b
  <2>2. Head(b) = b[1]
    BY <2>1, NextEvent
  <2> QED
    BY <2>1, <2>2
<1>4. ASSUME s = "call", Len(b) # 1
      PROVE  Final(p)' = Final(p)
  <2>1. b \in Seq(Event) /\ b # <<>> /\ outbox'["call"][p] = Tail(b)
    BY <1>0, <1>4 DEF Tells
  <2>2. Final(p)' = Tail(b)[Len(Tail(b))].state /\ Final(p) = b[Len(b)].state
    BY <2>1 DEF Final
  <2> DEFINE t == Tail(b)
             n == Len(b)
  <2>3. /\ n \in Nat \ {0} /\ Len(t) = n - 1 /\ n # 1
        /\ \A i \in 1..(n - 1) : t[i] = b[i + 1]
    BY <1>4, <2>1, NextEvent
  <2> HIDE DEF b, t, n
  <2>4. n - 1 \in 1..(n - 1) /\ (n - 1) + 1 = n
    BY <2>3
  <2>5. t[n - 1] = b[(n - 1) + 1]
    BY <2>3, <2>4
  <2>6. t[Len(t)] = b[n]
    BY <2>3, <2>4, <2>5
  <2> QED
    BY <2>2, <2>6 DEF t, n
<1>5. CASE q # p
  <2>1. pc'[q] = pc[q] /\ outbox'["call"][q] = outbox["call"][q] /\ core' = core /\ left' = left
    BY <1>1, <1>5
  <2> QED
    BY <2>1 DEF CountsAs, Owns, ToTell, HasTold, Final, Roles
<1>6. CASE q = p
  <2>1. CountsAs(p, f)
    <3>1. f = "held" => CountsAs(p, f)
      BY <1>1, <1>6 DEF CountsAs, Owns
    <3>2. f = "waiting" => CountsAs(p, f)
      BY <1>1, <1>2, <1>6 DEF CountsAs
    <3> QED
      BY <3>1, <3>2 DEF Roles
  <2>2. ToTell(p, f)' => ToTell(p, f) /\ Final(p)' = Final(p)
    <3> SUFFICES ASSUME ToTell(p, f)' PROVE ToTell(p, f) /\ Final(p)' = Final(p)
      OBVIOUS
    <3>1. pc'[p] = pc[p] /\ pc[p] \in {"announce", "deliver"}
      BY <1>2 DEF ToTell
    <3>2. ToTell(p, f)
      BY <3>1 DEF ToTell
    <3>3. s # "call" \/ Len(b) # 1
      BY <1>0, <3>1 DEF Tells
    <3>4. s # "call" => Final(p)' = Final(p)
      BY <1>1 DEF Final
    <3> QED
      BY <1>4, <3>2, <3>3, <3>4
  <2>3. HasTold(p, f)' => HasTold(p, f) \/ (ToTell(p, f) /\ Final(p) = e.state)
    <3>1. f = "held" => Granted(p)
      BY <2>1 DEF CountsAs, Owns, Granted
    <3>2. pc'[p] = pc[p] => (HasTold(p, f)' => HasTold(p, f))
      BY DEF HasTold
    <3> QED
      BY <1>2, <1>3, <3>1, <3>2 DEF HasTold, ToTell, Roles, Concluding
  <2> QED
    BY <1>6, <2>1, <2>2, <2>3
<1> QED
  BY <1>5, <1>6

LEMMA MarkDelivered ==
  ASSUME EInv, KnownInv, MarkInv, lockID \in Nat,
         NEW s \in Senders, NEW p \in Procs, Deliver(s, p), Observes(Head(outbox[s][p]))
  PROVE  MarkInv'
<1> PICK e : e = Head(outbox[s][p])
  OBVIOUS
<1>0. /\ e \in Sent /\ (\A x \in Sent' : x \in Sent)
      /\ \A x \in Sent : x = e \/ x \in Sent'
      /\ core' = core /\ lockID' = lockID
  BY DeliverMoves DEF EInv
<1>1. metrics' = UpdateState(metrics, e.state)
  BY DEF Observes
<1> DEFINE z == View(e.state)
<1>2. /\ \A y \in Views' : y \in Views
      /\ metrics' = metrics \/ metrics' = z
      /\ metrics' = metrics => metrics = z \/ Newer(metrics, z)
      /\ ~Newer(metrics, metrics')
  BY <1>0, <1>1, GaugesObserve
<1>3. /\ z.lock = e.state.lock /\ z.version = e.state.version
      /\ z \in Views /\ metrics \in Views
  BY <1>0, ViewsMembers
<1> HIDE DEF z
<1>4. /\ z.lock \in 0..lockID /\ z.version \in Nat
      /\ metrics.lock \in 0..lockID /\ metrics.version \in Nat
  BY <1>3, ViewsAreKnown
<1> SUFFICES ASSUME NEW q \in Procs, NEW f \in Roles, CountsAs(q, f)'
             PROVE  \E v \in Nat : Marked(q, f, v)'
  BY DEF MarkInv
<1>5. /\ CountsAs(q, f)
      /\ ToTell(q, f)' => ToTell(q, f) /\ Final(q)' = Final(q)
      /\ HasTold(q, f)' => HasTold(q, f) \/ (ToTell(q, f) /\ Final(q) = e.state)
  BY DeliverTold
<1>6. PICK v \in Nat : Marked(q, f, v)
  BY <1>5 DEF MarkInv
<1>7. want' = want
  BY DeliverLeaves
<1>8. HasTold(q, f)' => metrics'.lock = lockID /\ metrics'.version >= v
  <2> SUFFICES ASSUME HasTold(q, f)' PROVE metrics'.lock = lockID /\ metrics'.version >= v
    OBVIOUS
  <2>1. CASE HasTold(q, f)
    <3>1. metrics.lock = lockID /\ metrics.version >= v
      BY <1>6, <2>1 DEF Marked
    <3> QED
      BY <1>2, <1>4, <3>1 DEF Newer
  <2>2. CASE ToTell(q, f) /\ Final(q) = e.state
    <3>1. z.lock = lockID /\ z.version >= v
      BY <1>3, <1>6, <2>2 DEF Marked
    <3> QED
      BY <1>2, <1>4, <3>1 DEF Newer
  <2> QED
    BY <1>5, <2>1, <2>2
<1>9. Marked(q, f, v)'
  BY <1>0, <1>2, <1>5, <1>6, <1>7, <1>8 DEF Marked
<1> QED
  BY <1>6, <1>9

LEMMA MarkStep ==
  ASSUME ToldInv, KnownInv, MarkInv, [TelemetryNext]_telemetryVars
  PROVE  MarkInv'
<1>0. /\ LockInv /\ OInv /\ EInv /\ KnownInv' /\ EngineTied /\ EngineTied'
      /\ \A p \in Procs : Announces(p)
  <2>1. LockInv' /\ LockInv
    BY KnownNext DEF ToldInv
  <2> QED
    BY <2>1, KnownStep DEF ToldInv, LockInv, EInv
<1>1. lockID \in Nat /\ core.version \in Nat /\ core'.version \in Nat
  BY KnownNext
<1>2. CASE UNCHANGED telemetryVars
  <2>1. UNCHANGED <<lockID, core, pc, want, left, outbox, pending, metrics>>
    BY <1>2 DEF telemetryVars, vars, coreVars, callVars, leaveVars, sendVars, observerVars
  <2>2. Sent' = Sent
    BY <2>1, SentStill
  <2>3. Views' = Views
    BY <2>1, <2>2 DEF Views
  <2>4. ASSUME NEW p \in Procs, NEW f \in Roles
        PROVE  /\ CountsAs(p, f)' <=> CountsAs(p, f)
               /\ \A v \in Nat : Marked(p, f, v)' <=> Marked(p, f, v)
    BY <2>1, <2>3 DEF CountsAs, Owns, Marked, ToTell, HasTold, Final
  <2> QED
    BY <2>4 DEF MarkInv
<1>3. ASSUME NEW p \in Procs, Onward, Silent, Moved(p)
      PROVE  MarkInv'
  <2>1. \A q \in Procs : MarkKept(q)
    BY <1>0, <1>3, AsideKeeps DEF Moved
  <2>2. metrics' = metrics /\ \A e \in Sent' : e \in Sent \/ e.state \in {Now, Now'}
    BY <1>3 DEF Moved, Speaks, Now, Silent, observerVars
  <2> QED
    BY <1>0, <1>1, <1>3, <2>1, <2>2, MarkOnward DEF MarkInv
<1>4. CASE Replace
  <2>1. Retired /\ pc' = pc /\ left' = left
    BY <1>4 DEF Replace, callVars, leaveVars
  <2>2. core'.verdict = core.verdict
    <3>1. core' = [InitialCore EXCEPT !.verdict = core.verdict]
      BY <1>4 DEF Replace
    <3> QED
      BY <3>1 DEF InitialCore
  <2>3. \A p \in Procs : \A f \in Roles : ~CountsAs(p, f)'
    BY <2>1, <2>2 DEF Retired, CountsAs, Owns, Roles
  <2> QED
    BY <2>3 DEF MarkInv
<1>5. ASSUME NEW p \in Procs, NEW s \in Senders, Deliver(s, p), Observes(Head(outbox[s][p]))
      PROVE  MarkInv'
  BY <1>0, <1>1, <1>5, MarkDelivered
<1>6. \/ UNCHANGED telemetryVars
      \/ Onward /\ Silent /\ \E p \in Procs : Moved(p)
      \/ Replace /\ Silent
      \/ \E s \in Senders, p \in Procs : Deliver(s, p) /\ Observes(Head(outbox[s][p]))
  BY <1>0, SystemSteps
<1> QED
  BY <1>2, <1>3, <1>4, <1>5, <1>6

\* The gauges are never behind a call that has returned, nor behind a wait that has been
\* announced, however late older events are: rwCore tells of a state that counts the attempt
\* before it lets the call go on, and the gauges only ever move to newer states.
THEOREM GaugesKeepUp == TelemetrySpec => []GaugesShowReturned
<1>1. TelemetryInit => MarkInv
  <2> SUFFICES ASSUME TelemetryInit PROVE MarkInv
    OBVIOUS
  <2>1. \A p \in Procs : pc[p] = "idle" /\ core.verdict[p] = "none"
    BY DEF TelemetryInit, Init, InitialCore
  <2> QED
    BY <2>1 DEF MarkInv, CountsAs, Owns
<1>2. (ToldInv /\ KnownInv) /\ MarkInv /\ [TelemetryNext]_telemetryVars => MarkInv'
  BY MarkStep
<1>3. ASSUME MarkInv PROVE GaugesShowReturned
  <2>1. ASSUME NEW p \in Procs, NEW f \in Roles, CountsAs(p, f), HasTold(p, f)
        PROVE  metrics.gauges[f][want[p].mode] > 0
    <3>1. PICK v \in Nat : Marked(p, f, v)
      BY <1>3, <2>1 DEF MarkInv
    <3>2. metrics \in Views
      BY ViewsMembers
    <3> QED
      BY <2>1, <3>1, <3>2 DEF Marked
  <2> SUFFICES ASSUME NEW p \in Procs
               PROVE  /\ pc[p] = "back" /\ Owns(p) => metrics.gauges.held[want[p].mode] > 0
                      /\ pc[p] = "select" /\ core.verdict[p] = "none"
                           => metrics.gauges.waiting[want[p].mode] > 0
    BY DEF GaugesShowReturned
  <2>2. pc[p] = "back" /\ Owns(p) => CountsAs(p, "held") /\ HasTold(p, "held")
    BY DEF CountsAs, HasTold
  <2>3. pc[p] = "select" /\ core.verdict[p] = "none"
          => CountsAs(p, "waiting") /\ HasTold(p, "waiting")
    BY DEF CountsAs, HasTold
  <2> QED
    BY <2>1, <2>2, <2>3 DEF Roles
<1> QED
  BY <1>1, <1>2, <1>3, KnownInvariant, PTL DEF TelemetrySpec

-----------------------------------------------------------------------------
(* The legacy totals settle *)

\* What a free lock contributes, and what a lock does or would after an event on its way.
Nothing == Sums(Counts(InitialCore))
Share(x) == [version |-> x.version, part |-> Sums(x.counts)]
Shares(l) == {legacy[l]} \union {Share(e.state) : e \in {d \in Sent : d.state.lock = l}}

\* The newest that was or will be told of lock l is the contribution s.
Settled(l, s) == \E w \in Shares(l) : w.part = s /\ \A y \in Shares(l) : y.version <= w.version

\* The contribution of a lock is that of its version.  Somebody is going to tell of the lock,
\* or the newest of what was told does; locks that were replaced were free at last, those to
\* come are still.
LegacyInv ==
  \A l \in 1..MaxLocks :
    /\ legacy[l].version \in Nat
    /\ \A x \in Known : x.lock = l /\ x.version = legacy[l].version
                          => legacy[l].part = Sums(x.counts)
    /\ l < lockID => Settled(l, Nothing)
    /\ l = lockID => /\ legacy[l].version <= core.version
                     /\ (\E q \in Procs : Owing(q)) \/ Settled(l, Sums(Counts(core)))
    /\ l > lockID => legacy[l].version = 0 /\ legacy[l].part = Nothing

LEMMA SharesMembers ==
  /\ \A l : \A y : y \in Shares(l) <=>
       y = legacy[l] \/ \E e \in Sent : e.state.lock = l /\ y = Share(e.state)
  /\ \A l : \A y : y \in Shares(l)' <=>
       y = legacy'[l] \/ \E e \in Sent' : e.state.lock = l /\ y = Share(e.state)
  /\ \A x : Share(x).version = x.version /\ Share(x).part = Sums(x.counts)
BY DEF Shares, Share

\* A lock of which nothing new is told.
LEMMA SettledStays ==
  ASSUME NEW l, NEW s, legacy'[l] = legacy[l],
         \A e : e.state.lock = l => (e \in Sent' <=> e \in Sent)
  PROVE  Settled(l, s)' <=> Settled(l, s)
<1>1. \A y : y \in Shares(l)' <=> y \in Shares(l)
  BY SharesMembers
<1> QED
  BY <1>1 DEF Settled

LEMMA LegacyInitially == TelemetryInit => LegacyInv
<1> SUFFICES ASSUME TelemetryInit, NEW l \in 1..MaxLocks
             PROVE  /\ legacy[l].version \in Nat
                    /\ \A x \in Known : x.lock = l /\ x.version = legacy[l].version
                                          => legacy[l].part = Sums(x.counts)
                    /\ l < lockID => Settled(l, Nothing)
                    /\ l = lockID =>
                         /\ legacy[l].version <= core.version
                         /\ (\E q \in Procs : Owing(q)) \/ Settled(l, Sums(Counts(core)))
                    /\ l > lockID => legacy[l].version = 0 /\ legacy[l].part = Nothing
  BY DEF LegacyInv
<1>1. /\ Init /\ lockID = 1 /\ core = InitialCore /\ InitialCore.version = 0
      /\ legacy[l].version = 0 /\ legacy[l].part = Nothing
  BY DEF TelemetryInit, Init, InitialCore, Nothing
<1>2. Sent = {} /\ \A x \in Known : x = Now
  BY <1>1, NothingSentAtFirst, KnownMembers
<1>3. Now.counts = Counts(InitialCore)
  BY <1>1, NowIs
<1>4. Settled(l, Nothing)
  <2>1. \A y : y \in Shares(l) <=> y = legacy[l]
    BY <1>2, SharesMembers
  <2> QED
    BY <1>1, <2>1 DEF Settled
<1>5. Sums(Counts(core)) = Nothing
  BY <1>1 DEF Nothing
<1>6. \A x \in Known : legacy[l].part = Sums(x.counts)
  BY <1>1, <1>2, <1>3 DEF Nothing
<1> QED
  BY <1>1, <1>4, <1>5, <1>6

\* An event that tells of the lock as it is is as new as any of the lock.
LEMMA SettledNow ==
  ASSUME KnownInv', NEW e \in Sent', e.state = Now', NEW l, l = lockID',
         legacy'[l].version <= core'.version, NEW s, s = Sums(Counts(core'))
  PROVE  Settled(l, s)'
<1> PICK w : w = Share(e.state)
  OBVIOUS
<1>1. /\ w \in Shares(l)' /\ w.version = core'.version /\ w.part = s
  BY SharesMembers, NowIs
<1>2. ASSUME NEW y \in Shares(l)' PROVE y.version <= w.version
  <2>1. CASE y = legacy'[l]
    BY <1>1, <2>1
  <2>2. ASSUME NEW d \in Sent', d.state.lock = l, y = Share(d.state)
        PROVE  y.version <= w.version
    <3>1. d.state \in Known' /\ y.version = d.state.version
      BY <2>2, KnownMembers, SharesMembers
    <3> QED
      BY <1>1, <2>2, <3>1 DEF KnownInv
  <2> QED
    BY <2>1, <2>2, SharesMembers
<1> QED
  BY <1>1, <1>2 DEF Settled

LEMMA LegacyOnward ==
  ASSUME KnownInv, KnownInv', LegacyInv, Onward, legacy' = legacy,
         lockID \in Nat \ {0}, core.version \in Nat, core'.version \in Nat,
         NEW p \in Procs, Speaks(p)
  PROVE  LegacyInv'
<1>1. lockID' = lockID /\ core'.version >= core.version
      /\ (core'.version = core.version => Counts(core') = Counts(core))
  BY DEF Onward
<1>2. /\ Now.lock = lockID /\ Now'.lock = lockID /\ Now.version = core.version
      /\ Now'.version = core'.version /\ Now.counts = Counts(core) /\ Now'.counts = Counts(core')
      /\ Now \in Known
  BY <1>1, NowIs, KnownMembers
<1>3. (\A e \in Sent : e \in Sent') /\ \A e \in Sent' : e \in Sent \/ e.state \in {Now, Now'}
  BY DEF Speaks, Now
<1>4. \A x \in Known' : x \in Known \/ x = Now'
  BY <1>3, KnownMembers
<1> SUFFICES ASSUME NEW l \in 1..MaxLocks
             PROVE  /\ legacy'[l].version \in Nat
                    /\ \A x \in Known' : x.lock = l /\ x.version = legacy'[l].version
                                           => legacy'[l].part = Sums(x.counts)
                    /\ l < lockID' => Settled(l, Nothing)'
                    /\ l = lockID' =>
                         /\ legacy'[l].version <= core'.version
                         /\ (\E q \in Procs : Owing(q)') \/ Settled(l, Sums(Counts(core)))'
                    /\ l > lockID' => legacy'[l].version = 0 /\ legacy'[l].part = Nothing'
  BY DEF LegacyInv
<1>5. /\ legacy[l].version \in Nat
      /\ \A x \in Known : x.lock = l /\ x.version = legacy[l].version
                            => legacy[l].part = Sums(x.counts)
      /\ l < lockID => Settled(l, Nothing)
      /\ l = lockID => /\ legacy[l].version <= core.version
                       /\ (\E q \in Procs : Owing(q)) \/ Settled(l, Sums(Counts(core)))
      /\ l > lockID => legacy[l].version = 0 /\ legacy[l].part = Nothing
  BY DEF LegacyInv
<1>6. ASSUME NEW x \in Known', x.lock = l, x.version = legacy[l].version
      PROVE  legacy[l].part = Sums(x.counts)
  <2>1. CASE x = Now'
    <3>1. l = lockID /\ core'.version <= core.version
      BY <1>2, <1>5, <1>6, <2>1
    <3>2. core'.version = core.version
      BY <1>1, <3>1
    <3>3. Now.lock = l /\ Now.version = legacy[l].version /\ x.counts = Now.counts
      BY <1>1, <1>2, <1>6, <2>1, <3>1, <3>2
    <3> QED
      BY <1>2, <1>5, <3>3
  <2> QED
    BY <1>4, <1>5, <1>6, <2>1
<1>7. Nothing' = Nothing
  BY DEF Nothing
<1>8. ASSUME l # lockID PROVE Settled(l, Nothing)' <=> Settled(l, Nothing)
  <2>1. \A e : e.state.lock = l => (e \in Sent' <=> e \in Sent)
    BY <1>2, <1>3, <1>8
  <2> QED
    BY <2>1, SettledStays
<1>9. ASSUME l = lockID
      PROVE  (\E q \in Procs : Owing(q)') \/ Settled(l, Sums(Counts(core)))'
  <2>1. CASE \E e \in Sent' : e.state = Now'
    <3>1. l = lockID' /\ legacy'[l].version <= core'.version
      BY <1>1, <1>5, <1>9
    <3> PICK s : s = Sums(Counts(core'))
      OBVIOUS
    <3>2. Settled(l, s)'
      BY <2>1, <3>1, SettledNow
    <3> QED
      BY <3>2 DEF Settled
  <2>2. CASE /\ ~\E e \in Sent' : e.state = Now'
             /\ Now' = Now /\ \A q \in Procs : Owing(q) => Owing(q)'
    <3>1. \A e : e \in Sent' <=> e \in Sent
      BY <1>3, <2>2
    <3>2. \A y : y \in Shares(l)' <=> y \in Shares(l)
      BY <3>1, SharesMembers
    <3>3. Sums(Counts(core'))= Sums(Counts(core))
      BY <1>2, <2>2
    <3>4. CASE \E q \in Procs : Owing(q)
      BY <2>2, <3>4
    <3>5. CASE Settled(l, Sums(Counts(core)))
      <4>1. PICK w \in Shares(l) : /\ w.part = Sums(Counts(core))
                                   /\ \A y \in Shares(l) : y.version <= w.version
        BY <3>5 DEF Settled
      <4>2. w \in Shares(l)' /\ w.part = Sums(Counts(core'))
            /\ \A y \in Shares(l)' : y.version <= w.version
        BY <3>2, <3>3, <4>1
      <4> QED
        BY <4>2 DEF Settled
    <3> QED
      BY <1>5, <1>9, <3>4, <3>5
  <2>3. CASE \E q \in Procs : Owing(q)'
    BY <2>3
  <2> QED
    BY <2>1, <2>2, <2>3 DEF Speaks, Now
<1>10. l = lockID => legacy[l].version <= core'.version
  BY <1>1, <1>5
<1> QED
  BY <1>1, <1>5, <1>6, <1>7, <1>8, <1>9, <1>10

\* What an event does to the contributions.
Part == [waiting : Nat, held : Nat]
LegacyTyped == legacy \in [1..MaxLocks -> [version : Nat, part : Part]]

LEMMA Contributes ==
  ASSUME KnownInv, LegacyTyped, lockID \in 1..MaxLocks, NEW e \in Sent, Observes(e),
         NEW l \in 1..MaxLocks
  PROVE  /\ e.state.lock \in 1..lockID /\ e.state.version \in Nat
         /\ l # e.state.lock => legacy'[l] = legacy[l]
         /\ l = e.state.lock =>
              \/ legacy'[l] = legacy[l] /\ e.state.version < legacy[l].version
              \/ legacy'[l] = Share(e.state) /\ legacy[l].version <= e.state.version
<1> DEFINE x == e.state
<1>1. x.lock \in 1..lockID /\ x.version \in Nat
  BY KnownMembers DEF KnownInv
<1>2. legacy' = [legacy EXCEPT ![x.lock] = Contribution(@, x)]
  BY DEF Observes
<1>3. legacy[l].version \in Nat
  BY DEF LegacyTyped
<1> HIDE DEF x
<1>4. l # x.lock => legacy'[l] = legacy[l]
  BY <1>2 DEF LegacyTyped
<1>5. l = x.lock => legacy'[l] = Contribution(legacy[l], x)
  BY <1>2 DEF LegacyTyped
<1>6. l = x.lock =>
        \/ legacy'[l] = legacy[l] /\ x.version < legacy[l].version
        \/ legacy'[l] = Share(x) /\ legacy[l].version <= x.version
  BY <1>1, <1>3, <1>5 DEF Contribution, Share
<1> QED
  BY <1>1, <1>4, <1>6 DEF x

\* The newest that was or will be told of a lock stays so when it is told.
LEMMA SettledToo ==
  ASSUME KnownInv, LegacyInv, LegacyTyped, lockID \in 1..MaxLocks, NEW e \in Sent, Observes(e),
         \A d \in Sent' : d \in Sent, \A d \in Sent : d = e \/ d \in Sent',
         NEW l \in 1..MaxLocks, NEW s, Settled(l, s)
  PROVE  Settled(l, s)'
<1>1. /\ e.state.lock \in 1..lockID /\ e.state.version \in Nat
      /\ l # e.state.lock => legacy'[l] = legacy[l]
      /\ l = e.state.lock =>
           \/ legacy'[l] = legacy[l] /\ e.state.version < legacy[l].version
           \/ legacy'[l] = Share(e.state) /\ legacy[l].version <= e.state.version
  BY Contributes
<1>2. CASE l # e.state.lock
  BY <1>1, <1>2, SettledStays
<1>3. CASE l = e.state.lock
  <2> PICK z : z = Share(e.state)
    OBVIOUS
  <2>1. /\ z.version = e.state.version /\ z.part = Sums(e.state.counts)
        /\ z \in Shares(l) /\ legacy[l] \in Shares(l) /\ legacy'[l] \in Shares(l)'
        /\ legacy[l].version \in Nat
    BY <1>3, SharesMembers DEF LegacyTyped
  <2>2. z.version = legacy[l].version => z.part = legacy[l].part
    <3>1. e.state \in Known
      BY KnownMembers
    <3> QED
      BY <1>3, <2>1, <3>1 DEF LegacyInv
  <2>3. \A y \in Shares(l)' : y \in Shares(l)
    BY <1>1, <1>3, <2>1, SharesMembers
  <2>4. \A y \in Shares(l) : y = legacy[l] \/ y = z \/ y \in Shares(l)'
    BY <1>3, SharesMembers
  <2>5. PICK w \in Shares(l) : w.part = s /\ \A y \in Shares(l) : y.version <= w.version
    BY DEF Settled
  <2>6. \E v \in Shares(l)' : v.part = s /\ v.version = w.version
    <3>1. CASE w \in Shares(l)'
      BY <2>5, <3>1
    <3>2. CASE w = legacy[l] /\ legacy'[l] = z /\ legacy[l].version <= e.state.version
      <4>1. z.version = w.version
        BY <1>1, <2>1, <2>5, <3>2
      <4> QED
        BY <2>1, <2>2, <2>5, <3>2, <4>1
    <3>3. CASE w = z /\ legacy'[l] = legacy[l] /\ e.state.version < legacy[l].version
      <4>1. legacy[l].version <= z.version
        BY <2>1, <2>5, <3>3
      <4> QED
        BY <1>1, <2>1, <3>3, <4>1
    <3> QED
      BY <1>1, <1>3, <2>1, <2>4, <2>5, <3>1, <3>2, <3>3
  <2>7. PICK v \in Shares(l)' : v.part = s /\ v.version = w.version
    BY <2>6
  <2>8. \A y \in Shares(l)' : y.version <= v.version
    BY <2>3, <2>5, <2>7
  <2> QED
    BY <2>7, <2>8 DEF Settled
<1> QED
  BY <1>2, <1>3

LEMMA LegacyDelivered ==
  ASSUME KnownInv, LegacyInv, LegacyTyped, lockID \in 1..MaxLocks, NEW e \in Sent, Observes(e),
         \A d \in Sent' : d \in Sent, \A d \in Sent : d = e \/ d \in Sent',
         core' = core, lockID' = lockID, Now' = Now, \A q \in Procs : Owing(q)' <=> Owing(q)
  PROVE  LegacyInv'
<1> SUFFICES ASSUME NEW l \in 1..MaxLocks
             PROVE  /\ legacy'[l].version \in Nat
                    /\ \A x \in Known' : x.lock = l /\ x.version = legacy'[l].version
                                           => legacy'[l].part = Sums(x.counts)
                    /\ l < lockID' => Settled(l, Nothing)'
                    /\ l = lockID' =>
                         /\ legacy'[l].version <= core'.version
                         /\ (\E q \in Procs : Owing(q)') \/ Settled(l, Sums(Counts(core)))'
                    /\ l > lockID' => legacy'[l].version = 0 /\ legacy'[l].part = Nothing'
  BY DEF LegacyInv
<1>1. /\ legacy[l].version \in Nat
      /\ \A x \in Known : x.lock = l /\ x.version = legacy[l].version
                            => legacy[l].part = Sums(x.counts)
      /\ l < lockID => Settled(l, Nothing)
      /\ l = lockID => /\ legacy[l].version <= core.version
                       /\ (\E q \in Procs : Owing(q)) \/ Settled(l, Sums(Counts(core)))
      /\ l > lockID => legacy[l].version = 0 /\ legacy[l].part = Nothing
  BY DEF LegacyInv
<1>2. /\ e.state.lock \in 1..lockID /\ e.state.version \in Nat
      /\ l # e.state.lock => legacy'[l] = legacy[l]
      /\ l = e.state.lock =>
           \/ legacy'[l] = legacy[l] /\ e.state.version < legacy[l].version
           \/ legacy'[l] = Share(e.state) /\ legacy[l].version <= e.state.version
  BY Contributes
<1>3. Nothing' = Nothing
  BY DEF Nothing
<1>4. \A x \in Known' : x \in Known
  BY KnownMembers
<1>5. /\ legacy'[l].version \in Nat
      /\ \A x \in Known' : x.lock = l /\ x.version = legacy'[l].version
                             => legacy'[l].part = Sums(x.counts)
      /\ l = lockID => legacy'[l].version <= core.version
  <2>1. CASE legacy'[l] = legacy[l]
    BY <1>1, <1>4, <2>1
  <2>2. CASE l = e.state.lock /\ legacy'[l] = Share(e.state)
    <3>1. e.state \in Known
      BY KnownMembers
    <3>2. legacy'[l].version = e.state.version /\ legacy'[l].part = Sums(e.state.counts)
      BY <2>2, SharesMembers
    <3>3. ASSUME NEW x \in Known', x.lock = l, x.version = legacy'[l].version
          PROVE  legacy'[l].part = Sums(x.counts)
      <4>1. x.counts = e.state.counts
        BY <1>4, <2>2, <3>1, <3>2, <3>3 DEF KnownInv
      <4> QED
        BY <3>2, <4>1
    <3>4. l = lockID => e.state.version <= core.version
      BY <2>2, <3>1 DEF KnownInv
    <3> QED
      BY <1>2, <3>2, <3>3, <3>4
  <2> QED
    BY <1>2, <2>1, <2>2
<1>6. ASSUME NEW s, Settled(l, s) PROVE Settled(l, s)'
  BY <1>6, SettledToo
<1>7. l < lockID => Settled(l, Nothing)'
  <2> PICK s : s = Nothing
    OBVIOUS
  <2>1. l < lockID => Settled(l, s)'
    BY <1>1, <1>6
  <2> QED
    BY <1>3, <2>1 DEF Settled
<1>8. Settled(l, Sums(Counts(core))) => Settled(l, Sums(Counts(core)))'
  <2> PICK s : s = Sums(Counts(core))
    OBVIOUS
  <2>1. Settled(l, s) => Settled(l, s)'
    BY <1>6
  <2> QED
    BY <2>1 DEF Settled
<1>9. l > lockID => legacy'[l].version = 0 /\ legacy'[l].part = Nothing'
  BY <1>1, <1>2, <1>3
<1> QED
  BY <1>1, <1>5, <1>7, <1>8, <1>9

\* A lock that is replaced was free at last.
LEMMA LegacyReplace ==
  ASSUME LockInv, KnownInv, LegacyInv, Replace, Sent' = Sent, legacy' = legacy
  PROVE  LegacyInv'
<1>1. /\ Retired /\ lockID' = lockID + 1 /\ lockID \in Nat
      /\ Counts(core) = Counts(InitialCore) /\ Counts(core') = Counts(InitialCore)
      /\ core'.version = 0
  BY RetiredIsFree, ReplaceKeepsLock, TelemetryAssumption DEF Replace, LockInv
<1>2. \A q \in Procs : ~Owing(q)
  BY <1>1 DEF Retired, Owing
<1>3. Nothing' = Nothing /\ Sums(Counts(core)) = Nothing /\ Sums(Counts(core')) = Nothing
  BY <1>1 DEF Nothing
<1>4. \A x \in Known' : x \in Known \/ x = Now'
  BY KnownMembers
<1>5. Now'.lock = lockID' /\ Now'.version = 0 /\ Now'.counts = Counts(core')
  BY <1>1, NowIs
<1> SUFFICES ASSUME NEW l \in 1..MaxLocks
             PROVE  /\ legacy'[l].version \in Nat
                    /\ \A x \in Known' : x.lock = l /\ x.version = legacy'[l].version
                                           => legacy'[l].part = Sums(x.counts)
                    /\ l < lockID' => Settled(l, Nothing)'
                    /\ l = lockID' =>
                         /\ legacy'[l].version <= core'.version
                         /\ (\E q \in Procs : Owing(q)') \/ Settled(l, Sums(Counts(core)))'
                    /\ l > lockID' => legacy'[l].version = 0 /\ legacy'[l].part = Nothing'
  BY DEF LegacyInv
<1>6. /\ legacy[l].version \in Nat
      /\ \A x \in Known : x.lock = l /\ x.version = legacy[l].version
                            => legacy[l].part = Sums(x.counts)
      /\ l < lockID => Settled(l, Nothing)
      /\ l = lockID => Settled(l, Sums(Counts(core)))
      /\ l > lockID => legacy[l].version = 0 /\ legacy[l].part = Nothing
  BY <1>2 DEF LegacyInv
<1>7. ASSUME NEW x \in Known', x.lock = l, x.version = legacy[l].version
      PROVE  legacy[l].part = Sums(x.counts)
  <2>1. CASE x \in Known
    BY <1>6, <1>7, <2>1
  <2>2. CASE x = Now'
    <3>1. l > lockID
      BY <1>1, <1>5, <1>7, <2>2
    <3> QED
      BY <1>3, <1>5, <1>6, <2>2, <3>1
  <2> QED
    BY <1>4, <2>1, <2>2
<1>8. l < lockID' => Settled(l, Nothing)
  <2>1. l < lockID' => l < lockID \/ l = lockID
    BY <1>1
  <2> QED
    BY <1>3, <1>6, <2>1
<1>9. l = lockID' => Settled(l, Nothing)
  <2> SUFFICES ASSUME l = lockID' PROVE Settled(l, Nothing)
    OBVIOUS
  <2>1. l > lockID
    BY <1>1
  <2>2. \A e \in Sent : e.state.lock # l
    BY <2>1, KnownMembers, <1>1 DEF KnownInv
  <2>3. \A y \in Shares(l) : y = legacy[l]
    BY <2>2, SharesMembers
  <2>4. legacy[l] \in Shares(l)
    BY SharesMembers
  <2> QED
    BY <1>6, <2>1, <2>3, <2>4 DEF Settled
<1>10. Settled(l, Nothing) => Settled(l, Nothing)' /\ Settled(l, Sums(Counts(core)))'
  <2> PICK s : s = Nothing
    OBVIOUS
  <2>1. Settled(l, s)' <=> Settled(l, s)
    BY SettledStays
  <2>2. s = Nothing' /\ s = Sums(Counts(core'))
    BY <1>3
  <2>3. Settled(l, s)' => Settled(l, Nothing)'
    BY <2>2 DEF Settled
  <2>4. Settled(l, s)' => Settled(l, Sums(Counts(core)))'
    BY <2>2 DEF Settled
  <2> QED
    BY <2>1, <2>3, <2>4
<1>11. /\ l = lockID' => legacy[l].version <= core'.version
       /\ l > lockID' => legacy[l].version = 0 /\ legacy[l].part = Nothing'
  <2>1. l = lockID' \/ l > lockID' => l > lockID
    BY <1>1
  <2> QED
    BY <1>1, <1>3, <1>6, <2>1
<1> QED
  BY <1>6, <1>7, <1>8, <1>9, <1>10, <1>11

LEMMA LegacyStep ==
  ASSUME ToldInv, KnownInv, LegacyInv, LegacyTyped, [TelemetryNext]_telemetryVars
  PROVE  LegacyInv'
<1>0. /\ LockInv /\ OInv /\ KnownInv' /\ lockID \in 1..MaxLocks
      /\ \A p \in Procs : Announces(p)
  BY KnownStep DEF ToldInv, LockInv, EInv
<1>1. lockID \in Nat \ {0} /\ core.version \in Nat /\ core'.version \in Nat
  BY KnownNext
<1>2. CASE UNCHANGED telemetryVars
  <2>1. UNCHANGED <<lockID, core, pc, outbox, pending, legacy>>
    BY <1>2 DEF telemetryVars, vars, coreVars, callVars, sendVars, observerVars
  <2>2. Sent' = Sent
    BY <2>1, SentStill
  <2>3. Known' = Known
    BY <2>1, <2>2, StateKept DEF Known, Now
  <2>4. \A l, s : Settled(l, s)' <=> Settled(l, s)
    BY <2>1, <2>2, SettledStays
  <2>5. \A q \in Procs : Owing(q)' <=> Owing(q)
    BY <2>1 DEF Owing
  <2>6. Nothing' = Nothing
    BY DEF Nothing
  <2> HIDE DEF Known, Settled, Owing, Nothing
  <2> QED
    BY <2>1, <2>3, <2>4, <2>5, <2>6 DEF LegacyInv
<1>3. ASSUME NEW p \in Procs, Onward, Silent, Moved(p)
      PROVE  LegacyInv'
  <2>1. Speaks(p) /\ legacy' = legacy
    BY <1>3 DEF Moved, Silent, observerVars
  <2> QED
    BY <1>0, <1>1, <1>3, <2>1, LegacyOnward
<1>4. CASE Replace /\ Silent
  <2>1. legacy' = legacy /\ outbox' = outbox /\ pending' = pending
    BY <1>4 DEF Replace, sendVars, Silent, observerVars
  <2>2. Sent' = Sent
    BY <2>1, SentStill
  <2> QED
    BY <1>0, <1>4, <2>1, <2>2, LegacyReplace
<1>5. ASSUME NEW p \in Procs, NEW s \in Senders, Deliver(s, p), Observes(Head(outbox[s][p]))
      PROVE  LegacyInv'
  <2> PICK e : e = Head(outbox[s][p])
    OBVIOUS
  <2>1. /\ e \in Sent /\ (\A x \in Sent' : x \in Sent)
        /\ \A x \in Sent : x = e \/ x \in Sent'
        /\ lockID' = lockID /\ core' = core /\ Now' = Now
        /\ \A q \in Procs : Owing(q)' <=> Owing(q)
    BY <1>0, <1>5, DeliverMoves DEF Now
  <2> QED
    BY <1>0, <1>5, <2>1, LegacyDelivered
<1>6. \/ UNCHANGED telemetryVars
      \/ Onward /\ Silent /\ \E p \in Procs : Moved(p)
      \/ Replace /\ Silent
      \/ \E s \in Senders, p \in Procs : Deliver(s, p) /\ Observes(Head(outbox[s][p]))
  BY <1>0, SystemSteps
<1> QED
  BY <1>2, <1>3, <1>4, <1>5, <1>6

-----------------------------------------------------------------------------
(* The totals add the contributions up *)

\* A cell for each unit that each lock contributes: the total is the number of cells.
Area(h) == {c \in (1..MaxLocks) \X Nat : c[2] \in 1..h[c[1]]}
Heights(f) == [l \in 1..MaxLocks |-> legacy[l].part[f]]

AreaInv ==
  /\ LegacyTyped
  /\ totals \in Part
  /\ \A f \in Roles : IsFiniteSet(Area(Heights(f))) /\ totals[f] = Cardinality(Area(Heights(f)))

\* The cells of one lock.
LEMMA ColumnCounted ==
  ASSUME NEW l, NEW n \in Nat
  PROVE  IsFiniteSet({l} \X (1..n)) /\ Cardinality({l} \X (1..n)) = n
<1>1. IsFiniteSet({l}) /\ Cardinality({l}) = 1
  BY FS_Singleton
<1>2. IsFiniteSet(1..n) /\ Cardinality(1..n) = n
  BY FS_Interval
<1>3. /\ IsFiniteSet({l} \X (1..n))
      /\ Cardinality({l} \X (1..n)) = Cardinality({l}) * Cardinality(1..n)
  BY <1>1, <1>2, FS_Product
<1> QED
  BY <1>1, <1>2, <1>3

\* When one lock contributes something else the total changes by the difference.
LEMMA AreaShift ==
  ASSUME NEW h \in [1..MaxLocks -> Nat], NEW l \in 1..MaxLocks,
         NEW g \in [1..MaxLocks -> Nat], \A k \in 1..MaxLocks : k # l => g[k] = h[k],
         IsFiniteSet(Area(h))
  PROVE  /\ IsFiniteSet(Area(g))
         /\ Cardinality(Area(g)) = Cardinality(Area(h)) + (g[l] - h[l])
<1> DEFINE R == {c \in Area(h) : c[1] # l}
           H == {l} \X (1..h[l])
           G == {l} \X (1..g[l])
<1>1. /\ h[l] \in Nat /\ g[l] \in Nat
      /\ IsFiniteSet(H) /\ Cardinality(H) = h[l]
      /\ IsFiniteSet(G) /\ Cardinality(G) = g[l]
  BY ColumnCounted
<1>2. IsFiniteSet(R)
  BY FS_Subset
<1>3. R \intersect H = {} /\ R \intersect G = {}
  OBVIOUS
<1>4. Area(h) = R \union H
  BY DEF Area
<1>5. Area(g) = R \union G
  BY DEF Area
<1> HIDE DEF R, H, G
<1>6. /\ Cardinality(Area(h)) = Cardinality(R) + h[l]
      /\ IsFiniteSet(Area(g)) /\ Cardinality(Area(g)) = Cardinality(R) + g[l]
  <2>1. Cardinality(R \union H) = Cardinality(R) + Cardinality(H)
    BY <1>1, <1>2, <1>3, ApartCounted
  <2>2. /\ IsFiniteSet(R \union G)
        /\ Cardinality(R \union G) = Cardinality(R) + Cardinality(G)
    BY <1>1, <1>2, <1>3, ApartCounted
  <2> QED
    BY <1>1, <1>4, <1>5, <2>1, <2>2
<1>7. Cardinality(R) \in Nat
  BY <1>2, FS_CardinalityType
<1> QED
  BY <1>1, <1>6, <1>7

LEMMA AreaOfNone ==
  ASSUME NEW h, \A l \in 1..MaxLocks : h[l] = 0
  PROVE  IsFiniteSet(Area(h)) /\ Cardinality(Area(h)) = 0
<1>1. Area(h) = {}
  BY DEF Area
<1> QED
  BY <1>1, FS_EmptySet

LEMMA NothingIsNone == Nothing = [waiting |-> 0, held |-> 0]
<1> DEFINE c == Counts(InitialCore)
<1>1. c.readers = 0 /\ c.writer = FALSE /\ c.waitingReaders = 0 /\ c.waitingWriters = 0
  <2>1. \A m : {i \in DOMAIN << >> : << >>[i].mode = m} = {}
    OBVIOUS
  <2> QED
    BY <2>1, FS_EmptySet DEF Counts, InitialCore
<1> HIDE DEF c
<1>2. Sums(c) = [waiting |-> 0, held |-> 0]
  BY <1>1 DEF Sums, Gauges
<1> QED
  BY <1>2 DEF c, Nothing

LEMMA SumsType == ASSUME NEW e \in Event PROVE Sums(e.state.counts) \in Part
<1> DEFINE c == e.state.counts
<1>1. c.readers \in Nat /\ c.waitingReaders \in Nat /\ c.waitingWriters \in Nat
  BY DEF Event, LockStates
<1> HIDE DEF c
<1>2. (IF c.writer THEN 1 ELSE 0) \in Nat
  OBVIOUS
<1>3. Sums(c) \in Part
  BY <1>1, <1>2 DEF Sums, Gauges, Part
<1> QED
  BY <1>3 DEF c

LEMMA HeightsType ==
  ASSUME LegacyTyped, NEW f \in Roles
  PROVE  /\ Heights(f) \in [1..MaxLocks -> Nat]
         /\ \A l \in 1..MaxLocks : Heights(f)[l] = legacy[l].part[f]
BY DEF LegacyTyped, Heights, Part, Roles

LEMMA AreaInitially == TelemetryInit => AreaInv
<1> SUFFICES ASSUME TelemetryInit PROVE AreaInv
  OBVIOUS
<1>1. /\ legacy = [l \in 1..MaxLocks |-> [version |-> 0, part |-> Nothing]]
      /\ totals = Nothing
  BY DEF TelemetryInit, Nothing
<1>2. LegacyTyped /\ totals \in Part
  BY <1>1, NothingIsNone DEF LegacyTyped, Part
<1>3. ASSUME NEW f \in Roles
      PROVE  IsFiniteSet(Area(Heights(f))) /\ totals[f] = Cardinality(Area(Heights(f)))
  <2>1. totals[f] = 0 /\ \A l \in 1..MaxLocks : legacy[l].part[f] = 0
    BY <1>1, NothingIsNone DEF Roles
  <2>2. \A l \in 1..MaxLocks : Heights(f)[l] = 0
    BY <1>2, <2>1, HeightsType
  <2> QED
    BY <2>1, <2>2, AreaOfNone
<1> QED
  BY <1>2, <1>3 DEF AreaInv

LEMMA AreaStep ==
  ASSUME ToldInv, KnownInv, AreaInv, [TelemetryNext]_telemetryVars
  PROVE  AreaInv'
<1>1. /\ lockID \in 1..MaxLocks
      /\ \/ Silent
         \/ \E e \in Sent : Observes(e)
  BY KnownNext DEF ToldInv, LockInv
<1>2. CASE Silent
  <2>1. legacy' = legacy /\ totals' = totals
    BY <1>2 DEF Silent, observerVars
  <2> QED
    BY <2>1 DEF AreaInv, LegacyTyped, Heights, Area
<1>3. ASSUME NEW e \in Sent, Observes(e) PROVE AreaInv'
  <2> PICK k : k = e.state.lock
    OBVIOUS
  <2>1. LegacyTyped
    BY DEF AreaInv
  <2>2. k \in 1..MaxLocks
    <3>1. k \in 1..lockID
      BY KnownMembers DEF KnownInv
    <3> QED
      BY <1>1, <3>1, TelemetryAssumption
  <2>3. Sums(e.state.counts) \in Part /\ e.state.version \in Nat
    <3>1. e \in Event
      BY SentMembers
    <3>2. e.state \in Known
      BY KnownMembers
    <3> QED
      BY <3>1, <3>2, SumsType DEF KnownInv
  <2>4. LegacyTyped'
    <3>1. Contribution(legacy[k], e.state) \in [version : Nat, part : Part]
      BY <2>1, <2>2, <2>3 DEF LegacyTyped, Contribution
    <3>2. legacy' = [legacy EXCEPT ![k] = Contribution(legacy[k], e.state)]
      BY <1>3 DEF Observes
    <3> QED
      BY <2>1, <3>1, <3>2 DEF LegacyTyped
  <2>5. /\ \A l \in 1..MaxLocks : l # k => legacy'[l] = legacy[l]
        /\ totals' = Shift(totals, legacy[k].part, legacy'[k].part)
    <3>1. legacy' = [legacy EXCEPT ![k] = Contribution(@, e.state)]
      BY <1>3 DEF Observes
    <3> QED
      BY <1>3, <2>1, <3>1 DEF Observes, LegacyTyped
  <2>6. \A f \in Roles : /\ totals[f] \in Nat /\ legacy[k].part[f] \in Nat
                         /\ legacy'[k].part[f] \in Nat
                         /\ totals'[f] = totals[f] + (legacy'[k].part[f] - legacy[k].part[f])
    <3>1. totals \in Part /\ legacy[k].part \in Part /\ legacy'[k].part \in Part
      BY <2>1, <2>2, <2>4 DEF AreaInv, LegacyTyped
    <3> QED
      BY <2>5, <3>1 DEF Shift, Part, Roles
  <2>7. ASSUME NEW f \in Roles
        PROVE  IsFiniteSet(Area(Heights(f)))' /\ totals'[f] = Cardinality(Area(Heights(f)))'
    <3> PICK h : h = Heights(f)
      OBVIOUS
    <3> PICK g : g = Heights(f)'
      OBVIOUS
    <3>1. /\ h \in [1..MaxLocks -> Nat]
          /\ \A l \in 1..MaxLocks : h[l] = legacy[l].part[f]
      BY <2>1, HeightsType
    <3>2. /\ g \in [1..MaxLocks -> Nat]
          /\ \A l \in 1..MaxLocks : g[l] = legacy'[l].part[f]
      BY <2>4 DEF LegacyTyped, Heights, Part, Roles
    <3>3. \A l \in 1..MaxLocks : l # k => g[l] = h[l]
      BY <2>5, <3>1, <3>2
    <3>4. IsFiniteSet(Area(h)) /\ totals[f] = Cardinality(Area(h))
      BY DEF AreaInv
    <3>5. /\ IsFiniteSet(Area(g))
          /\ Cardinality(Area(g)) = Cardinality(Area(h)) + (g[k] - h[k])
      BY <2>2, <3>1, <3>2, <3>3, <3>4, AreaShift
    <3>6. totals'[f] = Cardinality(Area(g))
      BY <2>2, <2>6, <3>1, <3>2, <3>4, <3>5
    <3>7. Area(Heights(f))' = Area(g)
      BY DEF Area
    <3> QED
      BY <3>5, <3>6, <3>7
  <2>8. totals' \in Part
    <3>1. totals'["waiting"] \in Nat /\ totals'["held"] \in Nat
      BY <2>7, FS_CardinalityType DEF Roles
    <3> QED
      BY <2>5, <3>1 DEF Shift, Part
  <2> QED
    BY <2>4, <2>7, <2>8 DEF AreaInv
<1> QED
  BY <1>1, <1>2, <1>3

\* When all has been told, only the lock that has the name contributes.
LEMMA LegacyAtLast ==
  ASSUME LegacyInv, AreaInv, lockID \in 1..MaxLocks, Quiet
  PROVE  totals = Sums(Counts(core))
<1>1. Sent = {} /\ \A q \in Procs : ~Owing(q)
  BY QuietIsTold
<1>2. \A l, s : Settled(l, s) => legacy[l].part = s
  BY <1>1, SharesMembers DEF Settled
<1>3. /\ legacy[lockID].part = Sums(Counts(core))
      /\ \A l \in 1..MaxLocks : l # lockID => legacy[l].part = Nothing
  <2>1. ASSUME NEW l \in 1..MaxLocks, l # lockID PROVE legacy[l].part = Nothing
    <3>1. l < lockID \/ l > lockID
      BY <2>1, TelemetryAssumption
    <3> QED
      BY <1>2, <3>1 DEF LegacyInv
  <2> QED
    BY <1>1, <1>2, <2>1 DEF LegacyInv
<1> PICK t : t = Sums(Counts(core))
  OBVIOUS
<1>4. LegacyTyped /\ totals \in Part /\ t \in Part
  BY <1>3 DEF AreaInv, LegacyTyped
<1>5. ASSUME NEW f \in Roles PROVE totals[f] = t[f]
  <2> PICK g : g = Heights(f)
    OBVIOUS
  <2> PICK h : h = [l \in 1..MaxLocks |-> 0]
    OBVIOUS
  <2>1. g \in [1..MaxLocks -> Nat] /\ \A l \in 1..MaxLocks : g[l] = legacy[l].part[f]
    BY <1>4, HeightsType
  <2>2. h \in [1..MaxLocks -> Nat] /\ \A l \in 1..MaxLocks : h[l] = 0
    OBVIOUS
  <2>3. Nothing[f] = 0
    BY NothingIsNone DEF Roles
  <2>4. \A l \in 1..MaxLocks : l # lockID => g[l] = h[l]
    BY <1>3, <2>1, <2>2, <2>3
  <2>5. IsFiniteSet(Area(h)) /\ Cardinality(Area(h)) = 0
    BY <2>2, AreaOfNone
  <2>6. Cardinality(Area(g)) = Cardinality(Area(h)) + (g[lockID] - h[lockID])
    BY <2>1, <2>2, <2>4, <2>5, AreaShift
  <2>7. g[lockID] = t[f] /\ g[lockID] \in Nat /\ h[lockID] = 0
    BY <1>3, <2>1, <2>2
  <2>8. totals[f] = Cardinality(Area(g))
    BY DEF AreaInv
  <2> QED
    BY <2>5, <2>6, <2>7, <2>8
<1>6. totals.waiting = t.waiting /\ totals.held = t.held
  BY <1>5 DEF Roles
<1> QED
  BY <1>4, <1>6 DEF Part

\* Once all has been told the legacy totals are the counts of the lock that has the name,
\* although they are only ever changed by differences and in any order:
\* legacyPrometheusObserver.ObserveLock replaces the contribution of the lock as a whole, never
\* by an older one, and a lock is told of as free before it is replaced.
THEOREM LegacyCatchesUp == TelemetrySpec => []LegacySettles
<1>1. TelemetryInit => LegacyInv /\ AreaInv
  BY LegacyInitially, AreaInitially
<1>2. (ToldInv /\ KnownInv) /\ (LegacyInv /\ AreaInv) /\ [TelemetryNext]_telemetryVars
        => (LegacyInv /\ AreaInv)'
  BY LegacyStep, AreaStep DEF AreaInv
<1>3. (ToldInv /\ KnownInv) /\ (LegacyInv /\ AreaInv) => LegacySettles
  BY LegacyAtLast DEF ToldInv, LockInv, LegacySettles
<1> QED
  BY <1>1, <1>2, <1>3, KnownInvariant, PTL DEF TelemetrySpec

=============================================================================
