--------------------------- MODULE RWMutexProofs ---------------------------
(* The lock for every number of goroutines, every limit and every           *)
(* combination of features: its safety, what a step of it may never do, and *)
(* that it implements the abstract FIFO lock.  Where the goroutines of      *)
(* RWMutex are is all that RWCoreProofs needs to know of them to tie them   *)
(* to the engine.                                                           *)
EXTENDS RWMutex, RWCoreProofs

-----------------------------------------------------------------------------
(* The inductive invariant *)

\* That the head of the queue cannot own the lock is part of it, or an acquisition
\* joining an idle queue could be left behind an owner that never was; so is that a
\* waiter keeps its verdict until it returns (in Typed), or a grant could be lost.  A
\* goroutine here never keeps the verdict of an acquisition it has given back.
IInv ==
  /\ Tied(core, pc, want)
  /\ dead \in SUBSET Procs
  /\ ~HeadCompatible(core)
  /\ core.cancelled => core.waiters = <<>>
  /\ MaxWaiting # Unlimited => Len(core.waiters) <= MaxWaiting
  /\ \A p \in Procs : pc[p] \notin {"panicked", "gone"}

\* An engine state whose queue is no longer than a queue within the limit, and empty
\* where that one is, is within the limit and empty too.
LEMMA ShorterQueue ==
  ASSUME NEW s \in Seq(Waiter), NEW t \in Seq(Waiter), Len(t) <= Len(s)
  PROVE  /\ s = <<>> => t = <<>>
         /\ MaxWaiting # Unlimited =>
              (Len(s) <= MaxWaiting => Len(t) <= MaxWaiting)
<1>1. Len(s) \in Nat /\ Len(t) \in Nat
  OBVIOUS
<1>2. MaxWaiting # Unlimited => MaxWaiting \in Nat
  BY FeatureAssumption
<1>3. s = <<>> => t = <<>>
  <2>1. s = <<>> => Len(t) = 0
    BY <1>1
  <2> QED
    BY <2>1
<1> QED
  BY <1>1, <1>2, <1>3

\* Serving the queue of a state of the invariant.
LEMMA ServingPreserves ==
  ASSUME NEW c, NEW place, NEW w, Tied(c, place, w),
         c.cancelled => c.waiters = <<>>,
         MaxWaiting # Unlimited => Len(c.waiters) <= MaxWaiting,
         NEW gone
  PROVE  LET g == GrantWaiters(c, gone)
         IN  /\ Tied(g, place, w)
             /\ ~HeadCompatible(g)
             /\ g.cancelled = c.cancelled
             /\ g.cancelled => g.waiters = <<>>
             /\ MaxWaiting # Unlimited => Len(g.waiters) <= MaxWaiting
<1> DEFINE g == GrantWaiters(c, gone)
<1>1. /\ Tied(g, place, w) /\ ~HeadCompatible(g) /\ g.cancelled = c.cancelled
      /\ Len(g.waiters) <= Len(c.waiters)
  BY GrantWaitersPreserves
<1> HIDE DEF g
<1>2. c.waiters \in Seq(Waiter) /\ g.waiters \in Seq(Waiter)
  BY <1>1 DEF Tied, Typed, Core
<1> QED
  BY <1>1, <1>2, ShorterQueue DEF g

\* What an acquisition finds once it has served the queue.
LEMMA ServedPreserves ==
  ASSUME IInv
  PROVE  /\ Tied(Served, pc, want)
         /\ ~HeadCompatible(Served)
         /\ Served.cancelled = core.cancelled
         /\ Served.cancelled => Served.waiters = <<>>
         /\ MaxWaiting # Unlimited => Len(Served.waiters) <= MaxWaiting
<1>1. CASE core.waiters = <<>>
  BY <1>1 DEF Served, IInv
<1>2. CASE core.waiters # <<>>
  <2>1. Served = GrantWaiters(core, dead)
    BY <1>2 DEF Served
  <2> QED
    BY <2>1, ServingPreserves DEF IInv
<1> QED
  BY <1>1, <1>2

\* What a goroutine that wants nothing is recorded with.
LEMMA NoWantType ==
  ASSUME NEW p \in Procs
  PROVE  NoWant(p) \in Waiter /\ NoWant(p).id = p
BY DEF NoWant, Attempt, Waiter, Modes

\* The lock is created unowned, with nobody waiting.
LEMMA InitInvariant == Init => IInv
<1> SUFFICES ASSUME Init PROVE IInv
  OBVIOUS
<1> DEFINE at == [p \in Procs |-> "idle"]
           nothing == [p \in Procs |-> NoWant(p)]
<1>1. core = InitialCore /\ pc = at /\ want = nothing /\ dead = {}
  BY DEF Init
<1>2. InitialCore \in Core /\ <<>> \in Seq(Waiter) /\ Elems(<<>>) = {} /\ Len(<<>>) = 0
  BY CoreAssumption DEF InitialCore, Core, Verdicts, Elems
<1>3. \A p \in Procs : NoWant(p) \in Waiter /\ NoWant(p).id = p
  BY NoWantType
<1>4. /\ at \in [Procs -> Stations] /\ nothing \in [Procs -> Waiter]
      /\ \A p \in Procs : nothing[p].id = p /\ at[p] = "idle"
  BY <1>3 DEF Stations
<1> HIDE DEF at, nothing
<1>5. Typed(core, pc, want)
  BY <1>1, <1>2, <1>4 DEF Typed, InitialCore
<1>6. /\ QueuedIn(core, pc) = {} /\ ReadersIn(core, pc, want) = {}
      /\ WritersIn(core, pc, want) = {}
  BY <1>1, <1>4 DEF QueuedIn, ReadersIn, WritersIn, OwnsIn
<1>7. QueueTied(core, pc, want)
  <2>1. core.waiters = <<>> /\ DOMAIN core.waiters = {}
    BY <1>1 DEF InitialCore
  <2>2. Distinct(core.waiters) /\ Elems(core.waiters) = {}
    BY <2>1 DEF Distinct, Elems
  <2> QED
    BY <1>6, <2>2 DEF QueueTied
<1>8. LedgerTied(core, pc, want) /\ Exclusive(core, pc, want)
  BY <1>1, <1>6, FS_EmptySet DEF LedgerTied, Exclusive, InitialCore
<1>9. ~HeadCompatible(core) /\ core.waiters = <<>>
  BY <1>1 DEF HeadCompatible, InitialCore
<1>10. MaxWaiting # Unlimited => Len(core.waiters) <= MaxWaiting
  BY <1>2, <1>9, FeatureAssumption
<1> QED
  BY <1>1, <1>4, <1>5, <1>7, <1>8, <1>9, <1>10 DEF IInv, Tied

\* Every step of every goroutine keeps the invariant.
LEMMA StepInvariant == IInv /\ [Next]_vars => IInv'
<1> SUFFICES ASSUME IInv, [Next]_vars PROVE IInv'
  OBVIOUS
<1>0. /\ Tied(core, pc, want) /\ dead \in SUBSET Procs /\ ~HeadCompatible(core)
      /\ core.cancelled => core.waiters = <<>>
      /\ MaxWaiting # Unlimited => Len(core.waiters) <= MaxWaiting
      /\ \A p \in Procs : pc[p] \notin {"panicked", "gone"}
      /\ Typed(core, pc, want) /\ core \in Core
      /\ pc \in [Procs -> Stations] /\ want \in [Procs -> Waiter]
  BY DEF IInv, Tied, Typed
<1>1. CASE UNCHANGED vars
  BY <1>0, <1>1 DEF IInv, vars
<1>2. CASE CancelLock
  <2>1. core' = Cancel(core) /\ pc' = pc /\ want' = want /\ dead' = dead
        /\ MaxWaiting = Unlimited
    BY <1>2, FeatureAssumption DEF CancelLock
  <2>2. Tied(core', pc', want') /\ core'.waiters = <<>>
    BY <1>0, <2>1, CancelPreserves
  <2>3. ~HeadCompatible(core')
    BY <2>2 DEF HeadCompatible
  <2> QED
    BY <1>0, <2>1, <2>2, <2>3 DEF IInv
<1>3. ASSUME NEW p \in Procs, Expire(p) \/ AcquireExpired(p) PROVE IInv'
  <2>1. core' = core /\ pc' = pc /\ want' = want /\ dead' \in SUBSET Procs
    BY <1>0, <1>3 DEF Expire, AcquireExpired
  <2> QED
    BY <1>0, <2>1 DEF IInv
<1>4. ASSUME NEW p \in Procs, AcquireCancelled(p) \/ \E m \in Modes : TryFail(p, m)
      PROVE  IInv'
  BY <1>0, <1>4 DEF IInv, AcquireCancelled, TryFail, vars
<1>5. ASSUME NEW p \in Procs, GiveUp(p) PROVE IInv'
  <2>1. pc[p] = "waiting" /\ core' = CancelWaiter(core, p, dead)
        /\ pc' = pc /\ want' = want /\ dead' = dead
    BY <1>5 DEF GiveUp
  <2>2. CASE core.verdict[p] # "none"
    <3>1. core' = core
      BY <2>1, <2>2 DEF CancelWaiter
    <3> QED
      BY <1>0, <2>1, <3>1 DEF IInv
  <2>3. CASE core.verdict[p] = "none"
    <3> DEFINE d == RejectCancelledWaiters(core, {p})
    <3>1. p \in QueuedIn(core, pc)
      BY <2>1, <2>3 DEF QueuedIn
    <3>2. core' = GrantWaiters(d, dead)
      BY <1>0, <2>1, <3>1, CancelWaiterIsReject, Zenon
    <3>3. /\ Tied(d, pc, want) /\ d.cancelled = core.cancelled
          /\ Len(d.waiters) <= Len(core.waiters)
      BY <1>0, RejectPreserves, Zenon
    <3> HIDE DEF d
    <3>4. core.waiters \in Seq(Waiter) /\ d.waiters \in Seq(Waiter)
      BY <1>0, <3>3 DEF Tied, Typed, Core
    <3>5. /\ d.cancelled => d.waiters = <<>>
          /\ MaxWaiting # Unlimited => Len(d.waiters) <= MaxWaiting
      BY <1>0, <3>3, <3>4, ShorterQueue
    <3>6. /\ Tied(core', pc, want) /\ ~HeadCompatible(core')
          /\ core'.cancelled => core'.waiters = <<>>
          /\ MaxWaiting # Unlimited => Len(core'.waiters) <= MaxWaiting
      BY <3>2, <3>3, <3>5, ServingPreserves
    <3> QED
      BY <1>0, <2>1, <3>6 DEF IInv
  <2> QED
    BY <2>2, <2>3
<1>6. ASSUME NEW p \in Procs, FinishWait(p) PROVE IInv'
  <2>1. /\ pc[p] = "waiting" /\ core.verdict[p] # "none"
        /\ core' = [core EXCEPT !.verdict = [core.verdict EXCEPT ![p] = "none"]]
        /\ dead' \in SUBSET Procs
    BY <1>0, <1>6 DEF FinishWait
  <2>2. CASE core.verdict[p] = "granted"
    <3>1. pc' = [pc EXCEPT ![p] = "holding"] /\ want' = want
      BY <1>6, <2>2 DEF FinishWait
    <3>2. /\ Tied(core', pc', want') /\ ~HeadCompatible(core')
          /\ core'.cancelled = core.cancelled /\ core'.waiters = core.waiters
      <4>1. /\ Tied(core', [pc EXCEPT ![p] = "holding"], want)
            /\ HeadCompatible(core') <=> HeadCompatible(core)
            /\ core'.cancelled = core.cancelled /\ core'.waiters = core.waiters
        <5>1. Tied(core, pc, want) /\ pc[p] = "waiting" /\ core.verdict[p] = "granted"
              /\ p \in Procs
              /\ core' = [core EXCEPT !.verdict = [core.verdict EXCEPT ![p] = "none"]]
          BY <1>0, <2>1, <2>2
        <5> QED
          BY <5>1, ReturnGranted
      <4> QED
        BY <1>0, <3>1, <4>1
    <3>3. \A q \in Procs : pc'[q] \notin {"panicked", "gone"}
      BY <1>0, <3>1
    <3> QED
      BY <1>0, <2>1, <3>2, <3>3 DEF IInv
  <2>3. CASE core.verdict[p] # "granted"
    <3>1. pc' = [pc EXCEPT ![p] = "idle"] /\ want' = [want EXCEPT ![p] = NoWant(p)]
      BY <1>6, <2>3 DEF FinishWait
    <3>4. core.verdict[p] \notin {"none", "granted"}
      BY <2>1, <2>3
    <3>2. /\ Tied(core', pc', want') /\ ~HeadCompatible(core')
          /\ core'.cancelled = core.cancelled /\ core'.waiters = core.waiters
      <4>1. /\ Tied(core', [pc EXCEPT ![p] = "idle"], [want EXCEPT ![p] = NoWant(p)])
            /\ HeadCompatible(core') <=> HeadCompatible(core)
            /\ core'.cancelled = core.cancelled /\ core'.waiters = core.waiters
        <5>1. Tied(core, pc, want) /\ pc[p] = "waiting" /\ p \in Procs
              /\ core' = [core EXCEPT !.verdict = [core.verdict EXCEPT ![p] = "none"]]
          BY <1>0, <2>1
        <5> QED
          BY <5>1, <3>4, NoWantType, ReturnRejected
      <4> QED
        BY <1>0, <3>1, <4>1
    <3>3. \A q \in Procs : pc'[q] \notin {"panicked", "gone"}
      BY <1>0, <3>1
    <3> QED
      BY <1>0, <2>1, <3>2, <3>3 DEF IInv
  <2> QED
    BY <2>2, <2>3
<1>7. ASSUME NEW p \in Procs, Unlock(p) PROVE IInv'
  <2> DEFINE f == Freed(core, want[p].mode, ReleasedAttempt(p))
             place2 == [pc EXCEPT ![p] = "idle"]
             w2 == [want EXCEPT ![p] = NoWant(p)]
  <2>1. pc[p] = "holding" /\ dead' = dead
    BY <1>7 DEF Unlock
  <2>2. /\ ReleaseMatches(core, want[p].mode, ReleasedAttempt(p))
        /\ Tied(f, place2, w2)
        /\ f.cancelled = core.cancelled /\ f.waiters = core.waiters
    <3>1. /\ Tied(core, pc, want) /\ pc[p] = "holding" /\ p \in Procs
          /\ ReleasedAttempt(p) = IF want[p].guarded THEN p ELSE NoAttempt
      BY <1>0, <2>1 DEF ReleasedAttempt
    <3> HIDE DEF ReleasedAttempt
    <3> QED
      BY <3>1, NoWantType, FreedPreserves
  <2>3. core' = GrantWaiters(f, dead) /\ pc' = place2 /\ want' = w2
    BY <1>7, <2>2 DEF Unlock, Release
  <2>4. \A q \in Procs : pc'[q] \notin {"panicked", "gone"}
    BY <1>0, <2>3
  <2> HIDE DEF f, place2, w2
  <2>5. /\ Tied(core', place2, w2) /\ ~HeadCompatible(core')
        /\ core'.cancelled => core'.waiters = <<>>
        /\ MaxWaiting # Unlimited => Len(core'.waiters) <= MaxWaiting
    BY <1>0, <2>2, <2>3, ServingPreserves
  <2> QED
    BY <1>0, <2>1, <2>3, <2>4, <2>5 DEF IInv
<1>8. ASSUME NEW p \in Procs, HandleFull(p) PROVE IInv'
  <2>1. /\ pc[p] = "refused" /\ pc' = [pc EXCEPT ![p] = "idle"]
        /\ core' = core /\ want' = want /\ dead' = dead
    BY <1>8 DEF HandleFull
  <2>2. Tied(core, pc', want)
    BY <1>0, <2>1, MovePreserves DEF Stations
  <2>3. \A q \in Procs : pc'[q] \notin {"panicked", "gone"}
    BY <1>0, <2>1
  <2> QED
    BY <1>0, <2>1, <2>2, <2>3 DEF IInv
<1>9. ASSUME NEW p \in Procs, NEW m \in Modes, NEW g \in BOOLEAN, TrySucceed(p, m, g)
      PROVE  IInv'
  <2> DEFINE x == Attempt(p, m, g)
  <2>1. x \in Waiter /\ x.id = p /\ x.mode = m
    BY DEF Attempt, Waiter
  <2>2. /\ pc[x.id] = "idle" /\ CanAcquireImmediately(core, x.mode)
        /\ core' = Grant(core, x)
        /\ pc' = [pc EXCEPT ![x.id] = "holding"]
        /\ want' = [want EXCEPT ![x.id] = x]
        /\ dead' \in SUBSET Procs
    BY <1>0, <1>9, <2>1 DEF TrySucceed
  <2> HIDE DEF x
  <2>3. /\ Tied(core', pc', want') /\ ~HeadCompatible(core')
        /\ core'.cancelled = core.cancelled /\ core'.waiters = <<>>
    BY <1>0, <2>1, <2>2, GrantPreserves
  <2>4. \A q \in Procs : pc'[q] \notin {"panicked", "gone"}
    BY <1>0, <2>2
  <2>5. MaxWaiting # Unlimited => Len(core'.waiters) <= MaxWaiting
    BY <2>3, FeatureAssumption
  <2> QED
    BY <2>2, <2>3, <2>4, <2>5 DEF IInv
<1>10. ASSUME NEW p \in Procs, NEW m \in Modes, NEW g \in BOOLEAN, AcquireAtOnce(p, m, g)
       PROVE  IInv'
  <2> DEFINE x == Attempt(p, m, g)
  <2>1. x \in Waiter /\ x.id = p /\ x.mode = m
    BY DEF Attempt, Waiter
  <2>2. /\ pc[x.id] = "idle" /\ CanAcquireImmediately(Served, x.mode)
        /\ core' = Grant(Served, x)
        /\ pc' = [pc EXCEPT ![x.id] = "holding"]
        /\ want' = [want EXCEPT ![x.id] = x]
        /\ dead' = dead
    BY <1>10, <2>1 DEF AcquireAtOnce, MayAcquire
  <2> HIDE DEF x
  <2>3. /\ Tied(core', pc', want') /\ ~HeadCompatible(core')
        /\ core'.waiters = <<>>
    BY <2>1, <2>2, ServedPreserves, GrantPreserves
  <2>4. \A q \in Procs : pc'[q] \notin {"panicked", "gone"}
    BY <1>0, <2>2
  <2>5. MaxWaiting # Unlimited => Len(core'.waiters) <= MaxWaiting
    BY <2>3, FeatureAssumption
  <2> QED
    BY <1>0, <2>2, <2>3, <2>4, <2>5 DEF IInv
<1>11. ASSUME NEW p \in Procs, NEW m \in Modes, NEW g \in BOOLEAN, AcquireFull(p, m, g)
       PROVE  IInv'
  <2>1. /\ pc[p] = "idle" /\ core' = Served /\ pc' = [pc EXCEPT ![p] = "refused"]
        /\ want' = want /\ dead' = dead
    BY <1>11 DEF AcquireFull, MayAcquire
  <2>2. Tied(core', pc', want')
    BY <2>1, ServedPreserves, MovePreserves DEF Stations
  <2>3. \A q \in Procs : pc'[q] \notin {"panicked", "gone"}
    BY <1>0, <2>1
  <2> QED
    BY <1>0, <2>1, <2>2, <2>3, ServedPreserves DEF IInv
<1>12. ASSUME NEW p \in Procs, NEW m \in Modes, NEW g \in BOOLEAN, AcquireWait(p, m, g)
       PROVE  IInv'
  <2> DEFINE x == Attempt(p, m, g)
  <2>1. x \in Waiter /\ x.id = p /\ x.mode = m
    BY DEF Attempt, Waiter
  <2>2. /\ pc[x.id] = "idle" /\ ~CanAcquireImmediately(Served, x.mode)
        /\ core' = Enqueue(Served, x)
        /\ pc' = [pc EXCEPT ![x.id] = "waiting"]
        /\ want' = [want EXCEPT ![x.id] = x]
        /\ dead' = dead /\ ~core.cancelled
        /\ ~QueueFull(Served)
    BY <1>12, <2>1 DEF AcquireWait, MayAcquire
  <2> HIDE DEF x
  <2>3. /\ Tied(core', pc', want') /\ ~HeadCompatible(core')
        /\ core'.cancelled = Served.cancelled
        /\ Len(core'.waiters) = Len(Served.waiters) + 1
    BY <2>1, <2>2, ServedPreserves, EnqueuePreserves
  <2>4. \A q \in Procs : pc'[q] \notin {"panicked", "gone"}
    BY <1>0, <2>2
  <2>5. MaxWaiting # Unlimited => Len(core'.waiters) <= MaxWaiting
    <3>1. Served.waiters \in Seq(Waiter)
      BY ServedPreserves DEF Tied, Typed, Core
    <3>2. Len(Served.waiters) \in Nat
      BY <3>1
    <3> QED
      BY <2>2, <2>3, <3>2, FeatureAssumption DEF QueueFull
  <2>6. ~core'.cancelled
    BY <2>2, <2>3, ServedPreserves
  <2> QED
    BY <1>0, <2>2, <2>3, <2>4, <2>5, <2>6 DEF IInv
<1> QED
  BY <1>1, <1>2, <1>3, <1>4, <1>5, <1>6, <1>7, <1>8, <1>9, <1>10, <1>11, <1>12 DEF Next

\* The invariant holds in every state of every behaviour.
THEOREM Invariant == Spec => []IInv
<1> QED
  BY InitInvariant, StepInvariant, PTL DEF Spec

-----------------------------------------------------------------------------
(* What the invariant says of the lock *)

\* Every variable keeps to its type.
THEOREM TypeCorrect == Spec => []TypeOK
<1>1. IInv => TypeOK
  BY DEF IInv, Tied, Typed, TypeOK, Places, Stations
<1> QED
  BY <1>1, Invariant, PTL

\* The owners of the invariant are those of the properties.
LEMMA SameSets ==
  /\ Readers = ReadersIn(core, pc, want)
  /\ Writers = WritersIn(core, pc, want)
  /\ Queued = QueuedIn(core, pc)
BY DEF Readers, Writers, Queued, ReadersIn, WritersIn, QueuedIn, Owns, OwnsIn

\* A write acquisition excludes every other, for any number of goroutines: one that was
\* granted while blocked and has not yet returned counts as an owner.
THEOREM Exclusion == Spec => []MutualExclusion
<1>1. IInv => MutualExclusion
  BY SameSets DEF IInv, Tied, Exclusive, MutualExclusion
<1> QED
  BY <1>1, Invariant, PTL

\* The counters of the engine are the owners at all times.
THEOREM Ledger == Spec => []LedgerMatchesOwners
<1>1. IInv => LedgerMatchesOwners
  BY SameSets DEF IInv, Tied, LedgerTied, LedgerMatchesOwners
<1> QED
  BY <1>1, Invariant, PTL

\* So has the queue of the lock.
LEMMA QueueLength ==
  ASSUME IInv
  PROVE  Len(core.waiters) = Cardinality(Queued)
BY QueueLengthIn, SameSets DEF IInv

\* Nobody sleeps outside the queue and no entry outlives its goroutine's wait.
THEOREM QueueMembership == Spec => []QueueTracksBlocked
<1>1. IInv => QueueTracksBlocked
  BY SameSets, QueueLength DEF IInv, Tied, QueueTied, QueueTracksBlocked
<1> QED
  BY <1>1, Invariant, PTL

\* The lock is never kept from the head of the queue without reason.
THEOREM WorkConserving == Spec => []NoIdleQueue
<1>1. IInv => NoIdleQueue
  BY DEF IInv, NoIdleQueue
<1> QED
  BY <1>1, Invariant, PTL

\* A goroutine blocked without a verdict sleeps until somebody releases the lock or
\* cancels: there is always somebody to do it, an owner whose release runs grantWaiters.
WaitersHaveAnOwner == Queued # {} => \E q \in Procs : Owns(q)

\* No acquisition is left asleep beside a lock that everybody has given back, however
\* grants, expiries, withdrawals and failed attempts were ordered.
THEOREM NobodyStranded == Spec => []WaitersHaveAnOwner
<1>1. ASSUME IInv PROVE WaitersHaveAnOwner
  <2>1. Queued # {} => \E q \in Procs : OwnsIn(core, pc, q)
    BY <1>1, SomebodyOwns, SameSets DEF IInv
  <2> QED
    BY <2>1 DEF WaitersHaveAnOwner, Owns, OwnsIn
<1> QED
  BY <1>1, Invariant, PTL

\* No goroutine that unlocks what it acquired is told it acquired nothing.
THEOREM UnlockIsMatched == Spec => []NoUnlockPanic
<1>1. IInv => NoUnlockPanic
  BY DEF IInv, NoUnlockPanic
<1> QED
  BY <1>1, Invariant, PTL

\* Whatever the limit, no more acquisitions than that are blocked.
THEOREM Capacity == Spec => []CapacityRespected
<1>1. IInv => CapacityRespected
  BY QueueLength DEF IInv, CapacityRespected
<1> QED
  BY <1>1, Invariant, PTL

-----------------------------------------------------------------------------
(* What a step may never do: the action properties of RWMutex *)

\* Whoever has been granted the lock in c has been in d.
Keeps(c, d) == \A q \in Procs : c.verdict[q] = "granted" => d.verdict[q] = "granted"

-----------------------------------------------------------------------------
(* The critical sections *)

\* Only a queued goroutine can be rejected, and none of those has been granted.
LEMMA RejectKeeps ==
  ASSUME NEW c, NEW place, NEW w, Tied(c, place, w), NEW gone
  PROVE  Keeps(c, RejectCancelledWaiters(c, gone))
<1> DEFINE expired == {x \in Elems(c.waiters) : x.id \in gone}
           out == {x.id : x \in expired}
           d == RejectCancelledWaiters(c, gone)
<1>1. Typed(c, place, w) /\ QueueTied(c, place, w) /\ c \in Core
  BY DEF Tied, Typed
<1>2. \A x \in Elems(c.waiters) : x.id \in QueuedIn(c, place)
  BY <1>1, QueueEntries
<1>3. \A q \in Procs : c.verdict[q] = "granted" => q \notin out
  BY <1>2 DEF QueuedIn
<1>4. d.verdict = [p \in Procs |-> IF p \in out THEN "context" ELSE c.verdict[p]]
  BY <1>1 DEF RejectCancelledWaiters, Core
<1> HIDE DEF d, out
<1>5. Keeps(c, d)
  BY <1>3, <1>4 DEF Keeps
<1> QED
  BY <1>5 DEF d

\* Serving the queue adds grants and takes none back.
LEMMA GrantWaitersKeeps ==
  ASSUME NEW c, NEW place, NEW w, Tied(c, place, w), NEW gone
  PROVE  Keeps(c, GrantWaiters(c, gone))
<1> DEFINE d == RejectCancelledWaiters(c, gone)
           n == LeadingReaders(d.waiters)
           in == {x.id : x \in {d.waiters[i] : i \in 1..n}}
<1>1. Keeps(c, d) /\ Tied(d, place, w)
  BY RejectKeeps, RejectPreserves
<1>2. d \in Core /\ d.verdict \in [Procs -> Verdicts]
  BY <1>1 DEF Tied, Typed, Core
<1>3. Keeps(d, GrantHead(d))
  <2>1. Grant(d, Head(d.waiters)).verdict = d.verdict
    BY <1>2 DEF Grant, Core
  <2>2. GrantHead(d).verdict = [d.verdict EXCEPT ![Head(d.waiters).id] = "granted"]
    <3>1. DOMAIN Grant(d, Head(d.waiters)) = DOMAIN d
      BY <1>2 DEF Grant, Core
    <3> QED
      BY <1>2, <2>1, <3>1 DEF GrantHead, Core
  <2> QED
    BY <1>2, <2>2 DEF Keeps
<1>4. Keeps(d, GrantReaders(d, n))
  <2>1. GrantReaders(d, n).verdict
          = [p \in Procs |-> IF p \in in THEN "granted" ELSE d.verdict[p]]
    BY <1>2 DEF GrantReaders, Core
  <2> QED
    BY <2>1 DEF Keeps
<1>5. GrantWaiters(c, gone) \in {d, GrantHead(d), GrantReaders(d, n)}
  BY DEF GrantWaiters
<1> HIDE DEF d, n
<1>6. Keeps(d, d)
  BY DEF Keeps
<1> QED
  BY <1>1, <1>3, <1>4, <1>5, <1>6 DEF Keeps

\* So does the service that an acquisition begins with.
LEMMA ServedKeeps ==
  ASSUME IInv
  PROVE  Keeps(core, Served)
<1>1. Tied(core, pc, want) /\ Keeps(core, core)
  BY DEF IInv, Keeps
<1> QED
  BY <1>1, GrantWaitersKeeps DEF Served

\* A waiter that gives up on its own was not granted, and nobody else loses a grant.
LEMMA CancelWaiterKeeps ==
  ASSUME NEW c, NEW place, NEW w, Tied(c, place, w), NEW gone,
         NEW p \in Procs, place[p] = "waiting"
  PROVE  Keeps(c, CancelWaiter(c, p, gone)) /\ CancelWaiter(c, p, gone).cancelled = c.cancelled
<1>1. CASE c.verdict[p] # "none"
  BY <1>1 DEF CancelWaiter, Keeps
<1>2. CASE c.verdict[p] = "none"
  <2> DEFINE d == RejectCancelledWaiters(c, {p})
  <2>1. p \in QueuedIn(c, place)
    BY <1>2 DEF QueuedIn
  <2>2. CancelWaiter(c, p, gone) = GrantWaiters(d, gone)
    BY <2>1, CancelWaiterIsReject, Zenon
  <2>3. Tied(d, place, w) /\ Keeps(c, d) /\ d.cancelled = c.cancelled
    BY RejectPreserves, RejectKeeps, Zenon
  <2> HIDE DEF d
  <2>4. Keeps(d, GrantWaiters(d, gone)) /\ GrantWaiters(d, gone).cancelled = d.cancelled
    BY <2>3, GrantWaitersKeeps, GrantWaitersPreserves
  <2> QED
    BY <2>2, <2>3, <2>4 DEF Keeps
<1> QED
  BY <1>1, <1>2

\* The queue of a cancelled lock is empty, and serving it tells nobody anything.
LEMMA ServingNobody ==
  ASSUME NEW c, NEW place, NEW w, Tied(c, place, w), c.waiters = <<>>, NEW gone
  PROVE  GrantWaiters(c, gone).verdict = c.verdict
<1> DEFINE d == RejectCancelledWaiters(c, gone)
           expired == {x \in Elems(c.waiters) : x.id \in gone}
<1>1. Tied(d, place, w) /\ Len(d.waiters) <= Len(c.waiters) /\ c \in Core
  BY RejectPreserves DEF Tied, Typed
<1>2. expired = {}
  BY DEF Elems
<1>3. d.verdict = c.verdict
  <2>1. d.verdict = [p \in Procs |-> IF p \in {x.id : x \in expired} THEN "context" ELSE c.verdict[p]]
    BY <1>1 DEF RejectCancelledWaiters, Core
  <2>2. d.verdict = [p \in Procs |-> c.verdict[p]]
    BY <1>2, <2>1
  <2> QED
    BY <1>1, <2>2 DEF Core
<1> HIDE DEF d
<1>4. d.waiters = <<>>
  <2>1. d.waiters \in Seq(Waiter)
    BY <1>1 DEF Tied, Typed, Core
  <2>2. Len(d.waiters) = 0
    BY <1>1, <2>1
  <2> QED
    BY <2>1, <2>2
<1>5. GrantWaiters(c, gone) = d
  BY <1>4 DEF GrantWaiters, HeadCompatible, d
<1> QED
  BY <1>3, <1>5

\* Cancellation tells the queue, and takes the lock from nobody.
LEMMA CancelKeeps ==
  ASSUME NEW c, NEW place, NEW w, Tied(c, place, w)
  PROVE  /\ \A q \in Procs : Cancel(c).verdict[q] = "granted" <=> c.verdict[q] = "granted"
         /\ Cancel(c).cancelled
<1>1. Typed(c, place, w) /\ QueueTied(c, place, w) /\ c \in Core
  BY DEF Tied, Typed
<1>2. CASE c.cancelled
  BY <1>2 DEF Cancel
<1>3. CASE ~c.cancelled
  <2>1. /\ Cancel(c).verdict = [p \in Procs |-> IF p \in Ids(c.waiters) THEN "cancelled"
                                                ELSE c.verdict[p]]
        /\ Cancel(c).cancelled
    BY <1>1, <1>3 DEF Cancel, Core
  <2>2. \A q \in Ids(c.waiters) : c.verdict[q] = "none"
    BY <1>1, QueueEntries DEF Ids, QueuedIn
  <2> QED
    BY <2>1, <2>2
<1> QED
  BY <1>2, <1>3

-----------------------------------------------------------------------------
(* Grants stand *)

GrantsStand == \A p \in Procs : Owns(p) /\ ~Owns(p)' => pc[p] = "holding" /\ pc'[p] = "idle"

\* Ownership survives where verdicts do and only goroutines without it move.
LEMMA OwnersStay ==
  ASSUME Keeps(core, core'),
         \A q \in Procs : pc'[q] = pc[q] \/ pc[q] \notin {"waiting", "holding"}
  PROVE  GrantsStand
BY DEF Keeps, GrantsStand, Owns

\* Only an unlock ends an acquisition, whatever step the lock takes.
LEMMA StepGrantsStand == IInv /\ [Next]_vars => GrantsStand
<1> SUFFICES ASSUME IInv, [Next]_vars PROVE GrantsStand
  OBVIOUS
<1>0. /\ Tied(core, pc, want) /\ core \in Core /\ pc \in [Procs -> Stations]
      /\ core.verdict \in [Procs -> Verdicts] /\ Keeps(core, core)
  BY DEF IInv, Tied, Typed, Core, Keeps
<1>1. CASE UNCHANGED vars
  BY <1>1 DEF vars, GrantsStand, Owns
<1>2. CASE CancelLock
  <2>1. Keeps(core, core') /\ pc' = pc
    BY <1>0, <1>2, CancelKeeps DEF CancelLock, Keeps
  <2> QED
    BY <2>1, OwnersStay
<1>3. ASSUME NEW p \in Procs,
             \/ Expire(p) \/ AcquireExpired(p) \/ AcquireCancelled(p) \/ HandleFull(p)
             \/ \E m \in Modes : TryFail(p, m)
      PROVE  GrantsStand
  <2>1. core' = core /\ \A q \in Procs : pc'[q] = pc[q] \/ pc[q] \notin {"waiting", "holding"}
    BY <1>0, <1>3 DEF Expire, AcquireExpired, AcquireCancelled, HandleFull, TryFail, vars
  <2> QED
    BY <1>0, <2>1, OwnersStay
<1>4. ASSUME NEW p \in Procs, GiveUp(p) PROVE GrantsStand
  <2>1. Keeps(core, core') /\ pc' = pc
    BY <1>0, <1>4, CancelWaiterKeeps DEF GiveUp
  <2> QED
    BY <2>1, OwnersStay
<1>5. ASSUME NEW p \in Procs, FinishWait(p) PROVE GrantsStand
  <2>1. /\ pc[p] = "waiting"
        /\ core'.verdict = [core.verdict EXCEPT ![p] = "none"]
        /\ pc' = [pc EXCEPT ![p] = IF core.verdict[p] = "granted" THEN "holding" ELSE "idle"]
    BY <1>0, <1>5 DEF FinishWait, Core
  <2>2. \A q \in Procs : q # p => pc'[q] = pc[q] /\ core'.verdict[q] = core.verdict[q]
    BY <1>0, <2>1
  <2>3. core.verdict[p] = "granted" => pc'[p] = "holding"
    BY <1>0, <2>1
  <2> QED
    BY <2>1, <2>2, <2>3 DEF GrantsStand, Owns
<1>6. ASSUME NEW p \in Procs, Unlock(p) PROVE GrantsStand
  <2> DEFINE f == Freed(core, want[p].mode, ReleasedAttempt(p))
  <2>1. pc[p] = "holding"
    BY <1>6 DEF Unlock
  <2>2. /\ ReleaseMatches(core, want[p].mode, ReleasedAttempt(p))
        /\ Tied(f, [pc EXCEPT ![p] = "idle"], [want EXCEPT ![p] = NoWant(p)])
    <3>1. /\ Tied(core, pc, want) /\ pc[p] = "holding" /\ p \in Procs
          /\ ReleasedAttempt(p) = IF want[p].guarded THEN p ELSE NoAttempt
      BY <1>0, <2>1 DEF ReleasedAttempt
    <3> HIDE DEF ReleasedAttempt
    <3> QED
      BY <3>1, NoWantType, FreedPreserves
  <2>3. core' = GrantWaiters(f, dead) /\ pc' = [pc EXCEPT ![p] = "idle"]
    BY <1>6, <2>2 DEF Unlock, Release
  <2>4. f.verdict = core.verdict
    BY <1>0 DEF Freed, Core
  <2> HIDE DEF f
  <2>5. Keeps(f, core')
    BY <2>2, <2>3, GrantWaitersKeeps
  <2>6. pc'[p] = "idle" /\ \A q \in Procs : q # p => pc'[q] = pc[q]
    BY <1>0, <2>3
  <2> QED
    BY <2>1, <2>4, <2>5, <2>6 DEF Keeps, GrantsStand, Owns
<1>7. ASSUME NEW p \in Procs, NEW m \in Modes, NEW g \in BOOLEAN,
             \/ AcquireAtOnce(p, m, g) \/ AcquireFull(p, m, g)
             \/ AcquireWait(p, m, g) \/ TrySucceed(p, m, g)
      PROVE  GrantsStand
  <2>1. Tied(Served, pc, want) /\ Keeps(core, Served)
    BY ServedPreserves, ServedKeeps
  <2> DEFINE x == Attempt(p, m, g)
             s == Served
  <2>2. \/ core' \in {Grant(s, x), Enqueue(s, x), s}
        \/ core' = Grant(core, x)
    BY <1>7 DEF AcquireAtOnce, AcquireFull, AcquireWait, TrySucceed
  <2>3. \A q \in Procs : pc'[q] = pc[q] \/ pc[q] \notin {"waiting", "holding"}
    BY <1>0, <1>7 DEF AcquireAtOnce, AcquireFull, AcquireWait, TrySucceed, MayAcquire
  <2> HIDE DEF x, s
  <2>4. s \in Core
    BY <2>1 DEF s, Tied, Typed
  <2>5. \A c \in {core, s} : Grant(c, x).verdict = c.verdict /\ Enqueue(c, x).verdict = c.verdict
    BY <1>0, <2>4 DEF Grant, Enqueue, Core
  <2>6. core'.verdict \in {core.verdict, s.verdict}
    BY <2>2, <2>5
  <2>7. Keeps(core, core')
    BY <1>0, <2>1, <2>6 DEF Keeps, s
  <2> QED
    BY <2>3, <2>7, OwnersStay
<1> QED
  BY <1>1, <1>2, <1>3, <1>4, <1>5, <1>6, <1>7 DEF Next

\* A grant stands: only the owner's unlock ends an acquisition, so a context that expires
\* between the grant and the return of acquire does not lose the lock.
THEOREM GrantsAreFinal == Spec => GrantStands
<1>1. IInv /\ [Next]_vars => GrantsStand
  BY StepGrantsStand
<1> QED
  BY <1>1, Invariant, PTL DEF Spec, GrantStands, GrantsStand

-----------------------------------------------------------------------------
(* Cancellation is final *)

\* In a step that leaves the lock cancelled: nobody becomes an owner, and if the lock was
\* not cancelled before, nobody ceases to be one.
CancelledStep ==
  /\ core.cancelled => core'.cancelled
  /\ core'.cancelled => \A q \in Procs : Owns(q)' => Owns(q) /\ want'[q] = want[q]
  /\ ~core.cancelled /\ core'.cancelled =>
       \A q \in Procs : (Owns(q)' <=> Owns(q)) /\ want'[q] = want[q]

TakesFromNobody ==
  /\ core.cancelled => core'.cancelled
  /\ core'.cancelled => /\ Queued' = {}
                        /\ Readers' \subseteq Readers
                        /\ Writers' \subseteq Writers
  /\ ~core.cancelled /\ core'.cancelled => UNCHANGED <<Readers, Writers>>

\* A step that keeps cancellation as it was and, if there was one, adds no owner.
LEMMA CancelledStays ==
  ASSUME core'.cancelled = core.cancelled,
         core.cancelled => \A q \in Procs : Owns(q)' => Owns(q) /\ want'[q] = want[q]
  PROVE  CancelledStep
BY DEF CancelledStep

\* Every step but Cancel leaves cancellation alone, and none admits anybody once the lock
\* is cancelled.
LEMMA StepCancelled == IInv /\ [Next]_vars => CancelledStep
<1> SUFFICES ASSUME IInv, [Next]_vars PROVE CancelledStep
  OBVIOUS
<1>0. /\ Tied(core, pc, want) /\ core \in Core /\ pc \in [Procs -> Stations]
      /\ want \in [Procs -> Waiter] /\ core.verdict \in [Procs -> Verdicts]
      /\ core.cancelled => core.waiters = <<>>
  BY DEF IInv, Tied, Typed, Core
<1>1. CASE UNCHANGED vars
  BY <1>1 DEF vars, CancelledStep, Owns
<1>2. CASE CancelLock
  <2>1. core' = Cancel(core) /\ pc' = pc /\ want' = want
    BY <1>2 DEF CancelLock
  <2>2. /\ \A q \in Procs : core'.verdict[q] = "granted" <=> core.verdict[q] = "granted"
        /\ core'.cancelled
    BY <1>0, <2>1, CancelKeeps
  <2> QED
    BY <2>1, <2>2 DEF CancelledStep, Owns
<1>3. ASSUME NEW p \in Procs,
             \/ Expire(p) \/ AcquireExpired(p) \/ AcquireCancelled(p) \/ HandleFull(p)
             \/ \E m \in Modes : TryFail(p, m)
      PROVE  CancelledStep
  <2>1. core' = core /\ want' = want
        /\ \A q \in Procs : pc'[q] = pc[q] \/ pc'[q] \notin {"waiting", "holding"}
    BY <1>0, <1>3 DEF Expire, AcquireExpired, AcquireCancelled, HandleFull, TryFail, vars
  <2>2. \A q \in Procs : Owns(q)' => Owns(q)
    BY <2>1 DEF Owns
  <2> QED
    BY <2>1, <2>2, CancelledStays
<1>4. ASSUME NEW p \in Procs, GiveUp(p) PROVE CancelledStep
  <2>1. /\ pc[p] = "waiting" /\ core' = CancelWaiter(core, p, dead)
        /\ pc' = pc /\ want' = want
    BY <1>4 DEF GiveUp
  <2>2. core'.cancelled = core.cancelled
    BY <1>0, <2>1, CancelWaiterKeeps
  <2>3. core.cancelled => core' = core
    <3>1. ASSUME core.cancelled PROVE core.verdict[p] # "none"
      <4>1. core.waiters = <<>> /\ Elems(core.waiters) = {}
        BY <1>0, <3>1 DEF Elems
      <4>2. QueuedIn(core, pc) = {}
        BY <1>0, <4>1, QueueEntries DEF Tied
      <4> QED
        BY <2>1, <4>2 DEF QueuedIn
    <3> QED
      BY <2>1, <3>1 DEF CancelWaiter
  <2>4. core.cancelled => \A q \in Procs : Owns(q)' => Owns(q)
    BY <2>1, <2>3 DEF Owns
  <2> QED
    BY <2>1, <2>2, <2>4, CancelledStays
<1>5. ASSUME NEW p \in Procs, FinishWait(p) PROVE CancelledStep
  <2>1. /\ pc[p] = "waiting" /\ core'.cancelled = core.cancelled
        /\ core'.verdict = [core.verdict EXCEPT ![p] = "none"]
        /\ pc' = [pc EXCEPT ![p] = IF core.verdict[p] = "granted" THEN "holding" ELSE "idle"]
        /\ want' = IF core.verdict[p] = "granted" THEN want
                   ELSE [want EXCEPT ![p] = NoWant(p)]
    BY <1>0, <1>5 DEF FinishWait, Core
  <2>2. \A q \in Procs : q # p => /\ pc'[q] = pc[q] /\ core'.verdict[q] = core.verdict[q]
                                  /\ want'[q] = want[q]
    BY <1>0, <2>1
  <2>3. /\ core.verdict[p] = "granted" => want'[p] = want[p]
        /\ core.verdict[p] # "granted" => pc'[p] = "idle"
    BY <1>0, <2>1
  <2>4. \A q \in Procs : Owns(q)' => Owns(q) /\ want'[q] = want[q]
    BY <2>1, <2>2, <2>3 DEF Owns
  <2> QED
    BY <2>1, <2>4, CancelledStays
<1>6. ASSUME NEW p \in Procs, Unlock(p) PROVE CancelledStep
  <2> DEFINE f == Freed(core, want[p].mode, ReleasedAttempt(p))
  <2>1. pc[p] = "holding"
    BY <1>6 DEF Unlock
  <2>2. /\ ReleaseMatches(core, want[p].mode, ReleasedAttempt(p))
        /\ Tied(f, [pc EXCEPT ![p] = "idle"], [want EXCEPT ![p] = NoWant(p)])
        /\ f.cancelled = core.cancelled /\ f.waiters = core.waiters
    <3>1. /\ Tied(core, pc, want) /\ pc[p] = "holding" /\ p \in Procs
          /\ ReleasedAttempt(p) = IF want[p].guarded THEN p ELSE NoAttempt
      BY <1>0, <2>1 DEF ReleasedAttempt
    <3> HIDE DEF ReleasedAttempt
    <3> QED
      BY <3>1, NoWantType, FreedPreserves
  <2>3. /\ core' = GrantWaiters(f, dead) /\ pc' = [pc EXCEPT ![p] = "idle"]
        /\ want' = [want EXCEPT ![p] = NoWant(p)]
    BY <1>6, <2>2 DEF Unlock, Release
  <2>4. f.verdict = core.verdict
    BY <1>0 DEF Freed, Core
  <2> HIDE DEF f
  <2>5. core'.cancelled = core.cancelled
    BY <2>2, <2>3, GrantWaitersPreserves
  <2>6. core.cancelled => core'.verdict = core.verdict
    BY <1>0, <2>2, <2>3, <2>4, ServingNobody
  <2>7. pc'[p] = "idle" /\ \A q \in Procs : q # p => pc'[q] = pc[q] /\ want'[q] = want[q]
    BY <1>0, <2>3
  <2>8. core.cancelled => \A q \in Procs : Owns(q)' => Owns(q) /\ want'[q] = want[q]
    BY <2>6, <2>7 DEF Owns
  <2> QED
    BY <2>5, <2>8, CancelledStays
<1>7. ASSUME NEW p \in Procs, NEW m \in Modes, NEW g \in BOOLEAN,
             \/ AcquireAtOnce(p, m, g) \/ AcquireFull(p, m, g)
             \/ AcquireWait(p, m, g) \/ TrySucceed(p, m, g)
      PROVE  CancelledStep
  <2> DEFINE x == Attempt(p, m, g)
             s == Served
  <2>1. s \in Core /\ s.cancelled = core.cancelled
    BY ServedPreserves DEF Tied, Typed
  <2>2. \/ core' \in {Grant(s, x), Enqueue(s, x), s}
        \/ core' = Grant(core, x)
    BY <1>7 DEF AcquireAtOnce, AcquireFull, AcquireWait, TrySucceed
  <2>3. ~core.cancelled
    BY <1>7 DEF AcquireAtOnce, AcquireFull, AcquireWait, TrySucceed, MayAcquire
  <2> HIDE DEF x, s
  <2>4. \A c \in {core, s} : Grant(c, x).cancelled = c.cancelled
                             /\ Enqueue(c, x).cancelled = c.cancelled
    BY <1>0, <2>1 DEF Grant, Enqueue, Core
  <2>5. core'.cancelled = core.cancelled
    BY <2>1, <2>2, <2>4
  <2> QED
    BY <2>3, <2>5, CancelledStays
<1> QED
  BY <1>1, <1>2, <1>3, <1>4, <1>5, <1>6, <1>7 DEF Next

\* Cancel rejects the queue and every later acquisition and takes the lock from nobody.
THEOREM CancellationIsFinal == Spec => CancelIsFinal
<1>1. IInv /\ [Next]_vars => TakesFromNobody
  <2> SUFFICES ASSUME IInv, [Next]_vars, core'.cancelled
               PROVE  /\ Queued' = {}
                      /\ Readers' \subseteq Readers /\ Writers' \subseteq Writers
                      /\ ~core.cancelled => Readers' = Readers /\ Writers' = Writers
    BY StepCancelled DEF CancelledStep, TakesFromNobody
  <2>1. CancelledStep /\ IInv'
    BY StepCancelled, StepInvariant
  <2>2. Queued' = {}
    <3>1. core'.waiters = <<>> /\ Tied(core', pc', want')
      BY <2>1 DEF IInv
    <3>2. Elems(core'.waiters) = {}
      BY <3>1 DEF Elems
    <3>3. QueuedIn(core', pc') = {}
      BY <3>1, <3>2, QueueEntries DEF Tied
    <3> QED
      BY <3>3 DEF Queued, QueuedIn
  <2> QED
    BY <2>1, <2>2 DEF CancelledStep, Readers, Writers
<1> QED
  BY <1>1, Invariant, PTL DEF Spec, CancelIsFinal, TakesFromNobody

-----------------------------------------------------------------------------
(* First come, first served *)

\* In the queue s the goroutine q stands behind p.
Behind(s, p, q) == \E i, j \in DOMAIN s : i < j /\ s[i].id = p /\ s[j].id = q

\* Rejecting some waiters leaves the others in their order.
LEMMA RejectInOrder ==
  ASSUME NEW c, NEW place, NEW w, Tied(c, place, w), NEW gone, NEW p, NEW q,
         Behind(RejectCancelledWaiters(c, gone).waiters, p, q)
  PROVE  Behind(c.waiters, p, q)
<1> DEFINE expired == {x \in Elems(c.waiters) : x.id \in gone}
           rest == Without(c.waiters, expired)
<1>1. c \in Core /\ c.waiters \in Seq(Waiter)
  BY DEF Tied, Typed, Core
<1>2. RejectCancelledWaiters(c, gone).waiters = rest
  BY <1>1 DEF RejectCancelledWaiters, Core
<1> HIDE DEF expired
<1>3. PICK a, b \in DOMAIN rest : a < b /\ rest[a].id = p /\ rest[b].id = q
  BY <1>2 DEF Behind
<1>4. \E i, j \in DOMAIN c.waiters : i < j /\ c.waiters[i] = rest[a] /\ c.waiters[j] = rest[b]
  BY <1>1, <1>3, WithoutOrder
<1> QED
  BY <1>3, <1>4 DEF Behind

\* Whoever is still queued when the queue has been served stands behind everyone whom
\* that has granted the lock.
LEMMA GrantsInOrder ==
  ASSUME NEW c, NEW place, NEW w, Tied(c, place, w), NEW gone,
         NEW p \in Procs, c.verdict[p] # "granted",
         GrantWaiters(c, gone).verdict[p] = "granted",
         NEW q \in QueuedIn(GrantWaiters(c, gone), place)
  PROVE  Behind(c.waiters, p, q)
<1> DEFINE d == RejectCancelledWaiters(c, gone)
           n == LeadingReaders(d.waiters)
           in == {x.id : x \in {d.waiters[i] : i \in 1..n}}
           g == GrantWaiters(c, gone)
<1>1. Tied(d, place, w) /\ Tied(g, place, w)
  BY RejectPreserves, GrantWaitersPreserves
<1>2. d.verdict[p] # "granted"
  <2> DEFINE out == {x.id : x \in {y \in Elems(c.waiters) : y.id \in gone}}
  <2>1. d.verdict = [r \in Procs |-> IF r \in out THEN "context" ELSE c.verdict[r]]
    BY DEF RejectCancelledWaiters, Tied, Typed, Core
  <2> HIDE DEF out
  <2> QED
    BY <2>1
<1>3. \E k \in DOMAIN g.waiters : g.waiters[k].id = q
  <2>1. w[q] \in Elems(g.waiters) /\ w[q].id = q
    BY <1>1, QueueEntries DEF Tied, Typed, QueuedIn
  <2> QED
    BY <2>1 DEF Elems
<1>4. /\ d \in Core /\ d.verdict \in [Procs -> Verdicts]
      /\ d.waiters \in Seq(Waiter) /\ Distinct(d.waiters)
  BY <1>1 DEF Tied, Typed, Core, QueueTied
<1>5. g = IF ~HeadCompatible(d) THEN d
          ELSE IF Head(d.waiters).mode = "write" THEN GrantHead(d)
          ELSE GrantReaders(d, n)
  BY DEF GrantWaiters
<1> HIDE DEF d, g, n
<1>6. HeadCompatible(d)
  BY <1>2, <1>5 DEF g
<1>7. CASE Head(d.waiters).mode = "write"
  <2> DEFINE h == Head(d.waiters)
  <2>1. g = GrantHead(d)
    BY <1>5, <1>6, <1>7
  <2>2. Grant(d, h).verdict = d.verdict /\ Grant(d, h).waiters = d.waiters
        /\ DOMAIN Grant(d, h) = DOMAIN d
    BY <1>4 DEF Grant, Core
  <2>3. g.verdict = [d.verdict EXCEPT ![h.id] = "granted"] /\ g.waiters = Tail(d.waiters)
    BY <1>4, <2>1, <2>2 DEF GrantHead, Core
  <2>4. p = h.id
    BY <1>2, <1>4, <2>3 DEF g
  <2>5. d.waiters # <<>> /\ Len(d.waiters) \in Nat /\ DOMAIN d.waiters = 1..Len(d.waiters)
    BY <1>4, <1>6 DEF HeadCompatible
  <2>6. h = d.waiters[1] /\ DOMAIN Tail(d.waiters) = 1..(Len(d.waiters) - 1)
        /\ \A k \in 1..(Len(d.waiters) - 1) : Tail(d.waiters)[k] = d.waiters[k + 1]
    BY <1>4, <2>5
  <2>7. PICK k \in 1..(Len(d.waiters) - 1) : d.waiters[k + 1].id = q
    BY <1>3, <2>3, <2>6
  <2>8. 1 \in DOMAIN d.waiters /\ k + 1 \in DOMAIN d.waiters /\ 1 < k + 1
    BY <2>5, <2>7
  <2>9. Behind(d.waiters, p, q)
    BY <2>4, <2>6, <2>7, <2>8 DEF Behind
  <2> QED
    BY <2>9, RejectInOrder DEF d
<1>8. CASE Head(d.waiters).mode # "write"
  <2>1. g = GrantReaders(d, n)
    BY <1>5, <1>6, <1>8
  <2>2. /\ g.verdict = [r \in Procs |-> IF r \in in THEN "granted" ELSE d.verdict[r]]
        /\ g.waiters = SubSeq(d.waiters, n + 1, Len(d.waiters))
    BY <1>4, <2>1 DEF GrantReaders, Core
  <2>3. PICK a \in 1..n : d.waiters[a].id = p
    <3>1. p \in in
      BY <1>2, <2>2 DEF g
    <3> QED
      BY <3>1
  <2>4. n \in 0..Len(d.waiters) /\ Len(d.waiters) \in Nat
        /\ DOMAIN d.waiters = 1..Len(d.waiters)
    BY <1>4, LeadingReadersProperties DEF n
  <2>5. /\ g.waiters \in Seq(Waiter) /\ Len(g.waiters) = Len(d.waiters) - n
        /\ \A k \in 1..(Len(d.waiters) - n) : g.waiters[k] = d.waiters[n + k]
    BY <1>4, <2>2, <2>4, RestProperties
  <2>6. PICK k \in 1..(Len(d.waiters) - n) : d.waiters[n + k].id = q
    BY <1>3, <2>5
  <2>7. a \in DOMAIN d.waiters /\ n + k \in DOMAIN d.waiters /\ a < n + k
    BY <2>3, <2>4, <2>6
  <2>8. Behind(d.waiters, p, q)
    BY <2>3, <2>6, <2>7 DEF Behind
  <2> QED
    BY <2>8, RejectInOrder DEF d
<1> QED
  BY <1>7, <1>8

NobodyPassed == \A p \in Procs : ~Owns(p) /\ Owns(p)' => Ahead(p) \intersect Queued' = {}

\* Nobody ahead of p in a queue without repetitions stands behind it.
LEMMA AheadIsNotBehind ==
  ASSUME Distinct(core.waiters), core.waiters \in Seq(Waiter),
         NEW p, NEW q, Behind(core.waiters, p, q)
  PROVE  q \notin Ahead(p)
<1>1. DOMAIN core.waiters = 1..Len(core.waiters) /\ Len(core.waiters) \in Nat
  OBVIOUS
<1>2. PICK i, j \in DOMAIN core.waiters :
        i < j /\ core.waiters[i].id = p /\ core.waiters[j].id = q
  BY DEF Behind
<1>3. SUFFICES ASSUME NEW k \in DOMAIN core.waiters, core.waiters[k].id = q,
                      \A l \in 1..k : core.waiters[l].id # p
               PROVE  FALSE
  BY DEF Ahead
<1>4. k = j
  BY <1>2, <1>3 DEF Distinct
<1> QED
  BY <1>1, <1>2, <1>3, <1>4

\* A step that leaves no queue, or adds no owner, passes nobody.
LEMMA NobodyToPass ==
  ASSUME (core'.waiters = <<>> /\ IInv') \/ \A p \in Procs : Owns(p)' => Owns(p)
  PROVE  NobodyPassed
<1>1. CASE core'.waiters = <<>> /\ IInv'
  <2>1. Tied(core', pc', want') /\ Elems(core'.waiters) = {}
    BY <1>1 DEF IInv, Elems
  <2>2. QueuedIn(core', pc') = {}
    BY <2>1, QueueEntries DEF Tied
  <2> QED
    BY <2>2 DEF NobodyPassed, Queued, QueuedIn
<1>2. CASE \A p \in Procs : Owns(p)' => Owns(p)
  BY <1>2 DEF NobodyPassed
<1> QED
  BY <1>1, <1>2

\* Serving the queue of c, which is that of the lock or what is left of it, passes nobody.
LEMMA ServicePasses ==
  ASSUME IInv, NEW c, NEW place, NEW w, Tied(c, place, w),
         \A p, q : Behind(c.waiters, p, q) => Behind(core.waiters, p, q),
         \A p \in Procs : c.verdict[p] = "granted" => core.verdict[p] = "granted",
         NEW gone, NEW p \in Procs, core.verdict[p] # "granted",
         GrantWaiters(c, gone).verdict[p] = "granted",
         NEW q \in QueuedIn(GrantWaiters(c, gone), place)
  PROVE  q \notin Ahead(p)
<1>1. Behind(core.waiters, p, q)
  BY GrantsInOrder
<1>2. Distinct(core.waiters) /\ core.waiters \in Seq(Waiter)
  BY DEF IInv, Tied, Typed, Core, QueueTied
<1> QED
  BY <1>1, <1>2, AheadIsNotBehind

\* Nobody is passed in any step.
LEMMA StepPassesNobody == IInv /\ [Next]_vars => NobodyPassed
<1> SUFFICES ASSUME IInv, [Next]_vars PROVE NobodyPassed
  OBVIOUS
<1>0. /\ Tied(core, pc, want) /\ core \in Core /\ pc \in [Procs -> Stations]
      /\ core.verdict \in [Procs -> Verdicts] /\ IInv'
      /\ \A p, q : Behind(core.waiters, p, q) => Behind(core.waiters, p, q)
      /\ \A p \in Procs : pc[p] # "waiting" => core.verdict[p] = "none"
  BY StepInvariant DEF IInv, Tied, Typed, Core
<1>1. CASE UNCHANGED vars
  BY <1>1, NobodyToPass DEF vars, Owns
<1>2. CASE CancelLock
  <2>1. \A q \in Procs : core'.verdict[q] = "granted" <=> core.verdict[q] = "granted"
    BY <1>0, <1>2, CancelKeeps DEF CancelLock
  <2>2. \A q \in Procs : Owns(q)' => Owns(q)
    BY <1>2, <2>1 DEF CancelLock, Owns
  <2> QED
    BY <2>2, NobodyToPass
<1>3. ASSUME NEW p \in Procs,
             \/ Expire(p) \/ AcquireExpired(p) \/ AcquireCancelled(p) \/ HandleFull(p)
             \/ \E m \in Modes : TryFail(p, m)
      PROVE  NobodyPassed
  <2>1. core' = core
        /\ \A q \in Procs : pc'[q] = pc[q] \/ pc'[q] \notin {"waiting", "holding"}
    BY <1>0, <1>3 DEF Expire, AcquireExpired, AcquireCancelled, HandleFull, TryFail, vars
  <2>2. \A q \in Procs : Owns(q)' => Owns(q)
    BY <2>1 DEF Owns
  <2> QED
    BY <2>2, NobodyToPass
<1>4. ASSUME NEW r \in Procs, GiveUp(r) PROVE NobodyPassed
  <2>1. /\ pc[r] = "waiting" /\ core' = CancelWaiter(core, r, dead) /\ pc' = pc
    BY <1>4 DEF GiveUp
  <2>2. CASE core.verdict[r] # "none"
    <3>1. \A q \in Procs : Owns(q)' => Owns(q)
      BY <2>1, <2>2 DEF CancelWaiter, Owns
    <3> QED
      BY <3>1, NobodyToPass
  <2>3. CASE core.verdict[r] = "none"
    <3> DEFINE d == RejectCancelledWaiters(core, {r})
    <3>1. r \in QueuedIn(core, pc)
      BY <2>1, <2>3 DEF QueuedIn
    <3>2. core' = GrantWaiters(d, dead)
      BY <1>0, <2>1, <3>1, CancelWaiterIsReject, Zenon
    <3>3. Tied(d, pc, want)
      BY <1>0, RejectPreserves, Zenon
    <3>4. \A p, q : Behind(d.waiters, p, q) => Behind(core.waiters, p, q)
      BY <1>0, RejectInOrder
    <3>5. \A p \in Procs : d.verdict[p] = "granted" => core.verdict[p] = "granted"
      <4> DEFINE out == {x.id : x \in {y \in Elems(core.waiters) : y.id \in {r}}}
      <4>1. d.verdict = [p \in Procs |-> IF p \in out THEN "context" ELSE core.verdict[p]]
        BY <1>0 DEF RejectCancelledWaiters, Core
      <4> HIDE DEF out, d
      <4> QED
        BY <4>1
    <3> HIDE DEF d
    <3> SUFFICES ASSUME NEW p \in Procs, ~Owns(p), Owns(p)', NEW q \in Queued'
                 PROVE  q \notin Ahead(p)
      BY DEF NobodyPassed
    <3>6. core.verdict[p] # "granted" /\ core'.verdict[p] = "granted"
          /\ q \in QueuedIn(core', pc)
      BY <2>1 DEF Owns, Queued, QueuedIn
    <3> QED
      BY <3>2, <3>3, <3>4, <3>5, <3>6, ServicePasses
  <2> QED
    BY <2>2, <2>3
<1>5. ASSUME NEW r \in Procs, FinishWait(r) PROVE NobodyPassed
  <2>1. /\ pc[r] = "waiting"
        /\ core'.verdict = [core.verdict EXCEPT ![r] = "none"]
        /\ pc' = [pc EXCEPT ![r] = IF core.verdict[r] = "granted" THEN "holding" ELSE "idle"]
    BY <1>0, <1>5 DEF FinishWait, Core
  <2>2. /\ \A q \in Procs : q # r => pc'[q] = pc[q] /\ core'.verdict[q] = core.verdict[q]
        /\ core.verdict[r] # "granted" => pc'[r] = "idle"
    BY <1>0, <2>1
  <2>3. \A q \in Procs : Owns(q)' => Owns(q)
    BY <2>1, <2>2 DEF Owns
  <2> QED
    BY <2>3, NobodyToPass
<1>6. ASSUME NEW r \in Procs, Unlock(r) PROVE NobodyPassed
  <2> DEFINE f == Freed(core, want[r].mode, ReleasedAttempt(r))
             place2 == [pc EXCEPT ![r] = "idle"]
             w2 == [want EXCEPT ![r] = NoWant(r)]
  <2>1. pc[r] = "holding"
    BY <1>6 DEF Unlock
  <2>2. /\ ReleaseMatches(core, want[r].mode, ReleasedAttempt(r))
        /\ Tied(f, place2, w2) /\ f.waiters = core.waiters
    <3>1. /\ Tied(core, pc, want) /\ pc[r] = "holding" /\ r \in Procs
          /\ ReleasedAttempt(r) = IF want[r].guarded THEN r ELSE NoAttempt
      BY <1>0, <2>1 DEF ReleasedAttempt
    <3> HIDE DEF ReleasedAttempt
    <3> QED
      BY <3>1, NoWantType, FreedPreserves
  <2>3. core' = GrantWaiters(f, dead) /\ pc' = place2
    BY <1>6, <2>2 DEF Unlock, Release
  <2>4. f.verdict = core.verdict
    BY <1>0 DEF Freed, Core
  <2>5. place2[r] = "idle" /\ \A q \in Procs : q # r => place2[q] = pc[q]
    BY <1>0
  <2> HIDE DEF f, place2, w2
  <2> SUFFICES ASSUME NEW p \in Procs, ~Owns(p), Owns(p)', NEW q \in Queued'
               PROVE  q \notin Ahead(p)
    BY DEF NobodyPassed
  <2>6. core.verdict[p] # "granted" /\ core'.verdict[p] = "granted"
        /\ q \in QueuedIn(core', place2)
    BY <2>1, <2>3, <2>5 DEF Owns, Queued, QueuedIn
  <2> QED
    BY <1>0, <2>2, <2>3, <2>4, <2>6, ServicePasses
<1>7. ASSUME NEW r \in Procs, NEW m \in Modes, NEW g \in BOOLEAN,
             AcquireAtOnce(r, m, g) \/ TrySucceed(r, m, g)
      PROVE  NobodyPassed
  <2> DEFINE x == Attempt(r, m, g)
             s == Served
  <2>1. s \in Core
    BY ServedPreserves DEF Tied, Typed
  <2>2. \/ core' = Grant(s, x) /\ s.waiters = <<>>
        \/ core' = Grant(core, x) /\ core.waiters = <<>>
    BY <1>7 DEF AcquireAtOnce, TrySucceed, CanAcquireImmediately
  <2> HIDE DEF x, s
  <2>3. core'.waiters = <<>>
    BY <1>0, <2>1, <2>2 DEF Grant, Core
  <2> QED
    BY <1>0, <2>3, NobodyToPass
<1>8. ASSUME NEW r \in Procs, NEW m \in Modes, NEW g \in BOOLEAN,
             AcquireFull(r, m, g) \/ AcquireWait(r, m, g)
      PROVE  NobodyPassed
  <2> DEFINE x == Attempt(r, m, g)
             s == Served
  <2>1. s \in Core
    BY ServedPreserves DEF Tied, Typed
  <2>2. core' \in {s, Enqueue(s, x)} /\ pc[r] = "idle"
        /\ \A q \in Procs : q # r => pc'[q] = pc[q]
    BY <1>0, <1>8 DEF AcquireFull, AcquireWait, MayAcquire
  <2>3. core'.verdict = s.verdict
    BY <2>1, <2>2 DEF Enqueue, Core
  <2>4. s = core \/ s = GrantWaiters(core, dead)
    BY DEF Served
  <2> HIDE DEF s
  <2> SUFFICES ASSUME NEW p \in Procs, ~Owns(p), Owns(p)', NEW q \in Queued'
               PROVE  q \notin Ahead(p)
    BY DEF NobodyPassed
  <2>5. r \notin Ahead(p)
    <3>1. r \notin {y.id : y \in Elems(core.waiters)}
      BY <1>0, <2>2, QueueEntries DEF Tied, QueuedIn
    <3> QED
      BY <3>1 DEF Ahead, Elems
  <2>6. s.verdict[r] = "none"
    BY <2>2, ServedPreserves DEF s, Tied, Typed
  <2>7. pc'[r] # "holding"
    BY <1>0, <1>8 DEF AcquireFull, AcquireWait
  <2>8. p # r
    BY <2>3, <2>6, <2>7 DEF Owns
  <2>9. CASE q # r
    <3>1. core.verdict[p] # "granted" /\ s.verdict[p] = "granted" /\ q \in QueuedIn(s, pc)
      BY <2>2, <2>3, <2>8, <2>9 DEF Owns, Queued, QueuedIn
    <3>2. s = GrantWaiters(core, dead)
      BY <2>4, <3>1
    <3> QED
      BY <1>0, <3>1, <3>2, ServicePasses
  <2> QED
    BY <2>5, <2>9
<1> QED
  BY <1>1, <1>2, <1>3, <1>4, <1>5, <1>6, <1>7, <1>8 DEF Next

\* No acquisition overtakes a queued one: whoever gains the lock in a step, everyone who
\* stood ahead of it has left the queue by the end of that step.
THEOREM FirstComeFirstServed == Spec => NoBypass
<1>1. IInv /\ [Next]_vars => NobodyPassed
  BY StepPassesNobody
<1> QED
  BY <1>1, Invariant, PTL DEF Spec, NoBypass, NobodyPassed

-----------------------------------------------------------------------------
(* Expired waiters are in nobody's way *)

\* Whoever is queued when the queue has been served was so before, and is alive.
LEMMA ServedAreAlive ==
  ASSUME NEW c, NEW place, NEW w, Tied(c, place, w), NEW gone
  PROVE  QueuedIn(GrantWaiters(c, gone), place) \subseteq QueuedIn(c, place) \ gone
<1> DEFINE d == RejectCancelledWaiters(c, gone)
           n == LeadingReaders(d.waiters)
           out == {x.id : x \in {y \in Elems(c.waiters) : y.id \in gone}}
           in == {x.id : x \in {d.waiters[i] : i \in 1..n}}
           g == GrantWaiters(c, gone)
<1>1. Tied(d, place, w)
  BY RejectPreserves
<1>2. d.verdict = [r \in Procs |-> IF r \in out THEN "context" ELSE c.verdict[r]]
  BY DEF RejectCancelledWaiters, Tied, Typed, Core
<1>3. \A q \in QueuedIn(c, place) : q \in gone => q \in out
  <2>1. \A q \in QueuedIn(c, place) : w[q] \in Elems(c.waiters) /\ w[q].id = q
    BY QueueEntries DEF Tied, Typed, QueuedIn
  <2> QED
    BY <2>1
<1>4. d \in Core /\ d.verdict \in [Procs -> Verdicts]
  BY <1>1 DEF Tied, Typed, Core
<1> HIDE DEF out
<1>5. QueuedIn(d, place) \subseteq QueuedIn(c, place) \ gone
  BY <1>2, <1>3 DEF QueuedIn
<1>6. g \in {d, GrantHead(d), GrantReaders(d, n)}
  BY DEF GrantWaiters
<1> HIDE DEF d, n, g
<1>7. QueuedIn(GrantHead(d), place) \subseteq QueuedIn(d, place)
  <2> DEFINE h == Head(d.waiters)
  <2>1. Grant(d, h).verdict = d.verdict /\ DOMAIN Grant(d, h) = DOMAIN d
    BY <1>4 DEF Grant, Core
  <2>2. GrantHead(d).verdict = [d.verdict EXCEPT ![h.id] = "granted"]
    BY <1>4, <2>1 DEF GrantHead, Core
  <2> QED
    BY <1>4, <2>2 DEF QueuedIn
<1>8. QueuedIn(GrantReaders(d, n), place) \subseteq QueuedIn(d, place)
  <2>1. GrantReaders(d, n).verdict = [r \in Procs |-> IF r \in in THEN "granted" ELSE d.verdict[r]]
    BY <1>4 DEF GrantReaders, Core
  <2> QED
    BY <2>1 DEF QueuedIn
<1> QED
  BY <1>5, <1>6, <1>7, <1>8 DEF g

RefusedForTheLiving(p) ==
  pc[p] # "refused" /\ pc'[p] = "refused" => Cardinality(Queued \ dead) = MaxWaiting

JoinsTheLiving(p) ==
  pc[p] # "waiting" /\ pc'[p] = "waiting" => Queued' \intersect dead = {}

\* Only AcquireFull refuses, and it has served the queue and found it full.
LEMMA StepRefuses ==
  ASSUME IInv, [Next]_vars, NEW p \in Procs
  PROVE  RefusedForTheLiving(p)
<1> SUFFICES ASSUME pc[p] # "refused", pc'[p] = "refused"
             PROVE  Cardinality(Queued \ dead) = MaxWaiting
  BY DEF RefusedForTheLiving
<1>0. Tied(core, pc, want) /\ pc \in [Procs -> Stations]
      /\ (MaxWaiting # Unlimited => Len(core.waiters) <= MaxWaiting)
  BY DEF IInv, Tied, Typed
<1>1. PICK r \in Procs, m \in Modes, g \in BOOLEAN : AcquireFull(r, m, g)
  BY <1>0 DEF Next, vars, CancelLock, Expire, AcquireExpired, AcquireCancelled, GiveUp,
              FinishWait, Unlock, HandleFull, TryFail, AcquireAtOnce, AcquireWait, TrySucceed
<1>2. MaxWaiting \in Nat \ {0} /\ Len(Served.waiters) >= MaxWaiting
  BY <1>1, FeatureAssumption DEF AcquireFull, QueueFull
<1>3. Served = GrantWaiters(core, dead)
  <2>1. core.waiters = <<>> => Served = core /\ Len(core.waiters) = 0
    BY DEF Served
  <2> QED
    BY <1>2, <2>1 DEF Served
<1> DEFINE live == QueuedIn(Served, pc)
           queued == QueuedIn(core, pc)
<1>4. live \subseteq queued \ dead
  BY <1>0, <1>3, ServedAreAlive
<1>5. Cardinality(live) = Len(Served.waiters) /\ Cardinality(queued) = Len(core.waiters)
  BY <1>0, ServedPreserves, QueueLengthIn
<1>6. queued \in SUBSET Procs
  BY DEF QueuedIn
<1> HIDE DEF live, queued
<1>7. IsFiniteSet(queued) /\ IsFiniteSet(queued \ dead)
  BY <1>6, FiniteProcs
<1>8. /\ Cardinality(live) <= Cardinality(queued \ dead)
      /\ Cardinality(queued \ dead) <= Cardinality(queued)
      /\ Cardinality(queued \ dead) \in Nat
  BY <1>4, <1>7, FS_Subset, FS_CardinalityType
<1>9. Cardinality(queued) <= MaxWaiting /\ Cardinality(live) >= MaxWaiting
  BY <1>0, <1>2, <1>5, FeatureAssumption DEF Unlimited
<1>10. Cardinality(live) \in Nat /\ Cardinality(queued) \in Nat
  BY <1>4, <1>7, FS_Subset, FS_CardinalityType
<1>11. Cardinality(queued \ dead) = MaxWaiting
  BY <1>2, <1>8, <1>9, <1>10
<1> QED
  BY <1>11, SameSets DEF queued

\* Only AcquireWait joins the queue, by a goroutine that is alive, and it has served the
\* queue before.
LEMMA StepJoins ==
  ASSUME IInv, [Next]_vars, NEW p \in Procs
  PROVE  JoinsTheLiving(p)
<1> SUFFICES ASSUME pc[p] # "waiting", pc'[p] = "waiting"
             PROVE  Queued' \intersect dead = {}
  BY DEF JoinsTheLiving
<1>0. Tied(core, pc, want) /\ pc \in [Procs -> Stations] /\ core \in Core
  BY DEF IInv, Tied, Typed
<1>1. PICK r \in Procs, m \in Modes, g \in BOOLEAN : AcquireWait(r, m, g)
  BY <1>0 DEF Next, vars, CancelLock, Expire, AcquireExpired, AcquireCancelled, GiveUp,
              FinishWait, Unlock, HandleFull, TryFail, AcquireAtOnce, AcquireFull, TrySucceed
<1>2. /\ r \notin dead /\ pc' = [pc EXCEPT ![r] = "waiting"]
      /\ core'.verdict = Served.verdict
  <2>1. Served \in Core
    BY ServedPreserves DEF Tied, Typed
  <2> QED
    BY <1>1, <2>1 DEF AcquireWait, MayAcquire, Enqueue, Bump, Core
<1>3. QueuedIn(Served, pc) \intersect dead = {}
  <2>1. CASE core.waiters = <<>>
    <3>1. Cardinality(QueuedIn(core, pc)) = 0
      BY <1>0, <2>1, QueueLengthIn
    <3>2. QueuedIn(core, pc) = {}
      BY <3>1, FiniteProcs, FS_EmptySet DEF QueuedIn
    <3> QED
      BY <2>1, <3>2 DEF Served
  <2>2. CASE core.waiters # <<>>
    BY <1>0, <2>2, ServedAreAlive DEF Served
  <2> QED
    BY <2>1, <2>2
<1>4. \A q \in Queued' : q \in QueuedIn(Served, pc) \/ q = r
  BY <1>0, <1>2 DEF Queued, QueuedIn
<1> QED
  BY <1>2, <1>3, <1>4

\* Whoever is turned away with ErrMaxWaiting was turned away by MaxWaiting waiters none of
\* whom had expired, and whoever joins the queue joins live waiters only.
THEOREM ExpiredObstructNobody == Spec => OnlyTheLivingObstruct
<1> DEFINE Unobstructed ==
             \A p \in Procs :
               /\ pc[p] # "refused" /\ pc'[p] = "refused"
                    => Cardinality(Queued \ dead) = MaxWaiting
               /\ pc[p] # "waiting" /\ pc'[p] = "waiting"
                    => Queued' \intersect dead = {}
<1>1. IInv /\ [Next]_vars => Unobstructed
  BY StepRefuses, StepJoins DEF RefusedForTheLiving, JoinsTheLiving
<1>2. [][Unobstructed]_vars => OnlyTheLivingObstruct
  BY PTL DEF OnlyTheLivingObstruct
<1> QED
  BY <1>1, <1>2, Invariant, PTL DEF Spec
-----------------------------------------------------------------------------
(* The lock implements FIFOLock *)

\* The owners and the line the abstract lock is given.
Held == [p \in Procs |-> IF Owns(p) THEN want[p].mode ELSE "none"]
Queue == Line(core.waiters)

\* FIFOLock reads lines, and tells who fits, as RWCoreProofs does.
LEMMA SameLines ==
  /\ \A s : Fifo!Elems(s) = Elems(s)
  /\ \A s, D : Fifo!Without(s, D) = Without(s, D)
  /\ \A h, s, n : Fifo!Admissible(h, s, n) <=> Fits(h, s, n)
<1>1. \A s : Fifo!Elems(s) = Elems(s)
  BY DEF Fifo!Elems, Elems
<1>2. \A s, D : Fifo!Without(s, D) = Without(s, D)
  BY DEF Fifo!Without, Without, Fifo!Rank, Rank, Fifo!Kept, Kept,
         Fifo!Cardinality, Cardinality
<1>3. \A h, s, n : Fifo!Admissible(h, s, n) <=> Fits(h, s, n)
  BY DEF Fifo!Admissible, Fits, Fifo!Free, Fifo!NoWriter
<1> QED
  BY <1>1, <1>2, <1>3

\* The owners are those of the engine lemmas.
LEMMA SameHeld ==
  /\ Held = HeldBy(core, pc, want)
  /\ Held' = HeldBy(core', pc', want')
BY DEF Held, HeldBy, OwnsIn, Owns

\* What FIFOLock admits is a longest prefix that fits.
LEMMA AdmittedFits ==
  ASSUME NEW h, NEW s, NEW k, NEW t, Settles(h, s, k, t), NEW n, n = Fifo!Admitted(h, s)
  PROVE  LongestFit(h, s, n)
<1>1. \E m \in 0..Len(s) : Fits(h, s, m) /\ \A l \in 0..Len(s) : Fits(h, s, l) => l <= m
  BY DEF Settles
<1>2. n = CHOOSE m \in 0..Len(s) :
            Fifo!Admissible(h, s, m) /\ \A l \in 0..Len(s) : Fifo!Admissible(h, s, l) => l <= m
  BY DEF Fifo!Admitted
<1>3. \E m \in 0..Len(s) :
        Fifo!Admissible(h, s, m) /\ \A l \in 0..Len(s) : Fifo!Admissible(h, s, l) => l <= m
  BY <1>1, SameLines
<1>4. n \in 0..Len(s) /\ Fifo!Admissible(h, s, n)
      /\ \A l \in 0..Len(s) : Fifo!Admissible(h, s, l) => l <= n
  BY <1>2, <1>3
<1> QED
  BY <1>4, SameLines DEF LongestFit

\* What Fifo!Next asks of a step in which p comes for the lock.
LEMMA ArrivalStep ==
  ASSUME IInv, IInv', NEW p \in Procs, NEW m \in Modes, pc[p] = "idle",
         ~core.cancelled, core'.cancelled = core.cancelled,
         NEW Q \in SUBSET Elems(Queue),
         Settles(Held, Append(Without(Queue, Q), [id |-> p, mode |-> m]), Held', Queue')
  PROVE  Fifo!Next
<1> DEFINE h == Held
           x == [id |-> p, mode |-> m]
           s == Fifo!Without(Queue, Q)
           a == Append(s, x)
<1>1. /\ Queue \in Seq(Caller) /\ Distinct(Queue)
      /\ \A y \in Elems(Queue) : pc[y.id] = "waiting"
      /\ Held' \in [Procs -> Modes \union {"none"}]
  BY AbstractTypes, SameHeld DEF IInv, Queue
<1>2. s \in Seq(Caller) /\ Distinct(s) /\ Elems(s) \subseteq Elems(Queue)
  BY <1>1, WithoutProperties, SameLines
<1>3. x \in Caller /\ x.id = p
  BY DEF Caller
<1>4. Settles(h, a, Held', Queue')
  BY SameLines
<1> HIDE DEF s, x
<1>5. \A i \in DOMAIN s : s[i].id # x.id
  <2>1. \A i \in DOMAIN s : s[i] \in Elems(Queue)
    BY <1>2 DEF Elems
  <2> QED
    BY <1>1, <1>3, <2>1
<1>6. a \in Seq(Caller) /\ Distinct(a)
  BY <1>2, <1>3, <1>5, AppendDistinct
<1> HIDE DEF h, a
<1>7. Fifo!Settle(h, a)
  <2>1. LongestFit(h, a, Fifo!Admitted(h, a))
    BY <1>1, <1>4, <1>6, AdmittedFits
  <2> QED
    BY <1>1, <1>4, <1>6, <2>1, SettlesExactly DEF Fifo!Settle, Entering, Held, Queue
<1>8. Fifo!Idle(p)
  <2>1. ~Owns(p)
    BY DEF Owns
  <2>2. \A y \in Elems(Queue) : y.id # p
    BY <1>1
  <2> QED
    BY <2>1, <2>2, SameLines DEF Fifo!Idle, Queue
<1>9. Fifo!Arrive(p, m, Q)
  BY <1>7, <1>8 DEF Fifo!Arrive, Held, Queue, h, s, x, a
<1> QED
  BY <1>9, SameLines DEF Fifo!Next, Queue, Modes

\* What it asks of a step in which some quit.
LEMMA QuitStep ==
  ASSUME IInv, IInv', core'.cancelled = core.cancelled, NEW Q \in SUBSET Elems(Queue),
         Settles(Held, Without(Queue, Q), Held', Queue')
  PROVE  Fifo!Next
<1> DEFINE h == Held
           s == Fifo!Without(Queue, Q)
<1>1. /\ Queue \in Seq(Caller) /\ Distinct(Queue)
      /\ Held' \in [Procs -> Modes \union {"none"}]
  BY AbstractTypes, SameHeld DEF IInv, Queue
<1>2. s \in Seq(Caller) /\ Distinct(s)
  BY <1>1, WithoutProperties, SameLines
<1>3. Settles(h, s, Held', Queue')
  BY SameLines
<1> HIDE DEF h, s
<1>4. Fifo!Settle(h, s)
  <2>1. LongestFit(h, s, Fifo!Admitted(h, s))
    BY <1>1, <1>2, <1>3, AdmittedFits
  <2> QED
    BY <1>1, <1>2, <1>3, <2>1, SettlesExactly DEF Fifo!Settle, Entering, Held, Queue
<1>5. Fifo!Quit(Q)
  BY <1>4 DEF Fifo!Quit, Held, Queue, h, s
<1> QED
  BY <1>5, SameLines DEF Fifo!Next, Queue

\* What it asks of a step in which p gives the lock back.
LEMMA LeaveStep ==
  ASSUME IInv, IInv', core'.cancelled = core.cancelled,
         NEW p \in Procs, pc[p] = "holding", NEW Q \in SUBSET Elems(Queue),
         Settles([Held EXCEPT ![p] = "none"], Without(Queue, Q), Held', Queue')
  PROVE  Fifo!Next
<1> DEFINE h == [Held EXCEPT ![p] = "none"]
           s == Fifo!Without(Queue, Q)
<1>1. /\ Queue \in Seq(Caller) /\ Distinct(Queue)
      /\ Held' \in [Procs -> Modes \union {"none"}]
  BY AbstractTypes, SameHeld DEF IInv, Queue
<1>2. s \in Seq(Caller) /\ Distinct(s)
  BY <1>1, WithoutProperties, SameLines
<1>3. Settles(h, s, Held', Queue')
  BY SameLines
<1>4. Owns(p) /\ want[p].mode # "none"
  <2>1. want[p] \in Waiter
    BY DEF IInv, Tied, Typed
  <2> QED
    BY <2>1 DEF Owns, Waiter, Modes
<1> HIDE DEF h, s
<1>5. Fifo!Settle(h, s)
  <2>1. LongestFit(h, s, Fifo!Admitted(h, s))
    BY <1>1, <1>2, <1>3, AdmittedFits
  <2> QED
    BY <1>1, <1>2, <1>3, <2>1, SettlesExactly DEF Fifo!Settle, Entering, Held, Queue
<1>6. Fifo!Leave(p, Q)
  BY <1>4, <1>5 DEF Fifo!Leave, Held, Queue, h, s
<1> QED
  BY <1>6, SameLines DEF Fifo!Next, Queue

\* A step that changes neither owners nor line is none of the abstract lock.
LEMMA StutterStep ==
  ASSUME Held' = Held, Queue' = Queue, core'.cancelled = core.cancelled
  PROVE  UNCHANGED Fifo!vars
BY DEF Fifo!vars, Held, Queue

\* Every step of the lock is a step of the abstract FIFO lock or none.
LEMMA StepRefines == IInv /\ [Next]_vars => [Fifo!Next]_Fifo!vars
<1> SUFFICES ASSUME IInv, [Next]_vars PROVE [Fifo!Next]_Fifo!vars
  OBVIOUS
<1> DEFINE Q == Quitters(core.waiters, dead)
<1>0. /\ Tied(core, pc, want) /\ core \in Core /\ pc \in [Procs -> Stations]
      /\ want \in [Procs -> Waiter] /\ core.verdict \in [Procs -> Verdicts]
      /\ ~HeadCompatible(core)
      /\ \A p \in Procs : pc[p] # "waiting" => core.verdict[p] = "none"
  BY DEF IInv, Tied, Typed, Core
<1>i. IInv'
  BY StepInvariant
<1>q. /\ Q \in SUBSET Elems(Queue) /\ Queue = Line(core.waiters)
      /\ Queue' = Line(core'.waiters)
  BY DEF Quitters, Queue
<1>h. Held = HeldBy(core, pc, want) /\ Held' = HeldBy(core', pc', want')
  BY SameHeld
<1>s. /\ Tied(Served, pc, want) /\ Served.cancelled = core.cancelled
      /\ Served.verdict \in [Procs -> Verdicts] /\ Served \in Core
      /\ \A p \in Procs : pc[p] # "waiting" => Served.verdict[p] = "none"
      /\ Settles(Held, Without(Queue, Q), HeldBy(Served, pc, want), Line(Served.waiters))
  <2>1. Tied(Served, pc, want) /\ Served.cancelled = core.cancelled
    BY ServedPreserves
  <2>2. Settles(Held, Without(Queue, Q), HeldBy(Served, pc, want), Line(Served.waiters))
    BY <1>0, <1>h, <1>q, ServedSettles DEF Served
  <2>3. \A p \in Procs : pc[p] # "gone"
    BY DEF IInv
  <2> QED
    BY <2>1, <2>2, <2>3 DEF Tied, Typed, Core
<1> HIDE DEF Q
<1>1. CASE UNCHANGED vars
  <2>1. core' = core /\ Held' = Held
    BY <1>1, <1>h DEF vars
  <2> QED
    BY <1>q, <2>1, StutterStep
<1>2. CASE CancelLock
  <2>1. core' = Cancel(core) /\ pc' = pc /\ want' = want
    BY <1>2 DEF CancelLock
  <2>2. CASE core.cancelled
    <3>1. core' = core
      BY <2>1, <2>2 DEF Cancel
    <3> QED
      BY <1>h, <1>q, <2>1, <3>1, StutterStep
  <2>3. CASE ~core.cancelled
    <3>1. core'.cancelled = TRUE /\ core'.waiters = <<>>
      BY <1>0, <2>1, <2>3 DEF Cancel, Core
    <3>2. \A q \in Procs : core'.verdict[q] = "granted" <=> core.verdict[q] = "granted"
      BY <1>0, <2>1, CancelKeeps
    <3>3. Held' = Held
      BY <1>h, <2>1, <3>2 DEF HeldBy, OwnsIn
    <3>4. Queue' = <<>>
      <4>1. <<>> \in Seq(Waiter)
        OBVIOUS
      <4> QED
        BY <1>q, <3>1, <4>1, LineProperties
    <3>5. Fifo!Close
      BY <3>1, <3>3, <3>4 DEF Fifo!Close, Held, Queue
    <3> QED
      BY <3>5 DEF Fifo!Next
  <2> QED
    BY <2>2, <2>3
<1>3. ASSUME NEW p \in Procs, Expire(p) \/ AcquireExpired(p) \/ AcquireCancelled(p)
      PROVE  UNCHANGED Fifo!vars
  <2>1. core' = core /\ pc' = pc /\ want' = want
    BY <1>3 DEF Expire, AcquireExpired, AcquireCancelled, vars
  <2> QED
    BY <1>h, <1>q, <2>1, StutterStep
<1>4. ASSUME NEW p \in Procs, GiveUp(p) PROVE [Fifo!Next]_Fifo!vars
  <2>1. /\ pc[p] = "waiting" /\ p \in dead /\ pc' = pc /\ want' = want
        /\ core' = CancelWaiter(core, p, dead)
    BY <1>4 DEF GiveUp
  <2>2. CASE core.verdict[p] # "none"
    <3>1. core' = core
      BY <2>1, <2>2 DEF CancelWaiter
    <3> QED
      BY <1>h, <1>q, <2>1, <3>1, StutterStep
  <2>3. CASE core.verdict[p] = "none"
    <3>1. p \in QueuedIn(core, pc)
      BY <2>1, <2>3 DEF QueuedIn
    <3>2. Settles(Held, Without(Queue, Q), Held', Queue')
      BY <1>0, <1>h, <1>q, <2>1, <3>1, GiveUpSettles DEF Q
    <3>3. core'.cancelled = core.cancelled
      BY <1>0, <2>1, CancelWaiterKeeps
    <3> QED
      BY <1>i, <1>q, <3>2, <3>3, QuitStep
  <2> QED
    BY <2>2, <2>3
<1>5. ASSUME NEW p \in Procs, FinishWait(p) PROVE UNCHANGED Fifo!vars
  <2>1. /\ pc[p] = "waiting" /\ core.verdict[p] # "none"
        /\ core' = [core EXCEPT !.verdict = [core.verdict EXCEPT ![p] = "none"]]
    BY <1>5 DEF FinishWait
  <2>2. /\ core'.verdict = [core.verdict EXCEPT ![p] = "none"]
        /\ core'.waiters = core.waiters /\ core'.cancelled = core.cancelled
    BY <1>0, <2>1 DEF Core
  <2>3. CASE core.verdict[p] = "granted"
    <3>1. pc' = [pc EXCEPT ![p] = "holding"] /\ want' = want
      BY <1>5, <2>3 DEF FinishWait
    <3>2. \A q \in Procs : HeldBy(core', pc', want')[q] = HeldBy(core, pc, want)[q]
      BY <1>0, <2>1, <2>2, <2>3, <3>1 DEF HeldBy, OwnsIn
    <3>3. Held' = Held
      BY <1>h, <3>2, EachTheSame
    <3> QED
      BY <1>q, <2>2, <3>3, StutterStep
  <2>4. CASE core.verdict[p] # "granted"
    <3>1. /\ pc' = [pc EXCEPT ![p] = "idle"]
          /\ want' = [want EXCEPT ![p] = NoWant(p)]
      BY <1>5, <2>4 DEF FinishWait
    <3>2. \A q \in Procs : HeldBy(core', pc', want')[q] = HeldBy(core, pc, want)[q]
      <4>1. ~OwnsIn(core', pc', p) /\ ~OwnsIn(core, pc, p)
        BY <1>0, <2>1, <2>4, <3>1 DEF OwnsIn
      <4>2. \A q \in Procs \ {p} : /\ pc'[q] = pc[q] /\ want'[q] = want[q]
                                   /\ core'.verdict[q] = core.verdict[q]
        BY <1>0, <2>2, <3>1
      <4> QED
        BY <4>1, <4>2 DEF HeldBy, OwnsIn
    <3>3. Held' = Held
      BY <1>h, <3>2, EachTheSame
    <3> QED
      BY <1>q, <2>2, <3>3, StutterStep
  <2> QED
    BY <2>3, <2>4
<1>6. ASSUME NEW p \in Procs, HandleFull(p) PROVE UNCHANGED Fifo!vars
  <2>1. /\ pc[p] = "refused" /\ pc' = [pc EXCEPT ![p] = "idle"]
        /\ core' = core /\ want' = want
    BY <1>6 DEF HandleFull
  <2>2. \A q \in Procs : HeldBy(core', pc', want')[q] = HeldBy(core, pc, want)[q]
    BY <1>0, <2>1 DEF HeldBy, OwnsIn
  <2>3. Held' = Held
    BY <1>h, <2>2, EachTheSame
  <2> QED
    BY <1>q, <2>1, <2>3, StutterStep
<1>7. ASSUME NEW p \in Procs, Unlock(p) PROVE Fifo!Next
  <2> DEFINE a == ReleasedAttempt(p)
             f == Freed(core, want[p].mode, a)
             idle == [pc EXCEPT ![p] = "idle"]
             w2 == [want EXCEPT ![p] = NoWant(p)]
  <2>1. pc[p] = "holding"
    BY <1>7 DEF Unlock
  <2>2. NoWant(p) \in Waiter /\ NoWant(p).id = p
    BY NoWantType
  <2>3. a = IF want[p].guarded THEN p ELSE NoAttempt
    BY DEF ReleasedAttempt
  <2> HIDE DEF a
  <2>4. /\ ReleaseMatches(core, want[p].mode, a) /\ Tied(f, idle, w2)
        /\ f.cancelled = core.cancelled /\ f.waiters = core.waiters
    <3>1. Tied(core, pc, want)
      BY <1>0
    <3> QED
      BY <2>1, <2>2, <2>3, <3>1, FreedPreserves
  <2>5. core' = GrantWaiters(f, dead) /\ pc' = idle /\ want' = w2
    BY <1>7, <2>4 DEF Unlock, Release, a
  <2>6. f.verdict = core.verdict
    BY <1>0 DEF Freed, Core
  <2> HIDE DEF f
  <2>7. HeldBy(f, idle, w2) = [Held EXCEPT ![p] = "none"]
    <3>1. \A q \in Procs : q # p => /\ OwnsIn(f, idle, q) <=> OwnsIn(core, pc, q)
                                    /\ w2[q] = want[q]
      BY <1>0, <2>6 DEF OwnsIn
    <3>2. ~OwnsIn(f, idle, p)
      BY <1>0 DEF OwnsIn
    <3> HIDE DEF idle, w2
    <3>3. HeldBy(f, idle, w2)
            = [HeldBy(core, pc, want) EXCEPT
                 ![p] = IF OwnsIn(f, idle, p) THEN w2[p].mode ELSE "none"]
      BY <3>1 DEF HeldBy
    <3> QED
      BY <1>h, <3>2, <3>3
  <2> HIDE DEF idle, w2
  <2>8. Settles(HeldBy(f, idle, w2), Without(Queue, Q), Held', Queue')
    BY <1>h, <1>q, <2>4, <2>5, GrantWaitersSettles DEF Q
  <2>9. core'.cancelled = core.cancelled
    BY <2>4, <2>5, GrantWaitersPreserves
  <2> QED
    BY <1>i, <1>q, <2>1, <2>7, <2>8, <2>9, LeaveStep
<1>8. ASSUME NEW p \in Procs, NEW m \in Modes, TryFail(p, m) PROVE UNCHANGED Fifo!vars
  <2>1. core' = core /\ pc' = pc /\ want' = want
    BY <1>8 DEF TryFail, vars
  <2> QED
    BY <1>h, <1>q, <2>1, StutterStep
<1>9. ASSUME NEW p \in Procs, NEW m \in Modes, NEW g \in BOOLEAN
      PROVE  /\ Attempt(p, m, g) \in Waiter
             /\ Attempt(p, m, g).id = p /\ Attempt(p, m, g).mode = m
             /\ CallerOf(Attempt(p, m, g)) = [id |-> p, mode |-> m]
  BY DEF Attempt, Waiter, CallerOf
\* One who acquires at once, from an engine d that has served those who came before.
<1>10. ASSUME NEW p \in Procs, NEW m \in Modes, NEW g \in BOOLEAN, pc[p] = "idle",
              NEW d, Tied(d, pc, want), d.verdict[p] = "none", ~core.cancelled,
              d.cancelled = core.cancelled, CanAcquireImmediately(d, m),
              NEW R \in SUBSET Elems(Queue),
              Settles(Held, Without(Queue, R), HeldBy(d, pc, want), Line(d.waiters)),
              core' = Grant(d, Attempt(p, m, g)), pc' = [pc EXCEPT ![p] = "holding"],
              want' = [want EXCEPT ![p] = Attempt(p, m, g)]
       PROVE  Fifo!Next
  <2> DEFINE x == Attempt(p, m, g)
             k == [HeldBy(d, pc, want) EXCEPT ![x.id] = x.mode]
  <2>1. x \in Waiter /\ x.id = p /\ x.mode = m /\ CallerOf(x) = [id |-> p, mode |-> m]
    BY <1>9
  <2> HIDE DEF x
  <2>2. core'.waiters = <<>> /\ core'.cancelled = d.cancelled
    BY <1>10, <2>1, GrantPreserves DEF x
  <2>3. Queue' = <<>>
    <3>1. <<>> \in Seq(Waiter)
      OBVIOUS
    <3> QED
      BY <1>q, <2>2, <3>1, LineProperties
  <2>4. Settles(Held, Append(Without(Queue, R), CallerOf(x)), k, <<>>)
    BY <1>0, <1>h, <1>q, <1>10, <2>1, ArrivalEnters
  <2>5. core'.verdict = d.verdict
    BY <1>10 DEF Grant, Core, Tied, Typed
  <2>6. Held' = k
    <3>1. /\ \A q \in Procs : q # p => /\ OwnsIn(core', pc', q) <=> OwnsIn(d, pc, q)
                                       /\ want'[q] = want[q]
          /\ OwnsIn(core', pc', p) /\ want'[p] = x
      BY <1>0, <1>10, <2>5 DEF OwnsIn, x
    <3>2. HeldBy(core', pc', want')
            = [HeldBy(d, pc, want) EXCEPT
                 ![p] = IF OwnsIn(core', pc', p) THEN want'[p].mode ELSE "none"]
      BY <3>1, OneOwnerChanges
    <3> QED
      BY <1>h, <2>1, <3>1, <3>2
  <2> QED
    BY <1>i, <1>10, <2>1, <2>2, <2>3, <2>4, <2>6, ArrivalStep
<1>11. ASSUME NEW p \in Procs, NEW m \in Modes, NEW g \in BOOLEAN, AcquireAtOnce(p, m, g)
       PROVE  Fifo!Next
  <2>1. /\ pc[p] = "idle" /\ ~core.cancelled /\ CanAcquireImmediately(Served, m)
        /\ core' = Grant(Served, Attempt(p, m, g)) /\ pc' = [pc EXCEPT ![p] = "holding"]
        /\ want' = [want EXCEPT ![p] = Attempt(p, m, g)]
    BY <1>11 DEF AcquireAtOnce, MayAcquire
  <2> QED
    BY <1>10, <1>q, <1>s, <2>1
<1>12. ASSUME NEW p \in Procs, NEW m \in Modes, NEW g \in BOOLEAN, TrySucceed(p, m, g)
       PROVE  Fifo!Next
  <2>1. /\ pc[p] = "idle" /\ ~core.cancelled /\ CanAcquireImmediately(core, m)
        /\ core' = Grant(core, Attempt(p, m, g)) /\ pc' = [pc EXCEPT ![p] = "holding"]
        /\ want' = [want EXCEPT ![p] = Attempt(p, m, g)]
    BY <1>12 DEF TrySucceed
  <2>2. Queue = <<>>
    <3>1. core.waiters = <<>> /\ core.waiters \in Seq(Waiter)
      BY <1>0, <2>1 DEF CanAcquireImmediately, Core
    <3> QED
      BY <1>q, <3>1, LineProperties
  <2>3. Settles(Held, Without(Queue, {}), Held, Queue)
    BY <1>0, <1>h, <1>q, <2>2, BlockedSettles, WithoutNothing
  <2>4. core.verdict[p] = "none"
    BY <1>0, <2>1
  <2>5. /\ {} \in SUBSET Elems(Queue)
        /\ Settles(Held, Without(Queue, {}), HeldBy(core, pc, want), Line(core.waiters))
    BY <1>h, <1>q, <2>3
  <2> QED
    BY <1>0, <1>10, <2>1, <2>4, <2>5
<1>13. ASSUME NEW p \in Procs, NEW m \in Modes, NEW g \in BOOLEAN, AcquireFull(p, m, g)
       PROVE  Fifo!Next
  <2>1. /\ pc[p] = "idle" /\ core' = Served /\ pc' = [pc EXCEPT ![p] = "refused"]
        /\ want' = want
    BY <1>13 DEF AcquireFull, MayAcquire
  <2>2. \A q \in Procs : HeldBy(core', pc', want')[q] = HeldBy(Served, pc, want)[q]
    BY <1>0, <2>1 DEF HeldBy, OwnsIn
  <2>3. Held' = HeldBy(Served, pc, want)
    BY <1>h, <2>2, EachTheSame
  <2> QED
    BY <1>i, <1>q, <1>s, <2>1, <2>3, QuitStep
<1>14. ASSUME NEW p \in Procs, NEW m \in Modes, NEW g \in BOOLEAN, AcquireWait(p, m, g)
       PROVE  Fifo!Next
  <2> DEFINE x == Attempt(p, m, g)
  <2>1. /\ pc[p] = "idle" /\ ~core.cancelled /\ ~CanAcquireImmediately(Served, m)
        /\ core' = Enqueue(Served, x) /\ pc' = [pc EXCEPT ![p] = "waiting"]
        /\ want' = [want EXCEPT ![p] = x]
    BY <1>14 DEF AcquireWait, MayAcquire
  <2>2. x \in Waiter /\ x.id = p /\ x.mode = m /\ CallerOf(x) = [id |-> p, mode |-> m]
    BY <1>9
  <2> HIDE DEF x
  <2>3. /\ core'.verdict = Served.verdict /\ core'.cancelled = Served.cancelled
        /\ core'.waiters = Append(Served.waiters, x) /\ Served.waiters \in Seq(Waiter)
    BY <1>s, <2>1 DEF Enqueue, Core
  <2>4. Held' = HeldBy(Served, pc, want)
    <3>1. \A q \in Procs : HeldBy(core', pc', want')[q] = HeldBy(Served, pc, want)[q]
      <4>1. ~OwnsIn(core', pc', p) /\ ~OwnsIn(Served, pc, p)
        BY <1>0, <1>s, <2>1, <2>3 DEF OwnsIn
      <4>2. \A q \in Procs \ {p} : pc'[q] = pc[q] /\ want'[q] = want[q]
        BY <1>0, <2>1
      <4> QED
        BY <2>3, <4>1, <4>2 DEF HeldBy, OwnsIn
    <3> QED
      BY <1>h, <3>1, EachTheSame
  <2>5. Queue' = Append(Line(Served.waiters), CallerOf(x))
    BY <1>q, <2>2, <2>3, LineGrows
  <2>6. Settles(Held, Append(Without(Queue, Q), CallerOf(x)), Held', Queue')
    <3>1. Settles(HeldBy(core, pc, want), Without(Line(core.waiters), Q),
                  HeldBy(Served, pc, want), Line(Served.waiters))
      BY <1>h, <1>q, <1>s
    <3>2. Settles(HeldBy(core, pc, want), Append(Without(Line(core.waiters), Q), CallerOf(x)),
                  HeldBy(Served, pc, want), Append(Line(Served.waiters), CallerOf(x)))
      BY <1>0, <1>s, <2>1, <2>2, <3>1, ArrivalWaits
    <3> QED
      BY <1>h, <1>q, <2>4, <2>5, <3>2
  <2> QED
    BY <1>i, <1>q, <1>s, <2>1, <2>2, <2>3, <2>6, ArrivalStep
<1> QED
  BY <1>1, <1>2, <1>3, <1>4, <1>5, <1>6, <1>7, <1>8, <1>11, <1>12, <1>13, <1>14 DEF Next

\* The lock, with its counters, verdicts, contexts and limits, is the FIFO lock that lets in
\* the longest prefix of the line: rwCore's acquire, tryAcquire, release, cancelWaiter and
\* cancel together, for any number of goroutines and every combination of features.
THEOREM FIFORefinement == Spec => ImplementsFIFOLock
<1>1. Init => Fifo!Init
  <2> SUFFICES ASSUME Init PROVE Fifo!Init
    OBVIOUS
  <2>1. /\ core = InitialCore /\ pc = [p \in Procs |-> "idle"]
    BY DEF Init
  <2>2. \A p \in Procs : ~Owns(p)
    BY <2>1 DEF Owns
  <2>3. core.waiters = <<>> /\ core.cancelled = FALSE /\ <<>> \in Seq(Waiter)
    BY <2>1 DEF InitialCore
  <2>4. Queue = <<>>
    BY <2>3, LineProperties DEF Queue
  <2> QED
    BY <2>2, <2>3, <2>4 DEF Fifo!Init, Queue
<1>2. IInv /\ [Next]_vars => [Fifo!Next]_Fifo!vars
  BY StepRefines
<1> QED
  BY <1>1, <1>2, Invariant, PTL DEF Spec, ImplementsFIFOLock, Fifo!Spec

-----------------------------------------------------------------------------
(* No change of the counts goes without a version of its own *)

\* What the engine counts, and its version, over a step.
CountsVersioned == Counts(core)' # Counts(core) => core'.version # core.version

\* What the service makes of the queue before an acquisition.
LEMMA ServedShrinks ==
  ASSUME IInv, 1 < VersionModulus
  PROVE  Shrinks(core, Served) /\ Served \in Core
<1>1. Sound(core) /\ core \in Core
  BY DEF IInv, Tied, Typed, QueueTied, Sound
<1> QED
  BY <1>1, ShrinksNothing, GrantWaitersShrinks, GrantWaitersServes DEF Served, Serves, Sound

\* A step makes fewer changes than the counter has values.
LEMMA StepVersioned ==
  ASSUME Cardinality(Procs) + 1 < VersionModulus, IInv, [Next]_vars
  PROVE  CountsVersioned
<1> SUFFICES ASSUME Counts(core)' # Counts(core) PROVE core'.version # core.version
  BY DEF CountsVersioned
<1>0. /\ Cardinality(Procs) \in Nat /\ VersionModulus \in Nat /\ 1 < VersionModulus
      /\ Cardinality(Procs) < VersionModulus
  BY FiniteProcs, CoreAssumption
<1>1. /\ Tied(core, pc, want) /\ core \in Core /\ Sound(core) /\ Len(core.waiters) \in Nat
      /\ pc \in [Procs -> Stations]
  BY DEF IInv, Tied, Typed, QueueTied, Sound, Core
<1>2. core' \in Core /\ Len(core'.waiters) \in Nat
  BY StepInvariant DEF IInv, Tied, Typed, Core
<1>3. ASSUME NEW n \in Nat, Ticks(core, core', n), n <= Cardinality(Procs) + 1
      PROVE  core'.version # core.version
  BY <1>0, <1>1, <1>3, ChangesShow
<1>4. Len(core.waiters) <= Cardinality(Procs)
  <2> DEFINE queued == QueuedIn(core, pc)
  <2>1. queued \in SUBSET Procs
    BY DEF QueuedIn
  <2>2. Len(core.waiters) = Cardinality(queued)
    BY <1>1, QueueLengthIn
  <2> HIDE DEF queued
  <2>3. Cardinality(queued) <= Cardinality(Procs)
    BY <2>1, CoreAssumption, FS_Subset
  <2> QED
    BY <2>2, <2>3
<1>5. ASSUME Shrinks(core, core') PROVE core'.version # core.version
  <2>1. PICK n \in Nat : Ticks(core, core', n) /\ n + Len(core'.waiters) <= Len(core.waiters)
    BY <1>5 DEF Shrinks
  <2>2. n <= Cardinality(Procs) + 1
    BY <1>0, <1>1, <1>2, <1>4, <2>1
  <2> QED
    BY <1>3, <2>1, <2>2
<1>6. ASSUME NEW s \in Core, Shrinks(core, s), Ticks(s, core', 1)
      PROVE  core'.version # core.version
  <2>1. PICK n \in Nat : Ticks(core, s, n) /\ n + Len(s.waiters) <= Len(core.waiters)
    BY <1>6 DEF Shrinks
  <2>2. Len(s.waiters) \in Nat
    BY DEF Core
  <2>3. n + 1 \in Nat /\ n + 1 <= Cardinality(Procs) + 1
    BY <1>0, <1>1, <1>4, <2>1, <2>2
  <2>4. Ticks(core, core', n + 1)
    BY <1>1, <1>6, <2>1, TicksTransitive
  <2> QED
    BY <1>3, <2>3, <2>4
<1>7. core' # core
  OBVIOUS
<1>8. CASE CancelLock
  <2>1. Ticks(core, core', 1)
    BY <1>0, <1>1, <1>7, <1>8, CancelTicks DEF CancelLock
  <2> QED
    BY <1>0, <1>3, <2>1
<1>9. ASSUME NEW p \in Procs, GiveUp(p) PROVE core'.version # core.version
  BY <1>0, <1>1, <1>5, <1>9, CancelWaiterShrinks DEF GiveUp
<1>10. ASSUME NEW p \in Procs, FinishWait(p) PROVE FALSE
  BY <1>1, <1>10, VerdictsUncounted DEF FinishWait
<1>11. ASSUME NEW p \in Procs, Unlock(p) PROVE core'.version # core.version
  <2>1. /\ ReleaseMatches(core, want[p].mode, ReleasedAttempt(p))
        /\ core' = Release(core, want[p].mode, ReleasedAttempt(p), dead)
    BY <1>7, <1>11 DEF Unlock
  <2>2. want[p].mode \in Modes
    BY <1>1 DEF Tied, Typed, Waiter
  <2>3. PICK n \in Nat : /\ Ticks(core, core', n)
                         /\ n + Len(core'.waiters) <= Len(core.waiters) + 1
    BY <1>0, <1>1, <2>1, <2>2, ReleaseTicks
  <2>4. n <= Cardinality(Procs) + 1
    BY <1>0, <1>1, <1>2, <1>4, <2>3
  <2> QED
    BY <1>3, <2>3, <2>4
<1>12. ASSUME NEW p \in Procs, NEW m \in Modes, NEW g \in BOOLEAN,
              \/ AcquireAtOnce(p, m, g) \/ AcquireFull(p, m, g)
              \/ AcquireWait(p, m, g) \/ TrySucceed(p, m, g)
       PROVE  core'.version # core.version
  <2>1. Attempt(p, m, g) \in Waiter /\ Attempt(p, m, g).mode = m
    BY DEF Attempt, Waiter
  <2> DEFINE x == Attempt(p, m, g)
  <2>2. x \in Waiter /\ x.mode = m
    BY <2>1
  <2> HIDE DEF x
  <2>3. Shrinks(core, Served) /\ Served \in Core
    BY <1>0, ServedShrinks
  <2>4. CASE AcquireAtOnce(p, m, g)
    <3>1. core' = Grant(Served, x) /\ ~Served.writer
      BY <2>4 DEF AcquireAtOnce, CanAcquireImmediately, x
    <3>2. Ticks(Served, core', 1)
      BY <1>0, <2>2, <2>3, <3>1, GrantTicks
    <3> QED
      BY <1>6, <2>3, <3>2
  <2>5. CASE AcquireFull(p, m, g)
    BY <1>5, <2>3, <2>5 DEF AcquireFull
  <2>6. CASE AcquireWait(p, m, g)
    <3>1. core' = Enqueue(Served, x)
      BY <2>6 DEF AcquireWait, x
    <3>2. Ticks(Served, core', 1)
      BY <1>0, <2>2, <2>3, <3>1, EnqueueTicks
    <3> QED
      BY <1>6, <2>3, <3>2
  <2>7. CASE TrySucceed(p, m, g)
    <3>1. core' = Grant(core, x) /\ ~core.writer
      BY <2>7 DEF TrySucceed, CanAcquireImmediately, x
    <3>2. Ticks(core, core', 1)
      BY <1>0, <1>1, <2>2, <3>1, GrantTicks
    <3> QED
      BY <1>0, <1>3, <3>2
  <2> QED
    BY <1>12, <2>4, <2>5, <2>6, <2>7
<1> QED
  BY <1>7, <1>8, <1>9, <1>10, <1>11, <1>12
  DEF Next, vars, Expire, AcquireExpired, AcquireCancelled, HandleFull, TryFail

\* No step changes the counts of a Snapshot under an unchanged version: a critical section
\* makes at most one change for each goroutine and one more, and the version counter of the
\* code, of 64 bits, has more values than there can be goroutines.
THEOREM ChangesAreVersioned ==
  ASSUME Cardinality(Procs) + 1 < VersionModulus
  PROVE  Spec => ChangeIsVersioned
<1>1. IInv /\ [Next]_vars => CountsVersioned
  BY StepVersioned
<1> QED
  BY <1>1, Invariant, PTL DEF Spec, ChangeIsVersioned, CountsVersioned

=============================================================================
