---------------------------- MODULE RWCoreProofs ----------------------------
(* What the critical sections of RWCore do: to the queue and the verdicts,  *)
(* for any engine state whose queue has no goroutine twice; to the tie      *)
(* between an engine and the goroutines inside it; and to the owners and    *)
(* the queue as an abstract lock has them.  Where the goroutines are and    *)
(* what they ask for are parameters of the tie, so that every module built  *)
(* on the engine can use it, for one engine or for many.                    *)
EXTENDS RWCore, LockQueueProofs

-----------------------------------------------------------------------------
(* The critical sections, whoever is inside *)

\* The wrapped version stays in its range.
LEMMA BumpType ==
  ASSUME NEW c \in Core, NEW n \in Nat
  PROVE  Bump(c, n) \in 0..(VersionModulus - 1)
<1>1. VersionModulus \in Nat \ {0} /\ c.version \in Nat
  BY CoreAssumption DEF Core
<1> QED
  BY <1>1 DEF Bump

\* Every set of goroutines is finite.
LEMMA FiniteProcs ==
  ASSUME NEW S \in SUBSET Procs
  PROVE  IsFiniteSet(S) /\ Cardinality(S) \in Nat
  BY CoreAssumption, FS_Subset, FS_CardinalityType

-----------------------------------------------------------------------------

Sound(c) == c \in Core /\ Distinct(c.waiters)

\* From c to d nobody joins the queue, and a goroutine outside M learns something only
\* by leaving it.
Serves(c, d, M) ==
  /\ Sound(d)
  /\ Elems(d.waiters) \subseteq Elems(c.waiters)
  /\ \A q \in Procs \ M : \/ d.verdict[q] = c.verdict[q]
                          \/ q \in Ids(c.waiters) /\ q \notin Ids(d.waiters)

\* One service after another is a service.
LEMMA ServesTransitive ==
  ASSUME NEW c, NEW d, NEW e, NEW M, Serves(c, d, M), Serves(d, e, {})
  PROVE  Serves(c, e, M)
<1>1. Ids(d.waiters) \subseteq Ids(c.waiters) /\ Ids(e.waiters) \subseteq Ids(d.waiters)
  BY DEF Serves, Ids
<1> QED
  BY <1>1 DEF Serves

\* Rejection of expired waiters.
LEMMA RejectServes ==
  ASSUME NEW c, Sound(c), NEW gone
  PROVE  Serves(c, RejectCancelledWaiters(c, gone), {})
<1> DEFINE expired == {x \in Elems(c.waiters) : x.id \in gone}
           out == {x.id : x \in expired}
           d == RejectCancelledWaiters(c, gone)
<1>1. c \in Core /\ c.waiters \in Seq(Waiter)
  BY DEF Sound, Core
<1>2. out \subseteq Ids(c.waiters) /\ \A x \in Elems(c.waiters) : x.id \in out => x \in expired
  BY DEF Ids
<1> HIDE DEF expired
<1>3. /\ Without(c.waiters, expired) \in Seq(Waiter)
      /\ Elems(Without(c.waiters, expired)) = Elems(c.waiters) \ expired
      /\ Distinct(Without(c.waiters, expired))
  BY <1>1, WithoutProperties DEF Sound
<1>4. /\ d \in Core /\ d.waiters = Without(c.waiters, expired)
      /\ d.verdict = [p \in Procs |-> IF p \in out THEN "context" ELSE c.verdict[p]]
  <2> DEFINE v == [p \in Procs |-> IF p \in out THEN "context" ELSE c.verdict[p]]
             ver == IF expired = {} THEN c.version ELSE Bump(c, 1)
  <2>1. ver \in 0..(VersionModulus - 1)
    BY <1>1, BumpType DEF Core
  <2>2. v \in [Procs -> Verdicts]
    BY <1>1 DEF Core, Verdicts
  <2>3. d = [c EXCEPT !.waiters = Without(c.waiters, expired), !.verdict = v, !.version = ver]
    BY DEF RejectCancelledWaiters, expired
  <2> HIDE DEF v, ver, d, out
  <2> QED
    BY <1>1, <1>3, <2>1, <2>2, <2>3 DEF Core, v
<1> HIDE DEF d, out
<1>5. \A q \in out : q \notin Ids(d.waiters)
  BY <1>2, <1>3, <1>4 DEF Ids
<1>6. Serves(c, d, {})
  BY <1>2, <1>3, <1>4, <1>5 DEF Serves, Sound
<1> QED
  BY <1>6 DEF d

\* The grant to a writer at the head of the queue.
LEMMA GrantWriterServes ==
  ASSUME NEW c, Sound(c), HeadCompatible(c), Head(c.waiters).mode = "write"
  PROVE  Serves(c, GrantHead(c), {})
<1> DEFINE h == Head(c.waiters)
           g == GrantHead(c)
<1>1. c \in Core /\ c.waiters \in Seq(Waiter) /\ c.waiters # <<>> /\ Distinct(c.waiters)
  BY DEF Sound, Core, HeadCompatible
<1>2. /\ h \in Elems(c.waiters) /\ h \in Waiter
      /\ Tail(c.waiters) \in Seq(Waiter) /\ Distinct(Tail(c.waiters))
      /\ Elems(Tail(c.waiters)) = Elems(c.waiters) \ {h}
  BY <1>1, TailProperties
<1>3. \A x \in Elems(c.waiters) : x.id = h.id => x = h
  BY <1>1, <1>2 DEF Elems, Distinct
<1>4. h.id \in Procs /\ h.mode = "write"
  BY <1>2 DEF Waiter
<1> HIDE DEF h
<1>5. /\ Bump(c, 1) \in 0..(VersionModulus - 1)
      /\ AttemptOf(h) \in Procs \union {NoAttempt}
  BY <1>1, <1>4, BumpType DEF AttemptOf
<1>6. g = [c EXCEPT !.writer = TRUE, !.writerAttempt = AttemptOf(h), !.version = Bump(c, 1),
                    !.waiters = Tail(c.waiters),
                    !.verdict = [c.verdict EXCEPT ![h.id] = "granted"]]
  BY <1>1, <1>4 DEF GrantHead, Grant, Core, h
<1> HIDE DEF g
<1>7. /\ g \in Core /\ g.waiters = Tail(c.waiters)
      /\ g.verdict = [c.verdict EXCEPT ![h.id] = "granted"]
  BY <1>1, <1>2, <1>4, <1>5, <1>6 DEF Core, Verdicts
<1>8. h.id \in Ids(c.waiters) /\ h.id \notin Ids(g.waiters)
  BY <1>2, <1>3, <1>7 DEF Ids
<1>9. \A q \in Procs : q # h.id => g.verdict[q] = c.verdict[q]
  BY <1>1, <1>7 DEF Core
<1>10. Serves(c, g, {})
  BY <1>2, <1>7, <1>8, <1>9 DEF Serves, Sound
<1> QED
  BY <1>10 DEF g

\* The grant to the readers at the front of the queue.
LEMMA GrantReadersServes ==
  ASSUME NEW c, Sound(c), NEW n \in 0..Len(c.waiters)
  PROVE  Serves(c, GrantReaders(c, n), {})
<1> DEFINE batch == {c.waiters[i] : i \in 1..n}
           in == {x.id : x \in batch}
           rest == SubSeq(c.waiters, n + 1, Len(c.waiters))
           g == GrantReaders(c, n)
<1>1. c \in Core /\ c.waiters \in Seq(Waiter) /\ Distinct(c.waiters) /\ n \in Nat
      /\ DOMAIN c.waiters = 1..Len(c.waiters) /\ Len(c.waiters) \in Nat
  BY DEF Sound, Core
<1>2. rest \in Seq(Waiter) /\ Distinct(rest) /\ Elems(rest) = Elems(c.waiters) \ batch
  BY <1>1, RestProperties, ZenonT(60)
<1>3. batch \subseteq Elems(c.waiters) /\ batch \subseteq Waiter
  BY <1>1 DEF Elems
<1> HIDE DEF batch, rest
<1>4. in \subseteq Procs /\ in \subseteq Ids(c.waiters)
  BY <1>3 DEF Ids, Waiter
<1>5. \A x \in Elems(c.waiters) : x.id \in in => x \in batch
  <2>1. \A x, y \in Elems(c.waiters) : x.id = y.id => x = y
    BY <1>1 DEF Elems, Distinct
  <2> QED
    BY <1>3, <2>1
<1>6. {x.id : x \in {y \in batch : y.guarded}} \subseteq Procs
  BY <1>3 DEF Waiter
<1> DEFINE v == [p \in Procs |-> IF p \in in THEN "granted" ELSE c.verdict[p]]
           guards == c.guardedReaders \union {x.id : x \in {y \in batch : y.guarded}}
<1>7. v \in [Procs -> Verdicts] /\ Bump(c, n) \in 0..(VersionModulus - 1)
      /\ guards \in SUBSET Procs /\ c.readers + n \in Nat
  BY <1>1, <1>6, BumpType DEF Core, Verdicts
<1>8. g = [c EXCEPT !.waiters = rest, !.readers = c.readers + n, !.guardedReaders = guards,
                    !.verdict = v, !.version = Bump(c, n)]
  BY <1>1 DEF GrantReaders, batch, rest, Core
<1> HIDE DEF g, v, guards, in
<1>9. g \in Core /\ g.waiters = rest /\ g.verdict = v
  BY <1>1, <1>2, <1>7, <1>8 DEF Core
<1>10. \A q \in in : q \notin Ids(g.waiters)
  BY <1>2, <1>5, <1>9 DEF Ids
<1>11. \A q \in Procs : q \notin in => g.verdict[q] = c.verdict[q]
  BY <1>9 DEF v
<1>12. Serves(c, g, {})
  BY <1>2, <1>4, <1>9, <1>10, <1>11 DEF Serves, Sound
<1> QED
  BY <1>12 DEF g

\* The service of the queue.
LEMMA GrantWaitersServes ==
  ASSUME NEW c, Sound(c), NEW gone
  PROVE  Serves(c, GrantWaiters(c, gone), {})
<1> DEFINE d == RejectCancelledWaiters(c, gone)
           n == LeadingReaders(d.waiters)
<1>1. Serves(c, d, {}) /\ Sound(d)
  BY RejectServes DEF Serves
<1>2. n \in 0..Len(d.waiters)
  <2>1. d.waiters \in Seq(Waiter)
    BY <1>1 DEF Sound, Core
  <2> QED
    BY <2>1, LeadingReadersProperties
<1>3. HeadCompatible(d) /\ Head(d.waiters).mode = "write" => Serves(d, GrantHead(d), {})
  BY <1>1, GrantWriterServes
<1>4. Serves(d, GrantReaders(d, n), {})
  BY <1>1, <1>2, GrantReadersServes
<1>5. \/ GrantWaiters(c, gone) = d
      \/ GrantWaiters(c, gone) = GrantReaders(d, n)
      \/ GrantWaiters(c, gone) = GrantHead(d) /\ HeadCompatible(d)
         /\ Head(d.waiters).mode = "write"
  BY DEF GrantWaiters
<1> HIDE DEF d, n
<1> QED
  BY <1>1, <1>3, <1>4, <1>5, ServesTransitive

\* A waiter that gives up on its own learns that, if it has not been told anything.
LEMMA CancelWaiterServes ==
  ASSUME NEW c, Sound(c), NEW p \in Procs, NEW gone
  PROVE  /\ Serves(c, CancelWaiter(c, p, gone), {p})
         /\ CancelWaiter(c, p, gone).verdict[p]
              = IF c.verdict[p] = "none" THEN "context" ELSE c.verdict[p]
         /\ c.verdict[p] = "none" => p \notin Ids(CancelWaiter(c, p, gone).waiters)
<1>1. CASE c.verdict[p] # "none"
  BY <1>1 DEF CancelWaiter, Serves
<1>2. CASE c.verdict[p] = "none"
  <2> DEFINE own == {x \in Elems(c.waiters) : x.id = p}
             rest == Without(c.waiters, own)
             v == [c.verdict EXCEPT ![p] = "context"]
             ver == IF own = {} THEN c.version ELSE Bump(c, 1)
             d == [c EXCEPT !.waiters = rest, !.verdict = v, !.version = ver]
  <2>1. c \in Core /\ c.waiters \in Seq(Waiter) /\ Distinct(c.waiters)
    BY DEF Sound, Core
  <2>2. CancelWaiter(c, p, gone) = GrantWaiters(d, gone)
    BY <1>2 DEF CancelWaiter
  <2>3. rest \in Seq(Waiter) /\ Distinct(rest) /\ Elems(rest) = Elems(c.waiters) \ own
    BY <2>1, WithoutProperties
  <2>4. p \notin Ids(rest)
    BY <2>3 DEF Ids
  <2>5. ver \in 0..(VersionModulus - 1) /\ v \in [Procs -> Verdicts]
        /\ v[p] = "context" /\ \A q \in Procs : q # p => v[q] = c.verdict[q]
    BY <2>1, BumpType DEF Core, Verdicts
  <2> HIDE DEF own, rest, v, ver
  <2>6. d \in Core /\ d.waiters = rest /\ d.verdict = v
    BY <2>1, <2>3, <2>5 DEF Core
  <2> HIDE DEF d
  <2>7. Sound(d) /\ Serves(c, d, {p})
    BY <2>3, <2>5, <2>6 DEF Sound, Serves
  <2>8. Serves(d, GrantWaiters(d, gone), {})
    BY <2>7, GrantWaitersServes
  <2>9. /\ GrantWaiters(d, gone).verdict[p] = "context"
        /\ p \notin Ids(GrantWaiters(d, gone).waiters)
    BY <2>4, <2>5, <2>6, <2>8 DEF Serves, Ids
  <2> QED
    BY <1>2, <2>2, <2>7, <2>8, <2>9, ServesTransitive
<1> QED
  BY <1>1, <1>2

\* The end of an acquisition that there is.
LEMMA ReleaseServes ==
  ASSUME NEW c, Sound(c), NEW mode \in Modes, NEW attempt, NEW gone,
         ReleaseMatches(c, mode, attempt)
  PROVE  Serves(c, Release(c, mode, attempt, gone), {})
<1> DEFINE f == Freed(c, mode, attempt)
<1>1. c \in Core /\ Bump(c, 1) \in 0..(VersionModulus - 1) /\ mode \in {"write", "read"}
  BY BumpType DEF Sound, Modes
<1>2. mode = "read" => c.readers - 1 \in Nat
  BY <1>1 DEF ReleaseMatches, Core
<1>3. f \in Core /\ f.waiters = c.waiters /\ f.verdict = c.verdict
  BY <1>1, <1>2 DEF Freed, Core
<1> HIDE DEF f
<1>4. Sound(f) /\ Serves(c, f, {})
  BY <1>3 DEF Sound, Serves
<1> QED
  BY <1>4, GrantWaitersServes, ServesTransitive DEF Release, f

-----------------------------------------------------------------------------
(* What ties an engine state to the goroutines that use it.  Their places   *)
(* and acquisitions are parameters: a module that uses the engine says what *)
(* they are in terms of its own variables.                                  *)

\* To the engine a goroutine waits, holds, or does neither; one that is gone has given
\* back what its verdict still grants it.
Stations == {"idle", "waiting", "holding", "refused", "panicked", "gone"}

OwnsIn(c, place, p) ==
  \/ place[p] = "holding"
  \/ place[p] = "waiting" /\ c.verdict[p] = "granted"
ReadersIn(c, place, w) == {p \in Procs : OwnsIn(c, place, p) /\ w[p].mode = "read"}
WritersIn(c, place, w) == {p \in Procs : OwnsIn(c, place, p) /\ w[p].mode = "write"}
QueuedIn(c, place) == {p \in Procs : place[p] = "waiting" /\ c.verdict[p] = "none"}

Typed(c, place, w) ==
  /\ c \in Core
  /\ place \in [Procs -> Stations]
  /\ w \in [Procs -> Waiter]
  /\ \A p \in Procs : w[p].id = p
  /\ \A p \in Procs : place[p] \notin {"waiting", "gone"} => c.verdict[p] = "none"

\* The queue is the blocked goroutines, each once.
QueueTied(c, place, w) ==
  /\ Distinct(c.waiters)
  /\ Elems(c.waiters) = {w[p] : p \in QueuedIn(c, place)}

\* The counters are the owners.
LedgerTied(c, place, w) ==
  /\ c.readers = Cardinality(ReadersIn(c, place, w))
  /\ c.writer <=> WritersIn(c, place, w) # {}
  /\ \A p \in WritersIn(c, place, w) : c.writerAttempt = AttemptOf(w[p])
  /\ c.guardedReaders = {p \in ReadersIn(c, place, w) : w[p].guarded}

Exclusive(c, place, w) ==
  /\ WritersIn(c, place, w) # {} => ReadersIn(c, place, w) = {}
  /\ \A p, q \in WritersIn(c, place, w) : p = q

Tied(c, place, w) ==
  /\ Typed(c, place, w)
  /\ QueueTied(c, place, w)
  /\ LedgerTied(c, place, w)
  /\ Exclusive(c, place, w)

-----------------------------------------------------------------------------
(* The critical sections *)

\* Where everything is tied, an entry of the queue is its goroutine's acquisition.
LEMMA QueueEntries ==
  ASSUME NEW c, NEW place, NEW w, Typed(c, place, w), QueueTied(c, place, w)
  PROVE  /\ \A x \in Elems(c.waiters) :
              x.id \in QueuedIn(c, place) /\ x = w[x.id]
         /\ \A p \in QueuedIn(c, place) : w[p] \in Elems(c.waiters)
         /\ c.waiters \in Seq(Waiter)
<1>1. \A p \in Procs : w[p].id = p
  BY DEF Typed
<1>2. QueuedIn(c, place) \subseteq Procs
  BY DEF QueuedIn
<1>3. c.waiters \in Seq(Waiter)
  BY DEF Typed, Core
<1> QED
  BY <1>1, <1>2, <1>3 DEF QueueTied

\* Where the head of the queue cannot own the lock, a queue has somebody it waits for.
LEMMA SomebodyOwns ==
  ASSUME NEW c, NEW place, NEW w, Tied(c, place, w), ~HeadCompatible(c),
         QueuedIn(c, place) # {}
  PROVE  \E q \in Procs : OwnsIn(c, place, q)
<1>1. Typed(c, place, w) /\ QueueTied(c, place, w) /\ LedgerTied(c, place, w)
  BY DEF Tied
<1>2. c.waiters # <<>>
  BY <1>1, QueueEntries DEF Elems
<1>3. c.writer \/ c.readers # 0
  BY <1>2 DEF HeadCompatible
<1>4. WritersIn(c, place, w) # {} \/ ReadersIn(c, place, w) # {}
  BY <1>1, <1>3, FS_EmptySet DEF LedgerTied
<1> QED
  BY <1>4 DEF WritersIn, ReadersIn

\* Expired waiters leave the queue and nobody gains or loses ownership.
LEMMA RejectPreserves ==
  ASSUME NEW c, NEW place, NEW w, Tied(c, place, w), NEW gone
  PROVE  LET d == RejectCancelledWaiters(c, gone)
         IN  /\ Tied(d, place, w)
             /\ d.cancelled = c.cancelled
             /\ Len(d.waiters) <= Len(c.waiters)
<1> DEFINE expired == {x \in Elems(c.waiters) : x.id \in gone}
           out == {x.id : x \in expired}
           d == RejectCancelledWaiters(c, gone)
<1>0. Typed(c, place, w) /\ QueueTied(c, place, w) /\ c \in Core
  BY DEF Tied, Typed
<1>1. /\ \A x \in Elems(c.waiters) : x.id \in QueuedIn(c, place) /\ x = w[x.id]
      /\ \A p \in QueuedIn(c, place) : w[p] \in Elems(c.waiters)
      /\ c.waiters \in Seq(Waiter)
  BY <1>0, QueueEntries
<1>2. /\ Without(c.waiters, expired) \in Seq(Waiter)
      /\ Elems(Without(c.waiters, expired)) = Elems(c.waiters) \ expired
      /\ Len(Without(c.waiters, expired)) <= Len(c.waiters)
      /\ Distinct(Without(c.waiters, expired))
  BY <1>0, <1>1, WithoutProperties DEF QueueTied
<1>3. \A p \in QueuedIn(c, place) : w[p].id = p /\ p \in Procs
  BY <1>0 DEF Typed, QueuedIn
<1>4. out \subseteq QueuedIn(c, place)
  BY <1>1
<1>5. \A p \in QueuedIn(c, place) : w[p] \in expired <=> p \in out
  BY <1>1, <1>3
<1> HIDE DEF expired
<1>6. /\ d \in Core
      /\ d.waiters = Without(c.waiters, expired)
      /\ d.verdict = [p \in Procs |-> IF p \in out THEN "context" ELSE c.verdict[p]]
      /\ d.readers = c.readers /\ d.writer = c.writer
      /\ d.writerAttempt = c.writerAttempt
      /\ d.guardedReaders = c.guardedReaders /\ d.cancelled = c.cancelled
  <2> DEFINE v == [p \in Procs |-> IF p \in out THEN "context" ELSE c.verdict[p]]
             ver == IF expired = {} THEN c.version ELSE Bump(c, 1)
  <2>1. ver \in 0..(VersionModulus - 1)
    BY <1>0, BumpType DEF Core
  <2>2. v \in [Procs -> Verdicts]
    BY <1>0 DEF Core, Verdicts
  <2>3. d = [c EXCEPT !.waiters = Without(c.waiters, expired), !.verdict = v, !.version = ver]
    BY DEF RejectCancelledWaiters, expired
  <2> HIDE DEF v, ver, d, out
  <2>4. d.verdict = v /\ d.waiters = Without(c.waiters, expired)
    BY <2>3, <1>0 DEF Core
  <2> QED
    BY <2>1, <2>2, <2>3, <2>4, <1>0, <1>2 DEF Core, v
<1> HIDE DEF d, out
<1>7. QueuedIn(d, place) = QueuedIn(c, place) \ out
  BY <1>4, <1>6 DEF QueuedIn
<1>8. \A p \in Procs : OwnsIn(d, place, p) <=> OwnsIn(c, place, p)
  BY <1>4, <1>6 DEF OwnsIn, QueuedIn
<1>9. ReadersIn(d, place, w) = ReadersIn(c, place, w) /\ WritersIn(d, place, w) = WritersIn(c, place, w)
  BY <1>8 DEF ReadersIn, WritersIn
<1>10. Typed(d, place, w)
  <2>1. \A p \in out : place[p] = "waiting"
    BY <1>4 DEF QueuedIn
  <2> QED
    BY <1>0, <1>6, <2>1 DEF Typed
<1>11. QueueTied(d, place, w)
  <2>1. Elems(c.waiters) = {w[p] : p \in QueuedIn(c, place)}
    BY <1>0 DEF QueueTied
  <2> QED
    BY <1>2, <1>5, <1>6, <1>7, <2>1 DEF QueueTied
<1>12. LedgerTied(d, place, w) /\ Exclusive(d, place, w)
  BY <1>6, <1>9 DEF Tied, LedgerTied, Exclusive
<1> QED
  BY <1>2, <1>6, <1>10, <1>11, <1>12 DEF Tied, d

\* A writer at the head of the queue of a free lock becomes its only owner.
LEMMA GrantWriterPreserves ==
  ASSUME NEW c, NEW place, NEW w, Tied(c, place, w),
         HeadCompatible(c), Head(c.waiters).mode = "write"
  PROVE  LET g == GrantHead(c)
         IN  /\ Tied(g, place, w)
             /\ g.writer /\ g.cancelled = c.cancelled
             /\ Len(g.waiters) <= Len(c.waiters)
<1> DEFINE h == Head(c.waiters)
           p == h.id
           g == GrantHead(c)
<1>0. Typed(c, place, w) /\ QueueTied(c, place, w) /\ c \in Core
  BY DEF Tied, Typed
<1>1. /\ \A x \in Elems(c.waiters) : x.id \in QueuedIn(c, place) /\ x = w[x.id]
      /\ c.waiters \in Seq(Waiter)
  BY <1>0, QueueEntries
<1>2. c.waiters # <<>> /\ ~c.writer /\ c.readers = 0
  BY DEF HeadCompatible
<1>3. Distinct(c.waiters)
  BY <1>0 DEF QueueTied
<1>4. /\ h \in Elems(c.waiters) /\ h \in Waiter
      /\ Tail(c.waiters) \in Seq(Waiter)
      /\ Len(Tail(c.waiters)) <= Len(c.waiters)
      /\ Distinct(Tail(c.waiters))
      /\ Elems(Tail(c.waiters)) = Elems(c.waiters) \ {h}
  BY <1>1, <1>2, <1>3, TailProperties
<1>5. p \in QueuedIn(c, place) /\ h = w[p] /\ p \in Procs /\ w[p].mode = "write"
  BY <1>1, <1>4 DEF QueuedIn
<1>6. /\ g \in Core
      /\ g.waiters = Tail(c.waiters)
      /\ g.verdict = [c.verdict EXCEPT ![p] = "granted"]
      /\ g.readers = c.readers /\ g.writer = TRUE
      /\ g.writerAttempt = AttemptOf(h)
      /\ g.guardedReaders = c.guardedReaders /\ g.cancelled = c.cancelled
  <2> DEFINE v == [c.verdict EXCEPT ![p] = "granted"]
             ver == Bump(c, 1)
  <2>1. ver \in 0..(VersionModulus - 1)
    BY <1>0, BumpType
  <2>2. v \in [Procs -> Verdicts] /\ AttemptOf(h) \in Procs \union {NoAttempt}
    BY <1>0, <1>5 DEF Core, Verdicts, AttemptOf
  <2>3. g = [c EXCEPT !.writer = TRUE, !.writerAttempt = AttemptOf(h), !.version = ver,
                      !.waiters = Tail(c.waiters), !.verdict = v]
    BY <1>0 DEF GrantHead, Grant, Core
  <2> HIDE DEF v, ver, g, h
  <2> QED
    BY <2>1, <2>2, <2>3, <1>0, <1>4 DEF Core, v
<1> HIDE DEF g, h
<1>7. QueuedIn(g, place) = QueuedIn(c, place) \ {p}
  BY <1>0, <1>5, <1>6 DEF QueuedIn, Core
<1>8. \A q \in Procs : OwnsIn(g, place, q) <=> OwnsIn(c, place, q) \/ q = p
  BY <1>0, <1>5, <1>6 DEF OwnsIn, QueuedIn, Core
<1>9. WritersIn(c, place, w) = {} /\ ReadersIn(c, place, w) = {}
  <2>1. Cardinality(ReadersIn(c, place, w)) = 0
    BY <1>2 DEF Tied, LedgerTied
  <2>2. IsFiniteSet(ReadersIn(c, place, w))
    BY FiniteProcs DEF ReadersIn
  <2> QED
    BY <1>2, <2>1, <2>2, FS_EmptySet DEF Tied, LedgerTied
<1>10. WritersIn(g, place, w) = {p} /\ ReadersIn(g, place, w) = {}
  BY <1>5, <1>8, <1>9 DEF ReadersIn, WritersIn
<1>11. Typed(g, place, w)
  BY <1>0, <1>5, <1>6 DEF Typed, QueuedIn, Core
<1>12. QueueTied(g, place, w)
  <2>1. Elems(c.waiters) = {w[q] : q \in QueuedIn(c, place)}
    BY <1>0 DEF QueueTied
  <2>2. \A q \in QueuedIn(c, place) : w[q] = h <=> q = p
    BY <1>0, <1>5 DEF Typed, QueuedIn
  <2> QED
    BY <1>4, <1>6, <1>7, <2>1, <2>2 DEF QueueTied
<1>13. LedgerTied(g, place, w)
  <2>1. g.readers = Cardinality(ReadersIn(g, place, w))
    BY <1>2, <1>6, <1>10, FS_EmptySet
  <2>2. g.guardedReaders = {q \in ReadersIn(g, place, w) : w[q].guarded}
    <3>1. c.guardedReaders = {}
      BY <1>9 DEF Tied, LedgerTied
    <3> QED
      BY <3>1, <1>6, <1>10
  <2> QED
    BY <2>1, <2>2, <1>5, <1>6, <1>10 DEF LedgerTied
<1>14. Exclusive(g, place, w)
  BY <1>10 DEF Exclusive
<1> QED
  BY <1>4, <1>6, <1>11, <1>12, <1>13, <1>14 DEF Tied, g

\* The first n waiters of a queue, all readers, join the owners of a lock that has
\* no writer.
LEMMA GrantReadersPreserves ==
  ASSUME NEW c, NEW place, NEW w, Tied(c, place, w), ~c.writer,
         NEW n \in 0..Len(c.waiters), \A i \in 1..n : c.waiters[i].mode = "read"
  PROVE  LET g == GrantReaders(c, n)
         IN  /\ Tied(g, place, w)
             /\ g.writer = c.writer /\ g.cancelled = c.cancelled
             /\ g.readers = c.readers + n
             /\ g.waiters = SubSeq(c.waiters, n + 1, Len(c.waiters))
             /\ Len(g.waiters) = Len(c.waiters) - n
<1> DEFINE batch == {c.waiters[i] : i \in 1..n}
           in == {x.id : x \in batch}
           front == {c.waiters[i].id : i \in 1..n}
           rest == SubSeq(c.waiters, n + 1, Len(c.waiters))
           g == GrantReaders(c, n)
<1>0. Typed(c, place, w) /\ QueueTied(c, place, w) /\ c \in Core
  BY DEF Tied, Typed
<1>1. /\ \A x \in Elems(c.waiters) : x.id \in QueuedIn(c, place) /\ x = w[x.id]
      /\ c.waiters \in Seq(Waiter)
  BY <1>0, QueueEntries
<1>2. Distinct(c.waiters) /\ n \in Nat
  BY <1>0, <1>1 DEF QueueTied
<1>3. /\ rest \in Seq(Waiter)
      /\ Len(rest) = Len(c.waiters) - n
      /\ Distinct(rest)
      /\ Elems(rest) = Elems(c.waiters) \ batch
  <2> DEFINE q == c.waiters
  <2>1. q \in Seq(Waiter) /\ Distinct(q) /\ n \in 0..Len(q)
    BY <1>1, <1>2
  <2> HIDE DEF q
  <2>2. /\ SubSeq(q, n + 1, Len(q)) \in Seq(Waiter)
        /\ Len(SubSeq(q, n + 1, Len(q))) = Len(q) - n
        /\ Distinct(SubSeq(q, n + 1, Len(q)))
        /\ Elems(SubSeq(q, n + 1, Len(q))) = Elems(q) \ {q[i] : i \in 1..n}
    BY <2>1, RestProperties, ZenonT(60)
  <2> QED
    BY <2>2, Zenon DEF q
<1>4. IsFiniteSet(front) /\ Cardinality(front) = n
  BY <1>1, <1>2, FrontCount, ZenonT(60)
<1>5. in = front
  OBVIOUS
<1>6. batch \subseteq Elems(c.waiters) /\ \A x \in batch : x.mode = "read"
  <2>1. 1..n \subseteq DOMAIN c.waiters
    BY <1>1
  <2> QED
    BY <2>1 DEF Elems
<1> HIDE DEF batch, rest, front
<1>7. /\ in \subseteq QueuedIn(c, place)
      /\ \A p \in in : p \in Procs /\ w[p] \in batch /\ w[p].mode = "read"
  BY <1>1, <1>6 DEF QueuedIn
<1>8. \A p \in QueuedIn(c, place) : w[p] \in batch <=> p \in in
  <2>1. \A p \in QueuedIn(c, place) : w[p].id = p
    BY <1>0 DEF Typed, QueuedIn
  <2> QED
    BY <1>7, <2>1
<1>9. /\ g \in Core
      /\ g.waiters = rest
      /\ g.verdict = [p \in Procs |-> IF p \in in THEN "granted" ELSE c.verdict[p]]
      /\ g.readers = c.readers + n
      /\ g.guardedReaders = c.guardedReaders \union {p \in in : w[p].guarded}
      /\ g.writer = c.writer /\ g.writerAttempt = c.writerAttempt
      /\ g.cancelled = c.cancelled
  <2> DEFINE v == [p \in Procs |-> IF p \in in THEN "granted" ELSE c.verdict[p]]
             ver == Bump(c, n)
             gr == c.guardedReaders \union {x.id : x \in {y \in batch : y.guarded}}
  <2>1. ver \in 0..(VersionModulus - 1)
    BY <1>0, <1>2, BumpType
  <2>2. v \in [Procs -> Verdicts]
    BY <1>0 DEF Core, Verdicts
  <2>3. gr = c.guardedReaders \union {p \in in : w[p].guarded}
    <3>1. \A x \in batch : x = w[x.id]
      BY <1>1, <1>6
    <3> QED
      BY <3>1
  <2>4. gr \in SUBSET Procs
    BY <1>0, <1>7, <2>3 DEF Core
  <2>5. c.readers + n \in Nat
    BY <1>0, <1>2 DEF Core
  <2>6. g = [c EXCEPT !.waiters = rest, !.readers = c.readers + n, !.guardedReaders = gr,
                      !.verdict = v, !.version = ver]
    BY <1>0 DEF GrantReaders, batch, rest, Core
  <2> HIDE DEF v, ver, gr, g
  <2>7. g.verdict = v /\ g.guardedReaders = gr
    BY <2>6, <1>0 DEF Core
  <2> QED
    BY <2>1, <2>2, <2>3, <2>4, <2>5, <2>6, <2>7, <1>0, <1>3 DEF Core, v
<1> HIDE DEF g, in
<1>10. QueuedIn(g, place) = QueuedIn(c, place) \ in
  BY <1>7, <1>9 DEF QueuedIn
<1>11. \A q \in Procs : OwnsIn(g, place, q) <=> OwnsIn(c, place, q) \/ q \in in
  BY <1>7, <1>9 DEF OwnsIn, QueuedIn
<1>12. /\ WritersIn(g, place, w) = WritersIn(c, place, w)
       /\ ReadersIn(g, place, w) = ReadersIn(c, place, w) \union in
  BY <1>7, <1>11 DEF ReadersIn, WritersIn
<1>13. ReadersIn(c, place, w) \intersect in = {}
  BY <1>0, <1>7 DEF ReadersIn, OwnsIn, QueuedIn, Typed
<1>14. Typed(g, place, w)
  BY <1>0, <1>7, <1>9 DEF Typed, QueuedIn
<1>15. QueueTied(g, place, w)
  <2>1. Elems(c.waiters) = {w[q] : q \in QueuedIn(c, place)}
    BY <1>0 DEF QueueTied
  <2> QED
    BY <1>3, <1>8, <1>9, <1>10, <2>1 DEF QueueTied
<1>16. LedgerTied(g, place, w)
  <2>1. IsFiniteSet(ReadersIn(c, place, w)) /\ Cardinality(ReadersIn(c, place, w)) \in Nat
    BY FiniteProcs DEF ReadersIn
  <2>2. Cardinality(ReadersIn(c, place, w) \union in)
          = Cardinality(ReadersIn(c, place, w)) + n
    <3>1. Cardinality({}) = 0
      BY FS_EmptySet
    <3> QED
      BY <1>2, <1>4, <1>5, <1>13, <2>1, <3>1, FS_Union
  <2>3. LedgerTied(c, place, w)
    BY DEF Tied
  <2>4. g.readers = Cardinality(ReadersIn(g, place, w))
    BY <1>9, <1>12, <2>2, <2>3 DEF LedgerTied
  <2>5. g.guardedReaders = {q \in ReadersIn(g, place, w) : w[q].guarded}
    BY <1>9, <1>12, <2>3 DEF LedgerTied
  <2>6. WritersIn(g, place, w) = {} /\ ~g.writer
    BY <1>9, <1>12, <2>3 DEF LedgerTied
  <2> QED
    BY <2>4, <2>5, <2>6 DEF LedgerTied
<1>17. Exclusive(g, place, w)
  BY <1>12 DEF Tied, LedgerTied, Exclusive
<1> QED
  BY <1>3, <1>9, <1>14, <1>15, <1>16, <1>17 DEF Tied, g, rest

\* The queue is served: whoever can own the lock now does, and what is left at the
\* head of the queue cannot.
LEMMA GrantWaitersPreserves ==
  ASSUME NEW c, NEW place, NEW w, Tied(c, place, w), NEW gone
  PROVE  LET g == GrantWaiters(c, gone)
         IN  /\ Tied(g, place, w)
             /\ ~HeadCompatible(g)
             /\ g.cancelled = c.cancelled
             /\ Len(g.waiters) <= Len(c.waiters)
<1> DEFINE d == RejectCancelledWaiters(c, gone)
           n == LeadingReaders(d.waiters)
           g == GrantWaiters(c, gone)
<1>1. /\ Tied(d, place, w)
      /\ d.cancelled = c.cancelled
      /\ Len(d.waiters) <= Len(c.waiters)
  BY RejectPreserves
<1> HIDE DEF d
<1>2. /\ d.waiters \in Seq(Waiter) /\ c.waiters \in Seq(Waiter)
      /\ d.readers \in Nat
  BY <1>1 DEF Tied, Typed, Core
<1>3. /\ Len(d.waiters) \in Nat /\ Len(c.waiters) \in Nat
  BY <1>2
<1>4. CASE ~HeadCompatible(d)
  <2>1. g = d
    BY <1>4 DEF GrantWaiters, d
  <2> QED
    BY <1>1, <1>4, <2>1
<1>5. CASE HeadCompatible(d) /\ Head(d.waiters).mode = "write"
  <2>1. g = GrantHead(d)
    BY <1>5 DEF GrantWaiters, d
  <2> HIDE DEF g
  <2>2. /\ Tied(g, place, w)
        /\ g.writer /\ g.cancelled = d.cancelled
        /\ Len(g.waiters) <= Len(d.waiters)
    BY <1>1, <1>5, <2>1, GrantWriterPreserves
  <2>3. Len(g.waiters) \in Nat
    BY <2>2 DEF Tied, Typed, Core
  <2>4. ~HeadCompatible(g)
    BY <2>2 DEF HeadCompatible
  <2> QED
    BY <1>1, <1>3, <2>2, <2>3, <2>4 DEF g
<1>6. CASE HeadCompatible(d) /\ Head(d.waiters).mode # "write"
  <2>1. g = GrantReaders(d, n)
    BY <1>6 DEF GrantWaiters, d
  <2>2. /\ n \in 0..Len(d.waiters)
        /\ \A i \in 1..n : d.waiters[i].mode = "read"
        /\ n < Len(d.waiters) => d.waiters[n + 1].mode # "read"
    BY <1>2, LeadingReadersProperties, Zenon
  <2> HIDE DEF n, g
  <2>3. ~d.writer /\ d.waiters # <<>>
    BY <1>6 DEF HeadCompatible
  <2>4. /\ Tied(g, place, w)
        /\ g.cancelled = d.cancelled
        /\ g.readers = d.readers + n
        /\ g.waiters = SubSeq(d.waiters, n + 1, Len(d.waiters))
        /\ Len(g.waiters) = Len(d.waiters) - n
    BY <1>1, <2>1, <2>2, <2>3, GrantReadersPreserves, Zenon
  <2>5. n # 0
    <3>1. Head(d.waiters) = d.waiters[1] /\ d.waiters[1] \in Waiter /\ 0 < Len(d.waiters)
      BY <1>2, <2>3
    <3>2. d.waiters[1].mode = "read"
      BY <1>6, <3>1 DEF Waiter, Modes
    <3> QED
      BY <2>2, <3>1, <3>2
  <2>6. ASSUME g.waiters # <<>> PROVE Head(g.waiters).mode = "write"
    <3>1. n < Len(d.waiters)
      BY <1>2, <1>3, <2>2, <2>4, <2>6
    <3>2. Head(g.waiters) = d.waiters[n + 1]
      BY <1>2, <2>2, <2>4, <3>1
    <3>3. d.waiters[n + 1] \in Waiter
      BY <1>2, <2>2, <3>1
    <3> QED
      BY <2>2, <3>1, <3>2, <3>3 DEF Waiter, Modes
  <2>7. g.readers # 0
    BY <1>2, <2>2, <2>4, <2>5
  <2>8. ~HeadCompatible(g)
    BY <2>6, <2>7 DEF HeadCompatible
  <2>9. Len(g.waiters) <= Len(c.waiters)
    BY <1>1, <1>3, <2>2, <2>4
  <2> QED
    BY <1>1, <2>4, <2>8, <2>9 DEF g
<1> QED
  BY <1>4, <1>5, <1>6

\* Leaving the queue by oneself is being rejected from it alone.
LEMMA CancelWaiterIsReject ==
  ASSUME NEW c, NEW place, NEW w, Tied(c, place, w), NEW gone,
         NEW p \in QueuedIn(c, place)
  PROVE  CancelWaiter(c, p, gone) = GrantWaiters(RejectCancelledWaiters(c, {p}), gone)
<1> DEFINE own == {x \in Elems(c.waiters) : x.id = p}
           expired == {x \in Elems(c.waiters) : x.id \in {p}}
           left == [c EXCEPT !.waiters = Without(c.waiters, own),
                             !.verdict = [c.verdict EXCEPT ![p] = "context"],
                             !.version = IF own = {} THEN c.version ELSE Bump(c, 1)]
<1>0. Typed(c, place, w) /\ QueueTied(c, place, w) /\ c \in Core
  BY DEF Tied, Typed
<1>1. p \in Procs /\ c.verdict[p] = "none"
  BY DEF QueuedIn
<1>2. own = expired
  OBVIOUS
<1>3. {x.id : x \in expired} = {p}
  <2>1. w[p] \in Elems(c.waiters) /\ w[p].id = p
    BY <1>0, <1>1, QueueEntries DEF Typed
  <2> QED
    BY <2>1
<1>4. [c.verdict EXCEPT ![p] = "context"]
        = [q \in Procs |-> IF q \in {x.id : x \in expired} THEN "context" ELSE c.verdict[q]]
  <2>1. c.verdict \in [Procs -> Verdicts]
    BY <1>0 DEF Core
  <2> HIDE DEF expired
  <2> QED
    BY <1>3, <2>1
<1>5. CancelWaiter(c, p, gone) = GrantWaiters(left, gone)
  BY <1>0, <1>1 DEF CancelWaiter, Core
<1>6. left = RejectCancelledWaiters(c, {p})
  <2> HIDE DEF own
  <2> QED
    BY <1>0, <1>2, <1>4 DEF RejectCancelledWaiters, Core
<1> QED
  BY <1>5, <1>6, Zenon

\* A goroutine that joins the queue of a lock it cannot have at once is tied to its
\* entry, and does not make the head of the queue grantable.
LEMMA EnqueuePreserves ==
  ASSUME NEW c, NEW place, NEW w, Tied(c, place, w), ~HeadCompatible(c),
         NEW x \in Waiter, place[x.id] \notin {"waiting", "holding", "gone"},
         ~CanAcquireImmediately(c, x.mode)
  PROVE  LET e == Enqueue(c, x)
         IN  /\ Tied(e, [place EXCEPT ![x.id] = "waiting"], [w EXCEPT ![x.id] = x])
             /\ ~HeadCompatible(e)
             /\ e.cancelled = c.cancelled
             /\ Len(e.waiters) = Len(c.waiters) + 1
<1> DEFINE p == x.id
           e == Enqueue(c, x)
           place2 == [place EXCEPT ![p] = "waiting"]
           w2 == [w EXCEPT ![p] = x]
<1>0. Typed(c, place, w) /\ QueueTied(c, place, w) /\ c \in Core
  BY DEF Tied, Typed
<1>1. p \in Procs /\ place2 \in [Procs -> Stations] /\ w2 \in [Procs -> Waiter]
  BY <1>0 DEF Typed, Waiter, Stations
<1>2. /\ \A y \in Elems(c.waiters) : y.id \in QueuedIn(c, place) /\ y = w[y.id]
      /\ c.waiters \in Seq(Waiter)
  BY <1>0, QueueEntries
<1>3. c.verdict[p] = "none" /\ p \notin QueuedIn(c, place) /\ ~OwnsIn(c, place, p)
  BY <1>0, <1>1 DEF Typed, QueuedIn, OwnsIn
<1>4. /\ Append(c.waiters, x) \in Seq(Waiter)
      /\ Len(Append(c.waiters, x)) = Len(c.waiters) + 1
      /\ Distinct(Append(c.waiters, x))
      /\ Elems(Append(c.waiters, x)) = Elems(c.waiters) \union {x}
  <2>1. \A i \in DOMAIN c.waiters : c.waiters[i].id # p
    BY <1>2, <1>3 DEF Elems
  <2> QED
    BY <1>0, <1>2, <2>1, AppendDistinct DEF QueueTied
<1>5. /\ e \in Core
      /\ e.waiters = Append(c.waiters, x)
      /\ e.verdict = c.verdict
      /\ e.readers = c.readers /\ e.writer = c.writer
      /\ e.writerAttempt = c.writerAttempt
      /\ e.guardedReaders = c.guardedReaders /\ e.cancelled = c.cancelled
  <2>1. Bump(c, 1) \in 0..(VersionModulus - 1)
    BY <1>0, BumpType
  <2> DEFINE ver == Bump(c, 1)
  <2>2. e = [c EXCEPT !.waiters = Append(c.waiters, x), !.version = ver]
    BY DEF Enqueue
  <2> HIDE DEF ver, e
  <2> QED
    BY <1>0, <1>4, <2>1, <2>2 DEF Core, ver
<1> HIDE DEF e
<1>6. QueuedIn(e, place2) = QueuedIn(c, place) \union {p}
  BY <1>0, <1>1, <1>3, <1>5 DEF QueuedIn, Typed
<1>7. \A q \in Procs : OwnsIn(e, place2, q) <=> OwnsIn(c, place, q)
  BY <1>0, <1>1, <1>3, <1>5 DEF OwnsIn, Typed
<1>8. \A q \in Procs : q # p => w2[q] = w[q]
  BY <1>0 DEF Typed
<1>9. w2[p] = x
  BY <1>0, <1>1 DEF Typed
<1> HIDE DEF p, w2, place2
<1>10. /\ WritersIn(e, place2, w2) = WritersIn(c, place, w)
       /\ ReadersIn(e, place2, w2) = ReadersIn(c, place, w)
       /\ \A q \in WritersIn(c, place, w) \union ReadersIn(c, place, w) : w2[q] = w[q]
  BY <1>3, <1>7, <1>8 DEF WritersIn, ReadersIn
<1>11. Typed(e, place2, w2)
  <2>1. \A q \in Procs : w2[q].id = q
    BY <1>0, <1>8, <1>9 DEF Typed, p
  <2>2. \A q \in Procs : place2[q] \notin {"waiting", "gone"} => c.verdict[q] = "none"
    BY <1>0, <1>1, <1>3 DEF Typed, place2
  <2> QED
    BY <1>1, <1>5, <2>1, <2>2 DEF Typed
<1>12. QueueTied(e, place2, w2)
  <2>1. Elems(c.waiters) = {w[q] : q \in QueuedIn(c, place)}
    BY <1>0 DEF QueueTied
  <2>2. \A q \in QueuedIn(c, place) : w2[q] = w[q]
    BY <1>3, <1>8 DEF QueuedIn
  <2> QED
    BY <1>4, <1>5, <1>6, <1>9, <2>1, <2>2 DEF QueueTied
<1>13. LedgerTied(e, place2, w2) /\ Exclusive(e, place2, w2)
  BY <1>5, <1>10 DEF Tied, LedgerTied, Exclusive
<1>14. ~HeadCompatible(e)
  <2>1. CASE c.waiters = <<>>
    <3>1. Head(Append(c.waiters, x)) = x
      BY <2>1
    <3> QED
      BY <1>5, <2>1, <3>1 DEF HeadCompatible, CanAcquireImmediately
  <2>2. CASE c.waiters # <<>>
    <3>1. Head(Append(c.waiters, x)) = Head(c.waiters)
      BY <1>2, <2>2
    <3> QED
      BY <1>5, <2>2, <3>1 DEF HeadCompatible
  <2> QED
    BY <2>1, <2>2
<1> QED
  BY <1>4, <1>5, <1>11, <1>12, <1>13, <1>14 DEF Tied, e, p, w2, place2

\* A goroutine that finds the lock free for it becomes an owner, and the queue it
\* found empty stays so.
LEMMA GrantPreserves ==
  ASSUME NEW c, NEW place, NEW w, Tied(c, place, w),
         NEW x \in Waiter, place[x.id] \notin {"waiting", "holding", "gone"},
         CanAcquireImmediately(c, x.mode)
  PROVE  LET g == Grant(c, x)
         IN  /\ Tied(g, [place EXCEPT ![x.id] = "holding"], [w EXCEPT ![x.id] = x])
             /\ ~HeadCompatible(g)
             /\ g.cancelled = c.cancelled
             /\ g.waiters = <<>>
<1> DEFINE p == x.id
           g == Grant(c, x)
           place2 == [place EXCEPT ![p] = "holding"]
           w2 == [w EXCEPT ![p] = x]
<1>0. Typed(c, place, w) /\ QueueTied(c, place, w) /\ c \in Core
  BY DEF Tied, Typed
<1>1. p \in Procs /\ place2 \in [Procs -> Stations] /\ w2 \in [Procs -> Waiter]
  BY <1>0 DEF Typed, Waiter, Stations
<1>2. c.verdict[p] = "none" /\ p \notin QueuedIn(c, place) /\ ~OwnsIn(c, place, p)
  BY <1>0, <1>1 DEF Typed, QueuedIn, OwnsIn
<1>3. c.waiters = <<>> /\ ~c.writer /\ (x.mode = "write" => c.readers = 0)
  BY DEF CanAcquireImmediately
<1>4. x.mode \in {"write", "read"} /\ x.guarded \in BOOLEAN
  BY DEF Waiter, Modes
<1>5. /\ g \in Core
      /\ g.waiters = c.waiters /\ g.verdict = c.verdict /\ g.cancelled = c.cancelled
      /\ x.mode = "write" =>
           /\ g.writer = TRUE /\ g.writerAttempt = AttemptOf(x)
           /\ g.readers = c.readers /\ g.guardedReaders = c.guardedReaders
      /\ x.mode = "read" =>
           /\ g.writer = c.writer /\ g.writerAttempt = c.writerAttempt
           /\ g.readers = c.readers + 1
           /\ g.guardedReaders = c.guardedReaders \union (IF x.guarded THEN {p} ELSE {})
  <2> DEFINE ver == Bump(c, 1)
             gr == IF x.guarded THEN c.guardedReaders \union {p} ELSE c.guardedReaders
             own == AttemptOf(x)
  <2>1. ver \in 0..(VersionModulus - 1)
    BY <1>0, BumpType
  <2>2. gr \in SUBSET Procs /\ own \in Procs \union {NoAttempt} /\ c.readers + 1 \in Nat
    BY <1>0, <1>1 DEF Core, AttemptOf
  <2>3. x.mode = "write" =>
          g = [c EXCEPT !.writer = TRUE, !.writerAttempt = own, !.version = ver]
    BY DEF Grant
  <2>4. x.mode = "read" =>
          g = [c EXCEPT !.readers = c.readers + 1, !.guardedReaders = gr, !.version = ver]
    BY <1>0 DEF Grant, Core
  <2>5. gr = c.guardedReaders \union (IF x.guarded THEN {p} ELSE {})
    OBVIOUS
  <2> HIDE DEF ver, gr, own, g, p
  <2>6. CASE x.mode = "write"
    BY <1>0, <2>1, <2>2, <2>3, <2>6 DEF Core, own
  <2>7. CASE x.mode = "read"
    BY <1>0, <2>1, <2>2, <2>4, <2>5, <2>7 DEF Core
  <2> QED
    BY <1>4, <2>6, <2>7
<1> HIDE DEF g
<1>6. QueuedIn(g, place2) = QueuedIn(c, place)
  BY <1>0, <1>1, <1>2, <1>5 DEF QueuedIn, Typed
<1>7. \A q \in Procs : OwnsIn(g, place2, q) <=> OwnsIn(c, place, q) \/ q = p
  BY <1>0, <1>1, <1>2, <1>5 DEF OwnsIn, Typed
<1>8. \A q \in Procs : q # p => w2[q] = w[q]
  BY <1>0 DEF Typed
<1>9. w2[p] = x
  BY <1>0, <1>1 DEF Typed
<1>10. \A q \in Procs : w2[q].id = q
  BY <1>0, <1>8, <1>9 DEF Typed
<1>11. \A q \in Procs : place2[q] \notin {"waiting", "gone"} => g.verdict[q] = "none"
  BY <1>0, <1>1, <1>2, <1>5 DEF Typed
<1> HIDE DEF p, w2, place2
<1>12. Typed(g, place2, w2)
  BY <1>1, <1>5, <1>10, <1>11 DEF Typed
<1>13. QueueTied(g, place2, w2)
  <2>1. Elems(c.waiters) = {w[q] : q \in QueuedIn(c, place)}
    BY <1>0 DEF QueueTied
  <2>2. \A q \in QueuedIn(c, place) : w2[q] = w[q]
    BY <1>2, <1>8 DEF QueuedIn
  <2> QED
    BY <1>0, <1>5, <1>6, <2>1, <2>2 DEF QueueTied
<1>14. WritersIn(c, place, w) = {} /\ IsFiniteSet(ReadersIn(c, place, w))
  BY <1>3, FiniteProcs DEF Tied, LedgerTied, ReadersIn
<1>15. CASE x.mode = "write"
  <2>1. ReadersIn(c, place, w) = {}
    BY <1>3, <1>14, <1>15, FS_EmptySet DEF Tied, LedgerTied
  <2>2. WritersIn(g, place2, w2) = {p} /\ ReadersIn(g, place2, w2) = {}
    BY <1>1, <1>7, <1>8, <1>9, <1>14, <1>15, <2>1 DEF WritersIn, ReadersIn
  <2>3. c.guardedReaders = {}
    BY <2>1 DEF Tied, LedgerTied
  <2>4. LedgerTied(g, place2, w2)
    BY <1>3, <1>5, <1>9, <1>15, <2>2, <2>3, FS_EmptySet DEF LedgerTied
  <2>5. Exclusive(g, place2, w2)
    BY <2>2 DEF Exclusive
  <2>6. ~HeadCompatible(g)
    BY <1>3, <1>5 DEF HeadCompatible
  <2> QED
    BY <1>3, <1>5, <1>12, <1>13, <2>4, <2>5, <2>6 DEF Tied, g, p, w2, place2
<1>16. CASE x.mode = "read"
  <2>1. WritersIn(g, place2, w2) = {}
    BY <1>7, <1>8, <1>9, <1>14, <1>16 DEF WritersIn
  <2>2. /\ ReadersIn(g, place2, w2) = ReadersIn(c, place, w) \union {p}
        /\ p \notin ReadersIn(c, place, w)
        /\ \A q \in ReadersIn(c, place, w) : w2[q] = w[q]
    BY <1>1, <1>2, <1>7, <1>8, <1>9, <1>16 DEF ReadersIn
  <2>3. Cardinality(ReadersIn(c, place, w) \union {p}) = Cardinality(ReadersIn(c, place, w)) + 1
    BY <1>14, <2>2, FS_AddElement
  <2>4. c.guardedReaders = {q \in ReadersIn(c, place, w) : w[q].guarded}
        /\ c.readers = Cardinality(ReadersIn(c, place, w))
    BY DEF Tied, LedgerTied
  <2>5. g.guardedReaders = {q \in ReadersIn(g, place2, w2) : w2[q].guarded}
    BY <1>4, <1>5, <1>9, <1>16, <2>2, <2>4
  <2>6. LedgerTied(g, place2, w2)
    BY <1>3, <1>5, <1>16, <2>1, <2>2, <2>3, <2>4, <2>5 DEF LedgerTied
  <2>7. Exclusive(g, place2, w2)
    BY <2>1 DEF Exclusive
  <2>8. ~HeadCompatible(g)
    BY <1>3, <1>5 DEF HeadCompatible
  <2> QED
    BY <1>3, <1>5, <1>12, <1>13, <2>6, <2>7, <2>8 DEF Tied, g, p, w2, place2
<1> QED
  BY <1>4, <1>15, <1>16

\* A holder that unlocks what it acquired passes the checks of release, and is then
\* an owner no more.
LEMMA FreedPreserves ==
  ASSUME NEW c, NEW place, NEW w, Tied(c, place, w),
         NEW p \in Procs, place[p] = "holding",
         NEW attempt, attempt = IF w[p].guarded THEN p ELSE NoAttempt,
         NEW y \in Waiter, y.id = p
  PROVE  LET f == Freed(c, w[p].mode, attempt)
         IN  /\ ReleaseMatches(c, w[p].mode, attempt)
             /\ Tied(f, [place EXCEPT ![p] = "idle"], [w EXCEPT ![p] = y])
             /\ f.cancelled = c.cancelled
             /\ f.waiters = c.waiters
<1> DEFINE f == Freed(c, w[p].mode, attempt)
           place2 == [place EXCEPT ![p] = "idle"]
           w2 == [w EXCEPT ![p] = y]
<1>0. Typed(c, place, w) /\ QueueTied(c, place, w) /\ c \in Core
  BY DEF Tied, Typed
<1>1. /\ place2 \in [Procs -> Stations] /\ w2 \in [Procs -> Waiter]
      /\ \A q \in Procs : w2[q].id = q
  BY <1>0 DEF Typed, Stations
<1>2. /\ c.verdict[p] = "none" /\ p \notin QueuedIn(c, place) /\ OwnsIn(c, place, p)
      /\ w[p].id = p /\ w[p].mode \in {"write", "read"} /\ w[p].guarded \in BOOLEAN
  BY <1>0 DEF Typed, QueuedIn, OwnsIn, Waiter, Modes
<1>3. IsFiniteSet(ReadersIn(c, place, w)) /\ Cardinality(ReadersIn(c, place, w)) \in Nat
  BY FiniteProcs DEF ReadersIn
<1>4. LedgerTied(c, place, w) /\ Exclusive(c, place, w)
  BY DEF Tied
<1>5. /\ \A q \in Procs : q # p => w2[q] = w[q]
      /\ \A q \in Procs : q # p => place2[q] = place[q]
      /\ place2[p] = "idle"
  BY <1>0 DEF Typed
<1>6. CASE w[p].mode = "write"
  <2>1. WritersIn(c, place, w) = {p} /\ ReadersIn(c, place, w) = {}
    BY <1>2, <1>4, <1>6 DEF WritersIn, Exclusive
  <2>2. ReleaseMatches(c, w[p].mode, attempt)
    <3>1. c.writer /\ c.writerAttempt = AttemptOf(w[p])
      BY <1>4, <2>1 DEF LedgerTied
    <3> QED
      BY <1>2, <1>6, <3>1 DEF ReleaseMatches, AttemptOf
  <2>3. /\ f \in Core
        /\ f.waiters = c.waiters /\ f.verdict = c.verdict /\ f.cancelled = c.cancelled
        /\ f.writer = FALSE /\ f.readers = c.readers /\ f.guardedReaders = c.guardedReaders
    <3> DEFINE ver == Bump(c, 1)
    <3>1. ver \in 0..(VersionModulus - 1)
      BY <1>0, BumpType
    <3>2. f = [c EXCEPT !.writer = FALSE, !.writerAttempt = NoAttempt, !.version = ver]
      BY <1>6 DEF Freed
    <3> HIDE DEF ver, f
    <3> QED
      BY <1>0, <3>1, <3>2 DEF Core
  <2> HIDE DEF f, place2, w2
  <2>4. QueuedIn(f, place2) = QueuedIn(c, place)
    BY <1>2, <1>5, <2>3 DEF QueuedIn
  <2>5. \A q \in Procs : OwnsIn(f, place2, q) => OwnsIn(c, place, q) /\ q # p
    BY <1>5, <2>3 DEF OwnsIn
  <2>6. WritersIn(f, place2, w2) = {} /\ ReadersIn(f, place2, w2) = {}
    <3>1. \A q \in Procs : OwnsIn(c, place, q) => q = p
      BY <2>1, <1>0 DEF WritersIn, ReadersIn, Typed, Waiter, Modes
    <3> QED
      BY <2>5, <3>1 DEF WritersIn, ReadersIn
  <2>7. Typed(f, place2, w2)
    BY <1>0, <1>1, <1>2, <1>5, <2>3 DEF Typed
  <2>8. QueueTied(f, place2, w2)
    <3>1. Elems(c.waiters) = {w[q] : q \in QueuedIn(c, place)}
      BY <1>0 DEF QueueTied
    <3>2. \A q \in QueuedIn(c, place) : w2[q] = w[q]
      BY <1>2, <1>5 DEF QueuedIn
    <3> QED
      BY <1>0, <2>3, <2>4, <3>1, <3>2 DEF QueueTied
  <2>9. LedgerTied(f, place2, w2) /\ Exclusive(f, place2, w2)
    <3>1. c.readers = Cardinality({}) /\ c.guardedReaders = {}
      BY <1>4, <2>1 DEF LedgerTied
    <3> QED
      BY <2>3, <2>6, <3>1 DEF LedgerTied, Exclusive
  <2> QED
    BY <2>2, <2>3, <2>7, <2>8, <2>9 DEF Tied, f, place2, w2
<1>7. CASE w[p].mode = "read"
  <2>1. p \in ReadersIn(c, place, w) /\ WritersIn(c, place, w) = {}
    BY <1>2, <1>4, <1>7 DEF ReadersIn, Exclusive
  <2>2. /\ Cardinality(ReadersIn(c, place, w) \ {p}) = Cardinality(ReadersIn(c, place, w)) - 1
        /\ Cardinality(ReadersIn(c, place, w) \ {p}) \in Nat
        /\ Cardinality(ReadersIn(c, place, w)) > 0
    <3>1. Cardinality(ReadersIn(c, place, w) \ {p}) = Cardinality(ReadersIn(c, place, w)) - 1
      BY <1>3, <2>1, FS_RemoveElement
    <3>2. Cardinality(ReadersIn(c, place, w) \ {p}) \in Nat
      BY FiniteProcs DEF ReadersIn
    <3> QED
      BY <1>3, <3>1, <3>2
  <2>3. /\ c.readers = Cardinality(ReadersIn(c, place, w))
        /\ c.guardedReaders = {q \in ReadersIn(c, place, w) : w[q].guarded}
        /\ ~c.writer
    BY <1>4, <2>1 DEF LedgerTied
  <2>4. ReleaseMatches(c, w[p].mode, attempt)
    BY <1>7, <2>1, <2>2, <2>3 DEF ReleaseMatches
  <2>5. /\ f \in Core
        /\ f.waiters = c.waiters /\ f.verdict = c.verdict /\ f.cancelled = c.cancelled
        /\ f.writer = c.writer /\ f.readers = c.readers - 1
        /\ f.guardedReaders = c.guardedReaders \ {attempt}
    <3> DEFINE ver == Bump(c, 1)
               gr == c.guardedReaders \ {attempt}
    <3>1. ver \in 0..(VersionModulus - 1)
      BY <1>0, BumpType
    <3>2. gr \in SUBSET Procs /\ c.readers - 1 \in Nat
      BY <1>0, <2>2, <2>3 DEF Core
    <3>3. f = [c EXCEPT !.readers = c.readers - 1, !.guardedReaders = gr, !.version = ver]
      BY <1>0, <1>7 DEF Freed, Core
    <3> HIDE DEF ver, gr, f
    <3>4. f \in Core /\ f.guardedReaders = gr
      BY <1>0, <3>1, <3>2, <3>3 DEF Core
    <3> QED
      BY <1>0, <3>3, <3>4 DEF Core, gr
  <2>6. f.guardedReaders = c.guardedReaders \ {p}
    <3>1. c.guardedReaders \subseteq Procs /\ NoAttempt \notin Procs
      BY <1>0, CoreAssumption DEF Core
    <3>2. ~w[p].guarded => p \notin c.guardedReaders
      BY <2>3
    <3> QED
      BY <2>5, <3>1, <3>2
  <2> HIDE DEF f, place2, w2
  <2>7. QueuedIn(f, place2) = QueuedIn(c, place)
    BY <1>2, <1>5, <2>5 DEF QueuedIn
  <2>8. \A q \in Procs : OwnsIn(f, place2, q) <=> OwnsIn(c, place, q) /\ q # p
    BY <1>5, <2>5 DEF OwnsIn
  <2>9. /\ WritersIn(f, place2, w2) = {}
        /\ ReadersIn(f, place2, w2) = ReadersIn(c, place, w) \ {p}
        /\ \A q \in ReadersIn(c, place, w) \ {p} : w2[q] = w[q]
    BY <1>5, <2>1, <2>8 DEF WritersIn, ReadersIn
  <2>10. Typed(f, place2, w2)
    BY <1>0, <1>1, <1>2, <1>5, <2>5 DEF Typed
  <2>11. QueueTied(f, place2, w2)
    <3>1. Elems(c.waiters) = {w[q] : q \in QueuedIn(c, place)}
      BY <1>0 DEF QueueTied
    <3>2. \A q \in QueuedIn(c, place) : w2[q] = w[q]
      BY <1>2, <1>5 DEF QueuedIn
    <3> QED
      BY <1>0, <2>5, <2>7, <3>1, <3>2 DEF QueueTied
  <2>12. LedgerTied(f, place2, w2)
    <3>1. f.guardedReaders = {q \in ReadersIn(f, place2, w2) : w2[q].guarded}
      BY <2>3, <2>6, <2>9
    <3> QED
      BY <2>2, <2>3, <2>5, <2>9, <3>1 DEF LedgerTied
  <2>13. Exclusive(f, place2, w2)
    BY <2>9 DEF Exclusive
  <2> QED
    BY <2>4, <2>5, <2>10, <2>11, <2>12, <2>13 DEF Tied, f, place2, w2
<1> QED
  BY <1>2, <1>6, <1>7

\* The cancelled queue is empty, and its goroutines have their verdict.
LEMMA CancelPreserves ==
  ASSUME NEW c, NEW place, NEW w, Tied(c, place, w), c.cancelled => c.waiters = <<>>
  PROVE  LET k == Cancel(c)
         IN  Tied(k, place, w) /\ k.waiters = <<>>
<1> DEFINE k == Cancel(c)
           in == Ids(c.waiters)
<1>0. Typed(c, place, w) /\ QueueTied(c, place, w) /\ c \in Core
  BY DEF Tied, Typed
<1>1. CASE c.cancelled
  BY <1>1 DEF Cancel
<1>2. CASE ~c.cancelled
  <2>1. in = QueuedIn(c, place)
    <3>1. Elems(c.waiters) = {w[q] : q \in QueuedIn(c, place)}
      BY <1>0 DEF QueueTied
    <3>2. \A q \in QueuedIn(c, place) : w[q].id = q
      BY <1>0 DEF Typed, QueuedIn
    <3> QED
      BY <3>1, <3>2 DEF Ids
  <2>2. <<>> \in Seq(Waiter) /\ Elems(<<>>) = {} /\ Distinct(<<>>)
    BY DEF Elems, Distinct
  <2> HIDE DEF in
  <2>3. /\ k \in Core
        /\ k.waiters = <<>>
        /\ k.verdict = [p \in Procs |-> IF p \in in THEN "cancelled" ELSE c.verdict[p]]
        /\ k.readers = c.readers /\ k.writer = c.writer
        /\ k.writerAttempt = c.writerAttempt /\ k.guardedReaders = c.guardedReaders
    <3> DEFINE v == [p \in Procs |-> IF p \in in THEN "cancelled" ELSE c.verdict[p]]
               ver == Bump(c, 1)
    <3>1. ver \in 0..(VersionModulus - 1)
      BY <1>0, BumpType
    <3>2. v \in [Procs -> Verdicts]
      BY <1>0 DEF Core, Verdicts
    <3>3. k = [c EXCEPT !.cancelled = TRUE, !.waiters = <<>>, !.verdict = v, !.version = ver]
      BY <1>2 DEF Cancel, in
    <3> HIDE DEF v, ver, k
    <3>4. k.verdict = v
      BY <1>0, <3>3 DEF Core
    <3> QED
      BY <1>0, <2>2, <3>1, <3>2, <3>3, <3>4 DEF Core, v
  <2> HIDE DEF k
  <2>4. QueuedIn(k, place) = {}
    BY <2>1, <2>3 DEF QueuedIn
  <2>5. \A q \in Procs : OwnsIn(k, place, q) <=> OwnsIn(c, place, q)
    BY <2>1, <2>3 DEF OwnsIn, QueuedIn
  <2>6. ReadersIn(k, place, w) = ReadersIn(c, place, w) /\ WritersIn(k, place, w) = WritersIn(c, place, w)
    BY <2>5 DEF ReadersIn, WritersIn
  <2>7. Typed(k, place, w)
    BY <1>0, <2>1, <2>3 DEF Typed, QueuedIn
  <2>8. QueueTied(k, place, w)
    BY <2>2, <2>3, <2>4 DEF QueueTied
  <2>9. LedgerTied(k, place, w) /\ Exclusive(k, place, w)
    BY <2>3, <2>6 DEF Tied, LedgerTied, Exclusive
  <2> QED
    BY <2>3, <2>7, <2>8, <2>9 DEF Tied, k
<1> QED
  BY <1>1, <1>2

\* A granted goroutine that returns from acquire was an owner already.
LEMMA ReturnGranted ==
  ASSUME NEW c, NEW place, NEW w, Tied(c, place, w),
         NEW p \in Procs, place[p] = "waiting", c.verdict[p] = "granted",
         NEW e, e = [c EXCEPT !.verdict = [c.verdict EXCEPT ![p] = "none"]]
  PROVE  /\ Tied(e, [place EXCEPT ![p] = "holding"], w)
         /\ HeadCompatible(e) <=> HeadCompatible(c)
         /\ e.cancelled = c.cancelled /\ e.waiters = c.waiters
<1> DEFINE v == [c.verdict EXCEPT ![p] = "none"]
           place2 == [place EXCEPT ![p] = "holding"]
<1>0. Typed(c, place, w) /\ QueueTied(c, place, w) /\ c \in Core
  BY DEF Tied, Typed
<1>1. /\ v \in [Procs -> Verdicts] /\ v[p] = "none"
      /\ \A q \in Procs : q # p => v[q] = c.verdict[q]
  BY <1>0 DEF Core, Verdicts
<1>2. /\ place2 \in [Procs -> Stations] /\ place2[p] = "holding"
      /\ \A q \in Procs : q # p => place2[q] = place[q]
  BY <1>0 DEF Typed, Stations
<1>11. e = [c EXCEPT !.verdict = v]
  OBVIOUS
<1> HIDE DEF v, place2
<1>3. /\ e \in Core /\ e.verdict = v /\ e.waiters = c.waiters
      /\ e.readers = c.readers /\ e.writer = c.writer /\ e.writerAttempt = c.writerAttempt
      /\ e.guardedReaders = c.guardedReaders /\ e.cancelled = c.cancelled
  BY <1>0, <1>1, <1>11 DEF Core
<1>4. QueuedIn(e, place2) = QueuedIn(c, place)
  BY <1>1, <1>2, <1>3 DEF QueuedIn
<1>5. \A q \in Procs : OwnsIn(e, place2, q) <=> OwnsIn(c, place, q)
  BY <1>1, <1>2, <1>3 DEF OwnsIn
<1>6. ReadersIn(e, place2, w) = ReadersIn(c, place, w) /\ WritersIn(e, place2, w) = WritersIn(c, place, w)
  BY <1>5 DEF ReadersIn, WritersIn
<1>7. Typed(e, place2, w)
  BY <1>0, <1>1, <1>2, <1>3 DEF Typed
<1>8. QueueTied(e, place2, w)
  BY <1>0, <1>3, <1>4 DEF QueueTied
<1>9. LedgerTied(e, place2, w) /\ Exclusive(e, place2, w)
  BY <1>3, <1>6 DEF Tied, LedgerTied, Exclusive
<1>10. HeadCompatible(e) <=> HeadCompatible(c)
  BY <1>3 DEF HeadCompatible
<1> QED
  BY <1>3, <1>7, <1>8, <1>9, <1>10 DEF Tied, place2

\* Neither an owner nor in the queue.
OutOfIt(c, place, p) ==
  \/ place[p] \notin {"waiting", "holding"}
  \/ place[p] = "waiting" /\ c.verdict[p] \notin {"none", "granted"}

\* Where a goroutine out of it is, what it asks for and what it is told make no difference
\* as long as it stays out.
LEMMA OutOfItChanges ==
  ASSUME NEW c, NEW place, NEW w, Tied(c, place, w), NEW p \in Procs, OutOfIt(c, place, p),
         NEW y \in Waiter, y.id = p, NEW l \in Stations, NEW u \in Verdicts,
         NEW e, e = [c EXCEPT !.verdict = [c.verdict EXCEPT ![p] = u]],
         l = "waiting" => u \notin {"none", "granted"}, l # "holding",
         l \notin {"waiting", "gone"} => u = "none"
  PROVE  /\ Tied(e, [place EXCEPT ![p] = l], [w EXCEPT ![p] = y])
         /\ HeadCompatible(e) <=> HeadCompatible(c)
         /\ e.cancelled = c.cancelled /\ e.waiters = c.waiters
<1> DEFINE v == [c.verdict EXCEPT ![p] = u]
           place2 == [place EXCEPT ![p] = l]
           w2 == [w EXCEPT ![p] = y]
<1>0. Typed(c, place, w) /\ QueueTied(c, place, w) /\ c \in Core
  BY DEF Tied, Typed
<1>1. /\ v \in [Procs -> Verdicts] /\ v[p] = u
      /\ \A q \in Procs : q # p => v[q] = c.verdict[q]
  BY <1>0 DEF Core
<1>2. /\ place2 \in [Procs -> Stations] /\ place2[p] = l
      /\ \A q \in Procs : q # p => place2[q] = place[q]
  BY <1>0 DEF Typed
<1>3. /\ w2 \in [Procs -> Waiter] /\ \A q \in Procs : w2[q].id = q
      /\ \A q \in Procs : q # p => w2[q] = w[q]
  BY <1>0 DEF Typed
<1>12. e = [c EXCEPT !.verdict = v]
  OBVIOUS
<1> HIDE DEF v, place2, w2
<1>4. /\ e \in Core /\ e.verdict = v /\ e.waiters = c.waiters
      /\ e.readers = c.readers /\ e.writer = c.writer /\ e.writerAttempt = c.writerAttempt
      /\ e.guardedReaders = c.guardedReaders /\ e.cancelled = c.cancelled
  BY <1>0, <1>1, <1>12 DEF Core
<1>5. QueuedIn(e, place2) = QueuedIn(c, place) /\ p \notin QueuedIn(c, place)
  BY <1>1, <1>2, <1>4 DEF QueuedIn, OutOfIt
<1>6. \A q \in Procs : (OwnsIn(e, place2, q) <=> OwnsIn(c, place, q)) /\ ~OwnsIn(c, place, p)
  BY <1>1, <1>2, <1>4 DEF OwnsIn, OutOfIt
<1>7. /\ ReadersIn(e, place2, w2) = ReadersIn(c, place, w)
      /\ WritersIn(e, place2, w2) = WritersIn(c, place, w)
      /\ \A q \in ReadersIn(c, place, w) \union WritersIn(c, place, w) : w2[q] = w[q]
  BY <1>3, <1>6 DEF ReadersIn, WritersIn
<1>8. Typed(e, place2, w2)
  BY <1>0, <1>1, <1>2, <1>3, <1>4 DEF Typed
<1>9. QueueTied(e, place2, w2)
  <2>1. Elems(c.waiters) = {w[q] : q \in QueuedIn(c, place)}
    BY <1>0 DEF QueueTied
  <2>2. \A q \in QueuedIn(c, place) : w2[q] = w[q]
    BY <1>3, <1>5 DEF QueuedIn
  <2> QED
    BY <1>0, <1>4, <1>5, <2>1, <2>2 DEF QueueTied
<1>10. LedgerTied(e, place2, w2) /\ Exclusive(e, place2, w2)
  BY <1>4, <1>7 DEF Tied, LedgerTied, Exclusive
<1>11. HeadCompatible(e) <=> HeadCompatible(c)
  BY <1>4 DEF HeadCompatible
<1> QED
  BY <1>4, <1>8, <1>9, <1>10, <1>11 DEF Tied, place2, w2

\* A goroutine that returns from acquire with an error owned nothing.
LEMMA ReturnRejected ==
  ASSUME NEW c, NEW place, NEW w, Tied(c, place, w),
         NEW p \in Procs, place[p] = "waiting", c.verdict[p] \notin {"none", "granted"},
         NEW y \in Waiter, y.id = p,
         NEW e, e = [c EXCEPT !.verdict = [c.verdict EXCEPT ![p] = "none"]]
  PROVE  /\ Tied(e, [place EXCEPT ![p] = "idle"], [w EXCEPT ![p] = y])
         /\ HeadCompatible(e) <=> HeadCompatible(c)
         /\ e.cancelled = c.cancelled /\ e.waiters = c.waiters
<1>1. OutOfIt(c, place, p) /\ "idle" \in Stations /\ "none" \in Verdicts
  BY DEF OutOfIt, Stations, Verdicts
<1> QED
  BY <1>1, OutOfItChanges

\* Where a goroutine that neither waits nor holds is makes no difference.
LEMMA MovePreserves ==
  ASSUME NEW c, NEW place, NEW w, Tied(c, place, w),
         NEW p \in Procs, place[p] \notin {"waiting", "holding", "gone"},
         NEW l \in Stations \ {"waiting", "holding"}
  PROVE  Tied(c, [place EXCEPT ![p] = l], w)
<1> DEFINE place2 == [place EXCEPT ![p] = l]
<1>1. /\ Typed(c, place, w) /\ place2 \in [Procs -> Stations] /\ place2[p] = l
      /\ \A q \in Procs : q # p => place2[q] = place[q]
  BY DEF Tied, Typed
<1> HIDE DEF place2
<1>2. QueuedIn(c, place2) = QueuedIn(c, place)
  BY <1>1 DEF QueuedIn
<1>3. \A q \in Procs : OwnsIn(c, place2, q) <=> OwnsIn(c, place, q)
  BY <1>1 DEF OwnsIn
<1>4. ReadersIn(c, place2, w) = ReadersIn(c, place, w) /\ WritersIn(c, place2, w) = WritersIn(c, place, w)
  BY <1>3 DEF ReadersIn, WritersIn
<1>5. Typed(c, place2, w)
  BY <1>1 DEF Typed
<1> QED
  BY <1>2, <1>4, <1>5 DEF Tied, QueueTied, LedgerTied, Exclusive, place2

\* A queue whose waiters are distinct has as many as the goroutines queued in it.
LEMMA QueueLengthIn ==
  ASSUME NEW c, NEW place, NEW w, Tied(c, place, w)
  PROVE  Len(c.waiters) = Cardinality(QueuedIn(c, place))
<1> DEFINE q == c.waiters
           front == {q[i].id : i \in 1..Len(q)}
           queued == QueuedIn(c, place)
<1>1. /\ Typed(c, place, w)
      /\ q \in Seq(Waiter) /\ Distinct(q) /\ Elems(q) = {w[p] : p \in queued}
  BY DEF Tied, Typed, Core, QueueTied
<1>2. queued \subseteq Procs /\ \A p \in queued : w[p].id = p
  BY <1>1 DEF QueuedIn, Typed
<1> HIDE DEF q, queued
<1>3. Len(q) \in 0..Len(q) /\ DOMAIN q = 1..Len(q)
  BY <1>1
<1>4. Cardinality(front) = Len(q)
  BY <1>1, <1>3, FrontCount
<1>5. front = {x.id : x \in Elems(q)}
  BY <1>3 DEF Elems
<1>6. front = queued
  <2> HIDE DEF front
  <2> QED
    BY <1>1, <1>2, <1>5
<1> QED
  BY <1>4, <1>6 DEF q, queued
-----------------------------------------------------------------------------
(* Users of the engine that go by the verdict: KeyedMutex and MeteredRWMutex *)
(* record an owner as a waiter that has been granted and has not returned.  *)

\* All that ties a goroutine to the engine is whether it waits or holds, and the
\* acquisition of one that does.
LEMMA SameUsers ==
  ASSUME NEW c, NEW place, NEW w, Tied(c, place, w),
         NEW place2 \in [Procs -> Stations], NEW w2 \in [Procs -> Waiter],
         \A p \in Procs : /\ w2[p].id = p
                          /\ place2[p] = "waiting" <=> place[p] = "waiting"
                          /\ place2[p] = "holding" <=> place[p] = "holding"
                          /\ place2[p] = "gone" <=> place[p] = "gone"
                          /\ place[p] \in {"waiting", "holding"} => w2[p] = w[p]
  PROVE  Tied(c, place2, w2)
<1>1. Typed(c, place, w)
  BY DEF Tied
<1>2. QueuedIn(c, place2) = QueuedIn(c, place)
  BY DEF QueuedIn
<1>3. \A p \in Procs : OwnsIn(c, place2, p) <=> OwnsIn(c, place, p)
  BY DEF OwnsIn
<1>4. \A p \in Procs : OwnsIn(c, place, p) => w2[p] = w[p]
  BY DEF OwnsIn
<1>5. /\ ReadersIn(c, place2, w2) = ReadersIn(c, place, w)
      /\ WritersIn(c, place2, w2) = WritersIn(c, place, w)
      /\ \A p \in ReadersIn(c, place, w) \union WritersIn(c, place, w) : w2[p] = w[p]
  BY <1>3, <1>4 DEF ReadersIn, WritersIn
<1>6. Typed(c, place2, w2)
  BY <1>1 DEF Typed
<1>7. QueueTied(c, place2, w2)
  <2>1. \A p \in QueuedIn(c, place) : w2[p] = w[p]
    BY DEF QueuedIn
  <2>2. Distinct(c.waiters) /\ Elems(c.waiters) = {w[p] : p \in QueuedIn(c, place)}
    BY DEF Tied, QueueTied
  <2> QED
    BY <1>2, <2>1, <2>2 DEF QueueTied
<1>8. LedgerTied(c, place2, w2) /\ Exclusive(c, place2, w2)
  BY <1>5 DEF Tied, LedgerTied, Exclusive
<1> QED
  BY <1>6, <1>7, <1>8 DEF Tied

\* The new engine has neither owners nor a queue.
LEMMA InitialTied ==
  ASSUME NEW place \in [Procs -> Stations], NEW w \in [Procs -> Waiter],
         \A p \in Procs : w[p].id = p /\ place[p] \notin {"waiting", "holding"}
  PROVE  Tied(InitialCore, place, w) /\ ~HeadCompatible(InitialCore)
<1> DEFINE c == InitialCore
<1>1. <<>> \in Seq(Waiter)
  OBVIOUS
<1>2. c \in Core
  BY <1>1, CoreAssumption DEF InitialCore, Core, Verdicts
<1>3. /\ c.waiters = <<>> /\ c.readers = 0 /\ c.writer = FALSE /\ c.guardedReaders = {}
      /\ \A p \in Procs : c.verdict[p] = "none"
  BY DEF InitialCore
<1> HIDE DEF c
<1>4. QueuedIn(c, place) = {} /\ ReadersIn(c, place, w) = {} /\ WritersIn(c, place, w) = {}
  BY DEF QueuedIn, ReadersIn, WritersIn, OwnsIn
<1>5. Typed(c, place, w)
  BY <1>2, <1>3 DEF Typed
<1>6. QueueTied(c, place, w)
  <2>1. Distinct(<<>>) /\ Elems(<<>>) = {}
    BY DEF Distinct, Elems
  <2> QED
    BY <1>3, <1>4, <2>1 DEF QueueTied
<1>7. LedgerTied(c, place, w) /\ Exclusive(c, place, w)
  BY <1>3, <1>4, FS_EmptySet DEF LedgerTied, Exclusive
<1>8. ~HeadCompatible(c)
  BY <1>3 DEF HeadCompatible
<1> QED
  BY <1>5, <1>6, <1>7, <1>8 DEF Tied, c

\* An owner that is told so is a granted waiter.
LEMMA TellOwner ==
  ASSUME NEW c, NEW place, NEW w, Tied(c, place, w),
         NEW p \in Procs, place[p] = "holding"
  PROVE  /\ Tied(Told(c, p, "granted"), [place EXCEPT ![p] = "waiting"], w)
         /\ HeadCompatible(Told(c, p, "granted")) <=> HeadCompatible(c)
<1> DEFINE v == [c.verdict EXCEPT ![p] = "granted"]
           e == Told(c, p, "granted")
           place2 == [place EXCEPT ![p] = "waiting"]
<1>0. Typed(c, place, w) /\ QueueTied(c, place, w) /\ c \in Core
  BY DEF Tied, Typed
<1>1. /\ v \in [Procs -> Verdicts] /\ v[p] = "granted"
      /\ \A q \in Procs : q # p => v[q] = c.verdict[q]
  BY <1>0 DEF Core, Verdicts
<1>2. /\ place2 \in [Procs -> Stations] /\ place2[p] = "waiting"
      /\ \A q \in Procs : q # p => place2[q] = place[q]
  BY <1>0 DEF Typed, Stations
<1>3. e = [c EXCEPT !.verdict = v]
  BY <1>0 DEF Told, Core
<1> HIDE DEF v, place2, e
<1>4. /\ e \in Core /\ e.verdict = v /\ e.waiters = c.waiters
      /\ e.readers = c.readers /\ e.writer = c.writer /\ e.writerAttempt = c.writerAttempt
      /\ e.guardedReaders = c.guardedReaders
  BY <1>0, <1>1, <1>3 DEF Core
<1>5. QueuedIn(e, place2) = QueuedIn(c, place)
  BY <1>1, <1>2, <1>4 DEF QueuedIn
<1>6. \A q \in Procs : OwnsIn(e, place2, q) <=> OwnsIn(c, place, q)
  BY <1>1, <1>2, <1>4 DEF OwnsIn
<1>7. ReadersIn(e, place2, w) = ReadersIn(c, place, w) /\ WritersIn(e, place2, w) = WritersIn(c, place, w)
  BY <1>6 DEF ReadersIn, WritersIn
<1>8. Typed(e, place2, w)
  BY <1>0, <1>1, <1>2, <1>4 DEF Typed
<1>9. QueueTied(e, place2, w)
  BY <1>0, <1>4, <1>5 DEF QueueTied
<1>10. LedgerTied(e, place2, w) /\ Exclusive(e, place2, w)
  BY <1>4, <1>7 DEF Tied, LedgerTied, Exclusive
<1>11. HeadCompatible(e) <=> HeadCompatible(c)
  BY <1>4 DEF HeadCompatible
<1> QED
  BY <1>8, <1>9, <1>10, <1>11 DEF Tied, place2, e

\* An acquisition that is granted at once, and told so.
LEMMA AcquirePreserves ==
  ASSUME NEW c, NEW place, NEW w, Tied(c, place, w),
         NEW x \in Waiter, place[x.id] \notin {"waiting", "holding", "gone"},
         CanAcquireImmediately(c, x.mode),
         NEW e, e = Told(Grant(c, x), x.id, "granted")
  PROVE  /\ Tied(e, [place EXCEPT ![x.id] = "waiting"], [w EXCEPT ![x.id] = x])
         /\ ~HeadCompatible(e) /\ e.cancelled = c.cancelled
         /\ e.verdict = [c.verdict EXCEPT ![x.id] = "granted"]
<1> DEFINE g == Grant(c, x)
           place2 == [place EXCEPT ![x.id] = "holding"]
           place3 == [place EXCEPT ![x.id] = "waiting"]
           w2 == [w EXCEPT ![x.id] = x]
<1>1. Tied(g, place2, w2) /\ ~HeadCompatible(g)
  BY GrantPreserves
<1>2. x.id \in Procs /\ place \in [Procs -> Stations] /\ c \in Core /\ g \in Core
  BY <1>1 DEF Waiter, Tied, Typed
<1>3. g.verdict = c.verdict /\ g.cancelled = c.cancelled
  BY <1>2 DEF Grant, Core
<1>4. place2[x.id] = "holding" /\ [place2 EXCEPT ![x.id] = "waiting"] = place3
  BY <1>2
<1> HIDE DEF g, place2, place3, w2
<1>5. Tied(Told(g, x.id, "granted"), place3, w2) /\ ~HeadCompatible(Told(g, x.id, "granted"))
  BY <1>1, <1>2, <1>4, TellOwner
<1>6. /\ Told(g, x.id, "granted").verdict = [g.verdict EXCEPT ![x.id] = "granted"]
      /\ Told(g, x.id, "granted").cancelled = g.cancelled
  BY <1>2 DEF Told, Core
<1> QED
  BY <1>3, <1>5, <1>6 DEF g, place3, w2

\* What goroutines have been told stays while the queue is served.
LEMMA VerdictsKept ==
  ASSUME NEW c, NEW place, NEW w, Tied(c, place, w), NEW gone,
         NEW q \in Procs, c.verdict[q] # "none"
  PROVE  GrantWaiters(c, gone).verdict[q] = c.verdict[q]
<1>1. Sound(c)
  BY DEF Tied, Typed, QueueTied, Sound
<1>2. q \notin Ids(c.waiters)
  BY QueueEntries DEF Tied, Ids, QueuedIn
<1> QED
  BY <1>1, <1>2, GrantWaitersServes DEF Serves

\* The waiter of p gives up, or finds that it has been finished.
LEMMA GiveUpPreserves ==
  ASSUME NEW c, NEW place, NEW w, Tied(c, place, w), ~HeadCompatible(c), NEW gone,
         NEW p \in Procs, place[p] = "waiting"
  PROVE  /\ Tied(CancelWaiter(c, p, gone), place, w)
         /\ ~HeadCompatible(CancelWaiter(c, p, gone))
         /\ CancelWaiter(c, p, gone).cancelled = c.cancelled
         /\ \A q \in Procs : c.verdict[q] # "none"
                              => CancelWaiter(c, p, gone).verdict[q] = c.verdict[q]
<1>1. CASE c.verdict[p] # "none"
  BY <1>1 DEF CancelWaiter
<1>2. CASE c.verdict[p] = "none"
  <2> DEFINE d == RejectCancelledWaiters(c, {p})
  <2>1. p \in QueuedIn(c, place)
    BY <1>2 DEF QueuedIn
  <2>2. CancelWaiter(c, p, gone) = GrantWaiters(d, gone)
    BY <2>1, CancelWaiterIsReject, Zenon
  <2>3. Tied(d, place, w) /\ d.cancelled = c.cancelled
    BY RejectPreserves, Zenon
  <2>4. /\ Tied(GrantWaiters(d, gone), place, w) /\ ~HeadCompatible(GrantWaiters(d, gone))
        /\ GrantWaiters(d, gone).cancelled = d.cancelled
    BY <2>3, GrantWaitersPreserves
  <2>5. ASSUME NEW q \in Procs, c.verdict[q] # "none" PROVE d.verdict[q] = c.verdict[q]
    <3>1. Sound(c)
      BY DEF Tied, Typed, QueueTied, Sound
    <3>2. q \notin Ids(c.waiters)
      BY <2>5, QueueEntries DEF Tied, Ids, QueuedIn
    <3> QED
      BY <3>1, <3>2, RejectServes DEF Serves
  <2> HIDE DEF d
  <2>6. \A q \in Procs : c.verdict[q] # "none" => GrantWaiters(d, gone).verdict[q] = c.verdict[q]
    BY <2>3, <2>5, VerdictsKept
  <2> QED
    BY <2>2, <2>3, <2>4, <2>6 DEF d
<1> QED
  BY <1>1, <1>2

\* The acquisition of an owner that unlocks may stay on record.
LEMMA FreedUnchanged ==
  ASSUME NEW c, NEW place, NEW w, Tied(c, place, w),
         NEW p \in Procs, place[p] = "holding",
         NEW attempt, attempt = IF w[p].guarded THEN p ELSE NoAttempt
  PROVE  /\ ReleaseMatches(c, w[p].mode, attempt)
         /\ Tied(Freed(c, w[p].mode, attempt), [place EXCEPT ![p] = "idle"], w)
<1> DEFINE y == w[p]
<1>1. y \in Waiter /\ y.id = p /\ [w EXCEPT ![p] = y] = w
  BY DEF Tied, Typed
<1> HIDE DEF y
<1>2. /\ ReleaseMatches(c, w[p].mode, attempt)
      /\ Tied(Freed(c, w[p].mode, attempt), [place EXCEPT ![p] = "idle"], [w EXCEPT ![p] = y])
  BY <1>1, FreedPreserves
<1> QED
  BY <1>1, <1>2

\* A granted waiter that releases what it was granted passes the checks of release.
LEMMA ToldFreed ==
  ASSUME NEW c, NEW place, NEW w, Tied(c, place, w),
         NEW p \in Procs, place[p] = "waiting", c.verdict[p] = "granted",
         NEW attempt, attempt = IF w[p].guarded THEN p ELSE NoAttempt,
         NEW f, f = Freed(Told(c, p, "none"), w[p].mode, attempt),
         NEW place2 \in [Procs -> Stations], place2[p] = "idle",
         \A q \in Procs : q # p => place2[q] = place[q]
  PROVE  /\ ReleaseMatches(c, w[p].mode, attempt)
         /\ Tied(f, place2, w)
         /\ f.waiters = c.waiters /\ f.verdict[p] = "none"
         /\ \A q \in Procs : q # p => f.verdict[q] = c.verdict[q]
<1> DEFINE v == [c.verdict EXCEPT ![p] = "none"]
           t == Told(c, p, "none")
           inside == [place EXCEPT ![p] = "holding"]
<1>0. Typed(c, place, w) /\ c \in Core
  BY DEF Tied, Typed
<1>1. t = [c EXCEPT !.verdict = v]
  BY <1>0 DEF Told, Core
<1>2. Tied(t, inside, w)
  BY <1>1, ReturnGranted
<1>3. /\ t.verdict = v /\ t.writer = c.writer /\ t.readers = c.readers
      /\ t.writerAttempt = c.writerAttempt /\ t.guardedReaders = c.guardedReaders
      /\ t.waiters = c.waiters /\ t \in Core
  <2>1. t \in Core
    BY <1>2 DEF Tied, Typed
  <2> QED
    BY <1>0, <1>1, <2>1 DEF Core
<1>4. inside[p] = "holding" /\ [inside EXCEPT ![p] = "idle"] = place2
  BY <1>0 DEF Typed
<1>5. v[p] = "none" /\ \A q \in Procs : q # p => v[q] = c.verdict[q]
  BY <1>0 DEF Core
<1> HIDE DEF t, v, inside
<1>6. /\ ReleaseMatches(t, w[p].mode, attempt)
      /\ Tied(Freed(t, w[p].mode, attempt), [inside EXCEPT ![p] = "idle"], w)
  BY <1>2, <1>4, FreedUnchanged
<1>7. ReleaseMatches(c, w[p].mode, attempt)
  BY <1>3, <1>6 DEF ReleaseMatches
<1>8. Tied(f, place2, w)
  BY <1>4, <1>6 DEF t
<1>9. f.verdict = v /\ f.waiters = c.waiters
  <2>1. f = Freed(t, w[p].mode, attempt)
    BY DEF t
  <2> QED
    BY <1>3, <2>1, ZenonT(60) DEF Freed, Core
<1> QED
  BY <1>5, <1>7, <1>8, <1>9

\* It is nobody's owner then, and the queue is served.
LEMMA ReleasePreserves ==
  ASSUME NEW c, NEW place, NEW w, Tied(c, place, w), NEW gone,
         NEW p \in Procs, place[p] = "waiting", c.verdict[p] = "granted",
         NEW attempt, attempt = IF w[p].guarded THEN p ELSE NoAttempt,
         NEW e, e = Release(Told(c, p, "none"), w[p].mode, attempt, gone)
  PROVE  /\ ReleaseMatches(c, w[p].mode, attempt)
         /\ Tied(e, [place EXCEPT ![p] = "idle"], w)
         /\ ~HeadCompatible(e)
         /\ \A q \in Procs : q # p /\ c.verdict[q] # "none" => e.verdict[q] = c.verdict[q]
<1> DEFINE f == Freed(Told(c, p, "none"), w[p].mode, attempt)
           place2 == [place EXCEPT ![p] = "idle"]
<1>1. f = Freed(Told(c, p, "none"), w[p].mode, attempt) /\ e = GrantWaiters(f, gone)
  BY DEF Release
<1>2. /\ place2 \in [Procs -> Stations] /\ place2[p] = "idle"
      /\ \A q \in Procs : q # p => place2[q] = place[q]
  BY DEF Tied, Typed, Stations
<1> HIDE DEF f, place2
<1>3. /\ ReleaseMatches(c, w[p].mode, attempt) /\ Tied(f, place2, w)
      /\ \A q \in Procs : q # p => f.verdict[q] = c.verdict[q]
  BY <1>1, <1>2, ToldFreed
<1>4. Tied(e, place2, w) /\ ~HeadCompatible(e)
  BY <1>1, <1>3, GrantWaitersPreserves
<1>5. \A q \in Procs : q # p /\ c.verdict[q] # "none" => e.verdict[q] = c.verdict[q]
  <2>1. \A q \in Procs : f.verdict[q] # "none" => GrantWaiters(f, gone).verdict[q] = f.verdict[q]
    BY <1>3, VerdictsKept
  <2> QED
    BY <1>1, <1>3, <2>1
<1> QED
  BY <1>3, <1>4, <1>5 DEF place2

\* A granted waiter that releases what it was granted may leave its verdict on record.
LEMMA RecordedFreed ==
  ASSUME NEW c, NEW place, NEW w, Tied(c, place, w),
         NEW p \in Procs, place[p] = "waiting", c.verdict[p] = "granted",
         NEW attempt, attempt = IF w[p].guarded THEN p ELSE NoAttempt,
         NEW f, f = Freed(c, w[p].mode, attempt)
  PROVE  /\ Tied(f, [place EXCEPT ![p] = "gone"], w)
         /\ f.waiters = c.waiters /\ f.cancelled = c.cancelled /\ f.verdict = c.verdict
<1> DEFINE t == Told(c, p, "none")
           d == Freed(t, w[p].mode, attempt)
           idle == [place EXCEPT ![p] = "idle"]
           gone == [place EXCEPT ![p] = "gone"]
           y == w[p]
<1>0. Typed(c, place, w) /\ c \in Core /\ place \in [Procs -> Stations]
  BY DEF Tied, Typed
<1>1. /\ idle \in [Procs -> Stations] /\ idle[p] = "idle"
      /\ \A q \in Procs : q # p => idle[q] = place[q]
      /\ [idle EXCEPT ![p] = "gone"] = gone
  BY <1>0 DEF Stations
<1>2. y \in Waiter /\ y.id = p /\ [w EXCEPT ![p] = y] = w
  BY <1>0 DEF Typed
<1>3. d = Freed(Told(c, p, "none"), w[p].mode, attempt)
  OBVIOUS
<1> HIDE DEF idle, gone, d
<1>4. Tied(d, idle, w) /\ d \in Core
  <2>1. Tied(d, idle, w)
    BY <1>1, <1>3, ToldFreed
  <2> QED
    BY <2>1 DEF Tied, Typed
<1>5. f = [d EXCEPT !.verdict = [d.verdict EXCEPT ![p] = "granted"]]
  <2>1. d.verdict = [c.verdict EXCEPT ![p] = "none"] /\ [d.verdict EXCEPT ![p] = "granted"] = c.verdict
    BY <1>0, <1>3 DEF Told, Freed, Core
  <2> DEFINE v == c.verdict
  <2>2. t = [c EXCEPT !.verdict = [v EXCEPT ![p] = "none"]] /\ Bump(t, 1) = Bump(c, 1)
    BY <1>0 DEF Told, Bump, Core
  <2>3. [d EXCEPT !.verdict = v] = Freed(c, w[p].mode, attempt)
    BY <1>0, <1>3, <2>2 DEF Freed, Core
  <2> QED
    BY <2>1, <2>3
<1>6. /\ f.waiters = c.waiters /\ f.cancelled = c.cancelled /\ f.verdict = c.verdict
  BY <1>0 DEF Freed, Core
<1>7. OutOfIt(d, idle, p) /\ "gone" \in Stations /\ "granted" \in Verdicts
  BY <1>1 DEF OutOfIt, Stations, Verdicts
<1> HIDE DEF y
<1>8. Tied(f, [idle EXCEPT ![p] = "gone"], [w EXCEPT ![p] = y])
  BY <1>2, <1>4, <1>5, <1>7, OutOfItChanges
<1> QED
  BY <1>1, <1>2, <1>6, <1>8 DEF gone

-----------------------------------------------------------------------------
(* The grant loop.  GrantReaders is as many turns of it as it takes.        *)

\* Every number is so many moduli and a remainder.
LEMMA Division ==
  ASSUME NEW a \in Nat, NEW M \in Nat \ {0}
  PROVE  \E q \in Nat : \E r \in 0..(M - 1) : a = M * q + r
<1> DEFINE Splits(b) == \E q \in Nat : \E r \in 0..(M - 1) : b = M * q + r
           S == {b \in Nat : Splits(b)}
<1>1. Splits(0)
  <2>1. 0 \in Nat /\ 0 \in 0..(M - 1) /\ 0 = M * 0 + 0
    OBVIOUS
  <2> QED
    BY <2>1
<1>2. ASSUME NEW b \in Nat, Splits(b) PROVE Splits(b + 1)
  <2>1. PICK q \in Nat, r \in 0..(M - 1) : b = M * q + r
    BY <1>2
  <2>2. CASE r + 1 < M
    <3>1. r + 1 \in 0..(M - 1) /\ b + 1 = M * q + (r + 1)
      BY <2>1, <2>2
    <3> QED
      BY <3>1
  <2>3. CASE r + 1 = M
    <3>1. M * (q + 1) = M * q + M
      OBVIOUS
    <3>2. q + 1 \in Nat /\ 0 \in 0..(M - 1) /\ b + 1 = M * (q + 1) + 0
      BY <2>1, <2>3, <3>1
    <3> QED
      BY <3>2
  <2> QED
    BY <2>2, <2>3
<1> HIDE DEF Splits
<1>3. 0 \in S /\ \A b \in Nat : b < a /\ b \in S => b + 1 \in S
  BY <1>1, <1>2
<1>4. 0..a \subseteq S
  <2> HIDE DEF S
  <2> QED
    BY <1>3, UpTo
<1> QED
  BY <1>4 DEF Splits

\* A counter that wraps at each turn is one that wraps at the end.
LEMMA WrapOnce ==
  ASSUME NEW a \in Nat, NEW M \in Nat \ {0}
  PROVE  ((a % M) + 1) % M = (a + 1) % M
<1>1. PICK q \in Nat, r \in 0..(M - 1) : a = M * q + r
  BY Division
<1>2. \A k \in Nat : \A j \in 0..(M - 1) : (M * k + j) % M = j
  OBVIOUS
<1>3. a % M = r
  BY <1>1, <1>2
<1>4. CASE r + 1 < M
  <2>1. r + 1 \in 0..(M - 1) /\ a + 1 = M * q + (r + 1) /\ r + 1 = M * 0 + (r + 1)
    BY <1>1, <1>4
  <2> QED
    BY <1>2, <1>3, <2>1
<1>5. CASE r + 1 = M
  <2>1. M * (q + 1) = M * q + M /\ M * 1 = M
    OBVIOUS
  <2>2. q + 1 \in Nat /\ 0 \in 0..(M - 1) /\ a + 1 = M * (q + 1) + 0 /\ r + 1 = M * 1 + 0
    BY <1>1, <1>5, <2>1
  <2> QED
    BY <1>2, <1>3, <2>2
<1> QED
  BY <1>4, <1>5

\* The version counts one at a time.
LEMMA BumpBump ==
  ASSUME NEW c \in Core, NEW n \in Nat, NEW d, d.version = Bump(c, n)
  PROVE  Bump(d, 1) = Bump(c, n + 1)
<1>1. VersionModulus \in Nat \ {0} /\ c.version \in Nat
  BY CoreAssumption DEF Core
<1>2. c.version + n \in Nat /\ c.version + n + 1 = c.version + (n + 1)
  BY <1>1
<1>3. (((c.version + n) % VersionModulus) + 1) % VersionModulus
        = (c.version + n + 1) % VersionModulus
  BY <1>1, <1>2, WrapOnce
<1> QED
  BY <1>2, <1>3 DEF Bump

\* No turn of the grant loop changes nothing.
LEMMA GrantNobody ==
  ASSUME NEW c \in Core
  PROVE  GrantReaders(c, 0) = c
<1>1. /\ c.version \in 0..(VersionModulus - 1) /\ VersionModulus \in Nat \ {0}
      /\ c.readers \in Nat /\ c.waiters \in Seq(Waiter) /\ c.verdict \in [Procs -> Verdicts]
  BY CoreAssumption DEF Core
<1>2. Bump(c, 0) = c.version
  <2>1. \A M \in Nat \ {0} : \A v \in 0..(M - 1) : v % M = v
    OBVIOUS
  <2>2. c.version + 0 = c.version
    BY <1>1
  <2> QED
    BY <1>1, <2>1, <2>2 DEF Bump
<1>3. SubSeq(c.waiters, 0 + 1, Len(c.waiters)) = c.waiters
  <2>1. 0 \in 0..Len(c.waiters)
    BY <1>1
  <2> QED
    BY <1>1, <2>1, BehindTheFront
<1>4. {c.waiters[i] : i \in 1..0} = {}
  OBVIOUS
<1> DEFINE batch == {c.waiters[i] : i \in 1..0}
           g == GrantReaders(c, 0)
<1>5. /\ g.readers = c.readers /\ g.guardedReaders = c.guardedReaders
      /\ g.verdict = c.verdict
  BY <1>1, <1>4 DEF GrantReaders, Core
<1>6. /\ g.waiters = c.waiters /\ g.version = c.version
      /\ g.writer = c.writer /\ g.writerAttempt = c.writerAttempt
      /\ g.cancelled = c.cancelled
  BY <1>2, <1>3 DEF GrantReaders, Core
<1>7. g = [c EXCEPT !.waiters = g.waiters, !.readers = g.readers,
                    !.guardedReaders = g.guardedReaders, !.verdict = g.verdict,
                    !.version = g.version]
  BY DEF GrantReaders, Core
<1> HIDE DEF g
<1>8. g = [c EXCEPT !.waiters = c.waiters, !.readers = c.readers,
                    !.guardedReaders = c.guardedReaders, !.verdict = c.verdict,
                    !.version = c.version]
  BY <1>5, <1>6, <1>7, Zenon
<1> DEFINE same == [readers |-> c.readers, writer |-> c.writer,
                    writerAttempt |-> c.writerAttempt, guardedReaders |-> c.guardedReaders,
                    waiters |-> c.waiters, verdict |-> c.verdict, cancelled |-> c.cancelled,
                    version |-> c.version]
<1>9. c = same
  BY DEF Core
<1>10. g = same
  BY <1>8 DEF Core
<1> HIDE DEF same, g
<1>11. g = c
  BY <1>9, <1>10
<1> QED
  BY <1>11 DEF g

\* After i turns, one more turn of the grant loop.
LEMMA GrantOneMore ==
  ASSUME NEW c \in Core, NEW i \in Nat, i < Len(c.waiters), c.waiters[i + 1].mode = "read"
  PROVE  GrantHead(GrantReaders(c, i)) = GrantReaders(c, i + 1)
<1> DEFINE s == c.waiters
           w == s[i + 1]
           g == GrantReaders(c, i)
           e == GrantHead(g)
           f == GrantReaders(c, i + 1)
           front(n) == {s[k] : k \in 1..n}
           told(n) == {x.id : x \in front(n)}
           guards(n) == {x.id : x \in {y \in front(n) : y.guarded}}
<1>1. /\ s \in Seq(Waiter) /\ Len(s) \in Nat /\ c.readers \in Nat
      /\ w \in Waiter /\ w.id \in Procs /\ w.mode = "read"
  <2>1. s \in Seq(Waiter) /\ Len(s) \in Nat /\ c.readers \in Nat
    BY DEF Core
  <2>2. i + 1 \in 1..Len(s)
    BY <2>1
  <2>3. w \in Waiter
    BY <2>1, <2>2
  <2> QED
    BY <2>1, <2>3 DEF Waiter
<1>2. /\ SubSeq(s, i + 1, Len(s)) # <<>>
      /\ Head(SubSeq(s, i + 1, Len(s))) = w
      /\ Tail(SubSeq(s, i + 1, Len(s))) = SubSeq(s, (i + 1) + 1, Len(s))
  <2>1. i \in 0..Len(s) /\ i < Len(s)
    BY <1>1
  <2> QED
    BY <1>1, <2>1, BehindTheFront
<1>3. front(i + 1) = front(i) \union {w}
  <2>1. 1..(i + 1) = 1..i \union {i + 1}
    OBVIOUS
  <2> QED
    BY <2>1
<1>4. /\ told(i + 1) = told(i) \union {w.id}
      /\ guards(i + 1) = guards(i) \union (IF w.guarded THEN {w.id} ELSE {})
  <2> HIDE DEF front
  <2> QED
    BY <1>3
<1>5. /\ g.waiters = SubSeq(s, i + 1, Len(s)) /\ g.readers = c.readers + i
      /\ g.guardedReaders = c.guardedReaders \union guards(i)
      /\ g.verdict = [p \in Procs |-> IF p \in told(i) THEN "granted" ELSE c.verdict[p]]
      /\ g.version = Bump(c, i)
      /\ g.writer = c.writer /\ g.writerAttempt = c.writerAttempt
      /\ g.cancelled = c.cancelled
  BY DEF GrantReaders, Core
<1>6. g = [c EXCEPT !.waiters = g.waiters, !.readers = g.readers,
                    !.guardedReaders = g.guardedReaders, !.verdict = g.verdict,
                    !.version = g.version]
  BY DEF GrantReaders, Core
<1>7. f = [c EXCEPT !.waiters = SubSeq(s, (i + 1) + 1, Len(s)), !.readers = c.readers + (i + 1),
                    !.guardedReaders = c.guardedReaders \union guards(i + 1),
                    !.verdict = [p \in Procs |-> IF p \in told(i + 1) THEN "granted"
                                                  ELSE c.verdict[p]],
                    !.version = Bump(c, i + 1)]
  BY DEF GrantReaders, Core
<1> HIDE DEF g, s, w, told, guards, f
<1>8. Bump(g, 1) = Bump(c, i + 1)
  BY <1>5, BumpBump
<1> DEFINE told1 == [p \in Procs |-> IF p \in told(i + 1) THEN "granted" ELSE c.verdict[p]]
<1>9. [g.verdict EXCEPT ![w.id] = "granted"] = told1
  BY <1>1, <1>4, <1>5
<1>10. (IF w.guarded THEN g.guardedReaders \union {w.id} ELSE g.guardedReaders)
         = c.guardedReaders \union guards(i + 1)
  BY <1>4, <1>5
<1>11. g.readers + 1 = c.readers + (i + 1)
  <2>1. g.readers = c.readers + i
    BY <1>5
  <2>2. c.readers \in Nat
    BY <1>1
  <2> QED
    BY <2>1, <2>2
<1>12. Head(g.waiters) = w /\ Tail(g.waiters) = SubSeq(s, (i + 1) + 1, Len(s))
  BY <1>2, <1>5
<1> DEFINE guarded == IF w.guarded THEN g.guardedReaders \union {w.id} ELSE g.guardedReaders
           verdict == [g.verdict EXCEPT ![w.id] = "granted"]
           h == [g EXCEPT !.readers = @ + 1, !.guardedReaders = guarded, !.version = Bump(g, 1)]
<1>13. e = [h EXCEPT !.waiters = Tail(@), !.verdict = [@ EXCEPT ![w.id] = "granted"]]
  BY <1>1, <1>12 DEF GrantHead, Grant
<1>14. g = [readers |-> g.readers, writer |-> c.writer, writerAttempt |-> c.writerAttempt,
             guardedReaders |-> g.guardedReaders, waiters |-> g.waiters,
             verdict |-> g.verdict, cancelled |-> c.cancelled, version |-> g.version]
  BY <1>6 DEF Core
<1> HIDE DEF guarded
<1>15. h = [readers |-> g.readers + 1, writer |-> c.writer, writerAttempt |-> c.writerAttempt,
             guardedReaders |-> guarded, waiters |-> g.waiters,
             verdict |-> g.verdict, cancelled |-> c.cancelled, version |-> Bump(g, 1)]
  <2> DEFINE v == Bump(g, 1)
             more == g.readers + 1
  <2>1. h = [g EXCEPT !.readers = more, !.guardedReaders = guarded, !.version = v]
    OBVIOUS
  <2> HIDE DEF v, more, h
  <2>2. PICK readers, in, queue, verdicts, version :
          /\ g = [readers |-> readers, writer |-> c.writer, writerAttempt |-> c.writerAttempt,
                  guardedReaders |-> in, waiters |-> queue, verdict |-> verdicts,
                  cancelled |-> c.cancelled, version |-> version]
          /\ queue = g.waiters /\ verdicts = g.verdict
    BY <1>14
  <2>3. h = [readers |-> more, writer |-> c.writer, writerAttempt |-> c.writerAttempt,
             guardedReaders |-> guarded, waiters |-> g.waiters,
             verdict |-> g.verdict, cancelled |-> c.cancelled, version |-> v]
    BY <2>1, <2>2
  <2> QED
    BY <2>3 DEF v, more
<1> HIDE DEF h
<1>16. h.waiters = g.waiters /\ h.verdict = g.verdict
  BY <1>15
<1>17. e = [h EXCEPT !.waiters = Tail(g.waiters), !.verdict = verdict]
  BY <1>13, <1>16
<1> HIDE DEF verdict, e, told1
<1>18. e = [readers |-> g.readers + 1, writer |-> c.writer, writerAttempt |-> c.writerAttempt,
             guardedReaders |-> guarded, waiters |-> Tail(g.waiters),
             verdict |-> verdict, cancelled |-> c.cancelled, version |-> Bump(g, 1)]
  BY <1>15, <1>17
<1>19. f = [readers |-> c.readers + (i + 1), writer |-> c.writer,
             writerAttempt |-> c.writerAttempt,
             guardedReaders |-> c.guardedReaders \union guards(i + 1),
             waiters |-> SubSeq(s, (i + 1) + 1, Len(s)),
             verdict |-> told1, cancelled |-> c.cancelled, version |-> Bump(c, i + 1)]
  BY <1>7 DEF Core, told1
<1>20. verdict = told1 /\ guarded = c.guardedReaders \union guards(i + 1)
  BY <1>9, <1>10 DEF verdict, told1, guarded
<1>21. e = f
  BY <1>8, <1>11, <1>12, <1>18, <1>19, <1>20
<1> QED
  BY <1>21 DEF e, f, g

\* The grant loop, run until the queue is empty or a writer is in front, lets in exactly
\* the consecutive readers at the front, in one step of GrantReaders.
THEOREM GrantLoop ==
  ASSUME NEW c \in Core, NEW n \in Nat, NEW loop, loop[0] = c,
         \A i \in 1..n : ReaderNext(loop[i - 1]) /\ loop[i] = GrantHead(loop[i - 1]),
         ~ReaderNext(loop[n])
  PROVE  n = LeadingReaders(c.waiters) /\ loop[n] = GrantReaders(c, n)
<1> DEFINE s == c.waiters
           m == LeadingReaders(s)
           Halfway(i) == /\ i <= Len(s) /\ loop[i] = GrantReaders(c, i)
                         /\ \A k \in 1..i : s[k].mode = "read"
           S == {i \in 0..n : Halfway(i)}
<1>1. s \in Seq(Waiter) /\ Len(s) \in Nat
  BY DEF Core
<1>2. ASSUME NEW i \in Nat, i <= Len(s)
      PROVE  ReaderNext(GrantReaders(c, i)) <=> i < Len(s) /\ s[i + 1].mode = "read"
  <2> DEFINE t == SubSeq(s, i + 1, Len(s))
  <2>1. GrantReaders(c, i).waiters = t
    BY DEF GrantReaders, Core
  <2>2. i \in 0..Len(s)
    BY <1>1, <1>2
  <2>3. (t # <<>> <=> i < Len(s)) /\ (i < Len(s) => Head(t) = s[i + 1])
    BY <1>1, <2>2, BehindTheFront
  <2> HIDE DEF t
  <2> QED
    BY <2>1, <2>3 DEF ReaderNext
<1>3. Halfway(0)
  BY <1>1, GrantNobody
<1>4. ASSUME NEW i \in Nat, i < n, Halfway(i) PROVE Halfway(i + 1)
  <2>1. i + 1 \in 1..n /\ (i + 1) - 1 = i
    BY <1>4
  <2>2. ReaderNext(loop[i]) /\ loop[i + 1] = GrantHead(loop[i])
    BY <2>1
  <2>3. i < Len(s) /\ s[i + 1].mode = "read"
    BY <1>2, <1>4, <2>2
  <2>4. loop[i + 1] = GrantReaders(c, i + 1)
    BY <1>4, <2>2, <2>3, GrantOneMore
  <2>5. i + 1 <= Len(s)
    BY <1>1, <2>3
  <2>6. \A k \in 1..(i + 1) : k \in 1..i \/ k = i + 1
    OBVIOUS
  <2> QED
    BY <1>4, <2>3, <2>4, <2>5, <2>6
<1> HIDE DEF Halfway
<1>5. 0..n \subseteq S
  <2>1. 0 \in S /\ \A i \in Nat : i < n /\ i \in S => i + 1 \in S
    BY <1>3, <1>4
  <2> HIDE DEF S
  <2> QED
    BY <2>1, UpTo
<1>6. n <= Len(s) /\ loop[n] = GrantReaders(c, n) /\ \A k \in 1..n : s[k].mode = "read"
  BY <1>5 DEF Halfway
<1>7. n < Len(s) => s[n + 1].mode # "read"
  BY <1>2, <1>6
<1>8. /\ m \in 0..Len(s) /\ \A k \in 1..m : s[k].mode = "read"
      /\ m < Len(s) => s[m + 1].mode # "read"
  BY <1>1, LeadingReadersProperties
<1> HIDE DEF s, m
<1>9. ~(n < m)
  <2>1. n < m => n < Len(s) /\ n + 1 \in 1..m
    BY <1>1, <1>8
  <2> QED
    BY <1>7, <1>8, <2>1
<1>10. ~(m < n)
  <2>1. m < n => m < Len(s) /\ m + 1 \in 1..n
    BY <1>1, <1>6, <1>8
  <2> QED
    BY <1>6, <1>8, <2>1
<1>11. n = m
  BY <1>8, <1>9, <1>10
<1> QED
  BY <1>6, <1>11 DEF m, s

-----------------------------------------------------------------------------
(* Owners and line.  After each critical section the longest prefix of the  *)
(* line that may own the lock owns it: the steps of FIFOLock are taken from *)
(* here by the modules about the locks.  And the version: the critical      *)
(* sections count every change, and make few.                               *)

Caller == [id : Procs, mode : Modes]
CallerOf(x) == [id |-> x.id, mode |-> x.mode]

\* Who owns the engine, and how.
HeldBy(c, place, w) == [p \in Procs |-> IF OwnsIn(c, place, p) THEN w[p].mode ELSE "none"]

\* The first n callers of the line s may own the lock together with the owners in h.
Fits(h, s, n) ==
  \/ n = 0
  \/ n = 1 /\ s[1].mode = "write" /\ \A p \in Procs : h[p] = "none"
  \/ (\A p \in Procs : h[p] # "write") /\ \A i \in 1..n : s[i].mode = "read"

LongestFit(h, s, n) ==
  n \in 0..Len(s) /\ Fits(h, s, n) /\ \A m \in 0..Len(s) : Fits(h, s, m) => m <= n

\* Owners h and line s become owners k and line t: the longest prefix that fits is let in.
Settles(h, s, k, t) ==
  \E n \in 0..Len(s) :
    /\ Fits(h, s, n) /\ \A m \in 0..Len(s) : Fits(h, s, m) => m <= n
    /\ \A p \in Procs : (\A i \in 1..n : s[i].id # p) => k[p] = h[p]
    /\ \A i \in 1..n : k[s[i].id] = s[i].mode
    /\ t = SubSeq(s, n + 1, Len(s))

\* The owners once the first n of the line s have joined those in h.
Entering(h, s, n) ==
  [p \in Procs |-> IF {c \in {s[i] : i \in 1..n} : c.id = p} = {} THEN h[p]
                   ELSE (CHOOSE c \in {c \in {s[i] : i \in 1..n} : c.id = p} : TRUE).mode]

\* The callers of the line of s among the goroutines in gone.
Quitters(s, gone) == {x \in Elems(Line(s)) : x.id \in gone}

-----------------------------------------------------------------------------
(* Lines and owners *)

LEMMA LineProperties ==
  ASSUME NEW s \in Seq(Waiter)
  PROVE  /\ Line(s) \in Seq(Caller) /\ Len(Line(s)) = Len(s) /\ DOMAIN Line(s) = DOMAIN s
         /\ \A i \in DOMAIN s : /\ Line(s)[i] = CallerOf(s[i])
                                /\ Line(s)[i].id = s[i].id /\ Line(s)[i].mode = s[i].mode
         /\ Distinct(s) => Distinct(Line(s))
         /\ s = <<>> <=> Line(s) = <<>>
<1>1. \A i \in DOMAIN s : s[i] \in Waiter /\ CallerOf(s[i]) \in Caller
  <2> SUFFICES ASSUME NEW i \in DOMAIN s PROVE s[i] \in Waiter /\ CallerOf(s[i]) \in Caller
    OBVIOUS
  <2>1. s[i] \in Waiter
    OBVIOUS
  <2> QED
    BY <2>1 DEF CallerOf, Caller, Waiter
<1>2. Line(s) = [i \in 1..Len(s) |-> CallerOf(s[i])]
  BY DEF Line, CallerOf
<1>3. Line(s) \in Seq(Caller) /\ Len(Line(s)) = Len(s) /\ DOMAIN Line(s) = DOMAIN s
  BY <1>1, <1>2
<1>4. Distinct(s) => Distinct(Line(s))
  BY <1>2, <1>3 DEF Distinct, CallerOf
<1>5. s = <<>> <=> Line(s) = <<>>
  BY <1>3
<1>6. \A i \in DOMAIN s : /\ Line(s)[i] = CallerOf(s[i])
                          /\ Line(s)[i].id = s[i].id /\ Line(s)[i].mode = s[i].mode
  BY <1>2 DEF CallerOf
<1> QED
  BY <1>3, <1>4, <1>5, <1>6

\* The rest of the queue is the rest of the line.
LEMMA LineRest ==
  ASSUME NEW s \in Seq(Waiter), NEW n \in 0..Len(s)
  PROVE  Line(SubSeq(s, n + 1, Len(s))) = SubSeq(Line(s), n + 1, Len(Line(s)))
<1> DEFINE r == SubSeq(s, n + 1, Len(s))
           L == Line(s)
           t == Line(r)
           u == SubSeq(L, n + 1, Len(s))
<1>1. /\ L \in Seq(Caller) /\ Len(L) = Len(s) /\ Len(s) \in Nat
      /\ \A i \in 1..Len(s) : L[i] = CallerOf(s[i])
  BY LineProperties
<1>2. /\ r \in Seq(Waiter) /\ Len(r) = Len(s) - n
      /\ \A i \in 1..(Len(s) - n) : r[i] = s[n + i]
  OBVIOUS
<1> HIDE DEF r, L
<1>3. /\ t \in Seq(Caller) /\ Len(t) = Len(s) - n
      /\ \A i \in 1..(Len(s) - n) : t[i] = CallerOf(s[n + i])
  <2>1. t \in Seq(Caller) /\ Len(t) = Len(r) /\ \A i \in DOMAIN r : t[i] = CallerOf(r[i])
    BY <1>2, LineProperties
  <2> HIDE DEF t
  <2> QED
    BY <1>2, <2>1
<1>4. /\ u \in Seq(Caller) /\ Len(u) = Len(s) - n
      /\ \A i \in 1..(Len(s) - n) : u[i] = L[n + i]
  BY <1>1
<1> HIDE DEF t, u
<1>5. \A i \in 1..(Len(s) - n) : n + i \in 1..Len(s)
  BY <1>1
<1>6. \A i \in 1..(Len(s) - n) : t[i] = u[i]
  BY <1>1, <1>3, <1>4, <1>5
<1>7. t = u
  BY <1>1, <1>3, <1>4, <1>6
<1> QED
  BY <1>1, <1>7 DEF r, L, t, u

\* Those who leave the queue leave the line.
LEMMA LineWithout ==
  ASSUME NEW s \in Seq(Waiter), NEW gone
  PROVE  Line(Without(s, {x \in Elems(s) : x.id \in gone}))
           = Without(Line(s), Quitters(s, gone))
<1> DEFINE D == {x \in Elems(s) : x.id \in gone}
           L == Line(s)
           Q == Quitters(s, gone)
           n == Cardinality(Kept(s, D))
<1>1. DOMAIN L = DOMAIN s /\ \A i \in DOMAIN s : L[i] = CallerOf(s[i])
  BY LineProperties
<1>2. \A i \in DOMAIN s : s[i] \in D <=> s[i].id \in gone
  BY DEF Elems
<1>3. \A i \in DOMAIN s : L[i] \in Q <=> s[i].id \in gone
  BY <1>1 DEF Quitters, Elems, CallerOf
<1> HIDE DEF D, L, Q
<1>4. Kept(L, Q) = Kept(s, D)
  BY <1>1, <1>2, <1>3 DEF Kept
<1>5. \A i : Rank(L, Q, i) = Rank(s, D, i)
  BY <1>4 DEF Rank
<1>6. /\ Without(L, Q) = [j \in 1..n |-> Without(L, Q)[j]]
      /\ Without(s, D) = [j \in 1..n |-> Without(s, D)[j]]
  BY <1>4 DEF Without
<1>7. L \in Seq(Caller)
  BY LineProperties DEF L
<1>8. ASSUME NEW j \in 1..n PROVE Without(L, Q)[j] = CallerOf(Without(s, D)[j])
  <2>1. PICK i \in Kept(s, D) : Rank(s, D, i) = j
    BY RankOnto
  <2>2. Without(s, D)[j] = s[i]
    BY <2>1, SurvivorPlace
  <2>3. i \in Kept(L, Q) /\ Rank(L, Q, i) = j
    BY <1>4, <1>5, <2>1
  <2>4. Without(L, Q)[j] = L[i]
    BY <1>7, <2>3, SurvivorPlace
  <2>5. i \in DOMAIN s
    BY <2>1 DEF Kept
  <2> QED
    BY <1>1, <2>2, <2>4, <2>5
<1> HIDE DEF n
<1>9. Line(Without(s, D)) = [j \in 1..n |-> CallerOf(Without(s, D)[j])]
  BY <1>6 DEF Line, CallerOf
<1>10. Line(Without(s, D)) = Without(L, Q)
  BY <1>6, <1>8, <1>9
<1> QED
  BY <1>10 DEF D, L, Q

\* The owners, as the engine's own fields show them.
LEMMA OwnersShown ==
  ASSUME NEW c, NEW place, NEW w, Tied(c, place, w)
  PROVE  LET h == HeldBy(c, place, w)
         IN  /\ h \in [Procs -> Modes \union {"none"}]
             /\ c.writer <=> \E p \in Procs : h[p] = "write"
             /\ c.readers > 0 <=> \E p \in Procs : h[p] = "read"
             /\ c.readers = 0 <=> ~ \E p \in Procs : h[p] = "read"
<1> DEFINE h == HeldBy(c, place, w)
<1>1. w \in [Procs -> Waiter] /\ c.readers \in Nat
  BY DEF Tied, Typed, Core
<1>2. \A p \in Procs : w[p].mode \in Modes
  BY <1>1 DEF Waiter
<1>3. h \in [Procs -> Modes \union {"none"}]
  BY <1>2 DEF HeldBy
<1>4. \A p \in Procs : /\ h[p] = "write" <=> p \in WritersIn(c, place, w)
                       /\ h[p] = "read" <=> p \in ReadersIn(c, place, w)
  BY <1>2 DEF HeldBy, WritersIn, ReadersIn, Modes
<1>5. c.writer <=> WritersIn(c, place, w) # {}
  BY DEF Tied, LedgerTied
<1>6. c.readers = 0 <=> ReadersIn(c, place, w) = {}
  <2>1. c.readers = Cardinality(ReadersIn(c, place, w))
    BY DEF Tied, LedgerTied
  <2>2. IsFiniteSet(ReadersIn(c, place, w))
    BY FiniteProcs DEF ReadersIn
  <2> QED
    BY <2>1, <2>2, FS_EmptySet
<1>7. WritersIn(c, place, w) \subseteq Procs /\ ReadersIn(c, place, w) \subseteq Procs
  BY DEF WritersIn, ReadersIn
<1> HIDE DEF h
<1>8. c.writer <=> \E p \in Procs : h[p] = "write"
  BY <1>4, <1>5, <1>7
<1>9. c.readers = 0 <=> ~ \E p \in Procs : h[p] = "read"
  BY <1>4, <1>6, <1>7
<1> QED
  BY <1>1, <1>3, <1>8, <1>9 DEF h

\* Nobody but a goroutine in the queue changes from what it was: owners are told apart by
\* verdicts only.
LEMMA SameOwners ==
  ASSUME NEW c, NEW d, NEW place, NEW w,
         \A p \in Procs : c.verdict[p] = "granted" <=> d.verdict[p] = "granted"
  PROVE  HeldBy(d, place, w) = HeldBy(c, place, w)
BY DEF HeldBy, OwnsIn
-----------------------------------------------------------------------------
(* Serving the queue *)

\* Rejection changes no owner and takes the rejected out of the line.
LEMMA RejectOrder ==
  ASSUME NEW c, NEW place, NEW w, Tied(c, place, w), NEW gone
  PROVE  LET d == RejectCancelledWaiters(c, gone)
         IN  /\ HeldBy(d, place, w) = HeldBy(c, place, w)
             /\ Line(d.waiters) = Without(Line(c.waiters), Quitters(c.waiters, gone))
<1> DEFINE expired == {x \in Elems(c.waiters) : x.id \in gone}
           out == {x.id : x \in expired}
           d == RejectCancelledWaiters(c, gone)
<1>1. c \in Core /\ c.waiters \in Seq(Waiter)
  BY DEF Tied, Typed, Core
<1>2. \A p \in out : c.verdict[p] = "none"
  BY QueueEntries DEF Tied, QueuedIn
<1>3. /\ d.waiters = Without(c.waiters, expired)
      /\ d.verdict = [p \in Procs |-> IF p \in out THEN "context" ELSE c.verdict[p]]
  BY <1>1 DEF RejectCancelledWaiters, Core
<1> HIDE DEF out, d
<1>4. \A p \in Procs : c.verdict[p] = "granted" <=> d.verdict[p] = "granted"
  BY <1>2, <1>3
<1>5. HeldBy(d, place, w) = HeldBy(c, place, w)
  BY <1>4, SameOwners
<1> QED
  BY <1>1, <1>3, <1>5, LineWithout DEF d

\* Where the head of the queue may not own the lock, nobody of the line may.
LEMMA BlockedSettles ==
  ASSUME NEW c, NEW place, NEW w, Tied(c, place, w), ~HeadCompatible(c)
  PROVE  LET h == HeldBy(c, place, w)
         IN  /\ \A m \in 1..Len(Line(c.waiters)) : ~Fits(h, Line(c.waiters), m)
             /\ Settles(h, Line(c.waiters), h, Line(c.waiters))
<1> DEFINE h == HeldBy(c, place, w)
           s == c.waiters
           L == Line(c.waiters)
<1>1. s \in Seq(Waiter)
  BY DEF Tied, Typed, Core
<1>2. /\ L \in Seq(Caller) /\ Len(L) = Len(s)
      /\ \A i \in DOMAIN s : L[i].mode = s[i].mode
  BY <1>1, LineProperties
<1>3. /\ c.writer <=> \E p \in Procs : h[p] = "write"
      /\ c.readers = 0 <=> ~ \E p \in Procs : h[p] = "read"
  BY OwnersShown
<1> HIDE DEF h, L
<1>4. ASSUME NEW m \in 1..Len(L), Fits(h, L, m) PROVE FALSE
  <2>1. s # <<>> /\ 1 \in DOMAIN s /\ Head(s) = s[1] /\ s[1] \in Waiter /\ m # 0
    BY <1>1, <1>2, <1>4
  <2>2. c.writer \/ (s[1].mode = "write" /\ c.readers # 0)
    BY <2>1 DEF HeadCompatible
  <2>3. CASE m = 1 /\ L[1].mode = "write" /\ \A p \in Procs : h[p] = "none"
    BY <1>3, <2>2, <2>3
  <2>4. CASE (\A p \in Procs : h[p] # "write") /\ \A i \in 1..m : L[i].mode = "read"
    <3>1. L[1].mode = "read" /\ L[1].mode = s[1].mode
      BY <1>2, <1>4, <2>1, <2>4
    <3> QED
      BY <1>3, <2>2, <2>4, <3>1
  <2> QED
    BY <1>4, <2>1, <2>3, <2>4 DEF Fits
<1>5. Settles(h, L, h, L)
  <2>1. 0 \in 0..Len(L) /\ Fits(h, L, 0) /\ L = SubSeq(L, 0 + 1, Len(L))
    BY <1>2 DEF Fits
  <2>2. \A m \in 0..Len(L) : Fits(h, L, m) => m <= 0
    BY <1>2, <1>4
  <2> QED
    BY <2>1, <2>2 DEF Settles
<1> QED
  BY <1>4, <1>5 DEF h, L

\* A writer at the head of the queue of a free lock acquires alone.
LEMMA WriterSettles ==
  ASSUME NEW c, NEW place, NEW w, Tied(c, place, w),
         HeadCompatible(c), Head(c.waiters).mode = "write"
  PROVE  LET g == GrantHead(c)
         IN  Settles(HeldBy(c, place, w), Line(c.waiters), HeldBy(g, place, w), Line(g.waiters))
<1> DEFINE s == c.waiters
           x == Head(s)
           g == GrantHead(c)
           h == HeldBy(c, place, w)
           k == HeldBy(g, place, w)
           L == Line(s)
<1>1. c \in Core /\ s \in Seq(Waiter) /\ s # <<>>
  BY DEF Tied, Typed, Core, HeadCompatible
<1>2. /\ x = s[1] /\ 1 \in DOMAIN s /\ Len(s) \in Nat \ {0} /\ x \in Elems(s)
  <2>1. 1 \in DOMAIN s /\ x = s[1]
    BY <1>1
  <2> QED
    BY <1>1, <2>1 DEF Elems
<1>3. x.id \in Procs /\ place[x.id] = "waiting" /\ x = w[x.id]
  BY <1>2, QueueEntries DEF Tied, QueuedIn
<1>4. g.waiters = Tail(s) /\ g.verdict = [c.verdict EXCEPT ![x.id] = "granted"]
  BY <1>1 DEF GrantHead, Grant, Core
<1>5. /\ L \in Seq(Caller) /\ Len(L) = Len(s)
      /\ \A i \in DOMAIN s : L[i].id = s[i].id /\ L[i].mode = s[i].mode
  BY <1>1, LineProperties
<1>6. L[1].mode = "write" /\ L[1].id = x.id
  BY <1>2, <1>5
<1>7. \A p \in Procs : h[p] = "none"
  <2>1. ~c.writer /\ c.readers = 0
    BY DEF HeadCompatible
  <2>2. /\ h \in [Procs -> Modes \union {"none"}]
        /\ c.writer <=> \E p \in Procs : h[p] = "write"
        /\ c.readers = 0 <=> ~ \E p \in Procs : h[p] = "read"
    BY OwnersShown
  <2> HIDE DEF h
  <2> QED
    BY <2>1, <2>2 DEF Modes
<1>8. c.verdict \in [Procs -> Verdicts]
  BY <1>1 DEF Core
<1>9. /\ \A p \in Procs : p # x.id => k[p] = h[p]
      /\ k[x.id] = "write"
  BY <1>3, <1>4, <1>8 DEF HeldBy, OwnsIn
<1>10. Line(g.waiters) = SubSeq(L, 2, Len(L))
  <2>1. 1 \in 0..Len(s) /\ 1 + 1 = 2 /\ Tail(s) = SubSeq(s, 2, Len(s))
    BY <1>1, <1>2
  <2>2. Line(SubSeq(s, 1 + 1, Len(s))) = SubSeq(L, 1 + 1, Len(L))
    BY <1>1, <2>1, LineRest
  <2> QED
    BY <1>4, <2>1, <2>2
<1> HIDE DEF h, k, L, g
<1>11. Fits(h, L, 1)
  BY <1>6, <1>7 DEF Fits
<1>12. \A m \in 0..Len(L) : Fits(h, L, m) => m <= 1
  <2> SUFFICES ASSUME NEW m \in 0..Len(L), Fits(h, L, m), m > 1 PROVE FALSE
    BY <1>2, <1>5
  <2>1. L[1].mode = "read"
    BY DEF Fits
  <2> QED
    BY <1>6, <2>1
<1>13. Settles(h, L, k, Line(g.waiters))
  <2>1. 1 \in 0..Len(L) /\ 1 + 1 = 2
    BY <1>2, <1>5
  <2>2. /\ \A p \in Procs : (\A i \in 1..1 : L[i].id # p) => k[p] = h[p]
        /\ \A i \in 1..1 : k[L[i].id] = L[i].mode
    BY <1>6, <1>9
  <2> QED
    BY <1>10, <1>11, <1>12, <2>1, <2>2 DEF Settles
<1> QED
  BY <1>13 DEF h, k, L, g

\* The readers at the front of the queue acquire together, and they only.
LEMMA ReadersSettle ==
  ASSUME NEW c, NEW place, NEW w, Tied(c, place, w),
         HeadCompatible(c), Head(c.waiters).mode # "write",
         NEW n, n = LeadingReaders(c.waiters)
  PROVE  LET g == GrantReaders(c, n)
         IN  Settles(HeldBy(c, place, w), Line(c.waiters), HeldBy(g, place, w), Line(g.waiters))
<1> DEFINE s == c.waiters
           in == {x.id : x \in {s[i] : i \in 1..n}}
           g == GrantReaders(c, n)
           h == HeldBy(c, place, w)
           k == HeldBy(g, place, w)
           L == Line(s)
<1>1. c \in Core /\ s \in Seq(Waiter) /\ s # <<>>
  BY DEF Tied, Typed, Core, HeadCompatible
<1>2. /\ n \in 0..Len(s) /\ Len(s) \in Nat \ {0}
      /\ \A i \in 1..n : s[i].mode = "read"
      /\ n < Len(s) => s[n + 1].mode # "read"
  BY <1>1, LeadingReadersProperties
<1>3. 1 \in DOMAIN s /\ s[1].mode = "read"
  <2>1. 1 \in DOMAIN s /\ Head(s) = s[1] /\ s[1] \in Waiter
    BY <1>1
  <2> QED
    BY <2>1 DEF Waiter, Modes
<1>4. \A i \in 1..n : /\ i \in DOMAIN s /\ s[i].id \in Procs /\ s[i].id \in in
                      /\ place[s[i].id] = "waiting" /\ w[s[i].id].mode = "read"
  <2> SUFFICES ASSUME NEW i \in 1..n
               PROVE  /\ i \in DOMAIN s /\ s[i].id \in Procs /\ s[i].id \in in
                      /\ place[s[i].id] = "waiting" /\ w[s[i].id].mode = "read"
    OBVIOUS
  <2>1. i \in DOMAIN s /\ s[i] \in Elems(s)
    BY <1>1, <1>2 DEF Elems
  <2>2. s[i].id \in QueuedIn(c, place) /\ s[i] = w[s[i].id]
    BY <2>1, QueueEntries DEF Tied
  <2> QED
    BY <1>2, <2>1, <2>2 DEF QueuedIn
<1>5. /\ g.waiters = SubSeq(s, n + 1, Len(s))
      /\ g.verdict = [p \in Procs |-> IF p \in in THEN "granted" ELSE c.verdict[p]]
  BY <1>1 DEF GrantReaders, Core
<1>6. /\ L \in Seq(Caller) /\ Len(L) = Len(s)
      /\ \A i \in DOMAIN s : L[i].id = s[i].id /\ L[i].mode = s[i].mode
  BY <1>1, LineProperties
<1>7. Line(g.waiters) = SubSeq(L, n + 1, Len(L))
  BY <1>1, <1>2, <1>5, LineRest
<1>8. \A p \in Procs : h[p] # "write"
  <2>1. c.writer <=> \E p \in Procs : h[p] = "write"
    BY OwnersShown
  <2> QED
    BY <2>1 DEF HeadCompatible
<1>9. \A p \in in : \E i \in 1..n : p = s[i].id
  OBVIOUS
<1> HIDE DEF in
<1>10. /\ \A p \in Procs : p \notin in => k[p] = h[p]
       /\ \A i \in 1..n : k[s[i].id] = "read"
  BY <1>4, <1>5 DEF HeldBy, OwnsIn
<1> HIDE DEF h, k, L, g
<1>11. /\ \A p \in Procs : (\A i \in 1..n : L[i].id # p) => k[p] = h[p]
       /\ \A i \in 1..n : k[L[i].id] = L[i].mode
  BY <1>2, <1>4, <1>6, <1>9, <1>10
<1>12. Fits(h, L, n)
  BY <1>2, <1>4, <1>6, <1>8 DEF Fits
<1>13. \A m \in 0..Len(L) : Fits(h, L, m) => m <= n
  <2> SUFFICES ASSUME NEW m \in 0..Len(L), Fits(h, L, m), m > n PROVE FALSE
    BY <1>2, <1>6
  <2>1. n < Len(s) /\ n + 1 \in DOMAIN s /\ n + 1 \in 1..m /\ m # 0
    BY <1>1, <1>2, <1>6
  <2>2. L[n + 1].mode # "read" /\ L[1].mode # "write"
    BY <1>2, <1>3, <1>6, <2>1
  <2> QED
    BY <2>1, <2>2 DEF Fits
<1>14. Settles(h, L, k, Line(g.waiters))
  BY <1>2, <1>6, <1>7, <1>11, <1>12, <1>13 DEF Settles
<1> QED
  BY <1>14 DEF h, k, L, g

\* Serving the queue: the expired leave the line, and the rest of it settles.
LEMMA GrantWaitersSettles ==
  ASSUME NEW c, NEW place, NEW w, Tied(c, place, w), NEW gone
  PROVE  LET g == GrantWaiters(c, gone)
         IN  Settles(HeldBy(c, place, w), Without(Line(c.waiters), Quitters(c.waiters, gone)),
                     HeldBy(g, place, w), Line(g.waiters))
<1> DEFINE d == RejectCancelledWaiters(c, gone)
           n == LeadingReaders(d.waiters)
           g == GrantWaiters(c, gone)
<1>1. /\ Tied(d, place, w) /\ HeldBy(d, place, w) = HeldBy(c, place, w)
      /\ Line(d.waiters) = Without(Line(c.waiters), Quitters(c.waiters, gone))
  BY RejectPreserves, RejectOrder
<1>2. g = IF ~HeadCompatible(d) THEN d
          ELSE IF Head(d.waiters).mode = "write" THEN GrantHead(d) ELSE GrantReaders(d, n)
  BY DEF GrantWaiters
<1> HIDE DEF d, g
<1>3. Settles(HeldBy(d, place, w), Line(d.waiters), HeldBy(g, place, w), Line(g.waiters))
  <2>1. CASE ~HeadCompatible(d)
    BY <1>1, <1>2, <2>1, BlockedSettles
  <2>2. CASE HeadCompatible(d) /\ Head(d.waiters).mode = "write"
    BY <1>1, <1>2, <2>2, WriterSettles
  <2>3. CASE HeadCompatible(d) /\ Head(d.waiters).mode # "write"
    BY <1>1, <1>2, <2>3, ReadersSettle
  <2> QED
    BY <2>1, <2>2, <2>3
<1> QED
  BY <1>1, <1>3 DEF g

-----------------------------------------------------------------------------
(* A newcomer *)

\* Whether a prefix fits depends on the prefix only.
LEMMA FitsPrefix ==
  ASSUME NEW h, NEW s, NEW a, NEW m \in Nat, \A i \in 1..m : a[i] = s[i]
  PROVE  Fits(h, a, m) <=> Fits(h, s, m)
<1>1. CASE m = 0
  BY <1>1 DEF Fits
<1>2. CASE m # 0
  <2>1. a[1] = s[1]
    BY <1>2
  <2> QED
    BY <2>1 DEF Fits
<1> QED
  BY <1>1, <1>2

\* One more caller at the end of the line, who may not own the lock once the line has
\* settled, stays there.
LEMMA NewcomerWaits ==
  ASSUME NEW h \in [Procs -> Modes \union {"none"}], NEW s \in Seq(Caller),
         NEW k \in [Procs -> Modes \union {"none"}], NEW t \in Seq(Caller),
         Settles(h, s, k, t), NEW x \in Caller, ~Fits(k, <<x>>, 1) \/ t # <<>>
  PROVE  Settles(h, Append(s, x), k, Append(t, x))
<1> DEFINE a == Append(s, x)
<1>1. /\ a \in Seq(Caller) /\ Len(a) = Len(s) + 1 /\ Len(s) \in Nat
      /\ \A i \in 1..Len(s) : a[i] = s[i]
      /\ a[Len(s) + 1] = x
  OBVIOUS
<1>2. PICK n \in 0..Len(s) :
        /\ Fits(h, s, n) /\ \A m \in 0..Len(s) : Fits(h, s, m) => m <= n
        /\ \A p \in Procs : (\A i \in 1..n : s[i].id # p) => k[p] = h[p]
        /\ \A i \in 1..n : k[s[i].id] = s[i].mode
        /\ t = SubSeq(s, n + 1, Len(s))
  BY DEF Settles
<1> HIDE DEF a
<1>3. \A m \in 0..Len(s) : Fits(h, a, m) <=> Fits(h, s, m)
  BY <1>1, FitsPrefix
<1>4. Append(t, x) = SubSeq(a, n + 1, Len(a))
  <2> DEFINE u == Append(t, x)
             v == SubSeq(a, n + 1, Len(a))
  <2>1. Len(t) = Len(s) - n /\ \A i \in 1..(Len(s) - n) : t[i] = s[n + i]
    BY <1>1, <1>2
  <2>2. /\ u \in Seq(Caller) /\ Len(u) = Len(s) - n + 1
        /\ \A i \in 1..(Len(s) - n) : u[i] = t[i]
        /\ u[Len(s) - n + 1] = x
    BY <1>1, <2>1
  <2>3. /\ v \in Seq(Caller) /\ Len(v) = Len(s) - n + 1
        /\ \A i \in 1..(Len(s) - n + 1) : v[i] = a[n + i]
    BY <1>1
  <2> HIDE DEF u, v
  <2>4. \A i \in 1..(Len(s) - n) : u[i] = v[i]
    <3> SUFFICES ASSUME NEW i \in 1..(Len(s) - n) PROVE u[i] = v[i]
      OBVIOUS
    <3>1. n + i \in 1..Len(s) /\ i \in 1..(Len(s) - n + 1)
      BY <1>1
    <3> QED
      BY <1>1, <2>1, <2>2, <2>3, <3>1
  <2>5. u[Len(s) - n + 1] = v[Len(s) - n + 1]
    <3>1. Len(s) - n + 1 \in 1..(Len(s) - n + 1) /\ n + (Len(s) - n + 1) = Len(s) + 1
      BY <1>1
    <3> QED
      BY <1>1, <2>2, <2>3, <3>1
  <2>6. \A i \in 1..(Len(s) - n + 1) : i \in 1..(Len(s) - n) \/ i = Len(s) - n + 1
    BY <1>1
  <2>7. u = v
    BY <1>1, <2>2, <2>3, <2>4, <2>5, <2>6
  <2> QED
    BY <2>7 DEF u, v
<1>5. ~Fits(h, a, Len(s) + 1)
  <2> SUFFICES ASSUME Fits(h, a, Len(s) + 1) PROVE FALSE
    OBVIOUS
  <2>1. CASE Len(s) = 0
    <3>1. n = 0 /\ t = <<>> /\ a[1] = x
      BY <1>1, <1>2, <2>1
    <3>2. \A p \in Procs : k[p] = h[p]
      BY <1>2, <3>1
    <3>3. Fits(k, <<x>>, 1)
      BY <1>1, <2>1, <3>1, <3>2 DEF Fits
    <3> QED
      BY <3>1, <3>3
  <2>2. CASE Len(s) # 0
    <3>1. /\ \A p \in Procs : h[p] # "write"
          /\ \A i \in 1..(Len(s) + 1) : a[i].mode = "read"
      BY <1>1, <2>2 DEF Fits
    <3>2. \A i \in 1..Len(s) : s[i].mode = "read"
      BY <1>1, <3>1
    <3>3. Fits(h, s, Len(s))
      BY <3>1, <3>2 DEF Fits
    <3>4. n = Len(s) /\ t = <<>>
      BY <1>1, <1>2, <3>3
    <3>5. \A p \in Procs : k[p] # "write"
      <4> SUFFICES ASSUME NEW p \in Procs PROVE k[p] # "write"
        OBVIOUS
      <4>1. CASE \A i \in 1..n : s[i].id # p
        BY <1>2, <3>1, <4>1
      <4>2. CASE \E i \in 1..n : s[i].id = p
        BY <1>2, <3>2, <3>4, <4>2
      <4> QED
        BY <4>1, <4>2
    <3>6. x.mode = "read"
      BY <1>1, <3>1
    <3>7. Fits(k, <<x>>, 1)
      BY <3>5, <3>6 DEF Fits
    <3> QED
      BY <3>4, <3>7
  <2> QED
    BY <2>1, <2>2
<1>6. \A m \in 0..Len(a) : Fits(h, a, m) => m <= n
  <2> SUFFICES ASSUME NEW m \in 0..Len(a), Fits(h, a, m) PROVE m <= n
    OBVIOUS
  <2>1. m \in 0..Len(s) \/ m = Len(s) + 1
    BY <1>1
  <2> QED
    BY <1>2, <1>3, <1>5, <2>1
<1>7. n \in 0..Len(a) /\ Fits(h, a, n)
  BY <1>1, <1>2, <1>3
<1>8. \A i \in 1..n : a[i] = s[i]
  BY <1>1
<1> QED
  BY <1>2, <1>4, <1>6, <1>7, <1>8, ZenonT(60) DEF Settles, a

\* One who may own the lock once the whole line has been let in follows it.
LEMMA NewcomerEnters ==
  ASSUME NEW h \in [Procs -> Modes \union {"none"}], NEW s \in Seq(Caller),
         NEW k \in [Procs -> Modes \union {"none"}], Settles(h, s, k, <<>>),
         NEW x \in Caller, Fits(k, <<x>>, 1), \A i \in DOMAIN s : s[i].id # x.id
  PROVE  Settles(h, Append(s, x), [k EXCEPT ![x.id] = x.mode], <<>>)
<1> DEFINE a == Append(s, x)
           e == [k EXCEPT ![x.id] = x.mode]
           l == Len(s)
<1>1. /\ a \in Seq(Caller) /\ Len(a) = l + 1 /\ l \in Nat
      /\ \A i \in 1..l : a[i] = s[i]
      /\ a[l + 1] = x /\ x.id \in Procs
  BY DEF Caller
<1>2. PICK n \in 0..l :
        /\ Fits(h, s, n)
        /\ \A p \in Procs : (\A i \in 1..n : s[i].id # p) => k[p] = h[p]
        /\ \A i \in 1..n : k[s[i].id] = s[i].mode
        /\ <<>> = SubSeq(s, n + 1, Len(s))
  BY DEF Settles
<1>3. n = l
  <2>1. Len(SubSeq(s, n + 1, l)) = l - n
    BY <1>1
  <2>2. Len(<<>>) = 0 /\ l - n = Len(<<>>)
    BY <1>2, <2>1
  <2> QED
    BY <1>1, <2>2
<1>4. \A i \in 1..l : s[i].id \in Procs /\ s[i].mode \in Modes /\ s[i].id # x.id
  <2> SUFFICES ASSUME NEW i \in 1..l
               PROVE  s[i].id \in Procs /\ s[i].mode \in Modes /\ s[i].id # x.id
    OBVIOUS
  <2>1. s[i] \in Caller /\ i \in DOMAIN s
    OBVIOUS
  <2> QED
    BY <2>1 DEF Caller
<1>5. /\ e[x.id] = x.mode
      /\ \A p \in Procs : p # x.id => e[p] = k[p]
  BY <1>1
<1> HIDE DEF a, e, l
<1>6. Fits(h, a, l + 1)
  <2>1. CASE x.mode = "write" /\ \A p \in Procs : k[p] = "none"
    <3>1. l = 0
      <4> SUFFICES ASSUME l # 0 PROVE FALSE
        OBVIOUS
      <4>1. 1 \in 1..l
        BY <1>1
      <4>2. k[s[1].id] = "none" /\ k[s[1].id] = s[1].mode /\ s[1].mode \in Modes
        BY <1>2, <1>3, <1>4, <2>1, <4>1
      <4> QED
        BY <4>2 DEF Modes
    <3>2. \A p \in Procs : h[p] = "none"
      BY <1>2, <1>3, <2>1, <3>1
    <3>3. a[1].mode = "write" /\ l + 1 = 1
      BY <1>1, <2>1, <3>1
    <3> QED
      BY <3>2, <3>3 DEF Fits
  <2>2. CASE x.mode = "read" /\ \A p \in Procs : k[p] # "write"
    <3>1. \A i \in 1..l : s[i].mode = "read"
      BY <1>2, <1>3, <1>4, <2>2 DEF Modes
    <3>2. \A p \in Procs : h[p] # "write"
      <4>1. CASE n = 0
        BY <1>2, <2>2, <4>1
      <4>2. CASE n # 0
        <5>1. s[1].mode = "read"
          BY <1>1, <1>3, <3>1, <4>2
        <5> QED
          BY <1>2, <4>2, <5>1 DEF Fits
      <4> QED
        BY <4>1, <4>2
    <3>3. \A i \in 1..(l + 1) : a[i].mode = "read"
      <4>1. \A i \in 1..(l + 1) : i \in 1..l \/ i = l + 1
        BY <1>1
      <4> QED
        BY <1>1, <2>2, <3>1, <4>1
    <3> QED
      BY <3>2, <3>3 DEF Fits
  <2>3. <<x>>[1] = x
    OBVIOUS
  <2> QED
    BY <2>1, <2>2, <2>3 DEF Fits
<1>7. \A p \in Procs : (\A i \in 1..(l + 1) : a[i].id # p) => e[p] = h[p]
  <2> SUFFICES ASSUME NEW p \in Procs, \A i \in 1..(l + 1) : a[i].id # p PROVE e[p] = h[p]
    OBVIOUS
  <2>1. p # x.id /\ \A i \in 1..l : s[i].id # p
    BY <1>1
  <2> QED
    BY <1>2, <1>3, <1>5, <2>1
<1>8. \A i \in 1..(l + 1) : e[a[i].id] = a[i].mode
  <2>1. \A i \in 1..(l + 1) : i \in 1..l \/ i = l + 1
    BY <1>1
  <2> QED
    BY <1>1, <1>2, <1>3, <1>4, <1>5, <2>1
<1>9. <<>> = SubSeq(a, (l + 1) + 1, Len(a))
  BY <1>1
<1>10. l + 1 \in 0..Len(a) /\ \A m \in 0..Len(a) : m <= l + 1
  BY <1>1
<1>11. Settles(h, a, e, <<>>)
  BY <1>1, <1>6, <1>7, <1>8, <1>9, <1>10 DEF Settles
<1> QED
  BY <1>11 DEF a, e

\* One goroutine becomes an owner, or ceases to be one, and the others stay what they are.
LEMMA OneOwnerChanges ==
  ASSUME NEW c, NEW place, NEW w, NEW e, NEW place2, NEW w2, NEW p \in Procs,
         \A q \in Procs : q # p => /\ OwnsIn(e, place2, q) <=> OwnsIn(c, place, q)
                                   /\ w2[q] = w[q]
  PROVE  HeldBy(e, place2, w2)
           = [HeldBy(c, place, w) EXCEPT
                ![p] = IF OwnsIn(e, place2, p) THEN w2[p].mode ELSE "none"]
BY DEF HeldBy

\* Owners are the same if every goroutine is the same owner.
LEMMA EachTheSame ==
  ASSUME NEW c, NEW place, NEW w, NEW e, NEW place2, NEW w2,
         \A q \in Procs : HeldBy(e, place2, w2)[q] = HeldBy(c, place, w)[q]
  PROVE  HeldBy(e, place2, w2) = HeldBy(c, place, w)
BY DEF HeldBy

-----------------------------------------------------------------------------
(* What each critical section does to owners and line *)

\* A call serves the queue before it looks at the lock for itself.
LEMMA ServedSettles ==
  ASSUME NEW c, NEW place, NEW w, Tied(c, place, w), NEW gone,
         NEW d, d = IF c.waiters = <<>> THEN c ELSE GrantWaiters(c, gone)
  PROVE  Settles(HeldBy(c, place, w), Without(Line(c.waiters), Quitters(c.waiters, gone)),
                 HeldBy(d, place, w), Line(d.waiters))
<1>1. CASE c.waiters = <<>>
  <2>1. ~HeadCompatible(c) /\ d = c
    BY <1>1 DEF HeadCompatible
  <2>2. Line(c.waiters) = <<>> /\ Line(c.waiters) \in Seq(Caller)
    <3>1. c.waiters \in Seq(Waiter)
      BY DEF Tied, Typed, Core
    <3> QED
      BY <1>1, <3>1, LineProperties
  <2>3. Without(Line(c.waiters), Quitters(c.waiters, gone)) = Line(c.waiters)
    BY <2>2, WithoutNothing
  <2> QED
    BY <2>1, <2>3, BlockedSettles
<1>2. CASE c.waiters # <<>>
  <2>1. d = GrantWaiters(c, gone)
    BY <1>2
  <2> QED
    BY <2>1, GrantWaitersSettles
<1> QED
  BY <1>1, <1>2

\* The line that is left when some have quit: callers who are waiting, each once.
LEMMA LineLeft ==
  ASSUME NEW c, NEW place, NEW w, Tied(c, place, w), NEW Q,
         NEW s, s = Without(Line(c.waiters), Q)
  PROVE  /\ s \in Seq(Caller) /\ Distinct(s)
         /\ \A y \in Elems(s) : place[y.id] = "waiting"
<1> DEFINE L == Line(c.waiters)
<1>1. c.waiters \in Seq(Waiter) /\ Distinct(c.waiters)
  BY DEF Tied, Typed, Core, QueueTied
<1>2. /\ L \in Seq(Caller) /\ Distinct(L) /\ DOMAIN L = DOMAIN c.waiters
      /\ \A i \in DOMAIN c.waiters : L[i].id = c.waiters[i].id
  BY <1>1, LineProperties
<1> HIDE DEF L
<1>3. s \in Seq(Caller) /\ Distinct(s) /\ Elems(s) \subseteq Elems(L)
  BY <1>2, WithoutProperties DEF L
<1>4. \A x \in Elems(L) : place[x.id] = "waiting"
  BY <1>2, QueueEntries DEF Tied, Elems, QueuedIn
<1> QED
  BY <1>3, <1>4

\* Who settles how is determined by the longest prefix that fits.
LEMMA SettlesExactly ==
  ASSUME NEW h, NEW s \in Seq(Caller), Distinct(s),
         NEW k \in [Procs -> Modes \union {"none"}], NEW t, Settles(h, s, k, t),
         NEW n, LongestFit(h, s, n)
  PROVE  /\ k = Entering(h, s, n)
         /\ t = SubSeq(s, n + 1, Len(s))
<1>1. PICK j \in 0..Len(s) :
        /\ Fits(h, s, j) /\ \A m \in 0..Len(s) : Fits(h, s, m) => m <= j
        /\ \A p \in Procs : (\A i \in 1..j : s[i].id # p) => k[p] = h[p]
        /\ \A i \in 1..j : k[s[i].id] = s[i].mode
        /\ t = SubSeq(s, j + 1, Len(s))
  BY DEF Settles
<1>2. n = j
  BY <1>1 DEF LongestFit
<1> DEFINE in(p) == {c \in {s[i] : i \in 1..n} : c.id = p}
<1>3. ASSUME NEW p \in Procs
      PROVE  k[p] = IF in(p) = {} THEN h[p] ELSE (CHOOSE c \in in(p) : TRUE).mode
  <2>1. CASE in(p) = {}
    BY <1>1, <1>2, <2>1
  <2>2. CASE in(p) # {}
    <3>1. PICK i \in 1..n : s[i].id = p
      BY <2>2
    <3>2. i \in DOMAIN s /\ 1..n \subseteq DOMAIN s
      BY <1>2
    <3>3. in(p) = {s[i]}
      BY <3>1, <3>2 DEF Distinct
    <3>4. (CHOOSE c \in in(p) : TRUE) = s[i]
      BY <3>3
    <3> QED
      BY <1>1, <1>2, <2>2, <3>1, <3>4
  <2> QED
    BY <2>1, <2>2
<1>4. k = [p \in Procs |-> IF in(p) = {} THEN h[p] ELSE (CHOOSE c \in in(p) : TRUE).mode]
  BY <1>3
<1> QED
  BY <1>1, <1>2, <1>4 DEF Entering

\* A newcomer who acquires at once is the last of a line that is let in as a whole.
LEMMA ArrivalEnters ==
  ASSUME NEW c, NEW place, NEW w, Tied(c, place, w), NEW d, Tied(d, place, w), NEW Q,
         Settles(HeldBy(c, place, w), Without(Line(c.waiters), Q),
                 HeldBy(d, place, w), Line(d.waiters)),
         NEW x \in Waiter, place[x.id] # "waiting",
         CanAcquireImmediately(d, x.mode),
         NEW k, k = [HeldBy(d, place, w) EXCEPT ![x.id] = x.mode]
  PROVE  Settles(HeldBy(c, place, w), Append(Without(Line(c.waiters), Q), CallerOf(x)),
                 k, <<>>)
<1> DEFINE h == HeldBy(c, place, w)
           j == HeldBy(d, place, w)
           s == Without(Line(c.waiters), Q)
           y == CallerOf(x)
<1>1. /\ h \in [Procs -> Modes \union {"none"}] /\ j \in [Procs -> Modes \union {"none"}]
      /\ d.writer <=> \E p \in Procs : j[p] = "write"
      /\ d.readers = 0 <=> ~ \E p \in Procs : j[p] = "read"
  BY OwnersShown
<1>2. /\ s \in Seq(Caller)
      /\ \A i \in DOMAIN s : place[s[i].id] = "waiting"
  <2>1. s = Without(Line(c.waiters), Q)
    OBVIOUS
  <2> HIDE DEF h, j, s, y
  <2>2. s \in Seq(Caller) /\ \A z \in Elems(s) : place[z.id] = "waiting"
    BY <2>1, LineLeft
  <2> QED
    BY <2>2 DEF Elems
<1>3. y \in Caller /\ y.id = x.id /\ y.mode = x.mode /\ x.mode \in Modes
  BY DEF CallerOf, Caller, Waiter
<1>4. Line(d.waiters) = <<>>
  <2>1. d.waiters \in Seq(Waiter)
    BY DEF Tied, Typed, Core
  <2>2. d.waiters = <<>>
    BY DEF CanAcquireImmediately
  <2> QED
    BY <2>1, <2>2, LineProperties
<1> HIDE DEF h, j, s, y
<1>5. Fits(j, <<y>>, 1)
  <2>1. ~d.writer /\ (x.mode = "write" => d.readers = 0)
    BY DEF CanAcquireImmediately
  <2>2. <<y>>[1] = y
    OBVIOUS
  <2>3. CASE x.mode = "write"
    <3>1. \A p \in Procs : j[p] = "none"
      BY <1>1, <2>1, <2>3 DEF Modes
    <3> QED
      BY <1>3, <2>2, <2>3, <3>1 DEF Fits
  <2>4. CASE x.mode = "read"
    <3>1. \A i \in 1..1 : <<y>>[i].mode = "read"
      BY <1>3, <2>2, <2>4
    <3> QED
      BY <1>1, <2>1, <3>1 DEF Fits
  <2> QED
    BY <1>3, <2>3, <2>4 DEF Modes
<1>6. \A i \in DOMAIN s : s[i].id # y.id
  BY <1>2, <1>3
<1>7. Settles(h, s, j, <<>>)
  BY <1>4 DEF h, s, j
<1>8. Settles(h, Append(s, y), [j EXCEPT ![y.id] = y.mode], <<>>)
  BY <1>1, <1>2, <1>3, <1>5, <1>6, <1>7, NewcomerEnters
<1> QED
  BY <1>3, <1>8 DEF h, s, j, y

\* A newcomer who may not acquire at once stays at the end of the line.
LEMMA ArrivalWaits ==
  ASSUME NEW c, NEW place, NEW w, Tied(c, place, w), NEW d, Tied(d, place, w), NEW Q,
         Settles(HeldBy(c, place, w), Without(Line(c.waiters), Q),
                 HeldBy(d, place, w), Line(d.waiters)),
         NEW x \in Waiter, ~CanAcquireImmediately(d, x.mode)
  PROVE  Settles(HeldBy(c, place, w), Append(Without(Line(c.waiters), Q), CallerOf(x)),
                 HeldBy(d, place, w), Append(Line(d.waiters), CallerOf(x)))
<1> DEFINE h == HeldBy(c, place, w)
           j == HeldBy(d, place, w)
           s == Without(Line(c.waiters), Q)
           t == Line(d.waiters)
           y == CallerOf(x)
<1>1. /\ h \in [Procs -> Modes \union {"none"}] /\ j \in [Procs -> Modes \union {"none"}]
      /\ d.writer <=> \E p \in Procs : j[p] = "write"
      /\ d.readers = 0 <=> ~ \E p \in Procs : j[p] = "read"
  BY OwnersShown
<1>2. s \in Seq(Caller)
  BY LineLeft
<1>3. y \in Caller /\ y.mode = x.mode /\ x.mode \in Modes
  BY DEF CallerOf, Caller, Waiter
<1>4. t \in Seq(Caller) /\ (t = <<>> => d.waiters = <<>>)
  BY LineProperties DEF Tied, Typed, Core
<1> HIDE DEF h, j, s, t, y
<1>5. ~Fits(j, <<y>>, 1) \/ t # <<>>
  <2> SUFFICES ASSUME t = <<>> PROVE ~Fits(j, <<y>>, 1)
    OBVIOUS
  <2>1. d.writer \/ (x.mode = "write" /\ d.readers # 0)
    BY <1>4 DEF CanAcquireImmediately
  <2>2. <<y>>[1] = y /\ 1 \in 1..1
    OBVIOUS
  <2> QED
    BY <1>1, <1>3, <2>1, <2>2 DEF Fits
<1>6. Settles(h, s, j, t)
  BY DEF h, s, j, t
<1> QED
  BY <1>1, <1>2, <1>3, <1>4, <1>5, <1>6, NewcomerWaits DEF h, s, j, t, y

\* Who joins the queue joins the line.
LEMMA LineGrows ==
  ASSUME NEW s \in Seq(Waiter), NEW x \in Waiter
  PROVE  Line(Append(s, x)) = Append(Line(s), CallerOf(x))
<1> DEFINE a == Append(s, x)
           L == Line(s)
           u == Line(a)
           v == Append(L, CallerOf(x))
<1>1. /\ a \in Seq(Waiter) /\ Len(a) = Len(s) + 1 /\ Len(s) \in Nat
      /\ \A i \in 1..Len(s) : a[i] = s[i]
      /\ a[Len(s) + 1] = x
  OBVIOUS
<1>2. L \in Seq(Caller) /\ Len(L) = Len(s) /\ \A i \in 1..Len(s) : L[i] = CallerOf(s[i])
  BY LineProperties
<1> HIDE DEF a, L
<1>3. u \in Seq(Caller) /\ Len(u) = Len(s) + 1 /\ \A i \in 1..(Len(s) + 1) : u[i] = CallerOf(a[i])
  BY <1>1, LineProperties
<1>4. /\ v \in Seq(Caller) /\ Len(v) = Len(s) + 1
      /\ \A i \in 1..Len(s) : v[i] = L[i]
      /\ v[Len(s) + 1] = CallerOf(x)
  <2>1. CallerOf(x) \in Caller
    BY DEF CallerOf, Caller, Waiter
  <2> QED
    BY <1>1, <1>2, <2>1
<1> HIDE DEF u, v
<1>5. \A i \in 1..(Len(s) + 1) : i \in 1..Len(s) \/ i = Len(s) + 1
  BY <1>1
<1>6. \A i \in 1..(Len(s) + 1) : u[i] = v[i]
  BY <1>1, <1>2, <1>3, <1>4, <1>5
<1>7. u = v
  BY <1>1, <1>3, <1>4, <1>6
<1> QED
  BY <1>7 DEF u, v, a, L

\* A goroutine that gives up while it is queued quits together with the expired.
LEMMA GiveUpSettles ==
  ASSUME NEW c, NEW place, NEW w, Tied(c, place, w), NEW gone,
         NEW p \in QueuedIn(c, place), p \in gone
  PROVE  LET g == CancelWaiter(c, p, gone)
         IN  Settles(HeldBy(c, place, w), Without(Line(c.waiters), Quitters(c.waiters, gone)),
                     HeldBy(g, place, w), Line(g.waiters))
<1> DEFINE d == RejectCancelledWaiters(c, {p})
           g == GrantWaiters(d, gone)
           L == Line(c.waiters)
           A == Quitters(c.waiters, {p})
           B == Quitters(d.waiters, gone)
           Q == Quitters(c.waiters, gone)
<1>1. CancelWaiter(c, p, gone) = g
  BY CancelWaiterIsReject
<1>2. /\ Tied(d, place, w) /\ HeldBy(d, place, w) = HeldBy(c, place, w)
      /\ Line(d.waiters) = Without(L, A)
  BY RejectPreserves, RejectOrder
<1>3. L \in Seq(Caller)
  BY LineProperties DEF Tied, Typed, Core
<1>4. A \union B = Q
  <2>1. Elems(Line(d.waiters)) = Elems(L) \ A
    BY <1>2, <1>3, WithoutProperties
  <2> QED
    BY <2>1 DEF Quitters
<1> HIDE DEF d, L, A, B, Q
<1>5. Without(Without(L, A), B) = Without(L, Q)
  BY <1>3, <1>4, WithoutTwice
<1>6. Settles(HeldBy(d, place, w), Without(Line(d.waiters), B),
              HeldBy(g, place, w), Line(g.waiters))
  BY <1>2, GrantWaitersSettles DEF B
<1> QED
  BY <1>1, <1>2, <1>5, <1>6 DEF L, Q
-----------------------------------------------------------------------------
(* The moves of an engine whose verdicts say who owns it *)

\* From owners h and line s to owners k and line t: some quit, one gives the lock back, or
\* one comes for it, and the longest prefix that fits is let in.
Moves(h, s, k, t) ==
  \E Q \in SUBSET Elems(s) :
    \/ Settles(h, Without(s, Q), k, t)
    \/ \E p \in Procs : h[p] # "none" /\ Settles([h EXCEPT ![p] = "none"], Without(s, Q), k, t)
    \/ \E x \in Caller : /\ h[x.id] = "none" /\ \A y \in Elems(s) : y.id # x.id
                         /\ Settles(h, Append(Without(s, Q), x), k, t)

\* Owners and line are well formed, and who is in line is waiting.
LEMMA AbstractTypes ==
  ASSUME NEW c, NEW place, NEW w, Tied(c, place, w),
         NEW h, h = HeldBy(c, place, w), NEW s, s = Line(c.waiters)
  PROVE  /\ h \in [Procs -> Modes \union {"none"}]
         /\ s \in Seq(Caller) /\ Distinct(s)
         /\ \A x \in Elems(s) : place[x.id] = "waiting"
<1>1. h \in [Procs -> Modes \union {"none"}]
  BY OwnersShown
<1>2. c.waiters \in Seq(Waiter) /\ Distinct(c.waiters)
  BY DEF Tied, Typed, Core, QueueTied
<1>3. /\ s \in Seq(Caller) /\ Distinct(s) /\ DOMAIN s = DOMAIN c.waiters
      /\ \A i \in DOMAIN c.waiters : s[i].id = c.waiters[i].id
  BY <1>2, LineProperties
<1>4. \A x \in Elems(s) : place[x.id] = "waiting"
  BY <1>3, QueueEntries DEF Tied, Elems, QueuedIn
<1> QED
  BY <1>1, <1>3, <1>4

\* A goroutine that the engine does not know is neither owner nor in line.
LEMMA NewcomerUnknown ==
  ASSUME NEW c, NEW place, NEW w, Tied(c, place, w),
         NEW x \in Waiter, place[x.id] = "idle"
  PROVE  /\ HeldBy(c, place, w)[x.id] = "none"
         /\ \A y \in Elems(Line(c.waiters)) : y.id # x.id
         /\ CallerOf(x) \in Caller /\ CallerOf(x).id = x.id /\ x.id \in Procs
<1>1. x.id \in Procs /\ CallerOf(x) \in Caller /\ CallerOf(x).id = x.id
  BY DEF Waiter, Caller, CallerOf
<1>2. HeldBy(c, place, w)[x.id] = "none"
  BY <1>1 DEF HeldBy, OwnsIn
<1>3. \A y \in Elems(Line(c.waiters)) : place[y.id] = "waiting"
  BY AbstractTypes
<1> QED
  BY <1>1, <1>2, <1>3

\* One who finds the engine d, which has served those before it, free.
LEMMA TakeMoves ==
  ASSUME NEW c, NEW place, NEW w, Tied(c, place, w), NEW d, Tied(d, place, w),
         NEW Q \in SUBSET Elems(Line(c.waiters)),
         Settles(HeldBy(c, place, w), Without(Line(c.waiters), Q),
                 HeldBy(d, place, w), Line(d.waiters)),
         NEW x \in Waiter, place[x.id] = "idle", CanAcquireImmediately(d, x.mode),
         NEW g, g = Told(Grant(d, x), x.id, "granted"),
         NEW place2, place2[x.id] = "waiting", NEW w2, w2[x.id] = x,
         \A q \in Procs : q # x.id => place2[q] = place[q] /\ w2[q] = w[q]
  PROVE  Moves(HeldBy(c, place, w), Line(c.waiters), HeldBy(g, place2, w2), Line(g.waiters))
<1> DEFINE k == [HeldBy(d, place, w) EXCEPT ![x.id] = x.mode]
           L == Line(c.waiters)
<1>1. /\ HeldBy(c, place, w)[x.id] = "none" /\ \A y \in Elems(L) : y.id # x.id
      /\ CallerOf(x) \in Caller /\ CallerOf(x).id = x.id /\ x.id \in Procs
  BY NewcomerUnknown
<1>2. Settles(HeldBy(c, place, w), Append(Without(L, Q), CallerOf(x)), k, <<>>)
  BY ArrivalEnters
<1>3. d \in Core /\ place \in [Procs -> Stations] /\ w \in [Procs -> Waiter]
  BY DEF Tied, Typed
<1>4. /\ g.verdict = [d.verdict EXCEPT ![x.id] = "granted"]
      /\ g.waiters = d.waiters /\ d.waiters = <<>>
  <2>1. Grant(d, x).verdict = d.verdict /\ Grant(d, x).waiters = d.waiters
    BY <1>3 DEF Grant, Core
  <2> DEFINE e == Grant(d, x)
  <2>2. g = [e EXCEPT !.verdict = [e.verdict EXCEPT ![x.id] = "granted"]]
    BY DEF Told
  <2>3. DOMAIN e = DOMAIN d
    BY <1>3 DEF Grant, Core
  <2> HIDE DEF e
  <2>4. g.verdict = [e.verdict EXCEPT ![x.id] = "granted"] /\ g.waiters = e.waiters
    BY <1>3, <2>2, <2>3 DEF Core
  <2> QED
    BY <2>1, <2>4 DEF e, CanAcquireImmediately
<1>5. Line(g.waiters) = <<>>
  <2>1. <<>> \in Seq(Waiter)
    OBVIOUS
  <2> QED
    BY <1>4, <2>1, LineProperties
<1>6. /\ \A q \in Procs : q # x.id => /\ OwnsIn(g, place2, q) <=> OwnsIn(d, place, q)
                                      /\ w2[q] = w[q]
      /\ OwnsIn(g, place2, x.id) /\ w2[x.id] = x
  <2>1. d.verdict \in [Procs -> Verdicts]
    BY <1>3 DEF Core
  <2> QED
    BY <1>1, <1>3, <1>4, <2>1 DEF OwnsIn
<1>7. HeldBy(g, place2, w2) = k
  <2>1. HeldBy(g, place2, w2)
          = [HeldBy(d, place, w) EXCEPT
               ![x.id] = IF OwnsIn(g, place2, x.id) THEN w2[x.id].mode ELSE "none"]
    BY <1>6 DEF HeldBy
  <2> QED
    BY <1>6, <2>1
<1> HIDE DEF k, L
<1> QED
  BY <1>1, <1>2, <1>5, <1>7 DEF Moves, L

\* One who does not, and waits.
LEMMA WaitMoves ==
  ASSUME NEW c, NEW place, NEW w, Tied(c, place, w), NEW d, Tied(d, place, w),
         NEW Q \in SUBSET Elems(Line(c.waiters)),
         Settles(HeldBy(c, place, w), Without(Line(c.waiters), Q),
                 HeldBy(d, place, w), Line(d.waiters)),
         NEW x \in Waiter, place[x.id] = "idle", ~CanAcquireImmediately(d, x.mode),
         NEW g, g = Enqueue(d, x),
         NEW place2, place2[x.id] = "waiting", NEW w2, w2[x.id] = x,
         \A q \in Procs : q # x.id => place2[q] = place[q] /\ w2[q] = w[q]
  PROVE  Moves(HeldBy(c, place, w), Line(c.waiters), HeldBy(g, place2, w2), Line(g.waiters))
<1> DEFINE L == Line(c.waiters)
<1>1. /\ HeldBy(c, place, w)[x.id] = "none" /\ \A y \in Elems(L) : y.id # x.id
      /\ CallerOf(x) \in Caller /\ CallerOf(x).id = x.id /\ x.id \in Procs
  BY NewcomerUnknown
<1>2. Settles(HeldBy(c, place, w), Append(Without(L, Q), CallerOf(x)),
              HeldBy(d, place, w), Append(Line(d.waiters), CallerOf(x)))
  BY ArrivalWaits
<1>3. /\ d \in Core /\ place \in [Procs -> Stations] /\ w \in [Procs -> Waiter]
      /\ d.verdict[x.id] = "none"
  BY <1>1 DEF Tied, Typed
<1>4. g.verdict = d.verdict /\ g.waiters = Append(d.waiters, x) /\ d.waiters \in Seq(Waiter)
  BY <1>3 DEF Enqueue, Core
<1>5. Line(g.waiters) = Append(Line(d.waiters), CallerOf(x))
  BY <1>4, LineGrows
<1>6. \A q \in Procs : HeldBy(g, place2, w2)[q] = HeldBy(d, place, w)[q]
  <2>1. ~OwnsIn(g, place2, x.id) /\ ~OwnsIn(d, place, x.id)
    BY <1>1, <1>3, <1>4 DEF OwnsIn
  <2>2. \A q \in Procs \ {x.id} : place2[q] = place[q] /\ w2[q] = w[q]
    BY <1>3
  <2> QED
    BY <1>4, <2>1, <2>2 DEF HeldBy, OwnsIn
<1>7. HeldBy(g, place2, w2) = HeldBy(d, place, w)
  BY <1>6, EachTheSame
<1> HIDE DEF L
<1> QED
  BY <1>1, <1>2, <1>5, <1>7 DEF Moves, L

\* One who gives up, unless it has been finished in the meantime.
LEMMA GiveUpMoves ==
  ASSUME NEW c, NEW place, NEW w, Tied(c, place, w), NEW gone, NEW p \in Procs, p \in gone,
         place[p] = "waiting", NEW g, g = CancelWaiter(c, p, gone)
  PROVE  \/ g = c
         \/ Moves(HeldBy(c, place, w), Line(c.waiters), HeldBy(g, place, w), Line(g.waiters))
<1>1. CASE c.verdict[p] # "none"
  BY <1>1 DEF CancelWaiter
<1>2. CASE c.verdict[p] = "none"
  <2> DEFINE Q == Quitters(c.waiters, gone)
  <2>1. p \in QueuedIn(c, place)
    BY <1>2 DEF QueuedIn
  <2>2. Settles(HeldBy(c, place, w), Without(Line(c.waiters), Q),
                HeldBy(g, place, w), Line(g.waiters))
    BY <2>1, GiveUpSettles
  <2>3. Q \in SUBSET Elems(Line(c.waiters))
    BY DEF Quitters
  <2> HIDE DEF Q
  <2> QED
    BY <2>2, <2>3 DEF Moves
<1> QED
  BY <1>1, <1>2

\* One whose acquisition the engine f no longer counts, f being c otherwise.
LEMMA FreedMoves ==
  ASSUME NEW c, NEW place, NEW w, Tied(c, place, w), NEW gone,
         NEW p \in Procs, OwnsIn(c, place, p),
         NEW f, NEW place2, Tied(f, place2, w), f.waiters = c.waiters, ~OwnsIn(f, place2, p),
         \A q \in Procs : q # p => place2[q] = place[q] /\ f.verdict[q] = c.verdict[q],
         NEW g, g = GrantWaiters(f, gone)
  PROVE  Moves(HeldBy(c, place, w), Line(c.waiters), HeldBy(g, place2, w), Line(g.waiters))
<1> DEFINE Q == Quitters(c.waiters, gone)
<1>1. w[p] \in Waiter
  BY DEF Tied, Typed
<1>2. HeldBy(f, place2, w) = [HeldBy(c, place, w) EXCEPT ![p] = "none"]
  <2>1. \A q \in Procs : q # p => (OwnsIn(f, place2, q) <=> OwnsIn(c, place, q))
    BY DEF OwnsIn
  <2>2. HeldBy(f, place2, w)
          = [HeldBy(c, place, w) EXCEPT
               ![p] = IF OwnsIn(f, place2, p) THEN w[p].mode ELSE "none"]
    BY <2>1 DEF HeldBy
  <2> QED
    BY <2>2
<1>3. Settles(HeldBy(f, place2, w), Without(Line(c.waiters), Q),
              HeldBy(g, place2, w), Line(g.waiters))
  BY GrantWaitersSettles
<1>4. Q \in SUBSET Elems(Line(c.waiters))
  BY DEF Quitters
<1>5. HeldBy(c, place, w)[p] # "none"
  BY <1>1 DEF HeldBy, Waiter, Modes
<1> HIDE DEF Q
<1> QED
  BY <1>2, <1>3, <1>4, <1>5 DEF Moves

\* One who releases what it was granted.
LEMMA ReleaseMoves ==
  ASSUME NEW c, NEW place, NEW w, Tied(c, place, w), NEW gone,
         NEW p \in Procs, place[p] = "waiting", c.verdict[p] = "granted",
         NEW attempt, attempt = IF w[p].guarded THEN p ELSE NoAttempt,
         NEW g, g = Release(Told(c, p, "none"), w[p].mode, attempt, gone),
         NEW place2, place2 \in [Procs -> Stations], place2[p] = "idle",
         \A q \in Procs : q # p => place2[q] = place[q]
  PROVE  Moves(HeldBy(c, place, w), Line(c.waiters), HeldBy(g, place2, w), Line(g.waiters))
<1> DEFINE f == Freed(Told(c, p, "none"), w[p].mode, attempt)
<1>1. f = Freed(Told(c, p, "none"), w[p].mode, attempt) /\ g = GrantWaiters(f, gone)
  BY DEF Release
<1> HIDE DEF f
<1>2. /\ Tied(f, place2, w) /\ f.waiters = c.waiters
      /\ \A q \in Procs : q # p => place2[q] = place[q] /\ f.verdict[q] = c.verdict[q]
  BY <1>1, ToldFreed
<1>3. OwnsIn(c, place, p) /\ ~OwnsIn(f, place2, p)
  BY DEF OwnsIn
<1> QED
  BY <1>1, <1>2, <1>3, FreedMoves

-----------------------------------------------------------------------------
(* Versions.  A critical section counts the changes it makes, and makes no  *)
(* more of them than there are goroutines, so that the counter is not back  *)
(* where it was.                                                            *)

\* The version that is n changes after v, for n up to VersionModulus.
Later(v, n) == IF v + n < VersionModulus THEN v + n ELSE v + n - VersionModulus

\* From c to d there are n changes; without any the counts are the same.
Ticks(c, d, n) ==
  /\ n \in Nat
  /\ n < VersionModulus => d.version = Later(c.version, n)
  /\ n = 0 => Counts(d) = Counts(c)

\* The goroutines that own or wait.
Clients(c) == c.readers + (IF c.writer THEN 1 ELSE 0) + Len(c.waiters)

\* From c to d every change is somebody leaving the queue, and nobody comes in.
Shrinks(c, d) ==
  /\ \E n \in Nat : Ticks(c, d, n) /\ n + Len(d.waiters) <= Len(c.waiters)
  /\ Clients(d) <= Clients(c)

LEMMA BumpIsLater ==
  ASSUME NEW c \in Core, NEW n \in Nat, n < VersionModulus
  PROVE  Bump(c, n) = Later(c.version, n)
<1>1. VersionModulus \in Nat \ {0} /\ c.version \in 0..(VersionModulus - 1)
  BY CoreAssumption DEF Core
<1> QED
  BY <1>1 DEF Bump, Later

\* Equal queues and owners are counted alike.
LEMMA CountsKept ==
  ASSUME NEW c \in Core, NEW d, d.waiters = c.waiters, d.readers = c.readers,
         d.writer = c.writer, d.cancelled = c.cancelled
  PROVE  Counts(d) = Counts(c)
BY DEF Counts

\* The changes of one critical section after another add up.
LEMMA TicksTransitive ==
  ASSUME NEW c \in Core, NEW d, NEW e, NEW n, Ticks(c, d, n), NEW m, Ticks(d, e, m)
  PROVE  Ticks(c, e, n + m)
<1>1. VersionModulus \in Nat \ {0} /\ c.version \in 0..(VersionModulus - 1)
  BY CoreAssumption DEF Core
<1> QED
  BY <1>1 DEF Ticks, Later

LEMMA ClientsType ==
  ASSUME NEW c \in Core
  PROVE  Clients(c) \in Nat
<1>1. Len(c.waiters) \in Nat /\ c.readers \in Nat
  BY DEF Core
<1> QED
  BY <1>1 DEF Clients

LEMMA ShrinksNothing ==
  ASSUME NEW c \in Core
  PROVE  Shrinks(c, c)
<1>1. Len(c.waiters) \in Nat /\ Clients(c) \in Nat
      /\ c.version \in 0..(VersionModulus - 1) /\ VersionModulus \in Nat
  BY ClientsType, CoreAssumption DEF Core
<1>2. Ticks(c, c, 0) /\ 0 + Len(c.waiters) <= Len(c.waiters)
  BY <1>1 DEF Ticks, Later
<1> QED
  BY <1>1, <1>2 DEF Shrinks

LEMMA ShrinksTransitive ==
  ASSUME NEW c \in Core, NEW d \in Core, NEW e \in Core, Shrinks(c, d), Shrinks(d, e)
  PROVE  Shrinks(c, e)
<1>1. PICK n \in Nat : Ticks(c, d, n) /\ n + Len(d.waiters) <= Len(c.waiters)
  BY DEF Shrinks
<1>2. PICK m \in Nat : Ticks(d, e, m) /\ m + Len(e.waiters) <= Len(d.waiters)
  BY DEF Shrinks
<1>3. Ticks(c, e, n + m)
  BY <1>1, <1>2, TicksTransitive
<1> DEFINE i == Len(c.waiters)
           j == Len(d.waiters)
           k == Len(e.waiters)
<1>4. i \in Nat /\ j \in Nat /\ k \in Nat
  BY DEF Core
<1>5. n + j <= i /\ m + k <= j
  BY <1>1, <1>2
<1>6. Clients(c) \in Nat /\ Clients(d) \in Nat /\ Clients(e) \in Nat
  BY ClientsType
<1>7. Clients(e) <= Clients(c)
  BY <1>6 DEF Shrinks
<1> HIDE DEF i, j, k
<1>8. n + m \in Nat /\ (n + m) + k <= i
  BY <1>4, <1>5
<1> QED
  BY <1>3, <1>7, <1>8 DEF Shrinks, i, k

\* What a removal leaves is shorter unless it removes nobody, and then it is the same.
LEMMA WithoutShorter ==
  ASSUME NEW W, NEW s \in Seq(W), NEW D
  PROVE  /\ (\E x \in Elems(s) : x \in D) => Len(Without(s, D)) < Len(s)
         /\ (\A x \in Elems(s) : x \notin D) => Without(s, D) = s
<1>1. IsFiniteSet(Kept(s, D)) /\ Cardinality(Kept(s, D)) \in Nat /\ Len(s) \in Nat
  BY RankSteps
<1>2. Kept(s, D) \subseteq 1..Len(s)
  BY DEF Kept
<1>3. IsFiniteSet(1..Len(s)) /\ Cardinality(1..Len(s)) = Len(s)
  <2> DEFINE n == Len(s)
  <2>1. 1 \in Int /\ n \in Int
    BY <1>1
  <2> HIDE DEF n
  <2>2. IsFiniteSet(1..n) /\ Cardinality(1..n) = IF 1 > n THEN 0 ELSE n - 1 + 1
    BY <2>1, FS_Interval
  <2> QED
    BY <1>1, <2>2 DEF n
<1>4. Len(Without(s, D)) = Cardinality(Kept(s, D))
  BY <1>1 DEF Without
<1>5. ASSUME NEW x \in Elems(s), x \in D PROVE Len(Without(s, D)) < Len(s)
  <2>1. Kept(s, D) # 1..Len(s)
    BY <1>5 DEF Elems, Kept
  <2>2. Cardinality(Kept(s, D)) <= Len(s) /\ Cardinality(Kept(s, D)) # Len(s)
    BY <1>1, <1>2, <1>3, <2>1, FS_Subset
  <2> QED
    BY <1>1, <1>4, <2>2
<1>6. ASSUME \A x \in Elems(s) : x \notin D PROVE Without(s, D) = s
  <2>1. Kept(s, D) = 1..Len(s)
    BY <1>6 DEF Elems, Kept
  <2>2. Len(Without(s, D)) = Len(s)
    BY <1>3, <1>4, <2>1
  <2>3. \A i \in 1..Len(s) : Rank(s, D, i) = i
    <3> SUFFICES ASSUME NEW i \in 1..Len(s) PROVE Rank(s, D, i) = i
      OBVIOUS
    <3>1. {k \in Kept(s, D) : k <= i} = 1..i
      BY <1>1, <2>1
    <3>2. Cardinality(1..i) = i
      BY <1>1, FS_Interval
    <3> QED
      BY <3>1, <3>2 DEF Rank
  <2>4. \A j \in 1..Len(s) : (CHOOSE i \in Kept(s, D) : Rank(s, D, i) = j) = j
    BY <2>1, <2>3
  <2>5. \A j \in 1..Len(s) : Without(s, D)[j] = s[j]
    BY <1>3, <2>1, <2>4 DEF Without
  <2>6. Without(s, D) \in Seq(W)
    BY WithoutProperties
  <2> DEFINE t == Without(s, D)
  <2> HIDE DEF t
  <2>7. t \in Seq(W) /\ Len(t) = Len(s) /\ \A j \in 1..Len(s) : t[j] = s[j]
    BY <2>2, <2>5, <2>6 DEF t
  <2>8. t = s
    BY <2>7
  <2> QED
    BY <2>8 DEF t
<1> QED
  BY <1>5, <1>6

\* An engine that differs from c in what the queue and the version are.
LEMMA RemovalShrinks ==
  ASSUME NEW c \in Core, 1 < VersionModulus, NEW D, NEW d \in Core,
         d.waiters = Without(c.waiters, D), d.readers = c.readers, d.writer = c.writer,
         d.cancelled = c.cancelled,
         (\E x \in Elems(c.waiters) : x \in D) => d.version = Bump(c, 1),
         (\A x \in Elems(c.waiters) : x \notin D) => d.version = c.version
  PROVE  Shrinks(c, d)
<1>1. c.waiters \in Seq(Waiter) /\ Len(c.waiters) \in Nat /\ Len(d.waiters) \in Nat
      /\ c.version \in 0..(VersionModulus - 1) /\ VersionModulus \in Nat
  BY CoreAssumption DEF Core
<1>2. CASE \E x \in Elems(c.waiters) : x \in D
  <2>1. Len(d.waiters) < Len(c.waiters)
    BY <1>1, <1>2, WithoutShorter
  <2>2. d.version = Later(c.version, 1)
    BY <1>2, BumpIsLater
  <2>3. Ticks(c, d, 1) /\ 1 + Len(d.waiters) <= Len(c.waiters)
    BY <1>1, <2>1, <2>2 DEF Ticks
  <2>4. Clients(d) <= Clients(c)
    BY <1>1, <2>1 DEF Clients, Core
  <2> QED
    BY <2>3, <2>4 DEF Shrinks
<1>3. CASE \A x \in Elems(c.waiters) : x \notin D
  <2>1. d.waiters = c.waiters
    BY <1>1, <1>3, WithoutShorter
  <2>2. Counts(d) = Counts(c)
    BY <2>1, CountsKept
  <2>3. Ticks(c, d, 0) /\ 0 + Len(d.waiters) <= Len(c.waiters)
    BY <1>1, <1>3, <2>1, <2>2 DEF Ticks, Later
  <2>4. Clients(d) <= Clients(c)
    BY <1>1, <2>1 DEF Clients, Core
  <2> QED
    BY <2>3, <2>4 DEF Shrinks
<1> QED
  BY <1>2, <1>3

LEMMA RejectShrinks ==
  ASSUME NEW c, Sound(c), 1 < VersionModulus, NEW gone
  PROVE  Shrinks(c, RejectCancelledWaiters(c, gone))
<1> DEFINE D == {x \in Elems(c.waiters) : x.id \in gone}
           d == RejectCancelledWaiters(c, gone)
<1>1. c \in Core /\ d \in Core
  BY RejectServes DEF Sound, Serves
<1>2. /\ d.waiters = Without(c.waiters, D) /\ d.readers = c.readers /\ d.writer = c.writer
      /\ d.cancelled = c.cancelled
      /\ d.version = IF D = {} THEN c.version ELSE Bump(c, 1)
  BY <1>1 DEF RejectCancelledWaiters, Core
<1>3. /\ (\E x \in Elems(c.waiters) : x \in D) => d.version = Bump(c, 1)
      /\ (\A x \in Elems(c.waiters) : x \notin D) => d.version = c.version
  BY <1>2
<1> HIDE DEF d, D
<1>4. Shrinks(c, d)
  BY <1>1, <1>2, <1>3, RemovalShrinks
<1> QED
  BY <1>4 DEF d

LEMMA GrantWriterShrinks ==
  ASSUME NEW c, Sound(c), 1 < VersionModulus, HeadCompatible(c), Head(c.waiters).mode = "write"
  PROVE  Shrinks(c, GrantHead(c))
<1> DEFINE h == Head(c.waiters)
           d == GrantHead(c)
<1>1. c \in Core /\ d \in Core /\ c.waiters \in Seq(Waiter) /\ c.waiters # <<>>
  BY GrantWriterServes DEF Sound, Serves, Core, HeadCompatible
<1>2. Len(Tail(c.waiters)) = Len(c.waiters) - 1 /\ Len(c.waiters) \in Nat
  BY <1>1, HeadTailProperties
<1>3. /\ d.waiters = Tail(c.waiters) /\ d.readers = c.readers /\ d.writer = TRUE
      /\ d.version = Bump(c, 1)
  BY <1>1 DEF GrantHead, Grant, Core
<1>4. c.writer = FALSE
  BY <1>1 DEF HeadCompatible, Core
<1>5. Ticks(c, d, 1)
  BY <1>1, <1>3, BumpIsLater DEF Ticks
<1>6. Clients(d) <= Clients(c) /\ 1 + Len(d.waiters) <= Len(c.waiters)
  BY <1>1, <1>2, <1>3, <1>4 DEF Clients, Core
<1> QED
  BY <1>5, <1>6 DEF Shrinks

LEMMA GrantReadersShrinks ==
  ASSUME NEW c, Sound(c), NEW n \in 0..Len(c.waiters)
  PROVE  Shrinks(c, GrantReaders(c, n))
<1> DEFINE d == GrantReaders(c, n)
<1>1. c \in Core /\ d \in Core /\ c.waiters \in Seq(Waiter) /\ Len(c.waiters) \in Nat /\ n \in Nat
  BY GrantReadersServes DEF Sound, Serves, Core
<1>2. /\ d.waiters = SubSeq(c.waiters, n + 1, Len(c.waiters)) /\ d.readers = c.readers + n
      /\ d.writer = c.writer /\ d.cancelled = c.cancelled /\ d.version = Bump(c, n)
  BY <1>1 DEF GrantReaders, Core
<1>3. Len(d.waiters) = Len(c.waiters) - n
  BY <1>1, <1>2, RestProperties DEF Sound
<1>4. n = 0 => d.waiters = c.waiters
  <2>1. SubSeq(c.waiters, 1, Len(c.waiters)) = c.waiters
    BY <1>1
  <2> QED
    BY <1>2, <2>1
<1> HIDE DEF d
<1>5. n = 0 => Counts(d) = Counts(c)
  <2>1. n = 0 => d.readers = c.readers
    BY <1>1, <1>2 DEF Core
  <2> QED
    BY <1>1, <1>2, <1>4, <2>1, CountsKept
<1>6. Ticks(c, d, n)
  BY <1>1, <1>2, <1>5, BumpIsLater DEF Ticks
<1>7. Clients(d) <= Clients(c) /\ n + Len(d.waiters) <= Len(c.waiters)
  BY <1>1, <1>2, <1>3 DEF Clients, Core
<1>8. Shrinks(c, d)
  BY <1>1, <1>6, <1>7 DEF Shrinks
<1> QED
  BY <1>8 DEF d

\* The service of the queue.
LEMMA GrantWaitersShrinks ==
  ASSUME NEW c, Sound(c), 1 < VersionModulus, NEW gone
  PROVE  Shrinks(c, GrantWaiters(c, gone))
<1> DEFINE d == RejectCancelledWaiters(c, gone)
           n == LeadingReaders(d.waiters)
           e == GrantWaiters(c, gone)
<1>1. Sound(d) /\ Shrinks(c, d)
  BY RejectServes, RejectShrinks DEF Serves
<1>2. n \in 0..Len(d.waiters)
  <2>1. d.waiters \in Seq(Waiter)
    BY <1>1 DEF Sound, Core
  <2> QED
    BY <2>1, LeadingReadersProperties
<1>3. HeadCompatible(d) /\ Head(d.waiters).mode = "write" => Shrinks(d, GrantHead(d))
  BY <1>1, GrantWriterShrinks
<1>4. Shrinks(d, GrantReaders(d, n))
  BY <1>1, <1>2, GrantReadersShrinks
<1>5. \/ e = d \/ e = GrantReaders(d, n)
      \/ e = GrantHead(d) /\ HeadCompatible(d) /\ Head(d.waiters).mode = "write"
  BY DEF GrantWaiters
<1>6. c \in Core /\ d \in Core /\ e \in Core
  BY <1>1, GrantWaitersServes DEF Serves, Sound
<1> HIDE DEF d, n, e
<1>7. e = d \/ Shrinks(d, e)
  BY <1>3, <1>4, <1>5
<1>8. Shrinks(c, e)
  BY <1>1, <1>6, <1>7, ShrinksTransitive
<1> QED
  BY <1>8 DEF e

\* A waiter that gives up.
LEMMA CancelWaiterShrinks ==
  ASSUME NEW c, Sound(c), 1 < VersionModulus, NEW p \in Procs, NEW gone
  PROVE  Shrinks(c, CancelWaiter(c, p, gone))
<1> SUFFICES ASSUME c.verdict[p] = "none" PROVE Shrinks(c, CancelWaiter(c, p, gone))
  BY ShrinksNothing DEF CancelWaiter, Sound
<1> DEFINE own == {x \in Elems(c.waiters) : x.id = p}
           rest == Without(c.waiters, own)
           v == [c.verdict EXCEPT ![p] = "context"]
           ver == IF own = {} THEN c.version ELSE Bump(c, 1)
           d == [c EXCEPT !.waiters = rest, !.verdict = v, !.version = ver]
<1>1. c \in Core /\ c.waiters \in Seq(Waiter) /\ Distinct(c.waiters)
  BY DEF Sound, Core
<1>2. CancelWaiter(c, p, gone) = GrantWaiters(d, gone)
  BY DEF CancelWaiter
<1>3. rest \in Seq(Waiter) /\ Distinct(rest)
  BY <1>1, WithoutProperties
<1>4. ver \in 0..(VersionModulus - 1) /\ v \in [Procs -> Verdicts]
  BY <1>1, BumpType DEF Core, Verdicts
<1>5. /\ (\E x \in Elems(c.waiters) : x \in own) => ver = Bump(c, 1)
      /\ (\A x \in Elems(c.waiters) : x \notin own) => ver = c.version
  OBVIOUS
<1>6. rest = Without(c.waiters, own)
  OBVIOUS
<1> HIDE DEF own, rest, v, ver
<1>7. d \in Core /\ d.waiters = rest /\ d.readers = c.readers /\ d.writer = c.writer
      /\ d.cancelled = c.cancelled /\ d.version = ver
  BY <1>1, <1>3, <1>4 DEF Core
<1> HIDE DEF d
<1>8. Shrinks(c, d) /\ Sound(d)
  BY <1>1, <1>3, <1>5, <1>6, <1>7, RemovalShrinks DEF Sound
<1>9. Shrinks(d, GrantWaiters(d, gone)) /\ GrantWaiters(d, gone) \in Core
  BY <1>8, GrantWaitersShrinks, GrantWaitersServes DEF Serves, Sound
<1> QED
  BY <1>1, <1>2, <1>7, <1>8, <1>9, ShrinksTransitive

\* One who comes for the lock: to own it, or to wait.
LEMMA GrantTicks ==
  ASSUME NEW c \in Core, 1 < VersionModulus, NEW x \in Waiter,
         x.mode = "write" => ~c.writer, NEW g, g = Grant(c, x)
  PROVE  Ticks(c, g, 1) /\ Clients(g) <= Clients(c) + 1 /\ Len(g.waiters) = Len(c.waiters)
<1>1. Len(c.waiters) \in Nat /\ c.readers \in Nat /\ c.writer \in BOOLEAN
      /\ x.mode \in {"write", "read"}
  BY DEF Core, Waiter, Modes
<1>2. g.waiters = c.waiters /\ g.version = Bump(c, 1)
  BY DEF Grant, Core
<1>3. Ticks(c, g, 1)
  BY <1>2, BumpIsLater DEF Ticks
<1>4. CASE x.mode = "write"
  <2>1. g.readers = c.readers /\ g.writer = TRUE /\ c.writer = FALSE
    BY <1>1, <1>4 DEF Grant, Core
  <2> QED
    BY <1>1, <1>2, <1>3, <2>1 DEF Clients
<1>5. CASE x.mode # "write"
  <2>1. g.readers = c.readers + 1 /\ g.writer = c.writer
    BY <1>5 DEF Grant, Core
  <2> QED
    BY <1>1, <1>2, <1>3, <2>1 DEF Clients
<1> QED
  BY <1>4, <1>5

LEMMA EnqueueTicks ==
  ASSUME NEW c \in Core, 1 < VersionModulus, NEW x \in Waiter, NEW g, g = Enqueue(c, x)
  PROVE  /\ Ticks(c, g, 1) /\ Clients(g) <= Clients(c) + 1
         /\ Len(g.waiters) = Len(c.waiters) + 1
<1>1. c.waiters \in Seq(Waiter) /\ Len(c.waiters) \in Nat /\ c.readers \in Nat
  BY DEF Core
<1>2. g.waiters = Append(c.waiters, x) /\ g.version = Bump(c, 1)
      /\ g.readers = c.readers /\ g.writer = c.writer
  BY DEF Enqueue, Core
<1>3. Ticks(c, g, 1)
  BY <1>2, BumpIsLater DEF Ticks
<1>4. Len(g.waiters) = Len(c.waiters) + 1
  BY <1>1, <1>2
<1> QED
  BY <1>1, <1>2, <1>3, <1>4 DEF Clients

\* One who gives the lock back.
LEMMA FreedTicks ==
  ASSUME NEW c \in Core, 1 < VersionModulus, NEW mode \in Modes, NEW attempt,
         ReleaseMatches(c, mode, attempt), NEW f, f = Freed(c, mode, attempt)
  PROVE  /\ Ticks(c, f, 1) /\ Clients(f) + 1 <= Clients(c)
         /\ f.waiters = c.waiters /\ f \in Core
<1>1. Len(c.waiters) \in Nat /\ c.readers \in Nat /\ c.writer \in BOOLEAN
  BY DEF Core
<1>2. /\ f.waiters = c.waiters /\ f.version = Bump(c, 1)
  BY DEF Freed, Core
<1>3. Ticks(c, f, 1)
  BY <1>2, BumpIsLater DEF Ticks
<1>4. f \in Core
  <2>1. Bump(c, 1) \in 0..(VersionModulus - 1)
    BY BumpType
  <2>2. mode = "read" => c.readers - 1 \in Nat
    BY <1>1 DEF ReleaseMatches
  <2> QED
    BY <2>1, <2>2 DEF Freed, Core, Modes
<1>5. CASE mode = "write"
  <2>1. f.readers = c.readers /\ f.writer = FALSE /\ c.writer = TRUE
    BY <1>1, <1>5 DEF Freed, Core, ReleaseMatches
  <2> QED
    BY <1>1, <1>2, <1>3, <1>4, <2>1 DEF Clients
<1>6. CASE mode = "read"
  <2>1. f.readers = c.readers - 1 /\ f.writer = c.writer
    BY <1>1, <1>6 DEF Freed, Core
  <2> QED
    BY <1>1, <1>2, <1>3, <1>4, <2>1 DEF Clients
<1> QED
  BY <1>5, <1>6 DEF Modes

\* A release, from the end of the acquisition to the service of the queue.
LEMMA ReleaseTicks ==
  ASSUME NEW c, Sound(c), 1 < VersionModulus, NEW mode \in Modes, NEW attempt,
         ReleaseMatches(c, mode, attempt), NEW gone, NEW d, d = Release(c, mode, attempt, gone)
  PROVE  /\ \E n \in Nat : Ticks(c, d, n) /\ n + Len(d.waiters) <= Len(c.waiters) + 1
         /\ \E n \in Nat : Ticks(c, d, n + 1) /\ n + Len(d.waiters) <= Len(c.waiters)
         /\ Clients(d) + 1 <= Clients(c)
<1> DEFINE f == Freed(c, mode, attempt)
<1>1. c \in Core /\ Distinct(c.waiters)
  BY DEF Sound
<1>2. /\ Ticks(c, f, 1) /\ Clients(f) + 1 <= Clients(c)
      /\ f.waiters = c.waiters /\ f \in Core
  BY <1>1, FreedTicks
<1>3. d = GrantWaiters(f, gone)
  BY DEF Release
<1> HIDE DEF f
<1>4. Sound(f)
  BY <1>1, <1>2 DEF Sound
<1>5. Shrinks(f, d) /\ d \in Core
  BY <1>3, <1>4, GrantWaitersShrinks, GrantWaitersServes DEF Serves, Sound
<1>6. PICK n \in Nat : Ticks(f, d, n) /\ n + Len(d.waiters) <= Len(c.waiters)
  BY <1>2, <1>5 DEF Shrinks
<1>7. Ticks(c, d, 1 + n)
  BY <1>1, <1>2, <1>6, TicksTransitive
<1> DEFINE i == Len(c.waiters)
           j == Len(d.waiters)
<1>8. i \in Nat /\ j \in Nat
  BY <1>1, <1>5 DEF Core
<1>9. n + j <= i
  BY <1>6
<1>10. Clients(d) + 1 <= Clients(c)
  <2>1. Clients(c) \in Nat /\ Clients(d) \in Nat /\ Clients(f) \in Nat /\ Clients(d) <= Clients(f)
    BY <1>1, <1>2, <1>5, ClientsType DEF Shrinks
  <2> QED
    BY <1>2, <2>1
<1> HIDE DEF i, j
<1>11. 1 + n \in Nat /\ 1 + n = n + 1 /\ (1 + n) + j <= i + 1
  BY <1>8, <1>9
<1>12. Ticks(c, d, n + 1)
  BY <1>7, <1>11
<1> QED
  BY <1>6, <1>7, <1>10, <1>11, <1>12 DEF i, j

\* The permanent cancellation.
LEMMA CancelTicks ==
  ASSUME NEW c \in Core, 1 < VersionModulus
  PROVE  Cancel(c) = c \/ Ticks(c, Cancel(c), 1)
<1> SUFFICES ASSUME ~c.cancelled PROVE Ticks(c, Cancel(c), 1)
  BY DEF Cancel
<1>1. Cancel(c).version = Bump(c, 1)
  BY DEF Cancel, Core
<1> QED
  BY <1>1, BumpIsLater DEF Ticks

\* What waiters have been told is none of an engine's counts.
LEMMA VerdictsUncounted ==
  ASSUME NEW c \in Core, NEW v
  PROVE  LET d == [c EXCEPT !.verdict = v]
         IN  Counts(d) = Counts(c) /\ d.version = c.version /\ Clients(d) = Clients(c)
             /\ d.waiters = c.waiters
BY DEF Counts, Clients, Core

\* The queue has room for one who is not in it.
LEMMA QueueLeavesRoom ==
  ASSUME NEW c, NEW place, NEW w, Tied(c, place, w),
         NEW p \in Procs, place[p] # "waiting" \/ c.verdict[p] # "none"
  PROVE  Len(c.waiters) + 1 <= Cardinality(Procs)
<1> DEFINE queued == QueuedIn(c, place)
<1>1. Len(c.waiters) = Cardinality(queued)
  BY QueueLengthIn
<1>2. queued \subseteq Procs /\ p \in Procs \ queued
  BY DEF QueuedIn
<1> HIDE DEF queued
<1>3. IsFiniteSet(Procs) /\ IsFiniteSet(queued) /\ Cardinality(Procs) \in Nat
      /\ Cardinality(queued) \in Nat
  BY <1>2, FiniteProcs, CoreAssumption, FS_CardinalityType
<1>4. Cardinality(queued) <= Cardinality(Procs) /\ Cardinality(queued) # Cardinality(Procs)
  BY <1>2, <1>3, FS_Subset
<1> QED
  BY <1>1, <1>3, <1>4

\* So few changes bring no version back.
LEMMA ChangesShow ==
  ASSUME NEW c \in Core, NEW d, NEW n, Ticks(c, d, n), n < VersionModulus,
         Counts(d) # Counts(c)
  PROVE  d.version # c.version
<1>1. VersionModulus \in Nat \ {0} /\ c.version \in 0..(VersionModulus - 1)
  BY CoreAssumption DEF Core
<1> QED
  BY <1>1 DEF Ticks, Later

=============================================================================
