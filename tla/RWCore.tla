------------------------------- MODULE RWCore -------------------------------
(* The lock engine every Powerlock type is built on: the rwCore of          *)
(* src/rw_core.go.  Everything rwCore does to its state happens inside one  *)
(* critical section of c.mu, so each critical section is one operator here, *)
(* from the engine's state c to its next state.  The modules that use the   *)
(* engine (RWMutex, ObservedRWMutex, KeyedMutex) add the goroutines that    *)
(* call it and the steps they take outside c.mu.                            *)
(*                                                                          *)
(* A goroutine has one attempt outstanding at a time, so the goroutine is   *)
(* the identity of its rwWaiter and, where the code draws one, of its       *)
(* LockAttemptID.  `dead` is the set of goroutines whose ctx.Err() is not   *)
(* nil at the time of the critical section.                                 *)
EXTENDS LockQueue

CONSTANTS
  Procs,           \* the goroutines
  NoAttempt,       \* attempt identity 0: the caller does not name its attempt
  Observed,        \* whether the lock has an observer
  VersionModulus   \* the version counter wraps at this value (2^64 in the code)

ASSUME CoreAssumption ==
  /\ IsFiniteSet(Procs)
  /\ NoAttempt \notin Procs
  /\ Observed \in BOOLEAN
  /\ VersionModulus \in Nat \ {0}

Modes == {"write", "read"}

\* What a waiter learned when its ready channel was closed: waiter.granted, or
\* the cause in waiter.err; "none" while waiter.finished is false.
Verdicts == {"none", "granted", "context", "cancelled"}

Waiter == [id : Procs, mode : Modes, guarded : BOOLEAN]

Core ==
  [readers        : Nat,
   writer         : BOOLEAN,
   writerAttempt  : Procs \union {NoAttempt},
   guardedReaders : SUBSET Procs,
   waiters        : Seq(Waiter),
   verdict        : [Procs -> Verdicts],
   cancelled      : BOOLEAN,
   version        : 0..(VersionModulus - 1)]

\* The zero rwCore.
InitialCore ==
  [readers        |-> 0,
   writer         |-> FALSE,
   writerAttempt  |-> NoAttempt,
   guardedReaders |-> {},
   waiters        |-> <<>>,
   verdict        |-> [p \in Procs |-> "none"],
   cancelled      |-> FALSE,
   version        |-> 0]

-----------------------------------------------------------------------------

\* p is told v.  A module that goes by the verdict to say who owns the engine also tells
\* an attempt that is granted at once, and forgets the verdict with the acquisition.
Told(c, p, v) == [c EXCEPT !.verdict = [@ EXCEPT ![p] = v]]

Ids(s) == {w.id : w \in Elems(s)}

\* The queue s without the guards: who waits for what, first come first.
Line(s) == [i \in DOMAIN s |-> [id |-> s[i].id, mode |-> s[i].mode]]

\* An attempt is numbered only if somebody will ask for it by number.
AttemptOf(w) == IF Observed \/ w.guarded THEN w.id ELSE NoAttempt

Bump(c, n) == (c.version + n) % VersionModulus

\* Slip: a reader is let in past a queued writer.
CanAcquireBarging(c, mode) ==
  ~c.writer /\ (mode = "write" => c.readers = 0 /\ c.waiters = <<>>)

CanAcquireImmediately(c, mode) ==
  /\ c.waiters = <<>>
  /\ ~c.writer
  /\ mode = "write" => c.readers = 0

\* Ownership passes to the attempt w.
Grant(c, w) ==
  IF w.mode = "write"
  THEN [c EXCEPT !.writer = TRUE,
                 !.writerAttempt = AttemptOf(w),
                 !.version = Bump(c, 1)]
  ELSE [c EXCEPT !.readers = @ + 1,
                 !.guardedReaders = IF w.guarded THEN @ \union {w.id} ELSE @,
                 !.version = Bump(c, 1)]

\* Slip: the expired waiters are dropped but their ready channels stay open.
RejectUnsignalled(c, dead) ==
  LET expired == {w \in Elems(c.waiters) : w.id \in dead}
  IN  [c EXCEPT !.waiters = Without(@, expired),
                !.version = IF expired = {} THEN @ ELSE Bump(c, 1)]

\* Every queued waiter whose context is done leaves with that error.
RejectCancelledWaiters(c, dead) ==
  LET expired == {w \in Elems(c.waiters) : w.id \in dead}
  IN  [c EXCEPT !.waiters = Without(@, expired),
                !.verdict = [p \in Procs |->
                               IF p \in {w.id : w \in expired} THEN "context" ELSE @[p]],
                !.version = IF expired = {} THEN @ ELSE Bump(c, 1)]

\* The first n waiters, all readers, acquire together: n turns of the grant loop.
GrantReaders(c, n) ==
  LET batch == {c.waiters[i] : i \in 1..n}
  IN  [c EXCEPT !.waiters = SubSeq(@, n + 1, Len(@)),
                !.readers = @ + n,
                !.guardedReaders = @ \union {w.id : w \in {x \in batch : x.guarded}},
                !.verdict = [p \in Procs |->
                               IF p \in {w.id : w \in batch} THEN "granted" ELSE @[p]],
                !.version = Bump(c, n)]

\* The first waiter acquires: a writer, or the next reader of the grant loop.
GrantHead(c) ==
  LET w == Head(c.waiters)
  IN  [Grant(c, w) EXCEPT !.waiters = Tail(@),
                          !.verdict = [@ EXCEPT ![w.id] = "granted"]]

\* The grant loop goes on.
ReaderNext(c) == c.waiters # <<>> /\ Head(c.waiters).mode = "read"

\* The head of the queue may have the lock.
HeadCompatible(c) ==
  /\ ~c.writer
  /\ c.waiters # <<>>
  /\ Head(c.waiters).mode = "write" => c.readers = 0

\* Slip: only the first of the waiting readers is let in.
GrantWaitersOneReader(c, dead) ==
  LET d == RejectCancelledWaiters(c, dead)
  IN  IF ~HeadCompatible(d) THEN d
      ELSE IF Head(d.waiters).mode = "write" THEN GrantHead(d)
      ELSE GrantReaders(d, 1)

\* Slip: the readers already inside are forgotten when a writer heads the queue.
GrantWaitersOverReaders(c, dead) ==
  LET d == RejectCancelledWaiters(c, dead)
  IN  IF d.writer \/ d.waiters = <<>> THEN d
      ELSE IF Head(d.waiters).mode = "write" THEN GrantHead(d)
      ELSE GrantReaders(d, LeadingReaders(d.waiters))

\* Expired waiters leave; then a writer at the head acquires alone, or the
\* readers at the front acquire together.
GrantWaiters(c, dead) ==
  LET d == RejectCancelledWaiters(c, dead)
  IN  IF ~HeadCompatible(d) THEN d
      ELSE IF Head(d.waiters).mode = "write" THEN GrantHead(d)
      ELSE GrantReaders(d, LeadingReaders(d.waiters))

\* Slip: joining the queue does not count as a change.
EnqueueUnversioned(c, w) == [c EXCEPT !.waiters = Append(@, w)]

\* Slip: the waiter is appended to a copy of the slice, which is then dropped.
EnqueueInCopy(c, w) == [c EXCEPT !.version = Bump(c, 1)]

\* A new waiter joins the queue.
Enqueue(c, w) == [c EXCEPT !.waiters = Append(@, w), !.version = Bump(c, 1)]

\* Slip: the verdict is overwritten although the waiter has been finished.
CancelWaiterUnchecked(c, p, dead) ==
  LET own == {w \in Elems(c.waiters) : w.id = p}
  IN  GrantWaiters([c EXCEPT !.waiters = Without(@, own),
                             !.verdict = [@ EXCEPT ![p] = "context"],
                             !.version = IF own = {} THEN @ ELSE Bump(c, 1)], dead)

\* Slip: the waiters behind the one that leaves are not looked at.
CancelWaiterNoGrant(c, p, dead) ==
  LET own == {w \in Elems(c.waiters) : w.id = p}
  IN  IF c.verdict[p] # "none" THEN c
      ELSE [c EXCEPT !.waiters = Without(@, own),
                     !.verdict = [@ EXCEPT ![p] = "context"],
                     !.version = IF own = {} THEN @ ELSE Bump(c, 1)]

\* The waiter of p gives up, unless it has been finished in the meantime.
CancelWaiter(c, p, dead) ==
  LET own == {w \in Elems(c.waiters) : w.id = p}
  IN  IF c.verdict[p] # "none" THEN c
      ELSE GrantWaiters([c EXCEPT !.waiters = Without(@, own),
                                  !.verdict = [@ EXCEPT ![p] = "context"],
                                  !.version = IF own = {} THEN @ ELSE Bump(c, 1)], dead)

\* Slip: the cancellation empties the queue and wakes nobody.
CancelSilently(c) ==
  IF c.cancelled THEN c
  ELSE [c EXCEPT !.cancelled = TRUE, !.waiters = <<>>, !.version = Bump(c, 1)]

\* Permanent cancellation: the whole queue is rejected, the holders stay.
Cancel(c) ==
  IF c.cancelled THEN c
  ELSE [c EXCEPT !.cancelled = TRUE,
                 !.waiters = <<>>,
                 !.verdict = [p \in Procs |->
                                IF p \in Ids(c.waiters) THEN "cancelled" ELSE @[p]],
                 !.version = Bump(c, 1)]

\* The checks release makes before it changes anything; it panics if they fail.
ReleaseMatches(c, mode, attempt) ==
  IF mode = "write"
  THEN c.writer /\ attempt \in {NoAttempt, c.writerAttempt}
  ELSE c.readers > 0 /\ (attempt # NoAttempt => attempt \in c.guardedReaders)

\* Slip: a write unlock falls through into the read bookkeeping.
FreedFallthrough(c, mode, attempt) ==
  [c EXCEPT !.writer = IF mode = "write" THEN FALSE ELSE @,
            !.writerAttempt = IF mode = "write" THEN NoAttempt ELSE @,
            !.readers = @ - 1,
            !.guardedReaders = @ \ {attempt},
            !.version = Bump(c, 1)]

\* Slip: a guard that unlocks stays registered.
FreedRegistered(c, mode, attempt) ==
  IF mode = "write"
  THEN [c EXCEPT !.writer = FALSE, !.writerAttempt = NoAttempt, !.version = Bump(c, 1)]
  ELSE [c EXCEPT !.readers = @ - 1, !.version = Bump(c, 1)]

\* Slip: a reader that unlocks takes the guards of all readers off the table.
FreedAllGuards(c, mode, attempt) ==
  IF mode = "write"
  THEN [c EXCEPT !.writer = FALSE, !.writerAttempt = NoAttempt, !.version = Bump(c, 1)]
  ELSE [c EXCEPT !.readers = @ - 1, !.guardedReaders = {}, !.version = Bump(c, 1)]

\* One acquisition ends.
Freed(c, mode, attempt) ==
  IF mode = "write"
  THEN [c EXCEPT !.writer = FALSE,
                 !.writerAttempt = NoAttempt,
                 !.version = Bump(c, 1)]
  ELSE [c EXCEPT !.readers = @ - 1,
                 !.guardedReaders = @ \ {attempt},
                 !.version = Bump(c, 1)]

\* Slip: the last reader leaves without waking the queue.
ReleaseNoGrant(c, mode, attempt, dead) ==
  IF mode = "write" THEN GrantWaiters(Freed(c, mode, attempt), dead)
  ELSE Freed(c, mode, attempt)

\* One acquisition ends and the queue is served.
Release(c, mode, attempt, dead) == GrantWaiters(Freed(c, mode, attempt), dead)

\* The counts of a LockState.
Counts(c) ==
  [readers        |-> c.readers,
   writer         |-> c.writer,
   waitingReaders |-> Cardinality({i \in DOMAIN c.waiters : c.waiters[i].mode = "read"}),
   waitingWriters |-> Cardinality({i \in DOMAIN c.waiters : c.waiters[i].mode = "write"}),
   cancelled      |-> c.cancelled]

=============================================================================
