--------------------------- MODULE MeteredRWMutex ---------------------------
(* A legacy metered lock and its guards: a name that may be changed until   *)
(* the first use, and an ObservedRWMutex that is made anew with each name.  *)
(* Every method first takes m.mu to get at the lock and calls it after m.mu *)
(* is released; between the two the name, and with it the lock, may be      *)
(* changed by another goroutine.  A plain Unlock gets at the lock again, a  *)
(* guard remembers the one it was acquired on and may be unlocked by any    *)
(* goroutine that has it.                                                   *)
(*                                                                          *)
(* The locks are engines of RWCore; contexts and events are the subject of  *)
(* RWMutex and ObservedRWMutex and left out.                                *)
EXTENDS RWCore

CONSTANTS
  Names,    \* the locations
  Locks,    \* enough addresses of ObservedRWMutex objects to have one free
  NoLock    \* the nil pointer

ASSUME MeteredAssumption ==
  /\ NoLock \notin Locks
  /\ IsFiniteSet(Locks) /\ Cardinality(Locks) > Cardinality(Procs) + 1
  /\ Names # {}

VARIABLES
  location, used, lock,   \* of the MeteredRWMutex, under m.mu
  locks,                  \* the ObservedRWMutex objects: name and engine
  pc,                     \* what each goroutine does next
  want,                   \* what it asks for
  target,                 \* the lock it is about to call or has acquired
  released,               \* the guards whose released flag is set
  unlocking               \* how many calls of Unlock each guard is going to release

vars == <<location, used, lock, locks, pc, want, target, released, unlocking>>

\* "called" and "leaving" have the lock and are about to acquire or release it;
\* "reading" is about to take a snapshot.
Places == {"idle", "called", "waiting", "holding", "leaving", "reading", "panicked"}

TypeOK ==
  /\ location \in Names
  /\ used \in BOOLEAN
  /\ lock \in Locks \union {NoLock}
  /\ locks \in [Locks -> [name : Names, core : Core]]
  /\ pc \in [Procs -> Places]
  /\ want \in [Procs -> Waiter]
  /\ target \in [Procs -> Locks \union {NoLock}]
  /\ released \subseteq Procs
  /\ unlocking \in [Procs -> Nat]

Attempt(p, m, g) == [id |-> p, mode |-> m, guarded |-> g]

NewLock(name) == [name |-> name, core |-> InitialCore]

\* The zero value has no lock yet, NewMeteredRWMutex makes one.
Init ==
  /\ location \in Names
  /\ used = FALSE
  /\ locks = [l \in Locks |-> NewLock(location)]
  /\ lock \in Locks \union {NoLock}
  /\ pc = [p \in Procs |-> "idle"]
  /\ want = [p \in Procs |-> Attempt(p, "read", FALSE)]
  /\ target = [p \in Procs |-> NoLock]
  /\ released = {}
  /\ unlocking = [p \in Procs |-> 0]

CoreOf(p) == locks[target[p]].core
SetCore(p, c) == locks' = [locks EXCEPT ![target[p]].core = c]

\* Some lock has granted p what it wants and p has not released it.
Owns(p) == \E l \in Locks : locks[l].core.verdict[p] = "granted"

GoTo(p, place) == pc' = [pc EXCEPT ![p] = place]

\* The address of a new object: one that nothing refers to.
Fresh(l) == l # lock /\ \A p \in Procs : target[p] # l

-----------------------------------------------------------------------------
(* The name and the lock, under m.mu *)

\* SetLocation; after first use it panics and changes nothing.
SetLocation(name) ==
  /\ ~used
  /\ \E l \in Locks :
       /\ Fresh(l)
       /\ lock' = l
       /\ locks' = [locks EXCEPT ![l] = NewLock(name)]
  /\ location' = name
  /\ UNCHANGED <<used, pc, want, target, released, unlocking>>

\* p gets the lock, which is made if there is none.
Get(p) ==
  \/ /\ lock # NoLock
     /\ target' = [target EXCEPT ![p] = lock]
     /\ UNCHANGED <<lock, locks>>
  \/ /\ lock = NoLock
     /\ \E l \in Locks :
          /\ Fresh(l)
          /\ lock' = l
          /\ locks' = [locks EXCEPT ![l] = NewLock(location)]
          /\ target' = [target EXCEPT ![p] = l]

\* Slip: the first use is not noted.
LockForOperationUnmarked(p) == Get(p) /\ UNCHANGED <<location, used>>

LockForOperation(p) == Get(p) /\ used' = TRUE /\ UNCHANGED location

LockForReadout(p) == Get(p) /\ UNCHANGED <<location, used>>

-----------------------------------------------------------------------------
(* The operations *)

\* Lock, RLock, their guard forms and the tries.
Call(p, m, g) ==
  /\ pc[p] = "idle"
  /\ LockForOperation(p)
  /\ want' = [want EXCEPT ![p] = Attempt(p, m, g)]
  /\ GoTo(p, "called")
  /\ UNCHANGED <<released, unlocking>>

AcquireAtOnce(p) ==
  /\ pc[p] = "called"
  /\ CanAcquireImmediately(CoreOf(p), want[p].mode)
  /\ SetCore(p, Told(Grant(CoreOf(p), want[p]), p, "granted"))
  /\ GoTo(p, "holding")
  /\ UNCHANGED <<location, used, lock, want, target, released, unlocking>>

AcquireWait(p) ==
  /\ pc[p] = "called"
  /\ ~CanAcquireImmediately(CoreOf(p), want[p].mode)
  /\ SetCore(p, Enqueue(CoreOf(p), want[p]))
  /\ GoTo(p, "waiting")
  /\ UNCHANGED <<location, used, lock, want, target, released, unlocking>>

FinishWait(p) ==
  /\ pc[p] = "waiting"
  /\ CoreOf(p).verdict[p] = "granted"
  /\ GoTo(p, "holding")
  /\ UNCHANGED <<location, used, lock, locks, want, target, released, unlocking>>

\* p is done with its lock.
Return(p) == GoTo(p, "idle") /\ target' = [target EXCEPT ![p] = NoLock]

TryFail(p) ==
  /\ pc[p] = "called"
  /\ ~CanAcquireImmediately(CoreOf(p), want[p].mode)
  /\ Return(p)
  /\ UNCHANGED <<location, used, lock, locks, want, released, unlocking>>

\* Unlock and RUnlock, without a guard.
Unlock(p) ==
  /\ pc[p] = "holding" /\ ~want[p].guarded
  /\ LockForOperation(p)
  /\ GoTo(p, "leaving")
  /\ UNCHANGED <<want, released, unlocking>>

\* The engine's release by this attempt; it panics without a matching acquisition.
ReleaseBy(p, attempt) ==
  IF ReleaseMatches(CoreOf(p), want[p].mode, attempt)
  THEN /\ SetCore(p, Release(Told(CoreOf(p), p, "none"), want[p].mode, attempt, {}))
       /\ Return(p)
  ELSE GoTo(p, "panicked") /\ UNCHANGED <<locks, target>>

ReleaseLock(p) ==
  /\ pc[p] = "leaving"
  /\ ReleaseBy(p, NoAttempt)
  /\ UNCHANGED <<location, used, lock, want, released, unlocking>>

\* Slip: the flag is looked at here and set with the release.
UnlockGuardUnclaimed(p) ==
  /\ pc[p] = "holding" /\ want[p].guarded /\ p \notin released
  /\ unlocking' = [unlocking EXCEPT ![p] = @ + 1]
  /\ UNCHANGED <<location, used, lock, locks, pc, want, target, released>>

\* A call of Unlock on p's guard sets the flag; one that finds it set panics and
\* changes nothing.
UnlockGuard(p) ==
  /\ pc[p] = "holding" /\ want[p].guarded /\ p \notin released
  /\ released' = released \union {p}
  /\ unlocking' = [unlocking EXCEPT ![p] = @ + 1]
  /\ UNCHANGED <<location, used, lock, locks, pc, want, target>>

\* That call goes on to the engine.  The guard is forgotten with its last call.
ReleaseGuard(p) ==
  /\ unlocking[p] > 0
  /\ pc[p] = "holding"
  /\ unlocking' = [unlocking EXCEPT ![p] = @ - 1]
  /\ IF ReleaseMatches(CoreOf(p), want[p].mode, p)
     THEN /\ SetCore(p, Release(Told(CoreOf(p), p, "none"), want[p].mode, p, {}))
          /\ IF unlocking[p] = 1
             THEN Return(p) /\ released' = released \ {p}
             ELSE UNCHANGED <<pc, target, released>>
     ELSE GoTo(p, "panicked") /\ UNCHANGED <<locks, target, released>>
  /\ UNCHANGED <<location, used, lock, want>>

\* Snapshot: the lock is read after m.mu is released.
Snapshot(p) ==
  /\ pc[p] = "idle"
  /\ LockForReadout(p)
  /\ GoTo(p, "reading")
  /\ UNCHANGED <<want, released, unlocking>>

ReadSnapshot(p) ==
  /\ pc[p] = "reading"
  /\ Return(p)
  /\ UNCHANGED <<location, used, lock, locks, want, released, unlocking>>

-----------------------------------------------------------------------------

Next ==
  \/ \E name \in Names : SetLocation(name)
  \/ \E p \in Procs :
       \/ \E m \in Modes, g \in BOOLEAN : Call(p, m, g)
       \/ AcquireAtOnce(p) \/ AcquireWait(p) \/ FinishWait(p) \/ TryFail(p)
       \/ Unlock(p) \/ ReleaseLock(p) \/ UnlockGuard(p) \/ ReleaseGuard(p)
       \/ Snapshot(p) \/ ReadSnapshot(p)

Spec == Init /\ [][Next]_vars

-----------------------------------------------------------------------------
(* What a metered lock promises. *)

\* Renaming does not split the lock in two: a writer excludes every other owner,
\* whichever object each of them got hold of before it acquired.
ExclusionAcrossNames ==
  \A p, q \in Procs : Owns(p) /\ Owns(q) /\ want[p].mode = "write" => p = q

\* An owner that unlocks finds its acquisition, on the lock the metered one has by then;
\* a guard is released once however many goroutines unlock it.
NoUnlockPanic == \A p \in Procs : pc[p] # "panicked"

\* A readout may get at a lock that is given up for another name before it is read: that
\* one was never used, so a snapshot never shows the acquisitions of another lock than
\* the one Name and Unlock speak of.
SnapshotOfTheLock ==
  \A p \in Procs : pc[p] = "reading" /\ CoreOf(p) # InitialCore => target[p] = lock

\* The metered lock is one FIFO lock from its first use on, whatever names and objects
\* it had before: callers that got hold of their object at different times, guards that
\* several goroutines unlock and plain unlocks that look the object up again all meet in
\* one line.
Fifo == INSTANCE FIFOLock
          WITH held   <- [p \in Procs |-> IF Owns(p) THEN want[p].mode ELSE "none"],
               line   <- IF lock = NoLock THEN <<>> ELSE Line(locks[lock].core.waiters),
               closed <- FALSE
MeteredFIFOLock == Fifo!Spec

=============================================================================
