------------------------------ MODULE RWMutex -------------------------------
(* One Powerlock read/write lock and the goroutines that use it: acquire,   *)
(* tryAcquire, release, cancel, cancelWaiter and finishWait of              *)
(* src/rw_core.go over the engine of RWCore, as called by the ContextRWMutex,*)
(* FairRWMutex, CancelRWMutex, MaxRWMutex and the guards of the configured  *)
(* locks.  A blocked acquisition is two goroutines' business: the one that  *)
(* closes the waiter's ready channel, in a critical section of c.mu, and    *)
(* the one in the select of acquire, which learns of it at a later step and *)
(* meanwhile may see its context expire.                                    *)
EXTENDS RWCore

CONSTANTS
  MaxWaiting,   \* the limit on queued acquisitions, Unlimited if there is none
  CanCancel,    \* the lock has Cancel (CancelRWMutex)
  HasGuards     \* the lock has LockGuard, RLockGuard and their Try forms

Unlimited == -1

\* No Powerlock type has more than one of the three features, and a limit is
\* at least one (NewMaxRWMutexWithLimit, effectiveMaxWaiting).
ASSUME FeatureAssumption ==
  /\ MaxWaiting = Unlimited \/ MaxWaiting \in Nat \ {0}
  /\ CanCancel \in BOOLEAN
  /\ HasGuards \in BOOLEAN
  /\ CanCancel => MaxWaiting = Unlimited /\ ~HasGuards
  /\ HasGuards => MaxWaiting = Unlimited

VARIABLES
  core,   \* the rwCore
  pc,     \* where each goroutine is
  want,   \* the acquisition each goroutine asked for or holds
  dead    \* the goroutines whose context is cancelled or past its deadline

vars == <<core, pc, want, dead>>

\* "waiting" is in the select of acquire, "holding" is between a successful
\* acquisition and its unlock, "refused" has ErrMaxWaiting in hand, "panicked"
\* is after an unlock that found no acquisition to end.
Places == {"idle", "waiting", "holding", "refused", "panicked"}

Attempt(p, m, g) == [id |-> p, mode |-> m, guarded |-> g]
NoWant(p) == Attempt(p, "read", FALSE)
GuardChoices == IF HasGuards THEN BOOLEAN ELSE {FALSE}

TypeOK ==
  /\ core \in Core
  /\ pc \in [Procs -> Places]
  /\ want \in [Procs -> Waiter]
  /\ dead \in SUBSET Procs

Init ==
  /\ core = InitialCore
  /\ pc = [p \in Procs |-> "idle"]
  /\ want = [p \in Procs |-> NoWant(p)]
  /\ dead = {}

\* An acquisition owns the lock from the critical section that grants it, not
\* from the return of the call: a goroutine granted in the queue is an owner
\* although it has not run yet.
Owns(p) ==
  \/ pc[p] = "holding"
  \/ pc[p] = "waiting" /\ core.verdict[p] = "granted"

-----------------------------------------------------------------------------
(* acquire *)

\* The context of p is cancelled or its deadline passes, before the call or
\* while it waits.
Expire(p) ==
  /\ p \notin dead
  /\ pc[p] \in {"idle", "waiting"}
  /\ dead' = dead \union {p}
  /\ UNCHANGED <<core, pc, want>>

\* A context that is already done is rejected before the queue is looked at;
\* the next call brings a context of its own.
AcquireExpired(p) ==
  /\ pc[p] = "idle"
  /\ p \in dead
  /\ dead' = dead \ {p}
  /\ UNCHANGED <<core, pc, want>>

\* A cancelled lock rejects the acquisition.
AcquireCancelled(p) ==
  /\ pc[p] = "idle"
  /\ p \notin dead
  /\ core.cancelled
  /\ UNCHANGED vars

\* Slip: an acquisition is judged by the queue as it stands.
Unserved == core

\* What acquire does to the queue before it looks for room: expired waiters
\* leave, and those they blocked acquire.
Served == IF core.waiters = <<>> THEN core ELSE GrantWaiters(core, dead)

MayAcquire(p, g) ==
  /\ pc[p] = "idle"
  /\ p \notin dead
  /\ ~core.cancelled
  /\ g \in GuardChoices

AcquireAtOnce(p, m, g) ==
  /\ MayAcquire(p, g)
  /\ CanAcquireImmediately(Served, m)
  /\ core' = Grant(Served, Attempt(p, m, g))
  /\ pc' = [pc EXCEPT ![p] = "holding"]
  /\ want' = [want EXCEPT ![p] = Attempt(p, m, g)]
  /\ UNCHANGED dead

QueueFull(c) == MaxWaiting # Unlimited /\ Len(c.waiters) >= MaxWaiting

\* Slip: capacity is looked at before the expired waiters have left.
AcquireFullUnserved(p, m, g) ==
  /\ MayAcquire(p, g)
  /\ ~CanAcquireImmediately(core, m)
  /\ QueueFull(core)
  /\ pc' = [pc EXCEPT ![p] = "refused"]
  /\ UNCHANGED <<core, want, dead>>

\* Queue saturation: ErrMaxWaiting.
AcquireFull(p, m, g) ==
  /\ MayAcquire(p, g)
  /\ ~CanAcquireImmediately(Served, m)
  /\ QueueFull(Served)
  /\ core' = Served
  /\ pc' = [pc EXCEPT ![p] = "refused"]
  /\ UNCHANGED <<want, dead>>

\* The caller goes on after ErrMaxWaiting.
HandleFull(p) ==
  /\ pc[p] = "refused"
  /\ pc' = [pc EXCEPT ![p] = "idle"]
  /\ UNCHANGED <<core, want, dead>>

\* Slip: the limit is compared with > instead of >=.
AcquireWaitOverLimit(p, m, g) ==
  /\ MayAcquire(p, g)
  /\ ~CanAcquireImmediately(Served, m)
  /\ ~(MaxWaiting # Unlimited /\ Len(Served.waiters) > MaxWaiting)
  /\ core' = Enqueue(Served, Attempt(p, m, g))
  /\ pc' = [pc EXCEPT ![p] = "waiting"]
  /\ want' = [want EXCEPT ![p] = Attempt(p, m, g)]
  /\ UNCHANGED dead

\* The acquisition joins the queue and the goroutine enters its select.
AcquireWait(p, m, g) ==
  /\ MayAcquire(p, g)
  /\ ~CanAcquireImmediately(Served, m)
  /\ ~QueueFull(Served)
  /\ core' = Enqueue(Served, Attempt(p, m, g))
  /\ pc' = [pc EXCEPT ![p] = "waiting"]
  /\ want' = [want EXCEPT ![p] = Attempt(p, m, g)]
  /\ UNCHANGED dead

\* The select of acquire takes ctx.Done(), also when ready is closed as well.
GiveUp(p) ==
  /\ pc[p] = "waiting"
  /\ p \in dead
  /\ core' = CancelWaiter(core, p, dead)
  /\ UNCHANGED <<pc, want, dead>>

\* The ready channel is closed and acquire returns what the waiter was told.
FinishWait(p) ==
  /\ pc[p] = "waiting"
  /\ core.verdict[p] # "none"
  /\ core' = [core EXCEPT !.verdict = [@ EXCEPT ![p] = "none"]]
  /\ IF core.verdict[p] = "granted"
     THEN pc' = [pc EXCEPT ![p] = "holding"] /\ UNCHANGED want
     ELSE /\ pc' = [pc EXCEPT ![p] = "idle"]
          /\ want' = [want EXCEPT ![p] = NoWant(p)]
  /\ dead' = dead \ {p}

-----------------------------------------------------------------------------
(* tryAcquire, release, cancel *)

TrySucceed(p, m, g) ==
  /\ pc[p] = "idle"
  /\ g \in GuardChoices
  /\ ~core.cancelled
  /\ CanAcquireImmediately(core, m)
  /\ core' = Grant(core, Attempt(p, m, g))
  /\ pc' = [pc EXCEPT ![p] = "holding"]
  /\ want' = [want EXCEPT ![p] = Attempt(p, m, g)]
  /\ dead' = dead \ {p}

\* A Try that fails leaves everything alone, expired waiters included.
TryFail(p, m) ==
  /\ pc[p] = "idle"
  /\ core.cancelled \/ ~CanAcquireImmediately(core, m)
  /\ UNCHANGED vars

\* Unlock and RUnlock name no attempt, a guard names its own.
ReleasedAttempt(p) == IF want[p].guarded THEN p ELSE NoAttempt

Unlock(p) ==
  /\ pc[p] = "holding"
  /\ IF ReleaseMatches(core, want[p].mode, ReleasedAttempt(p))
     THEN /\ core' = Release(core, want[p].mode, ReleasedAttempt(p), dead)
          /\ pc' = [pc EXCEPT ![p] = "idle"]
          /\ want' = [want EXCEPT ![p] = NoWant(p)]
     ELSE /\ pc' = [pc EXCEPT ![p] = "panicked"]
          /\ UNCHANGED <<core, want>>
  /\ UNCHANGED dead

CancelLock ==
  /\ CanCancel
  /\ core' = Cancel(core)
  /\ UNCHANGED <<pc, want, dead>>

\* Unlock or RUnlock by a caller that acquired nothing, at a time when every
\* acquisition of that mode belongs to a guard.
StrayUnlock(p, m) ==
  /\ pc[p] = "idle"
  /\ ~\E q \in Procs : Owns(q) /\ want[q].mode = m /\ ~want[q].guarded
  /\ IF ReleaseMatches(core, m, NoAttempt)
     THEN core' = Release(core, m, NoAttempt, dead) /\ UNCHANGED pc
     ELSE pc' = [pc EXCEPT ![p] = "panicked"] /\ UNCHANGED core
  /\ UNCHANGED <<want, dead>>

Next ==
  \/ CancelLock
  \/ \E p \in Procs :
       \/ Expire(p) \/ AcquireExpired(p) \/ AcquireCancelled(p)
       \/ GiveUp(p) \/ FinishWait(p) \/ Unlock(p) \/ HandleFull(p)
       \/ \E m \in Modes :
            \/ TryFail(p, m)
            \/ \E g \in BOOLEAN :
                 \/ AcquireAtOnce(p, m, g) \/ AcquireFull(p, m, g)
                 \/ AcquireWait(p, m, g) \/ TrySucceed(p, m, g)

Spec == Init /\ [][Next]_vars

\* The same lock with a caller that unlocks what it never acquired.
MisuseSpec ==
  Init /\ [][Next \/ \E p \in Procs, m \in Modes : StrayUnlock(p, m)]_vars

\* The Go scheduler runs a goroutine whose select is ready.
Scheduled == \A p \in Procs : WF_vars(GiveUp(p)) /\ WF_vars(FinishWait(p))

\* A holder unlocks eventually: what a lock has to ask of its callers.
HoldersUnlock == \A p \in Procs : WF_vars(Unlock(p))

ScheduledSpec == Spec /\ Scheduled

-----------------------------------------------------------------------------
(* What the lock promises. *)

Readers == {p \in Procs : Owns(p) /\ want[p].mode = "read"}
Writers == {p \in Procs : Owns(p) /\ want[p].mode = "write"}
Queued == {p \in Procs : pc[p] = "waiting" /\ core.verdict[p] = "none"}

\* A write acquisition excludes every other one, counting the goroutines that
\* were granted while blocked and have not yet returned from acquire.
MutualExclusion ==
  /\ Writers # {} => Readers = {}
  /\ \A p, q \in Writers : p = q

\* The engine's counters say who owns the lock: a lost or doubled grant, and a
\* grant to a goroutine that has given up, show as a difference.
LedgerMatchesOwners ==
  /\ core.readers = Cardinality(Readers)
  /\ core.writer <=> Writers # {}
  /\ \A p \in Writers : core.writerAttempt = AttemptOf(want[p])
  /\ core.guardedReaders = {p \in Readers : want[p].guarded}

\* Exactly the blocked goroutines that have been told nothing are in the
\* queue, each once and under the mode it asked for: nobody sleeps outside the
\* queue and no entry outlives its goroutine's wait.
QueueTracksBlocked ==
  /\ Elems(core.waiters) = {want[p] : p \in Queued}
  /\ Len(core.waiters) = Cardinality(Queued)

\* The lock is never kept from the head of the queue without reason: a release,
\* an expiry noticed by the engine and a waiter giving up all serve the queue.
NoIdleQueue == ~HeadCompatible(core)

\* A caller that unlocks exactly what it acquired is never told that its
\* unlock has no matching acquisition, whatever mix of guards and plain
\* acquisitions is active.
NoUnlockPanic == \A p \in Procs : pc[p] # "panicked"

\* An unlock without a matching acquisition panics: what belongs to a guard is
\* ended by that guard, and a plain unlock finds nothing to end.
StrayUnlockPanics ==
  [][\A p \in Procs, m \in Modes : StrayUnlock(p, m) => pc'[p] = "panicked"]_vars

\* No acquisition overtakes a queued one: whoever gains ownership in a step,
\* everyone who was queued ahead of it (everyone queued at all, if it was not
\* queued itself) has left the queue by the end of that step.
Ahead(p) ==
  {q \in Procs : \E i \in DOMAIN core.waiters :
     /\ core.waiters[i].id = q
     /\ \A j \in 1..i : core.waiters[j].id # p}
NoBypass ==
  [][\A p \in Procs : ~Owns(p) /\ Owns(p)' => Ahead(p) \intersect Queued' = {}]_vars

\* A grant stands: only the goroutine's own unlock ends it, so a context that
\* expires between the grant and the return of acquire does not lose the lock.
GrantStands ==
  [][\A p \in Procs : Owns(p) /\ ~Owns(p)' => pc[p] = "holding" /\ pc'[p] = "idle"]_vars

\* Observers and dashboards tell states apart by Version: no step changes the
\* counts of a Snapshot under an unchanged version.
ChangeIsVersioned ==
  [][Counts(core)' # Counts(core) => core'.version # core.version]_vars

\* Cancel rejects the queue and every later acquisition and takes the lock from
\* nobody: the owners at the cancellation stay, and afterwards nobody joins them.
CancelIsFinal ==
  [][/\ core.cancelled => core'.cancelled
     /\ core'.cancelled => /\ Queued' = {}
                           /\ Readers' \subseteq Readers
                           /\ Writers' \subseteq Writers
     /\ ~core.cancelled /\ core'.cancelled => UNCHANGED <<Readers, Writers>>]_vars

\* At most MaxWaiting acquisitions are blocked and unanswered at any time.
CapacityRespected == MaxWaiting # Unlimited => Cardinality(Queued) <= MaxWaiting

\* An expired waiter that nobody has noticed yet is in nobody's way: whoever is
\* turned away with ErrMaxWaiting was turned away by MaxWaiting waiters none of whom
\* had expired, and whoever joins the queue has only live waiters before it.
OnlyTheLivingObstruct ==
  [][\A p \in Procs :
       /\ pc[p] # "refused" /\ pc'[p] = "refused"
            => Cardinality(Queued \ dead) = MaxWaiting
       /\ pc[p] # "waiting" /\ pc'[p] = "waiting"
            => Queued' \intersect dead = {}]_vars

\* Every blocked acquisition returns if holders unlock, although other
\* goroutines go on acquiring and trying for ever.
BlockedReturns ==
  HoldersUnlock => \A p \in Procs : pc[p] = "waiting" ~> pc[p] # "waiting"

\* A blocked acquisition whose context is done, or whose lock is cancelled,
\* returns although no holder ever unlocks.
AbandonedReturns ==
  \A p \in Procs :
    pc[p] = "waiting" /\ (p \in dead \/ core.cancelled) ~> pc[p] # "waiting"

-----------------------------------------------------------------------------
(* The lock implements FIFOLock: what the engine's counters, verdicts and   *)
(* scans do together is first come, first served with maximal admission.    *)

Fifo == INSTANCE FIFOLock
          WITH held   <- [p \in Procs |-> IF Owns(p) THEN want[p].mode ELSE "none"],
               line   <- Line(core.waiters),
               closed <- core.cancelled

\* Every step of the lock is a step of the abstract FIFO lock or none.
ImplementsFIFOLock == Fifo!Spec

=============================================================================
