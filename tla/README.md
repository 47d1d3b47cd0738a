# Powerlock in TLA+

This directory is a verification development of Powerlock, the Go lock library
in `src/`: TLA+ models of its locks, TLC configurations that check them on
small instances, and TLAPS proofs of what matters most for instances of every
size. Line numbers refer to the files under `src/`.

## 1. The system

Every lock of the library is a thin type around one engine, `rwCore`
(`rw_core.go`): a fair read/write lock whose whole state sits behind one
internal mutex, `c.mu`. The types differ in the features of the engine they
switch on; no type combines a waiter limit, permanent cancellation and guards.

| component | state | operations | talks to |
|---|---|---|---|
| engine `rwCore` (`rw_core.go`) | `readers`, `writer`, `writerAttemptID`, `guardedReaders`, the FIFO queue `waiters`, `cancelled`, `version`; per waiter `finished`, `granted`, `err`, a `ready` channel | `acquire`, `tryAcquire`, `release`, `cancel`, `cancelWaiter`, `finishWait`, `snapshot` | goroutines, by the ready channel of each waiter; contexts; the observer |
| event delivery (`rw_core.go`, `observed_lock.go`, `watchdog_lock.go`) | `pendingAcquired`, `pendingEvents`, `holdReport`, `reportMu`, timers | `sendAcquired`, `completeAcquiredDelivery`, `reportWaitExceeded`, `reportHoldExceeded` | the observer, called outside `c.mu` by goroutines and timer callbacks |
| `ContextRWMutex`, `FairRWMutex` | an engine | per-call contexts | engine |
| `CancelRWMutex` | an engine | `Cancel` | engine |
| `MaxRWMutex` | an engine and a limit | `ErrMaxWaiting` when the queue is full | engine |
| `ObservedRWMutex`, `WatchdogRWMutex` | an engine with an observer, thresholds | guards (`LockGuard` ...) and plain calls | engine, delivery |
| exclusive forms (`mutex.go`) | one of the above | write mode only | the read/write type |
| `LockGuard` (`guard.go`) | attempt, `released` | `Unlock` once | engine's `release` by attempt |
| `KeyedMutex` (`keyed_lock.go`) | `entries`, a reference count and an engine per key | `LockContext`, `TryLock`, `Unlock`, `LockGuard` | one engine per key; `m.mu` is never held while an engine blocks |
| Prometheus observer (`prometheus/observer.go`) | per name the last (lock ID, version), four state gauges, counters and histograms | `ObserveLock`, registration | events of many locks, concurrently |
| legacy metered locks (`prometheus/legacy.go`) | `location`, `used`, `lock`; per lock its contribution to the two gauges of a location | every lock operation, `SetLocation`, `Snapshot`; `ObserveLock` | an `ObservedRWMutex` made for the location, and its events |
| profile observer (`profile_observer.go`) | waiters, holders, early releases by attempt | `ObserveLock` | events, out of order |
| trace observer, errors, types, formatting | none | | |

Where it is hard:

- A queued goroutine sits in a `select` on its ready channel and its context.
  Others finish it (grant, reject, cancel) in a critical section while it
  sleeps; when both channels are ready Go picks either.
- A context expires at any moment, unnoticed by the engine: the expired waiter
  stays in the queue until a critical section looks.
- Whoever frees the lock or leaves the queue must wake those who can go on.
- Guards and plain acquisitions of one lock share the counters.
- Events are sent after `c.mu` is released, by several goroutines and timers;
  the code repairs the order afterwards with `pendingEvents` and `holdReport`.
- A keyed lock is released in two critical sections, of the engine and of the
  table.
- An event tells of a state that may have passed long before it is delivered,
  and two goroutines deliver theirs in either order; the observers that keep a
  state have to tell old from new by lock identity and version. A new lock may
  take the name of one whose last events are still on their way.
- A metered lock gets at its inner lock in one critical section and calls it in
  another; `SetLocation` may replace the inner lock in between.
- A guard may be unlocked by several goroutines, of which one may succeed.

`PROJECT.json` lists these as hazards, each at the line where it bites, with
the properties that cover it.

## 2. The plan

1. The engine and the goroutines that use it: `LockQueue`, `RWCore`, `RWMutex`,
   with `FIFOLock` as the abstract specification. *Done, safety and the refinement proved.*
2. Event delivery: `ObservedRWMutex`, over the same engine operators. *Done,
   safety and the refinement proved.*
3. `KeyedMutex`, engines in a reference-counted table. *Done, safety and the
   refinement for each key proved.*
4. The observers of the library, fed with the events of `ObservedRWMutex` in
   every order concurrent deliveries allow: `Telemetry`. *Done, safety proved.*
5. The legacy metered lock whose inner lock is replaced, and guards shared by
   goroutines: `MeteredRWMutex`. *Done, safety and the refinement proved.*
6. Proofs. *Done:* every invariant and action property that a run checks; that
   `RWMutex`, `ObservedRWMutex`, `MeteredRWMutex` and every key of `KeyedMutex` are
   FIFO locks, and what a FIFO lock promises; that the closed forms of the queue are
   what the loops of the code compute; that the bounds on allocated objects hide
   nothing. *Out of reach:* liveness.

Composition: `RWMutex`, `ObservedRWMutex`, `KeyedMutex` and `MeteredRWMutex` are
each built on the engine operators of `RWCore`; `Telemetry` extends
`ObservedRWMutex` and adds what its observers do with each event.

## 3. The modules

| module | what it is |
|---|---|
| `LockQueue` | the waiter queue as a sequence: `Without` is the compaction of `rejectCancelledWaitersLocked`, `LeadingReaders` the batch of `grantWaitersLocked`, both in closed form; `CompactionTurn` and `CutOut` are the loop bodies as they are written |
| `RWCore` | the engine: one operator for each critical section, from the engine's state to its next |
| `RWMutex` | a lock and its goroutines: one action for each step between critical sections |
| `ObservedRWMutex` | a lock with an observer: the same critical sections, followed by the events each goroutine and timer callback sends outside `c.mu` |
| `KeyedMutex` | a table of engines that are created, shared and dropped by reference count |
| `FIFOLock` | the abstract lock: owners, a line, and the rule that the longest admissible prefix of the line owns the lock after every step |
| `Telemetry` | the Prometheus, legacy and profile observers over `ObservedRWMutex`, and a new lock under an old name |
| `MeteredRWMutex` | the legacy metered lock: a name that may change before first use, an inner lock that changes with it, guards that several goroutines unlock |
| `MCObservedRWMutex`, `MCTelemetry` | symmetry, and the kinds of acquisition the runs use |
| `MCKeyedMutex`, `MCMeteredRWMutex` | symmetry |
| `MCRWMutex` | symmetry for TLC, and a bounded check of the closed forms of `LockQueue` and `RWCore` against the loops of the code |
| `LockQueueProofs` | what the queue operators return, for every queue, and that the loops of the code leave the same |
| `RWCoreProofs` | what the critical sections do to the queue and the verdicts, whoever calls them; how they keep an engine tied to the goroutines inside it; what they do to owners and line, of which after each of them the longest prefix that fits is in; and how they count the version on |
| `FIFOLockProofs` | what the abstract lock promises to its callers |
| `RWMutexProofs` | the inductive invariant of `RWMutex`, its consequences, what a step may never do, and the steps of `FIFOLock` it takes |
| `KeyedMutexProofs` | the same for the engines of `KeyedMutex`, with its table and its references |
| `MeteredRWMutexProofs` | the same for the inner locks of `MeteredRWMutex`, with its names and guards |
| `ObservedRWMutexProofs` | the deliveries of `ObservedRWMutex` and their counter; the steps of `FIFOLock` that its engine takes under them; the order of an attempt's events and the reports of its thresholds |
| `TelemetryProofs` | what each step makes known of the lock, and what the gauges, the totals and the profiles make of it |

### State of `RWMutex`

`core` is the `rwCore` record. A goroutine has at most one acquisition, so it
is the identity of its waiter and of its `LockAttemptID`; `AttemptOf` is 0
(`NoAttempt`) where the code draws no number. A waiter's `finished`, `granted`
and `err` are one value, `core.verdict[p]`, set when the ready channel is
closed. `pc[p]` says where the goroutine is and `want[p]` what it asked for
or holds. `dead` is the set of goroutines whose current `ctx.Err()` is not nil;
a context belongs to one call, so it is dropped when the call returns.

### Actions of `RWMutex`

| action | code |
|---|---|
| `Expire` | a context is cancelled or its deadline passes, at any time |
| `AcquireExpired`, `AcquireCancelled` | `acquire` 176-193 |
| `AcquireAtOnce`, `AcquireFull`, `AcquireWait` | the three outcomes of the rest of `acquire`'s critical section, each after the queue was served (194-197) |
| `GiveUp` | the `select` takes `ctx.Done()`: `cancelWaiter`, which does nothing if the waiter has been finished. Enabled as well when the ready channel is closed |
| `FinishWait` | the goroutine reads what its waiter was told and returns |
| `TrySucceed`, `TryFail` | `tryAcquire` |
| `Unlock` | `release`, by attempt 0 (`Unlock`, `RUnlock`) or the guard's attempt; it panics where the code's checks fail |
| `CancelLock` | `Cancel` |
| `HandleFull` | the caller goes on after `ErrMaxWaiting` |
| `StrayUnlock` | an unlock by a caller that acquired nothing; only in `MisuseSpec` |

Each critical section is one step, because `c.mu` is held throughout and
nothing outside it reads or writes the engine. What happens between two of them
(the `select`, the return from `acquire`) are steps of their own, so that a
grant, an expiry and a cancellation can meet in any order.

### `ObservedRWMutex`

An element of `Procs` is one acquisition attempt and all that acts for it: the
call, the goroutine that releases it, the callbacks of its wait and its hold
timer. `pc` is the place of the call between `c.mu` and the observer,
`outbox[s][p]` the events that one of these four senders has made up for `p`
and not yet delivered, `seen` what the observer has been told of `p`. An event
is made in one critical section and carries the `LockState` of that moment
(`Ev`); it is delivered in a step of its own (`Deliver`), so that any number of
other critical sections may lie between. `lockID` is the identity in those
states; where nobody looks at them the constant `Stamped` is FALSE and they are
left out of the model's state. `reportMu` and `report.mu` have no variable of
their own: each is held in known places (`ReportMuFree`, `HoldMuFree`). An
attempt that is over and that no event or callback refers to serves for a new
one (`Recycle`), so the runs go on for ever.

| action | code |
|---|---|
| `Refuse` | a context done before the call, a Try on a busy lock: one event, no change of the lock |
| `AcquireAtOnce`, `TrySucceed`, `AcquireWait` | the critical sections of `acquire` and `tryAcquire`; `Advance` adds each grant to `pendingAcquired` and starts the hold timer of an exact one |
| `Wake`, `GiveUp` | the two arms of the `select` |
| `FinishWait` | `finishWait` up to its first event: it takes `reportMu`, then `c.mu`, makes up for a wait report that is due and reads how the wait ended |
| `Complete` | `completeAcquiredDelivery`, after the acquired event and `close(acquiredDelivered)`: the last delivery takes over `pendingEvents` |
| `ReleaseLock` | `release`, under `report.mu` if the acquisition is exact: its events are queued or left to this goroutine. A plain acquisition may be released by another goroutine before the call that acquired it returns |
| `WaitElapses`, `HoldElapses`, `WaitFires`, `HoldFires` | a threshold passes; the runtime starts the callback as late as it likes |
| `CheckWait`, `FindHold`, `CheckHold` | the two callbacks, split at each lock they wait for |
| `Deliver` | a sender calls the observer with its next event |

An observer call is one instant: an observer that blocks or panics is excluded
by SPEC.md:17, and what may happen while one runs may happen just before or
after it. Time is kept only as "the threshold has passed": `waitLong`, `holdLong`.

### `Telemetry`

Every `Deliver` also runs the observers: `UpdateState` is the filter of
`Observer.updateState` (`prometheus/observer.go`), `Contribution` and `Shift` the
filter of `legacyPrometheusObserver.ObserveLock` and the difference it adds to the
gauges of the location, `ProfileEvent` the three maps of `ProfileObserver`. Each of
them runs under a mutex of its own and they share nothing, so the three together
are one step. `Replace` puts a new lock with a larger identity under the name, once
nobody holds the old one, waits for it or will look at it again (`Retired`); its
last events may still be with their senders, as those of a lock that the program
dropped are. The counters and histograms, which add one for each event of a kind,
are left out: `EventOrder` says how often each kind occurs.

### `MeteredRWMutex`

`location`, `used` and `lock` are the fields of the Go struct, `locks` the
`ObservedRWMutex` objects by address (`Locks` is large enough for allocation never
to fail, which `LocksSuffice` proves), `target[p]` the object a goroutine got hold of.

| action | code |
|---|---|
| `SetLocation` | before first use; afterwards it panics and changes nothing |
| `Call` | `lockForOperation` of any acquisition |
| `AcquireAtOnce`, `AcquireWait`, `TryFail`, `FinishWait` | the acquisition on the object it returned |
| `Unlock`, `ReleaseLock` | a plain unlock: `lockForOperation` again, then `release` on what it returned |
| `UnlockGuard`, `ReleaseGuard` | `LockGuard.Unlock`: the `released` flag, then `release` on the guard's own object; any goroutine may make the call |
| `Snapshot`, `ReadSnapshot` | `lockForReadout`, which does not count as use, and the reading |

Contexts and events are left out, being the subject of the modules above.

### `KeyedMutex`

`entries` is the table `m.entries`, `heap` the `keyedLockEntry` objects it and the
goroutines point to; an object nothing points to may be allocated again. Each
critical section of `m.mu` (`Share`, `Create`, `RefuseKey` for `referenceEntry`;
`FindEntry`; `ReleaseReference`) and each of an engine (`AcquireExpired`,
`AcquireAtOnce`, `AcquireWait`, `GiveUp`, `TrySucceed`, `TryFail`, `ReleaseCore`) is a
step. The entry a plain `Unlock` works on is looked up anew, a guard keeps its own.
`UnlockGuard` is the compare-and-swap of the guard's `released` flag. One goroutine
unlocks a guard here; a second `Unlock` would find the flag set, panic in its caller
and change nothing. Guards that several goroutines unlock at once are in
`MeteredRWMutex`.
`Entries` must be as many as `Procs` or as `MaxKeys`; then allocation never fails
(`EntriesSuffice`), since every object in use belongs to a goroutine and to a key.

## 4. What is checked

| run | instance | what it asks |
|---|---|---|
| `context` | 5 goroutines, guards and plain calls, both modes, contexts | ownership, queue and counters agree (`MutualExclusion`, `LedgerMatchesOwners`, `QueueTracksBlocked`); the lock is never withheld from the head of the queue (`NoIdleQueue`); an owner's unlock never panics (`NoUnlockPanic`); nobody overtakes (`NoBypass`); only the owner ends an acquisition (`GrantStands`) |
| `limit` | 5 goroutines, 2 waiters, versions modulo 9 | capacity is respected (`CapacityRespected`); waiters that have expired unnoticed neither have a caller refused nor stand before one that joins the queue (`OnlyTheLivingObstruct`); every change of the counts has a new version (`ChangeIsVersioned`) |
| `cancel` | 4 goroutines | cancellation is final and takes nothing from owners; the lock implements `FIFOLock` |
| `liveness` | 3 goroutines, `Cancel` | a blocked acquisition returns if holders unlock, whatever the others do (`BlockedReturns`); one whose context ends or whose lock is cancelled returns although no holder ever unlocks (`AbandonedReturns`) |
| `observed` | 2 attempts, both thresholds, plain and guarded | each attempt's events come in the order of its life, once each, whoever sends them (`EventOrder`); every elapsed threshold has been reported when the end of the wait or hold is (`ThresholdsReported`) |
| `pending` | 3 attempts, no thresholds | `pendingAcquired` counts the deliveries to come (`DeliveriesCounted`); queued events never wait without a delivery that will send them (`NothingStranded`); the observed lock implements `FIFOLock`, early releases included |
| `observed_liveness` | 2 attempts, writers and guarded readers, hold threshold | calls return, and the hold callback does, although it waits for the acquired event and for a release that sends |
| `keyed` | 3 goroutines, 3 keys, room for 2 | a key has one owner and is a FIFO lock whatever entries it has had; references are exactly the calls that use the entry; a key is refused only while as many others as there may be are in use (`RefusedForKeysInUse`); no unlock panics |
| `keyed_liveness` | 3 goroutines, 2 keys, room for 1, hence one address | every call on a key returns while holders unlock |
| `telemetry` | 2 attempts at a time, both thresholds, plain and guarded; 2 locks of one name | a version of a lock names one state (`VersionNamesState`); gauges are not behind what has returned (`GaugesShowReturned`) and show the lock once all is delivered (`GaugesSettle`, `LegacySettles`); profiles list exactly the attempts that wait or hold (`ProfilesExact`) |
| `metered` | 3 goroutines, 2 names, 5 addresses | renaming never splits the lock in two (`ExclusionAcrossNames`); no owner's unlock panics, however many goroutines share a guard (`NoUnlockPanic`); a snapshot is of the lock that `Unlock` speaks of (`SnapshotOfTheLock`); to its users it is one FIFO lock (`MeteredFIFOLock`) |
| `stray_unlock` | 3 goroutines, guards | expected to fail: see section 6 |

Bounds. Five goroutines allow an owner, a reader and a writer blocked in every
order in front of and behind one that gives up, and a newcomer; four allow a
writer between readers under an owner, the shortest queue in which a departure
in the middle has to wake those behind. The actions are otherwise unbounded:
goroutines acquire and unlock for ever. `VersionModulus` wraps the version
counter; with modulus 1 it is constant, which the engine never looks at, so
`context`, `cancel` and the liveness runs drop it from the state. `limit`
keeps it, with a modulus greater than the number of increments of one step
(three waiters granted or purged and an arrival), so that a wrapped version
cannot be mistaken for an old one in the step it is compared over.
Symmetry is used in the safety runs only. Two attempts suffice for the order of
one attempt's events: the other one keeps `pendingAcquired` positive, waits
behind it or flushes its queued events. Three let deliveries of two
readers overlap with the release of a third, and two readers wait behind a writer;
the thresholds, which add nothing to these questions, are off there. The wait
threshold is off in `observed_liveness`: its callback takes `reportMu` and then
`c.mu`. Only `acquire` takes them the other way round (`rw_core.go:239`), and the
`reportMu` is that of the waiter it has just made, whose timer is not started yet, so
that nobody else can have it. This is an argument about the code, not something the
model shows: `c.mu` is no variable of it.

In `telemetry` versions do not wrap, since the observers compare them: calls that
would take the counter past `VersionModulus` are left out (`Room`), which leaves
two to three attempts for each of two locks. An old state is a problem between two
events that overlap, or between a late event of a lock and the first one of its
successor, and both happen within that.

Five addresses let every goroutine hold on to an object of its own while the lock
points to a fourth and `SetLocation` makes a fifth.

Three goroutines are enough for one that leaves an entry, one that still uses it
and one that comes for the same key or wants its slot in the table.

Fairness. `Scheduled`: a goroutine whose `select` is ready runs (weak fairness
of `GiveUp` and `FinishWait`), which is what Go's scheduler gives a runnable
goroutine. `HoldersUnlock`: a holder unlocks, what every lock asks of its
callers; it is the premise of `BlockedReturns`, and `AbandonedReturns` does without it. Nothing is assumed of arrivals, tries,
expiries or `Cancel`. `FairSpec` of `ObservedRWMutex` asks the same of each step
of a call, a release and a callback, and that an acquisition is released once
its call has returned (not sooner); the timers may be late for ever. `FairSpec` of `KeyedMutex` is the
same for the steps of a keyed call and for holders.

Every property of a passing run is also shown to notice a plausible mistake in
the code: the definitions marked `Slip:` are such mistakes (a queue not served
after a departure, a verdict overwritten, a limit off by one, ...), and with
each in place of the definition it follows TLC reports the property violated.

## 5. What is proved

Everything below is proved for every finite set of goroutines and every value of
the other constants; the only assumptions are the named `ASSUME`s, which say what
the constants are.

**The queue.** `LockQueueProofs` says of every queue what the engine's lemmas need:
compaction keeps exactly the survivors in their order, none twice and no more than
there were; the leading readers are a prefix of readers that cannot be extended; a
prefix of a duplicate-free queue has as many goroutines as places. It also closes the
gap between the model, which has the scans of the queue in closed form, and the code,
which loops. `CompactionLoop`: `rejectCancelledWaitersLocked` appends the survivors to
`c.waiters[:0]`, over the array it is still reading; after turn `i` the cells behind
`i` are as they were and the first `kept` ones are the survivors so far, so no waiter is
overwritten unread, and the end is `Without`. `WaiterCutOut`: the `copy` in
`cancelWaiter`, at the cell where the search stops, leaves `Without` that waiter.
`GrantLoop` (in `RWCoreProofs`): granting the head while it is a reader ends after
exactly `LeadingReaders` turns, in the engine that `GrantReaders` gives at once,
counters, guards, verdicts and version included. The induction these proofs need is on
a set of indices: `UpTo`, which follows from the least element of a set of naturals.
TLC compares the same loop bodies with the closed forms for all queues up to length
three (`QueueOperatorsAreTheLoops`).

**The engine.** `RWCoreProofs` says what the engine promises to anybody: from a state whose
queue has nobody twice (`Sound`), each critical section leads to such a state, adds
nobody to the queue and tells something only to those it takes out of it (`Serves`).
Finally `Tied` ties an engine to the goroutines inside it: exactly those that wait
without a verdict are queued, once and under their own mode; the counters are the
owners; the guards' attempts are registered. None of this is inductive alone:
exclusion needs the counters to be the owners, the counters need that a queued
goroutine is in the queue once (or a grant would count somebody twice), that needs
a verdict to exist only while its goroutine waits. `Tied` speaks of an engine
state, places and acquisitions as parameters, not of the variables of a module; so
each critical section is treated once, as an operator (`RejectPreserves`,
`GrantWaitersPreserves`, `EnqueuePreserves`, `GrantPreserves`, `FreedPreserves`,
`CancelPreserves`, and composed of these `AcquirePreserves`, `GiveUpPreserves`,
`ReleasePreserves`), and serves every module whose engines have goroutines of their
own. `GrantWaitersPreserves` also shows that what is left at the head of the queue
cannot own the lock, which no later step of the same critical section spoils; and where
that is so a queue has an owner it waits for (`SomebodyOwns`).

Its second part looks at the same operators from outside, as owners and a line
of callers. `Settles` says that the longest prefix of the line that fits beside the
owners is let in; `GrantWaitersSettles` proves it of `GrantWaiters`, and
`TakeMoves`, `WaitMoves`, `GiveUpMoves`, `ReleaseMoves` derive from it the step that
each critical section is for an abstract lock. Its last part counts: `Ticks(c, d, n)`
says that the engine went from `c` to `d` by `n` increments of the version, and that
if there were none the counts are the same. Each critical section is so many ticks,
and at most one for each waiter and one more.

**`RWMutex`.** `IInv` is `Tied` of the one engine and the variables, with an
incompatible head, an empty queue once cancelled, and the limit; `StepInvariant`
combines the operators action by action. From it follow `NobodyStranded` (a blocked
goroutine without a verdict waits for an owner, so there is a release to come that
serves the queue: the safety side of `BlockedReturns`) and `TypeOK`,
`MutualExclusion`, `LedgerMatchesOwners`, `QueueTracksBlocked`, `NoIdleQueue`,
`NoUnlockPanic` and `CapacityRespected`, and four action properties.
`GrantStands`: the verdict of an owner is never overwritten, since the critical
sections give verdicts to queued goroutines only and no owner is queued; so only an
unlock, which needs the goroutine to be back from its call, ends an ownership.
`CancelIsFinal`: a cancelled engine has an empty queue and starts no acquisition, so
nobody joins the owners.
`NoBypass`: no critical section puts a goroutine ahead of one it was behind
(`WithoutOrder`), and what is granted is a prefix of what is left.
`OnlyTheLivingObstruct`: the service that precedes both the look at the limit and the
arrival in the queue leaves only waiters whose contexts are not done. `FIFORefinement`: every step is a step of
`FIFOLock` or changes neither owners nor line. `FIFOLock` chooses the longest
admissible prefix; `Settles` has the same prefix by its length, and `SameLines`,
`AdmittedFits` identify the two. `ChangesAreVersioned` is the one theorem with a
hypothesis: the counter must not come round within one step, which is
`Cardinality(Procs) + 1 < VersionModulus`. In the code the modulus is 2^64; with a
smaller one a step that grants a long queue could end on the version it began with.

**`KeyedMutex`.** `KInv`: each entry of the heap, in the table or not, has an engine
that is `Tied` to the goroutines whose calls are inside it; every reference is on
the entry of its key, no two keys share an entry (`Linked`), and an entry in the
table is counted exactly by its users, of which there is at least one (`Counted`).
The steps come in two kinds: inside an engine (`EngineMoves`), where the table stands
still, and at the table (`TableMoves`), where an entry is created, shared or given
back and no engine moves; an entry dropped from the table has an engine nobody is
inside of, so the address may be used again. Hence `TypeOK`, `KeyExclusion`,
`ReferencesMatchUsers`, `NoUnlockPanic`, `RefusedForKeysInUse`, and
`KeysAreFIFOLocks`: for the abstract lock of a key an engine step is a step of
`FIFOLock`, and a table step a stutter although it replaces the engine.
`NobodyStrandedOnAKey`: the owner a waiter waits for owns the same key. `EntriesSuffice`
is a pigeonhole: each object in use has a user, and the one that is about to allocate
has none.

**`MeteredRWMutex`.** `MInv`: the first use fixes the inner lock, and no other lock
was ever acquired (`OneLock`); each lock's engine is `Tied` to its goroutines; the
flag of a guard stands for the one release under way (`GuardsClaimed`). Hence
`TypeOK`, `ExclusionAcrossNames`, `NoUnlockPanic`, `SnapshotOfTheLock`, and
`MeteredRefinement`: the owners and the line of whichever inner lock is in use are
those of one `FIFOLock`, for which every change of name is a stutter.
`NobodyStrandedByRenaming`: no waiter sits on a lock that went out of use.
`LocksSuffice`: among `Cardinality(Procs) + 2` addresses one is always unreferenced.

**`ObservedRWMutex`.** What an observer hears depends little on the engine: of a
critical section it matters whom it grants and whom it rejects (`Serves`). `OInv` adds to the types where a call may be with what it has been told
(`PlacesTied`): whoever is granted the lock by another is at the `select` or on the
way to it, hence has its acquired event before it and becomes a delivery to come.
`DeliveriesCounted` follows by cardinality (`CounterAdvances`, `CounterKept`), and
from it `NothingStranded`: events are queued only under a positive counter, and the
step that takes it to zero empties the queue.

`EInv` adds the life of each attempt as its observer hears of it. For each of the
four senders it says what the sender has left to send of the attempt (`CallSends`,
`WaitSends`, `HoldSends`, `ReleaseSends`), beside what has been heard so far
(`SoFar`) and what has become of every report that was noted (`Noted`). The events
of finished holds change hands: they are put into `pendingEvents`, and the call that
completes the last delivery takes them all over, whoever they are about. `Mailed` and
`MailedOnce` say that such an event is of a hold that is over and whose acquired
event is out, has not been heard, is with no other sender, and that all events of
one attempt are with one carrier, the report before the end. `EventOrder` and
`ThresholdsReported` follow.

For the engine itself, `EngineTied` is `Tied` with where each attempt stands
(`Standing`) instead of where its call is. The two differ because an attempt may be
released before its call has returned, and its verdict stays on record until the
identity is used again: such an attempt is `"gone"`, neither owner nor in line
(`RecordedFreed`, `OutOfItChanges`). `StepTied` shows that every step keeps the tie
and either moves the engine as one of the critical sections does or leaves owners
and line alone, from which `ObservedRefinement`, that the lock implements `FIFOLock`,
and `NobodyStrandedByDelivery`.

**`FIFOLock`.** What the four refinements are worth is what the abstract lock promises:
a writer owns it alone (`FIFOExclusion`), it is never kept from a head of the line that
fits the owners (`FIFONeverWithheld`), callers get it in the order they came
(`FIFOInOrder`), and nobody takes it from an owner (`FIFOOwnersStay`). `FInv` adds that
nobody is in line twice, nor in line and an owner at once. These hold of every behaviour
of `FIFOLock`, hence of the owners and lines to which the refinements map those of the
locks; that last inference is not repeated as a theorem for each lock.

**`Telemetry`.** Its observers compare versions, so the proof starts from the fact that
these do not wrap. The guard `Room` of the model stands for a counter that is far from
its end when a call begins; `LockInv` says that it then stays short of it until
everybody who is inside has left (`Ahead` is what they may still count), and with that
every step is `Onward`: the version does not go back, and if it stays so do the counts.

`Sent` is the set of events on their way, wherever they are. `Moved(p)`, proved for
each action (`CheckMoves`, `FinishWaitMoves`, `CompleteMoves` ..., collected in
`LockMoves`), is all that the observers need to know of a step of the lock: what it
makes up tells of the state before it or after it; a changed state is told unless
somebody is on the way to tell it (`Owing`); and where the attempts stand afterwards.
`DeliverMoves` and the lemmas after it do the same for a delivery. Each property then
has an invariant of its own over these, so that none of the proofs looks into the lock:

- `KnownInv`: whatever is known of a lock (by it, by an event, by the gauges) agrees
  where identity and version do, and nothing known is newer than the lock. This is
  `VersionNamesState`, and what makes it harmless that of two events of one version
  the one told last is kept.
- `FreshInv`: somebody owes the state of the lock, or the newest of what the gauges
  show and the events will tell shows its counts. A delivery may drop an event but
  never the newest (`GaugesObserve`); so when none is left the gauges are right,
  `GaugesSettle`.
- `MarkInv`: each attempt that counts has a version, of the lock as it is now, from
  which on every state of the lock counts it; the last event of its call carries that
  version or a later one, and once told the gauges have it. As they only move to newer
  states, `GaugesShowReturned`.
- `LegacyInv`, `AreaInv`: the same for the contribution of every lock, replaced ones
  having been free at last; and each total is the number of cells under the
  contributions, which turns a sum over locks into a cardinality, so that no induction
  is needed. Together `LegacySettles`.
- `ProfileInv`: the waiter profile is the attempts between their waitStarted event and
  the next of their call, the holder profile the exact ones heard to be acquired and not
  released; an attempt that is over has been heard out. Hence `ProfilesExact`. By the
  order of events proved in `EInv` no release is heard before its acquisition, so the
  map that `ProfileObserver` keeps for such releases is always empty.

Only model-checked: liveness, which is beyond the prover (`BlockedReturns`,
`AbandonedReturns`, `CallsReturn` of two modules, `HoldCallbackReturns`).

## 6. Where code and documentation differ

`stray_unlock`: SPEC.md:31 says that unlocking without a matching acquisition
panics, and SPEC.md:86 that a guard owns one exact acquisition. When the caller
names no attempt, `release` only looks at the counters (`rw_core.go:335, 367`).
With one read guard active, an `RUnlock` by a goroutine that acquired nothing
succeeds: the count drops to zero while the guard is still registered, a writer
may enter, and the guard's own `Unlock` panics later.

Two things are not contradictions but deserve a reader's attention. First,
`ActiveKeys` and the key limit are documented as counting keys "held or awaited"
(`keyed_lock.go:75`, SPEC.md:159); they count references, which outlive the hold
by the step between `release` and `releaseReference` (`keyed_lock.go:125`) and are
also taken by a `TryLock` that is going to fail, so for a moment a key that nobody
holds or awaits can make a new key be refused. Second, SPEC.md:29
says that released events are delivered before `release` returns unless a
goroutine releases "before acquisition delivery completes". The code queues
them while the delivery of *any* acquisition of the lock is pending
(`rw_core.go:411`), and flushes when none is (`rw_core.go:690`): while readers keep
arriving so that their deliveries overlap, released events wait.

## 7. Not modelled

- `configure`, `setName` and `used` of the plain types: configuration happens
  before first use and panics afterwards; nothing after it depends on the order.
  `SetLocation` of a metered lock, which replaces the lock, is modelled.
- Durations in snapshots and events, caller stacks, error texts, `format.go`,
  `errors.go`: data no property distinguishes.
- Of the Prometheus observer the counters and histograms, registration,
  `validateBuckets` and `validateEvent`: each adds to one number or checks one
  argument. Of the legacy locks two live ones that share a location: their
  contributions are added up independently, and `Telemetry` has them one after
  the other.
- `runtime_trace_observer.go` forwards an event and keeps nothing.
- `cmd/`, `examples/`, `benchmarks/`: not part of the library.
- The memory model: all engine state is accessed under `c.mu`, except the read
  of `c.observer` at `rw_core.go:312`, a field that is constant after first use.
