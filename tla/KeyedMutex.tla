----------------------------- MODULE KeyedMutex -----------------------------
(* KeyedMutex: a table of reference-counted engines, one for each key in    *)
(* use.  The table is guarded by m.mu and an engine by its own mutex, and   *)
(* nothing that changes one also holds the other.  Every operation is       *)
(* therefore several steps, one critical section each, and between them     *)
(* another goroutine may take or drop a reference on the same entry, or     *)
(* recreate the entry of a key.                                             *)
(*                                                                          *)
(* A member of Procs is a goroutine that holds or awaits at most one key at *)
(* a time.  Entries stands for the addresses of keyedLockEntry objects.     *)
EXTENDS RWCore

CONSTANTS
  Keys,      \* the keys; all of them equal to themselves
  NoKey,     \* no key held or awaited
  Entries,   \* one for each goroutine or for each key in use, so that allocating
             \* one never fails (AllocationNeverFails of KeyedMutexProofs)
  NoEntry,   \* the nil entry
  MaxKeys

ASSUME KeyedAssumption ==
  /\ ~Observed
  /\ NoEntry \notin Entries
  /\ IsFiniteSet(Entries)
  /\ Cardinality(Entries) >= Cardinality(Procs) \/ Cardinality(Entries) >= MaxKeys
  /\ IsFiniteSet(Keys) /\ NoKey \notin Keys
  /\ MaxKeys \in Nat \ {0}

VARIABLES
  entries,   \* m.entries: the entry of each key, or NoEntry
  heap,      \* the entries themselves
  pc,        \* what each goroutine does next
  key,       \* the key it holds or awaits
  guarded,   \* whether it asked for a guard
  entry,     \* the entry it works on
  dead       \* the goroutines whose context is done

vars == <<entries, heap, pc, key, guarded, entry, dead>>

\* "referenced" and "trying" have a reference and are about to call acquire or
\* tryAcquire; "failed" is about to give its reference back after that call failed.
\* "found" is in Unlock, past findEntry, or in a guard's Unlock, past its flag;
\* "released" has released the engine but not its reference.
Places == {"idle", "refused", "referenced", "trying", "waiting", "failed", "holding",
           "found", "released", "panicked"}

\* At these places a goroutine has a reference on its entry.
Referring == Places \ {"idle", "refused", "panicked"}

TypeOK ==
  /\ entries \in [Keys -> Entries \union {NoEntry}]
  /\ heap \in [Entries -> [core : Core, references : Nat]]
  /\ pc \in [Procs -> Places]
  /\ key \in [Procs -> Keys \union {NoKey}]
  /\ guarded \in [Procs -> BOOLEAN]
  /\ entry \in [Procs -> Entries \union {NoEntry}]
  /\ dead \subseteq Procs

Init ==
  /\ entries = [k \in Keys |-> NoEntry]
  /\ heap = [e \in Entries |-> [core |-> InitialCore, references |-> 0]]
  /\ pc = [p \in Procs |-> "idle"]
  /\ key = [p \in Procs |-> NoKey]
  /\ guarded = [p \in Procs |-> FALSE]
  /\ entry = [p \in Procs |-> NoEntry]
  /\ dead = {}

ActiveKeys == {k \in Keys : entries[k] # NoEntry}

Attempt(p) == [id |-> p, mode |-> "write", guarded |-> guarded[p]]

CoreOf(p) == heap[entry[p]].core
SetCore(p, c) == heap' = [heap EXCEPT ![entry[p]].core = c]

\* The engine of p's entry has granted p the key and p has not released it.
Owns(p) == entry[p] # NoEntry /\ CoreOf(p).verdict[p] = "granted"

GoTo(p, place) == pc' = [pc EXCEPT ![p] = place]

\* The call of p returns to its caller.
Return(p) ==
  /\ GoTo(p, "idle")
  /\ key' = [key EXCEPT ![p] = NoKey]
  /\ guarded' = [guarded EXCEPT ![p] = FALSE]
  /\ entry' = [entry EXCEPT ![p] = NoEntry]
  /\ dead' = dead \ {p}

-----------------------------------------------------------------------------
(* The table: referenceEntry, findEntry, releaseReference *)

\* A context is cancelled or its deadline passes.
Expire(p) ==
  /\ p \notin dead
  /\ pc[p] \in {"idle", "referenced", "waiting"}
  /\ dead' = dead \union {p}
  /\ UNCHANGED <<entries, heap, pc, key, guarded, entry>>

\* A context that is done is rejected before the table is looked at.
RejectContext(p) ==
  /\ pc[p] = "idle" /\ p \in dead
  /\ dead' = dead \ {p}
  /\ UNCHANGED <<entries, heap, pc, key, guarded, entry>>

\* LockContext, LockGuard and TryLock, which has neither context nor guard, go on to
\* referenceEntry.
Starts(p, k, next, g) ==
  /\ pc[p] = "idle"
  /\ p \notin dead
  /\ next = "trying" => ~g
  /\ key' = [key EXCEPT ![p] = k]
  /\ guarded' = [guarded EXCEPT ![p] = g]
  /\ UNCHANGED dead

\* Slip: an entry that exists is used without being counted.
ShareUncounted(p, k, next, g) ==
  /\ Starts(p, k, next, g)
  /\ entries[k] # NoEntry
  /\ entry' = [entry EXCEPT ![p] = entries[k]]
  /\ GoTo(p, next)
  /\ UNCHANGED <<entries, heap>>

\* The key is in use: one more reference to its entry.
Share(p, k, next, g) ==
  /\ Starts(p, k, next, g)
  /\ entries[k] # NoEntry
  /\ heap' = [heap EXCEPT ![entries[k]].references = @ + 1]
  /\ entry' = [entry EXCEPT ![p] = entries[k]]
  /\ GoTo(p, next)
  /\ UNCHANGED entries

\* The key is new and there is room: e, which nothing points to, becomes its entry.
Create(p, k, next, g, e) ==
  /\ Starts(p, k, next, g)
  /\ entries[k] = NoEntry
  /\ Cardinality(ActiveKeys) < MaxKeys
  /\ e \notin {entries[j] : j \in Keys} \union {entry[q] : q \in Procs}
  /\ heap' = [heap EXCEPT ![e] = [core |-> InitialCore, references |-> 1]]
  /\ entries' = [entries EXCEPT ![k] = e]
  /\ entry' = [entry EXCEPT ![p] = e]
  /\ GoTo(p, next)

\* The key is new and there is no room: ErrMaxKeys, or false from TryLock.
RefuseKey(p, k, next, g) ==
  /\ Starts(p, k, next, g)
  /\ entries[k] = NoEntry
  /\ Cardinality(ActiveKeys) >= MaxKeys
  /\ GoTo(p, "refused")
  /\ UNCHANGED <<entries, heap, entry>>

\* The caller goes on after the refusal.
HandleRefusal(p) ==
  /\ pc[p] = "refused"
  /\ Return(p)
  /\ UNCHANGED <<entries, heap>>

\* Unlock looks the entry of its key up.
FindEntry(p) ==
  /\ pc[p] = "holding" /\ ~guarded[p]
  /\ entry' = [entry EXCEPT ![p] = entries[key[p]]]
  /\ GoTo(p, IF entries[key[p]] = NoEntry THEN "panicked" ELSE "found")
  /\ UNCHANGED <<entries, heap, key, guarded, dead>>

\* A guard remembers its entry.  Its flag, released, lets one Unlock past: from here on
\* any other panics in its caller and changes nothing.
UnlockGuard(p) ==
  /\ pc[p] = "holding" /\ guarded[p]
  /\ GoTo(p, "found")
  /\ UNCHANGED <<entries, heap, key, guarded, entry, dead>>

\* Slip: the entry goes with its last but one reference.
ReleaseReferenceEarly(p) ==
  LET remaining == heap[entry[p]].references - 1
  IN  /\ pc[p] \in {"failed", "released"}
      /\ IF entries[key[p]] # entry[p]
         THEN GoTo(p, "panicked") /\ UNCHANGED <<entries, heap, key, guarded, entry, dead>>
         ELSE /\ heap' = [heap EXCEPT ![entry[p]].references = remaining]
              /\ entries' = [entries EXCEPT ![key[p]] = IF remaining <= 1 THEN NoEntry ELSE @]
              /\ Return(p)

\* releaseReference; the entry goes with its last reference.
ReleaseReference(p) ==
  LET remaining == heap[entry[p]].references - 1
  IN  /\ pc[p] \in {"failed", "released"}
      /\ IF entries[key[p]] # entry[p]
         THEN GoTo(p, "panicked") /\ UNCHANGED <<entries, heap, key, guarded, entry, dead>>
         ELSE /\ heap' = [heap EXCEPT ![entry[p]].references = remaining]
              /\ entries' = [entries EXCEPT ![key[p]] = IF remaining = 0 THEN NoEntry ELSE @]
              /\ IF remaining < 0
                 THEN GoTo(p, "panicked") /\ UNCHANGED <<key, guarded, entry, dead>>
                 ELSE Return(p)

-----------------------------------------------------------------------------
(* The engine: acquire, tryAcquire, release on p's entry *)

\* What acquire does to the queue before it looks whether it can go on.
Served(p) ==
  IF CoreOf(p).waiters = <<>> THEN CoreOf(p) ELSE GrantWaiters(CoreOf(p), dead)

\* The context ended after it was looked at and before the engine looks again.
AcquireExpired(p) ==
  /\ pc[p] = "referenced" /\ p \in dead
  /\ GoTo(p, "failed")
  /\ UNCHANGED <<entries, heap, key, guarded, entry, dead>>

AcquireAtOnce(p) ==
  /\ pc[p] = "referenced" /\ p \notin dead
  /\ CanAcquireImmediately(Served(p), "write")
  /\ SetCore(p, Told(Grant(Served(p), Attempt(p)), p, "granted"))
  /\ GoTo(p, "holding")
  /\ UNCHANGED <<entries, key, guarded, entry, dead>>

AcquireWait(p) ==
  /\ pc[p] = "referenced" /\ p \notin dead
  /\ ~CanAcquireImmediately(Served(p), "write")
  /\ SetCore(p, Enqueue(Served(p), Attempt(p)))
  /\ GoTo(p, "waiting")
  /\ UNCHANGED <<entries, key, guarded, entry, dead>>

\* The select takes ctx.Done(), also when ready is closed as well.
GiveUp(p) ==
  /\ pc[p] = "waiting" /\ p \in dead
  /\ SetCore(p, CancelWaiter(CoreOf(p), p, dead))
  /\ UNCHANGED <<entries, pc, key, guarded, entry, dead>>

\* The ready channel is closed and acquire returns what the waiter was told.
FinishWait(p) ==
  /\ pc[p] = "waiting" /\ CoreOf(p).verdict[p] # "none"
  /\ IF Owns(p)
     THEN GoTo(p, "holding") /\ UNCHANGED heap
     ELSE GoTo(p, "failed") /\ SetCore(p, Told(CoreOf(p), p, "none"))
  /\ dead' = dead \ {p}
  /\ UNCHANGED <<entries, key, guarded, entry>>

TrySucceed(p) ==
  /\ pc[p] = "trying"
  /\ CanAcquireImmediately(CoreOf(p), "write")
  /\ SetCore(p, Told(Grant(CoreOf(p), Attempt(p)), p, "granted"))
  /\ GoTo(p, "holding")
  /\ UNCHANGED <<entries, key, guarded, entry, dead>>

\* Slip: a TryLock that fails keeps its reference.
TryFailLeaky(p) ==
  /\ pc[p] = "trying"
  /\ ~CanAcquireImmediately(CoreOf(p), "write")
  /\ Return(p)
  /\ UNCHANGED <<entries, heap>>

TryFail(p) ==
  /\ pc[p] = "trying"
  /\ ~CanAcquireImmediately(CoreOf(p), "write")
  /\ GoTo(p, "failed")
  /\ UNCHANGED <<entries, heap, key, guarded, entry, dead>>

\* The engine's release, from Unlock by attempt 0 and from a guard by its own.
ReleaseCore(p) ==
  LET attempt == IF guarded[p] THEN p ELSE NoAttempt
  IN  /\ pc[p] = "found"
      /\ IF ReleaseMatches(CoreOf(p), "write", attempt)
         THEN /\ SetCore(p, Release(Told(CoreOf(p), p, "none"), "write", attempt, dead))
              /\ GoTo(p, "released")
         ELSE GoTo(p, "panicked") /\ UNCHANGED heap
      /\ UNCHANGED <<entries, key, guarded, entry, dead>>

-----------------------------------------------------------------------------

Next ==
  \E p \in Procs :
    \/ Expire(p) \/ RejectContext(p)
    \/ \E k \in Keys, next \in {"referenced", "trying"}, g \in BOOLEAN :
         \/ Share(p, k, next, g) \/ RefuseKey(p, k, next, g)
         \/ \E e \in Entries : Create(p, k, next, g, e)
    \/ HandleRefusal(p) \/ FindEntry(p) \/ UnlockGuard(p) \/ ReleaseReference(p)
    \/ AcquireExpired(p) \/ AcquireAtOnce(p) \/ AcquireWait(p)
    \/ GiveUp(p) \/ FinishWait(p) \/ TrySucceed(p) \/ TryFail(p) \/ ReleaseCore(p)

Spec == Init /\ [][Next]_vars

\* Goroutines that can run do, and holders unlock.
FairSpec ==
  /\ Spec
  /\ \A p \in Procs :
       /\ WF_vars(AcquireExpired(p) \/ AcquireAtOnce(p) \/ AcquireWait(p))
       /\ WF_vars(TrySucceed(p) \/ TryFail(p))
       /\ WF_vars(GiveUp(p)) /\ WF_vars(FinishWait(p))
       /\ WF_vars(FindEntry(p) \/ UnlockGuard(p)) /\ WF_vars(ReleaseCore(p))
       /\ WF_vars(ReleaseReference(p)) /\ WF_vars(HandleRefusal(p))

-----------------------------------------------------------------------------
(* What the keyed lock promises. *)

\* A key has one owner, although its entry is dropped and recreated while goroutines
\* come and go.
KeyExclusion ==
  \A p, q \in Procs : Owns(p) /\ Owns(q) /\ key[p] = key[q] => p = q

\* The references of an entry are the goroutines between referenceEntry and
\* releaseReference, on every path of every call; all of them work on the entry the
\* table has for their key; and a key that nobody refers to has no entry.
ReferencesMatchUsers ==
  /\ \A p \in Procs : pc[p] \in Referring => entry[p] = entries[key[p]]
  /\ \A k \in ActiveKeys :
       LET users == {p \in Procs : pc[p] \in Referring /\ key[p] = k}
       IN  users # {} /\ heap[entries[k]].references = Cardinality(users)

\* A key is refused only for the sake of MaxKeys other keys that goroutines are using
\* at that moment, and never because of entries that were left behind; nor are there
\* ever more keys in use than that.
KeysInUse == {key[p] : p \in {q \in Procs : pc[q] \in Referring}}
RefusedForKeysInUse ==
  [][/\ Cardinality(KeysInUse') <= MaxKeys
     /\ \A p \in Procs : pc[p] # "refused" /\ pc'[p] = "refused"
                          => Cardinality(KeysInUse) = MaxKeys]_vars

\* An owner that unlocks finds its entry, its engine as it left it, and its reference.
NoUnlockPanic == \A p \in Procs : pc[p] # "panicked"

\* Each key is a FIFO lock of its own, whatever entries it has had.
Key(k) == INSTANCE FIFOLock
            WITH held   <- [p \in Procs |->
                              IF Owns(p) /\ key[p] = k THEN "write" ELSE "none"],
                 line   <- IF entries[k] = NoEntry THEN <<>>
                           ELSE Line(heap[entries[k]].core.waiters),
                 closed <- FALSE
KeysAreFIFOLocks ==
  /\ \A k \in Keys : Key(k)!Init
  /\ [][\A k \in Keys : Key(k)!Next \/ UNCHANGED Key(k)!vars]_vars

\* Every call on a key returns while holders unlock: neither a wait nor the steps
\* that take and give back references can be kept up for ever.
CallsReturn ==
  \A p \in Procs : pc[p] \notin {"idle", "holding"} ~> pc[p] \in {"idle", "holding"}

=============================================================================
