------------------------ MODULE MeteredRWMutexProofs ------------------------
(* The metered lock's safety for every number of goroutines, names and      *)
(* addresses.  The invariant says that the first use fixes the lock, that   *)
(* the engine of each lock is tied to the goroutines whose calls are inside *)
(* it, and that the flag of a guard stands for the one release under way.   *)
(* From it follows that the metered lock is one FIFO lock.                  *)
EXTENDS MeteredRWMutex, RWCoreProofs

\* At these places a goroutine is known to the engine of the lock it called: it is in the
\* queue, has left it with a verdict it has not looked at, or is an owner.
Engaged == {"waiting", "holding", "leaving"}

\* At these places a goroutine has the lock for an operation that uses it.
Using == {"called"} \union Engaged

\* Who is known to the engine of l.
At(l, t, place) ==
  [p \in Procs |-> IF t[p] = l /\ place[p] \in Engaged THEN "waiting" ELSE "idle"]

EnginesTied ==
  \A l \in Locks : /\ Tied(locks[l].core, At(l, target, pc), want)
                   /\ ~HeadCompatible(locks[l].core)

\* From the first use on there is one lock, and no other one was ever acquired.
OneLock ==
  /\ used => lock # NoLock
  /\ \A l \in Locks : locks[l].core = InitialCore \/ (used /\ l = lock)
  /\ \A p \in Procs :
       /\ pc[p] \in Using => used /\ target[p] = lock
       /\ pc[p] = "reading" => target[p] # NoLock

OwnersTold ==
  \A p \in Procs :
    /\ pc[p] \in {"holding", "leaving"} => locks[target[p]].core.verdict[p] = "granted"
    /\ pc[p] = "leaving" => ~want[p].guarded
    /\ pc[p] # "panicked"

\* A guard whose flag is set is on its way to be released, once.
GuardsClaimed ==
  \A p \in Procs :
    /\ unlocking[p] = IF p \in released THEN 1 ELSE 0
    /\ p \in released => pc[p] = "holding" /\ want[p].guarded

MInv == TypeOK /\ EnginesTied /\ OneLock /\ OwnersTold /\ GuardsClaimed

-----------------------------------------------------------------------------

LEMMA StationsTyped ==
  ASSUME NEW l, NEW t, NEW place
  PROVE  At(l, t, place) \in [Procs -> Stations]
BY DEF At, Stations

LEMMA InitialCoreTyped == InitialCore \in Core
<1>1. <<>> \in Seq(Waiter)
  OBVIOUS
<1> QED
  BY <1>1, CoreAssumption DEF InitialCore, Core, Verdicts

\* No lock is in use when the metered lock is created.
LEMMA InitMetered == Init => MInv
<1> SUFFICES ASSUME Init PROVE MInv
  OBVIOUS
<1>1. /\ \A l \in Locks : locks[l].core = InitialCore
      /\ \A p \in Procs : /\ pc[p] = "idle" /\ target[p] = NoLock /\ unlocking[p] = 0
                          /\ want[p].id = p
      /\ want \in [Procs -> Waiter] /\ released = {} /\ used = FALSE
  BY DEF Init, NewLock, Attempt, Waiter, Modes
<1>2. \A l \in Locks :
        Tied(InitialCore, At(l, target, pc), want) /\ ~HeadCompatible(InitialCore)
  <2> TAKE l \in Locks
  <2>1. \A p \in Procs : At(l, target, pc)[p] = "idle"
    BY <1>1, MeteredAssumption DEF At
  <2> QED
    BY <1>1, <2>1, StationsTyped, InitialTied
<1>3. EnginesTied
  BY <1>1, <1>2 DEF EnginesTied
<1>4. TypeOK
  BY <1>1, InitialCoreTyped DEF Init, TypeOK, Places, NewLock
<1>5. OneLock /\ OwnersTold /\ GuardsClaimed
  BY <1>1 DEF OneLock, OwnersTold, GuardsClaimed, Using, Engaged
<1> QED
  BY <1>3, <1>4, <1>5 DEF MInv

-----------------------------------------------------------------------------
(* Under m.mu *)

\* The engines stay as they are, so does every goroutine inside one, and so does the lock
\* once it has been used.
Outside ==
  /\ \A l \in Locks : locks'[l].core = locks[l].core
  /\ used => lock' = lock
  /\ \A p \in Procs :
       /\ pc'[p] \in Engaged <=> pc[p] \in Engaged
       /\ pc[p] \in Engaged => target'[p] = target[p] /\ want'[p] = want[p]
       /\ want'[p].id = p
  /\ want' \in [Procs -> Waiter]

LEMMA OutsideKeepsEngines ==
  ASSUME EnginesTied, Outside
  PROVE  EnginesTied'
<1> SUFFICES ASSUME NEW l \in Locks
             PROVE  /\ Tied(locks'[l].core, At(l, target', pc'), want')
                    /\ ~HeadCompatible(locks'[l].core)
  BY DEF EnginesTied
<1> DEFINE c == locks[l].core
           at == At(l, target, pc)
           at2 == At(l, target', pc')
           w2 == want'
<1>1. /\ Tied(c, at, want) /\ ~HeadCompatible(c) /\ locks'[l].core = c
      /\ w2 \in [Procs -> Waiter] /\ at2 \in [Procs -> Stations]
  BY StationsTyped DEF EnginesTied, Outside
<1>2. \A p \in Procs : /\ w2[p].id = p
                       /\ at2[p] = "waiting" <=> at[p] = "waiting"
                       /\ at2[p] = "holding" <=> at[p] = "holding"
                       /\ at2[p] # "gone" /\ at[p] # "gone"
                       /\ at[p] \in {"waiting", "holding"} => w2[p] = want[p]
  BY DEF At, Outside
<1> HIDE DEF c, at, at2, w2
<1>3. Tied(c, at2, w2)
  BY <1>1, <1>2, SameUsers
<1> QED
  BY <1>1, <1>3 DEF at2, w2

\* p gets the lock; if it has to be made, none was in use.
LEMMA GetLock ==
  ASSUME MInv, NEW p \in Procs, Get(p)
  PROVE  /\ lock' \in Locks /\ target' = [target EXCEPT ![p] = lock']
         /\ lock # NoLock => lock' = lock
         /\ locks' \in [Locks -> [name : Names, core : Core]]
         /\ \A l \in Locks : locks'[l].core = locks[l].core
<1>1. TypeOK /\ OneLock
  BY DEF MInv
<1>2. CASE lock # NoLock
  BY <1>1, <1>2 DEF Get, TypeOK
<1>3. CASE lock = NoLock
  <2>1. PICK l \in Locks : /\ lock' = l /\ target' = [target EXCEPT ![p] = l]
                           /\ locks' = [locks EXCEPT ![l] = NewLock(location)]
    BY <1>3 DEF Get
  <2>2. \A k \in Locks : locks[k].core = InitialCore
    BY <1>1, <1>3 DEF OneLock
  <2>3. NewLock(location) \in [name : Names, core : Core] /\ NewLock(location).core = InitialCore
    BY <1>1, InitialCoreTyped DEF NewLock, TypeOK
  <2> QED
    BY <1>1, <1>3, <2>1, <2>2, <2>3 DEF TypeOK
<1> QED
  BY <1>2, <1>3

\* Before the first use the name changes and with it the lock; both are unused.
LEMMA RenameStep ==
  ASSUME MInv, NEW name \in Names, SetLocation(name)
  PROVE  MInv' /\ Outside
<1>1. TypeOK /\ EnginesTied /\ OneLock /\ OwnersTold /\ GuardsClaimed
  BY DEF MInv
<1>2. PICK l \in Locks : lock' = l /\ locks' = [locks EXCEPT ![l] = NewLock(name)]
  BY DEF SetLocation
<1>3. ~used /\ location' = name /\ UNCHANGED <<used, pc, want, target, released, unlocking>>
  BY DEF SetLocation
<1>4. \A k \in Locks : locks[k].core = InitialCore
  BY <1>1, <1>3 DEF OneLock
<1>5. NewLock(name) \in [name : Names, core : Core] /\ NewLock(name).core = InitialCore
  BY InitialCoreTyped DEF NewLock
<1>6. /\ locks' \in [Locks -> [name : Names, core : Core]]
      /\ \A k \in Locks : locks'[k].core = InitialCore
  BY <1>1, <1>2, <1>4, <1>5 DEF TypeOK
<1>7. TypeOK'
  BY <1>1, <1>2, <1>3, <1>6 DEF TypeOK
<1>8. \A p \in Procs : want[p].id = p
  BY <1>1, <1>2 DEF EnginesTied, Tied, Typed
<1>9. Outside
  BY <1>1, <1>3, <1>4, <1>6, <1>8 DEF Outside, TypeOK
<1>10. \A p \in Procs : pc[p] \notin Using
  BY <1>1, <1>3 DEF OneLock
<1>11. OneLock' /\ OwnersTold' /\ GuardsClaimed'
  <2>1. {"holding", "leaving"} \subseteq Using
    BY DEF Using, Engaged
  <2> QED
    BY <1>1, <1>3, <1>6, <1>10, <2>1 DEF OneLock, OwnersTold, GuardsClaimed
<1> QED
  BY <1>1, <1>7, <1>9, <1>11, OutsideKeepsEngines DEF MInv
\* Every goroutine asks in its own name.
LEMMA OwnWants ==
  ASSUME MInv
  PROVE  \A p \in Procs : want[p].id = p
<1>1. \E l : l \in Locks
  <2>1. IsFiniteSet(Procs) /\ IsFiniteSet(Locks) /\ Cardinality(Locks) > Cardinality(Procs) + 1
    BY CoreAssumption, MeteredAssumption
  <2>2. Cardinality(Procs) \in Nat /\ Cardinality({}) = 0
    BY <2>1, FS_CardinalityType, FS_EmptySet
  <2>3. Locks # {}
    BY <2>1, <2>2
  <2> QED
    BY <2>3
<1> QED
  BY <1>1 DEF MInv, EnginesTied, Tied, Typed

\* A call gets at the lock, and from now on that is the lock.
LEMMA CallStep ==
  ASSUME MInv, NEW p \in Procs, NEW m \in Modes, NEW g \in BOOLEAN, Call(p, m, g)
  PROVE  MInv' /\ Outside
<1>1. TypeOK /\ EnginesTied /\ OneLock /\ OwnersTold /\ GuardsClaimed
  BY DEF MInv
<1> DEFINE x == Attempt(p, m, g)
<1>2. /\ pc[p] = "idle" /\ Get(p) /\ used' = TRUE
      /\ want' = [want EXCEPT ![p] = x] /\ pc' = [pc EXCEPT ![p] = "called"]
      /\ UNCHANGED <<location, released, unlocking>>
  BY DEF Call, LockForOperation, GoTo
<1>3. /\ lock' \in Locks /\ target' = [target EXCEPT ![p] = lock']
      /\ lock # NoLock => lock' = lock
      /\ locks' \in [Locks -> [name : Names, core : Core]]
      /\ \A l \in Locks : locks'[l].core = locks[l].core
  BY <1>2, GetLock
<1>4. x \in Waiter /\ x.id = p
  BY DEF Attempt, Waiter
<1> HIDE DEF x
<1>5. /\ pc' \in [Procs -> Places] /\ pc'[p] = "called"
      /\ target' \in [Procs -> Locks \union {NoLock}] /\ target'[p] = lock'
      /\ want' \in [Procs -> Waiter] /\ want'[p] = x
      /\ \A q \in Procs : q # p => /\ pc'[q] = pc[q] /\ target'[q] = target[q]
                                   /\ want'[q] = want[q]
  BY <1>1, <1>2, <1>3, <1>4 DEF TypeOK, Places
<1>6. TypeOK'
  BY <1>1, <1>2, <1>3, <1>5 DEF TypeOK
<1>7. Outside
  BY <1>1, <1>2, <1>3, <1>4, <1>5, OwnWants DEF Outside, Engaged, OneLock
<1>8. /\ \A q \in Procs : pc[q] \in Using => used /\ target[q] = lock /\ lock # NoLock
      /\ lock' # NoLock
  BY <1>1, <1>3, MeteredAssumption DEF OneLock
<1>9. OneLock'
  <2>1. \A l \in Locks : locks[l].core = InitialCore \/ (lock # NoLock /\ l = lock)
    BY <1>1 DEF OneLock
  <2>2. \A l \in Locks : locks'[l].core = InitialCore \/ l = lock'
    BY <1>3, <2>1
  <2>3. \A q \in Procs : /\ pc'[q] \in Using => target'[q] = lock'
                         /\ pc'[q] = "reading" => target'[q] # NoLock
    BY <1>1, <1>3, <1>5, <1>8 DEF OneLock
  <2> QED
    BY <1>2, <1>8, <2>2, <2>3 DEF OneLock
<1>10. OwnersTold'
  <2>1. \A q \in Procs : pc[q] \in {"holding", "leaving"} => target[q] \in Locks
    BY <1>1, <1>3, <1>8 DEF Using, Engaged
  <2> QED
    BY <1>1, <1>3, <1>5, <2>1 DEF OwnersTold
<1>11. GuardsClaimed'
  BY <1>1, <1>2, <1>5 DEF GuardsClaimed
<1> QED
  BY <1>1, <1>6, <1>7, <1>9, <1>10, <1>11, OutsideKeepsEngines DEF MInv

\* Unlock gets at the lock again: it is the one that was acquired.
LEMMA UnlockStep ==
  ASSUME MInv, NEW p \in Procs, Unlock(p)
  PROVE  MInv' /\ Outside
<1>1. TypeOK /\ EnginesTied /\ OneLock /\ OwnersTold /\ GuardsClaimed
  BY DEF MInv
<1>2. /\ pc[p] = "holding" /\ ~want[p].guarded /\ Get(p) /\ used' = TRUE
      /\ pc' = [pc EXCEPT ![p] = "leaving"]
      /\ UNCHANGED <<location, want, released, unlocking>>
  BY DEF Unlock, LockForOperation, GoTo
<1>3. used /\ target[p] = lock /\ lock # NoLock
  BY <1>1, <1>2 DEF OneLock, Using, Engaged
<1>4. lock' = lock /\ locks' = locks /\ target' = target
  BY <1>1, <1>2, <1>3 DEF Get, TypeOK
<1>5. /\ pc' \in [Procs -> Places] /\ pc'[p] = "leaving"
      /\ \A q \in Procs : q # p => pc'[q] = pc[q]
  BY <1>1, <1>2 DEF TypeOK, Places
<1>6. TypeOK'
  BY <1>1, <1>2, <1>4, <1>5 DEF TypeOK
<1>7. Outside
  BY <1>1, <1>2, <1>4, <1>5, OwnWants DEF Outside, Engaged, TypeOK
<1>8. OneLock'
  BY <1>1, <1>2, <1>3, <1>4, <1>5 DEF OneLock
<1>9. OwnersTold' /\ GuardsClaimed'
  BY <1>1, <1>2, <1>4, <1>5 DEF OwnersTold, GuardsClaimed
<1> QED
  BY <1>1, <1>6, <1>7, <1>8, <1>9, OutsideKeepsEngines DEF MInv

\* A readout gets at the lock and leaves the name open.
LEMMA SnapshotStep ==
  ASSUME MInv, NEW p \in Procs, Snapshot(p)
  PROVE  MInv' /\ Outside
<1>1. TypeOK /\ EnginesTied /\ OneLock /\ OwnersTold /\ GuardsClaimed
  BY DEF MInv
<1>2. /\ pc[p] = "idle" /\ Get(p) /\ pc' = [pc EXCEPT ![p] = "reading"]
      /\ UNCHANGED <<location, used, want, released, unlocking>>
  BY DEF Snapshot, LockForReadout, GoTo
<1>3. /\ lock' \in Locks /\ target' = [target EXCEPT ![p] = lock']
      /\ lock # NoLock => lock' = lock
      /\ locks' \in [Locks -> [name : Names, core : Core]]
      /\ \A l \in Locks : locks'[l].core = locks[l].core
  BY <1>2, GetLock
<1>4. /\ pc' \in [Procs -> Places] /\ pc'[p] = "reading"
      /\ target' \in [Procs -> Locks \union {NoLock}] /\ target'[p] = lock'
      /\ \A q \in Procs : q # p => pc'[q] = pc[q] /\ target'[q] = target[q]
  BY <1>1, <1>2, <1>3 DEF TypeOK, Places
<1>5. TypeOK'
  BY <1>1, <1>2, <1>3, <1>4 DEF TypeOK
<1>6. Outside
  BY <1>1, <1>2, <1>3, <1>4, OwnWants DEF Outside, Engaged, TypeOK, OneLock
<1>7. /\ \A q \in Procs : pc[q] \in Using => used /\ target[q] = lock /\ lock # NoLock
      /\ lock' # NoLock
  BY <1>1, <1>3, MeteredAssumption DEF OneLock
<1>8. OneLock'
  <2>1. \A l \in Locks : locks'[l].core = InitialCore \/ (used /\ l = lock')
    BY <1>1, <1>3 DEF OneLock
  <2>2. \A q \in Procs : /\ pc'[q] \in Using => used /\ target'[q] = lock'
                         /\ pc'[q] = "reading" => target'[q] # NoLock
    BY <1>1, <1>3, <1>4, <1>7 DEF OneLock, Using, Engaged
  <2> QED
    BY <1>2, <1>7, <2>1, <2>2 DEF OneLock
<1>9. OwnersTold'
  <2>1. \A q \in Procs : pc[q] \in {"holding", "leaving"} => target[q] \in Locks
    BY <1>1, <1>3, <1>7 DEF Using, Engaged
  <2> QED
    BY <1>1, <1>2, <1>3, <1>4, <2>1 DEF OwnersTold
<1>10. GuardsClaimed'
  BY <1>1, <1>2, <1>4 DEF GuardsClaimed
<1> QED
  BY <1>1, <1>5, <1>6, <1>8, <1>9, <1>10, OutsideKeepsEngines DEF MInv

\* A readout or a try that fails is done with the lock.
LEMMA ReturnStep ==
  ASSUME MInv, NEW p \in Procs, ReadSnapshot(p) \/ TryFail(p)
  PROVE  MInv' /\ Outside
<1>1. TypeOK /\ EnginesTied /\ OneLock /\ OwnersTold /\ GuardsClaimed
  BY DEF MInv
<1>2. /\ pc[p] \in {"reading", "called"} /\ pc' = [pc EXCEPT ![p] = "idle"]
      /\ target' = [target EXCEPT ![p] = NoLock]
      /\ UNCHANGED <<location, used, lock, locks, want, released, unlocking>>
  BY DEF ReadSnapshot, TryFail, Return, GoTo
<1>3. /\ pc' \in [Procs -> Places] /\ pc'[p] = "idle"
      /\ target' \in [Procs -> Locks \union {NoLock}]
      /\ \A q \in Procs : q # p => pc'[q] = pc[q] /\ target'[q] = target[q]
  BY <1>1, <1>2 DEF TypeOK, Places
<1>4. TypeOK'
  BY <1>1, <1>2, <1>3 DEF TypeOK
<1>5. Outside
  BY <1>1, <1>2, <1>3, OwnWants DEF Outside, Engaged, TypeOK
<1>6. OneLock'
  BY <1>1, <1>2, <1>3 DEF OneLock, Using, Engaged
<1>7. OwnersTold' /\ GuardsClaimed'
  BY <1>1, <1>2, <1>3 DEF OwnersTold, GuardsClaimed
<1> QED
  BY <1>1, <1>4, <1>5, <1>6, <1>7, OutsideKeepsEngines DEF MInv

\* One of the calls of a guard's Unlock sets the flag.
LEMMA ClaimStep ==
  ASSUME MInv, NEW p \in Procs, UnlockGuard(p)
  PROVE  MInv' /\ Outside
<1>1. TypeOK /\ EnginesTied /\ OneLock /\ OwnersTold /\ GuardsClaimed
  BY DEF MInv
<1>2. /\ pc[p] = "holding" /\ want[p].guarded /\ p \notin released
      /\ released' = released \union {p}
      /\ unlocking' = [unlocking EXCEPT ![p] = @ + 1]
      /\ UNCHANGED <<location, used, lock, locks, pc, want, target>>
  BY DEF UnlockGuard
<1>3. unlocking[p] = 0 /\ unlocking \in [Procs -> Nat]
  BY <1>1, <1>2 DEF GuardsClaimed, TypeOK
<1>4. /\ unlocking' \in [Procs -> Nat] /\ unlocking'[p] = 1
      /\ \A q \in Procs : q # p => unlocking'[q] = unlocking[q]
  BY <1>2, <1>3
<1>5. TypeOK' /\ GuardsClaimed'
  BY <1>1, <1>2, <1>4 DEF TypeOK, GuardsClaimed
<1>6. EnginesTied' /\ OneLock' /\ OwnersTold'
  BY <1>1, <1>2 DEF EnginesTied, OneLock, OwnersTold
<1>7. Outside
  BY <1>1, <1>2, OwnWants DEF Outside, TypeOK
<1> QED
  BY <1>5, <1>6, <1>7 DEF MInv

-----------------------------------------------------------------------------
(* Inside an engine *)

\* The places in the engine of p once p has gone on to l.
After(p, l) ==
  [At(target[p], target, pc) EXCEPT ![p] = IF l \in Engaged THEN "waiting" ELSE "idle"]

\* p goes on to place l and the engine of the lock to c; everything else about the locks
\* and the other goroutines stays.
Advances(p, l, c) ==
  /\ pc[p] \in Using /\ l \in Engaged \union {"idle"}
  /\ pc' = [pc EXCEPT ![p] = l]
  /\ target' = IF l = "idle" THEN [target EXCEPT ![p] = NoLock] ELSE target
  /\ locks' = [locks EXCEPT ![target[p]].core = c]
  /\ released' = IF l = "idle" THEN released \ {p} ELSE released
  /\ unlocking' = IF l = "idle" THEN [unlocking EXCEPT ![p] = 0] ELSE unlocking
  /\ UNCHANGED <<location, used, lock, want>>
  /\ Tied(c, After(p, l), want)
  /\ ~HeadCompatible(c)
  /\ \A q \in Procs : q # p /\ CoreOf(p).verdict[q] = "granted" => c.verdict[q] = "granted"
  /\ l = "holding" => c.verdict[p] = "granted"
  /\ l # "idle" => l # "leaving" /\ p \notin released

\* From outside, the engine of p looks as before or has moved as a FIFO lock does.
Shows(p, l, c) ==
  LET h == HeldBy(CoreOf(p), At(target[p], target, pc), want)
      s == Line(CoreOf(p).waiters)
      j == HeldBy(c, After(p, l), want)
      t == Line(c.waiters)
  IN  (j = h /\ t = s) \/ Moves(h, s, j, t)

EngineMoves(p) == \E l, c : Advances(p, l, c) /\ Shows(p, l, c)

LEMMA EngineStep ==
  ASSUME MInv, NEW p \in Procs, NEW l, NEW c, Advances(p, l, c)
  PROVE  MInv'
<1> DEFINE t == target[p]
<1>0. TypeOK /\ EnginesTied /\ OneLock /\ OwnersTold /\ GuardsClaimed
  BY DEF MInv
<1>1. /\ pc[p] \in Using /\ l \in Engaged \union {"idle"}
      /\ pc' = [pc EXCEPT ![p] = l]
      /\ target' = IF l = "idle" THEN [target EXCEPT ![p] = NoLock] ELSE target
      /\ locks' = [locks EXCEPT ![t].core = c]
      /\ released' = IF l = "idle" THEN released \ {p} ELSE released
      /\ unlocking' = IF l = "idle" THEN [unlocking EXCEPT ![p] = 0] ELSE unlocking
      /\ UNCHANGED <<location, used, lock, want>>
      /\ Tied(c, [At(t, target, pc) EXCEPT
                    ![p] = IF l \in Engaged THEN "waiting" ELSE "idle"], want)
      /\ ~HeadCompatible(c)
      /\ \A q \in Procs : q # p /\ locks[t].core.verdict[q] = "granted"
                           => c.verdict[q] = "granted"
      /\ l = "holding" => c.verdict[p] = "granted"
      /\ l # "idle" => l # "leaving" /\ p \notin released
  BY DEF Advances, After, CoreOf
<1>2. used /\ t = lock /\ t \in Locks /\ t # NoLock /\ c \in Core
  BY <1>0, <1>1 DEF TypeOK, OneLock, Tied, Typed
<1>3. /\ locks' \in [Locks -> [name : Names, core : Core]] /\ locks'[t].core = c
      /\ \A k \in Locks : k # t => locks'[k].core = locks[k].core
  BY <1>0, <1>1, <1>2 DEF TypeOK
<1>4. /\ pc' \in [Procs -> Places] /\ pc'[p] = l
      /\ target' \in [Procs -> Locks \union {NoLock}]
      /\ target'[p] = IF l = "idle" THEN NoLock ELSE t
      /\ \A q \in Procs : q # p => pc'[q] = pc[q] /\ target'[q] = target[q]
  BY <1>0, <1>1 DEF TypeOK, Places, Engaged
<1>5. /\ released' \subseteq Procs /\ unlocking' \in [Procs -> Nat]
      /\ p \notin released'
      /\ unlocking'[p] = 0
      /\ \A q \in Procs : q # p => /\ q \in released' <=> q \in released
                                   /\ unlocking'[q] = unlocking[q]
  BY <1>0, <1>1 DEF TypeOK, GuardsClaimed
<1>6. TypeOK'
  BY <1>0, <1>1, <1>3, <1>4, <1>5 DEF TypeOK
<1>7. EnginesTied'
  <2>1. At(t, target', pc') = [At(t, target, pc) EXCEPT
                                 ![p] = IF l \in Engaged THEN "waiting" ELSE "idle"]
    <3>1. l \notin Engaged <=> l = "idle"
      BY <1>1 DEF Engaged
    <3> QED
      BY <1>2, <1>4, <3>1 DEF At
  <2>2. \A k \in Locks : k # t => At(k, target', pc') = At(k, target, pc)
    BY <1>2, <1>4, MeteredAssumption DEF At
  <2> QED
    BY <1>0, <1>1, <1>3, <2>1, <2>2, ZenonT(60) DEF EnginesTied
<1>8. OneLock'
  <2>1. \A q \in Procs : /\ pc'[q] \in Using => target'[q] = lock
                         /\ pc'[q] = "reading" => target'[q] # NoLock
    BY <1>0, <1>1, <1>2, <1>4 DEF OneLock, Using, Engaged
  <2> QED
    BY <1>0, <1>1, <1>2, <1>3, <2>1 DEF OneLock
<1>9. OwnersTold'
  <2>1. \A q \in Procs : pc[q] \in {"holding", "leaving"} => target[q] = t
    BY <1>0, <1>2 DEF OneLock, Using, Engaged
  <2>2. \A q \in Procs : q # p =>
          /\ pc'[q] \in {"holding", "leaving"} => locks'[target'[q]].core.verdict[q] = "granted"
          /\ pc'[q] = "leaving" => ~want[q].guarded
          /\ pc'[q] # "panicked"
    BY <1>0, <1>1, <1>3, <1>4, <2>1 DEF OwnersTold
  <2>3. /\ pc'[p] \in {"holding", "leaving"} => locks'[target'[p]].core.verdict[p] = "granted"
        /\ pc'[p] # "leaving" /\ pc'[p] # "panicked"
    BY <1>1, <1>3, <1>4 DEF Engaged
  <2> QED
    BY <1>1, <2>2, <2>3 DEF OwnersTold
<1>10. GuardsClaimed'
  BY <1>0, <1>1, <1>4, <1>5 DEF GuardsClaimed
<1> QED
  BY <1>6, <1>7, <1>8, <1>9, <1>10 DEF MInv

\* What the invariant says of the engine p is about to call or is in.
LEMMA EngineOf ==
  ASSUME MInv, NEW p \in Procs, pc[p] \in Using
  PROVE  /\ target[p] \in Locks
         /\ Tied(CoreOf(p), At(target[p], target, pc), want) /\ ~HeadCompatible(CoreOf(p))
         /\ At(target[p], target, pc)[p] = IF pc[p] \in Engaged THEN "waiting" ELSE "idle"
         /\ want[p] \in Waiter /\ want[p].id = p /\ want[p].mode \in Modes
         /\ [want EXCEPT ![p] = want[p]] = want
         /\ locks = [locks EXCEPT ![target[p]].core = CoreOf(p)]
<1>1. TypeOK /\ OneLock /\ EnginesTied
  BY DEF MInv
<1>2. target[p] \in Locks
  BY <1>1 DEF TypeOK, OneLock
<1>3. want[p] \in Waiter /\ want[p].id = p /\ [want EXCEPT ![p] = want[p]] = want
  BY <1>1, OwnWants DEF TypeOK
<1>4. want[p].mode \in Modes
  BY <1>3 DEF Waiter
<1>5. Tied(CoreOf(p), At(target[p], target, pc), want) /\ ~HeadCompatible(CoreOf(p))
  BY <1>1, <1>2 DEF EnginesTied, CoreOf
<1>6. At(target[p], target, pc)[p] = IF pc[p] \in Engaged THEN "waiting" ELSE "idle"
  BY DEF At
<1>7. locks = [locks EXCEPT ![target[p]].core = CoreOf(p)]
  BY <1>1, <1>2 DEF CoreOf, TypeOK
<1> QED
  BY <1>2, <1>3, <1>4, <1>5, <1>6, <1>7

\* An engine that has nobody to let in is settled as it is, when nobody quits.
LEMMA NobodyQuits ==
  ASSUME NEW c, NEW at, Tied(c, at, want), ~HeadCompatible(c)
  PROVE  \E Q \in SUBSET Elems(Line(c.waiters)) :
           Settles(HeldBy(c, at, want), Without(Line(c.waiters), Q),
                   HeldBy(c, at, want), Line(c.waiters))
<1>1. c.waiters \in Seq(Waiter)
  BY DEF Tied, Typed, Core
<1>2. Line(c.waiters) \in Seq(Caller)
  BY <1>1, LineProperties
<1>3. Without(Line(c.waiters), {}) = Line(c.waiters)
  BY <1>2, WithoutNobody
<1>4. Settles(HeldBy(c, at, want), Line(c.waiters), HeldBy(c, at, want), Line(c.waiters))
  BY BlockedSettles
<1>5. {} \in SUBSET Elems(Line(c.waiters))
  OBVIOUS
<1> QED
  BY <1>3, <1>4, <1>5

\* p finds the lock it called free and has it.
LEMMA TakeStep ==
  ASSUME MInv, NEW p \in Procs, AcquireAtOnce(p)
  PROVE  EngineMoves(p)
<1> DEFINE at == At(target[p], target, pc)
           c == CoreOf(p)
           x == want[p]
           g == Told(Grant(c, x), x.id, "granted")
<1>1. /\ pc[p] = "called" /\ pc' = [pc EXCEPT ![p] = "holding"]
      /\ CanAcquireImmediately(c, x.mode)
      /\ locks' = [locks EXCEPT ![target[p]].core = Told(Grant(c, x), p, "granted")]
      /\ UNCHANGED <<location, used, lock, want, target, released, unlocking>>
  BY DEF AcquireAtOnce, GoTo, SetCore
<1>2. pc[p] \in Using /\ pc[p] \notin Engaged /\ "holding" \in Engaged
  BY <1>1 DEF Using, Engaged
<1>3. /\ Tied(c, at, want) /\ ~HeadCompatible(c) /\ x \in Waiter /\ x.id = p /\ at[p] = "idle"
      /\ [want EXCEPT ![p] = x] = want
  BY <1>2, EngineOf
<1>4. p \notin released
  BY <1>1 DEF MInv, GuardsClaimed
<1> HIDE DEF at, c, x
<1>5. /\ Tied(g, [at EXCEPT ![x.id] = "waiting"], [want EXCEPT ![x.id] = x])
      /\ ~HeadCompatible(g) /\ g.verdict = [c.verdict EXCEPT ![x.id] = "granted"]
  BY <1>1, <1>3, AcquirePreserves
<1>6. g.verdict[p] = "granted" /\ \A q \in Procs : q # p => g.verdict[q] = c.verdict[q]
  <2>1. c.verdict \in [Procs -> Verdicts]
    BY <1>3 DEF Tied, Typed, Core
  <2> QED
    BY <1>3, <1>5, <2>1
<1>7. Tied(g, [at EXCEPT ![p] = "waiting"], want)
  BY <1>3, <1>5
<1>8. locks' = [locks EXCEPT ![target[p]].core = g]
  BY <1>1, <1>3
<1> HIDE DEF g
<1>9. Advances(p, "holding", g)
  BY <1>1, <1>2, <1>4, <1>5, <1>6, <1>7, <1>8 DEF Advances, After, at, c
<1>10. Shows(p, "holding", g)
  <2> DEFINE place == After(p, "holding")
  <2>1. /\ place[x.id] = "waiting" /\ want[x.id] = x
        /\ \A q \in Procs : q # x.id => place[q] = at[q] /\ want[q] = want[q]
    <3>1. at \in [Procs -> Stations] /\ place = [at EXCEPT ![p] = "waiting"]
      BY <1>2, <1>3 DEF Tied, Typed, After, at
    <3>2. want[p] = x
      BY DEF x
    <3> HIDE DEF place
    <3> QED
      BY <1>3, <3>1, <3>2
  <2>2. PICK Q \in SUBSET Elems(Line(c.waiters)) :
          Settles(HeldBy(c, at, want), Without(Line(c.waiters), Q),
                  HeldBy(c, at, want), Line(c.waiters))
    BY <1>3, NobodyQuits
  <2>3. g = Told(Grant(c, x), x.id, "granted")
    BY DEF g
  <2> HIDE DEF place
  <2>4. Moves(HeldBy(c, at, want), Line(c.waiters), HeldBy(g, place, want), Line(g.waiters))
    BY <1>1, <1>3, <2>1, <2>2, <2>3, TakeMoves
  <2> QED
    BY <2>4 DEF Shows, place, at, c
<1> QED
  BY <1>9, <1>10 DEF EngineMoves

\* p joins the queue of the lock it called.
LEMMA EnqueueStep ==
  ASSUME MInv, NEW p \in Procs, AcquireWait(p)
  PROVE  EngineMoves(p)
<1> DEFINE at == At(target[p], target, pc)
           c == CoreOf(p)
           x == want[p]
           g == Enqueue(c, x)
<1>1. /\ pc[p] = "called" /\ pc' = [pc EXCEPT ![p] = "waiting"]
      /\ ~CanAcquireImmediately(c, x.mode)
      /\ locks' = [locks EXCEPT ![target[p]].core = g]
      /\ UNCHANGED <<location, used, lock, want, target, released, unlocking>>
  BY DEF AcquireWait, GoTo, SetCore
<1>2. pc[p] \in Using /\ pc[p] \notin Engaged /\ "waiting" \in Engaged
  BY <1>1 DEF Using, Engaged
<1>3. /\ Tied(c, at, want) /\ ~HeadCompatible(c)
      /\ x \in Waiter /\ x.id = p /\ at[p] = "idle"
      /\ [want EXCEPT ![p] = x] = want
  BY <1>2, EngineOf
<1>4. p \notin released
  BY <1>1 DEF MInv, GuardsClaimed
<1> HIDE DEF at, c, x
<1>5. /\ Tied(g, [at EXCEPT ![x.id] = "waiting"], [want EXCEPT ![x.id] = x])
      /\ ~HeadCompatible(g)
  BY <1>1, <1>3, EnqueuePreserves
<1>6. g.verdict = c.verdict
  <2>1. c \in Core
    BY <1>3 DEF Tied, Typed
  <2> QED
    BY <2>1 DEF Enqueue, Core
<1>7. Tied(g, [at EXCEPT ![p] = "waiting"], want)
  BY <1>3, <1>5
<1> HIDE DEF g
<1>8. Advances(p, "waiting", g)
  BY <1>1, <1>2, <1>4, <1>5, <1>6, <1>7 DEF Advances, After, at, c
<1>9. Shows(p, "waiting", g)
  <2> DEFINE place == After(p, "waiting")
  <2>1. /\ place[x.id] = "waiting" /\ want[x.id] = x
        /\ \A q \in Procs : q # x.id => place[q] = at[q] /\ want[q] = want[q]
    <3>1. at \in [Procs -> Stations] /\ place = [at EXCEPT ![p] = "waiting"]
      BY <1>2, <1>3 DEF Tied, Typed, After, at
    <3>2. want[p] = x
      BY DEF x
    <3> HIDE DEF place
    <3> QED
      BY <1>3, <3>1, <3>2
  <2>2. PICK Q \in SUBSET Elems(Line(c.waiters)) :
          Settles(HeldBy(c, at, want), Without(Line(c.waiters), Q),
                  HeldBy(c, at, want), Line(c.waiters))
    BY <1>3, NobodyQuits
  <2>3. g = Enqueue(c, x)
    BY DEF g
  <2> HIDE DEF place
  <2>4. Moves(HeldBy(c, at, want), Line(c.waiters), HeldBy(g, place, want), Line(g.waiters))
    BY <1>1, <1>3, <2>1, <2>2, <2>3, WaitMoves
  <2> QED
    BY <2>4 DEF Shows, place, at, c
<1> QED
  BY <1>8, <1>9 DEF EngineMoves

\* p returns from the queue as an owner.
LEMMA FinishStep ==
  ASSUME MInv, NEW p \in Procs, FinishWait(p)
  PROVE  EngineMoves(p)
<1> DEFINE at == At(target[p], target, pc)
           c == CoreOf(p)
<1>1. /\ pc[p] = "waiting" /\ pc' = [pc EXCEPT ![p] = "holding"]
      /\ c.verdict[p] = "granted"
      /\ UNCHANGED <<location, used, lock, locks, want, target, released, unlocking>>
  BY DEF FinishWait, GoTo
<1>2. pc[p] \in Using /\ pc[p] \in Engaged /\ "holding" \in Engaged
  BY <1>1 DEF Using, Engaged
<1>3. /\ Tied(c, at, want) /\ ~HeadCompatible(c) /\ at[p] = "waiting"
      /\ locks' = [locks EXCEPT ![target[p]].core = c]
  BY <1>1, <1>2, EngineOf
<1>4. p \notin released
  BY <1>1 DEF MInv, GuardsClaimed
<1>5. at \in [Procs -> Stations]
  BY StationsTyped
<1> HIDE DEF at
<1>6. [at EXCEPT ![p] = "waiting"] = at
  BY <1>3, <1>5
<1> HIDE DEF c
<1>7. Advances(p, "holding", c)
  BY <1>1, <1>2, <1>3, <1>4, <1>6 DEF Advances, After, at, c
<1>8. Shows(p, "holding", c)
  BY <1>2, <1>6 DEF Shows, After, at, c
<1> QED
  BY <1>7, <1>8 DEF EngineMoves

\* An owner's release finds its acquisition, from Unlock and from the one call that
\* claimed the guard, and the queue is served.
LEMMA ReleaseStep ==
  ASSUME MInv, NEW p \in Procs, ReleaseLock(p) \/ ReleaseGuard(p)
  PROVE  EngineMoves(p)
<1> DEFINE at == At(target[p], target, pc)
           c == CoreOf(p)
           attempt == IF pc[p] = "holding" THEN p ELSE NoAttempt
           g == Release(Told(c, p, "none"), want[p].mode, attempt, {})
<1>1. OwnersTold /\ GuardsClaimed /\ TypeOK
  BY DEF MInv
<1>2. /\ pc[p] \in {"leaving", "holding"}
      /\ pc[p] = "leaving" <=> ~want[p].guarded
      /\ pc[p] = "holding" => p \in released /\ unlocking[p] = 1
      /\ pc[p] = "leaving" => p \notin released /\ unlocking[p] = 0
  <2>1. CASE ReleaseLock(p)
    BY <1>1, <2>1 DEF ReleaseLock, OwnersTold, GuardsClaimed
  <2>2. CASE ReleaseGuard(p)
    <3>1. unlocking[p] > 0 /\ pc[p] = "holding"
      BY <2>2 DEF ReleaseGuard
    <3> QED
      BY <1>1, <3>1 DEF GuardsClaimed
  <2> QED
    BY <2>1, <2>2
<1>3. /\ pc[p] \in Using /\ pc[p] \in Engaged /\ "idle" \notin Engaged
      /\ c.verdict[p] = "granted"
  BY <1>1, <1>2 DEF Using, Engaged, OwnersTold, CoreOf
<1>4. Tied(c, at, want) /\ at[p] = "waiting"
  BY <1>3, EngineOf
<1>5. attempt = IF want[p].guarded THEN p ELSE NoAttempt
  BY <1>2
<1> HIDE DEF at, c, attempt
<1>6. /\ ReleaseMatches(c, want[p].mode, attempt)
      /\ Tied(g, [at EXCEPT ![p] = "idle"], want) /\ ~HeadCompatible(g)
      /\ \A q \in Procs : q # p /\ c.verdict[q] # "none" => g.verdict[q] = c.verdict[q]
  BY <1>3, <1>4, <1>5, ReleasePreserves
<1>7. /\ pc' = [pc EXCEPT ![p] = "idle"] /\ target' = [target EXCEPT ![p] = NoLock]
      /\ locks' = [locks EXCEPT ![target[p]].core = g]
      /\ released' = released \ {p} /\ unlocking' = [unlocking EXCEPT ![p] = 0]
      /\ UNCHANGED <<location, used, lock, want>>
  <2>1. CASE ReleaseLock(p)
    <3>1. pc[p] = "leaving" /\ ReleaseBy(p, NoAttempt)
          /\ UNCHANGED <<location, used, lock, want, released, unlocking>>
      BY <2>1 DEF ReleaseLock
    <3>2. released = released \ {p} /\ unlocking = [unlocking EXCEPT ![p] = 0]
      BY <1>1, <1>2, <3>1 DEF TypeOK
    <3>3. attempt = NoAttempt
      BY <3>1 DEF attempt
    <3>4. Return(p) /\ SetCore(p, g)
      BY <1>6, <3>1, <3>3 DEF ReleaseBy, c
    <3> QED
      BY <3>1, <3>2, <3>4 DEF Return, SetCore, GoTo
  <2>2. CASE ReleaseGuard(p)
    <3>1. pc[p] = "holding" /\ unlocking' = [unlocking EXCEPT ![p] = @ - 1]
          /\ UNCHANGED <<location, used, lock, want>>
      BY <2>2 DEF ReleaseGuard
    <3>2. unlocking' = [unlocking EXCEPT ![p] = 0]
      BY <1>1, <1>2, <3>1 DEF TypeOK
    <3>3. attempt = p
      BY <3>1 DEF attempt
    <3>4. Return(p) /\ SetCore(p, g) /\ released' = released \ {p}
      BY <1>2, <1>6, <2>2, <3>1, <3>3 DEF ReleaseGuard, c
    <3> QED
      BY <3>1, <3>2, <3>4 DEF Return, SetCore, GoTo
  <2> QED
    BY <2>1, <2>2
<1> HIDE DEF g
<1>8. Advances(p, "idle", g)
  BY <1>3, <1>6, <1>7 DEF Advances, After, at, c
<1>9. Shows(p, "idle", g)
  <2> DEFINE place == After(p, "idle")
  <2>1. /\ place \in [Procs -> Stations] /\ place[p] = "idle"
        /\ \A q \in Procs : q # p => place[q] = at[q]
    BY <1>3, <1>4 DEF After, at, Tied, Typed, Stations
  <2>2. g = Release(Told(c, p, "none"), want[p].mode, attempt, {})
    BY DEF g
  <2> HIDE DEF place
  <2>3. Moves(HeldBy(c, at, want), Line(c.waiters), HeldBy(g, place, want), Line(g.waiters))
    BY <1>3, <1>4, <1>5, <2>1, <2>2, ReleaseMoves
  <2> QED
    BY <2>3 DEF Shows, place, at, c
<1> QED
  BY <1>8, <1>9 DEF EngineMoves

-----------------------------------------------------------------------------

\* A step is one outside the engines or one in the engine of its goroutine.
StepsApart == Outside \/ \E p \in Procs : EngineMoves(p)

\* Every step of every goroutine, and every change of name, keeps the invariant.
LEMMA StepMetered == MInv /\ [Next]_vars => MInv' /\ StepsApart
<1> SUFFICES ASSUME MInv, [Next]_vars PROVE MInv' /\ StepsApart
  OBVIOUS
<1>1. CASE UNCHANGED vars
  <2>1. MInv'
    BY <1>1 DEF vars, MInv, TypeOK, EnginesTied, OneLock, OwnersTold, GuardsClaimed
  <2>2. Outside
    BY <1>1, OwnWants DEF vars, Outside, MInv, TypeOK
  <2> QED
    BY <2>1, <2>2 DEF StepsApart
<1>2. ASSUME NEW p \in Procs, EngineMoves(p) PROVE MInv' /\ StepsApart
  BY <1>2, EngineStep DEF EngineMoves, StepsApart
<1>3. ASSUME NEW name \in Names, SetLocation(name) PROVE MInv' /\ StepsApart
  BY <1>3, RenameStep DEF StepsApart
<1>4. ASSUME NEW p \in Procs, NEW m \in Modes, NEW g \in BOOLEAN, Call(p, m, g)
      PROVE  MInv' /\ StepsApart
  BY <1>4, CallStep DEF StepsApart
<1>5. ASSUME NEW p \in Procs, Unlock(p) \/ UnlockGuard(p) PROVE MInv' /\ StepsApart
  BY <1>5, UnlockStep, ClaimStep DEF StepsApart
<1>6. ASSUME NEW p \in Procs, Snapshot(p) \/ ReadSnapshot(p) \/ TryFail(p)
      PROVE  MInv' /\ StepsApart
  BY <1>6, SnapshotStep, ReturnStep DEF StepsApart
<1>7. ASSUME NEW p \in Procs,
             AcquireAtOnce(p) \/ AcquireWait(p) \/ FinishWait(p) \/ ReleaseLock(p) \/ ReleaseGuard(p)
      PROVE  EngineMoves(p)
  BY <1>7, TakeStep, EnqueueStep, FinishStep, ReleaseStep
<1> QED
  BY <1>1, <1>2, <1>3, <1>4, <1>5, <1>6, <1>7 DEF Next

\* The invariant of the metered lock holds in every state of every behaviour.
THEOREM MeteredInvariant == Spec => []MInv
<1> QED
  BY InitMetered, StepMetered, PTL DEF Spec

-----------------------------------------------------------------------------
(* What the invariant says of the metered lock *)

\* There is an address for the object that SetLocation or the first use makes: the bound
\* on Locks keeps no step from happening.
LEMMA FreshLock ==
  ASSUME MInv
  PROVE  \E l \in Locks : Fresh(l)
<1> SUFFICES ASSUME \A l \in Locks : ~Fresh(l) PROVE FALSE
  OBVIOUS
<1>1. /\ IsFiniteSet(Procs) /\ IsFiniteSet(Locks) /\ Cardinality(Locks) > Cardinality(Procs) + 1
      /\ Cardinality(Procs) \in Nat /\ Cardinality(Locks) \in Nat
  BY CoreAssumption, MeteredAssumption, FS_CardinalityType
<1> DEFINE others == Locks \ {lock}
           caller == [l \in others |-> CHOOSE p \in Procs : target[p] = l]
<1>2. IsFiniteSet(others) /\ Cardinality(Procs) < Cardinality(others)
  BY <1>1, FS_RemoveElement
<1>3. \A l \in others : \E p \in Procs : target[p] = l
  BY DEF Fresh
<1>4. caller \in [others -> Procs] /\ \A l \in others : target[caller[l]] = l
  BY <1>3
<1>5. \E k, l \in others : k # l /\ caller[k] = caller[l]
  <2> HIDE DEF others, caller
  <2> QED
    BY <1>1, <1>2, <1>4, FS_PigeonHole
<1> QED
  BY <1>4, <1>5

\* So the model shows every change of name the code could make.
THEOREM LocksSuffice == Spec => [](\E l \in Locks : Fresh(l))
<1>1. MInv => \E l \in Locks : Fresh(l)
  BY FreshLock
<1> QED
  BY <1>1, MeteredInvariant, PTL

\* Every variable keeps to its type.
THEOREM MeteredTypeCorrect == Spec => []TypeOK
<1>1. MInv => TypeOK
  BY DEF MInv
<1> QED
  BY <1>1, MeteredInvariant, PTL

\* A goroutine blocked in a metered acquisition without a verdict waits for an owner, on
\* the lock it got at before the name was changed or after.
MeteredWaitersHaveAnOwner ==
  \A p \in Procs : pc[p] = "waiting" /\ locks[target[p]].core.verdict[p] = "none" =>
    \E q \in Procs : Owns(q)

\* No waiter is left behind on a lock that a change of name took out of use.
THEOREM NobodyStrandedByRenaming == Spec => []MeteredWaitersHaveAnOwner
<1>1. ASSUME MInv PROVE MeteredWaitersHaveAnOwner
  <2> SUFFICES ASSUME NEW p \in Procs, pc[p] = "waiting",
                      locks[target[p]].core.verdict[p] = "none"
               PROVE  \E q \in Procs : Owns(q)
    BY DEF MeteredWaitersHaveAnOwner
  <2> DEFINE l == target[p]
             at == At(l, target, pc)
             c == locks[l].core
  <2>1. l \in Locks
    BY <1>1 DEF MInv, OneLock, TypeOK, Using, Engaged
  <2>2. Tied(c, at, want) /\ ~HeadCompatible(c)
    BY <1>1, <2>1 DEF MInv, EnginesTied
  <2>3. /\ \A r \in Procs : at[r] = "waiting" \/ at[r] = "idle"
        /\ at[p] = "waiting"
    BY DEF At, Engaged
  <2> HIDE DEF at, c
  <2>4. QueuedIn(c, at) # {}
    BY <2>3 DEF QueuedIn, c
  <2>5. PICK q \in Procs : OwnsIn(c, at, q)
    BY <2>2, <2>4, SomebodyOwns
  <2>6. locks[l].core.verdict[q] = "granted"
    BY <2>3, <2>5 DEF OwnsIn, c
  <2> QED
    BY <2>1, <2>6 DEF Owns
<1> QED
  BY <1>1, MeteredInvariant, PTL

\* A writer excludes every other owner, whichever lock each of them got at before it
\* acquired and however often the name was changed by then.
THEOREM RenamingKeepsExclusion == Spec => []ExclusionAcrossNames
<1>1. ASSUME MInv PROVE ExclusionAcrossNames
  <2> SUFFICES ASSUME NEW p \in Procs, NEW q \in Procs, Owns(p), Owns(q),
                      want[p].mode = "write"
               PROVE  p = q
    BY DEF ExclusionAcrossNames
  <2>1. \A r \in Procs, l \in Locks :
          locks[l].core.verdict[r] = "granted" => used /\ l = lock
    BY <1>1 DEF MInv, OneLock, InitialCore
  <2> DEFINE at == At(lock, target, pc)
             c == locks[lock].core
  <2>2. c.verdict[p] = "granted" /\ c.verdict[q] = "granted" /\ Tied(c, at, want)
    BY <1>1, <2>1 DEF Owns, MInv, EnginesTied
  <2>3. want[q].mode \in Modes
    BY <1>1 DEF MInv, TypeOK, Waiter
  <2>4. at[p] # "gone" /\ at[q] # "gone"
    BY DEF At
  <2> HIDE DEF at, c
  <2>5. at[p] = "waiting" /\ at[q] = "waiting"
    BY <2>2, <2>4 DEF Tied, Typed
  <2>6. /\ p \in WritersIn(c, at, want)
        /\ q \in WritersIn(c, at, want) \/ q \in ReadersIn(c, at, want)
    BY <2>2, <2>3, <2>5 DEF WritersIn, ReadersIn, OwnsIn, Modes
  <2> QED
    BY <2>2, <2>6 DEF Tied, Exclusive
<1> QED
  BY <1>1, MeteredInvariant, PTL

\* No owner's Unlock finds another lock than the one it acquired, and no guard is
\* released twice.
THEOREM MeteredUnlockIsMatched == Spec => []NoUnlockPanic
<1>1. MInv => NoUnlockPanic
  BY DEF MInv, OwnersTold, NoUnlockPanic
<1> QED
  BY <1>1, MeteredInvariant, PTL

\* A snapshot that shows acquisitions is one of the lock that Unlock will get at.
THEOREM SnapshotIsCurrent == Spec => []SnapshotOfTheLock
<1>1. MInv => SnapshotOfTheLock
  BY DEF MInv, OneLock, TypeOK, CoreOf, SnapshotOfTheLock
<1> QED
  BY <1>1, MeteredInvariant, PTL

-----------------------------------------------------------------------------
(* The metered lock is one FIFO lock *)

\* The owners of the metered lock and its line, as the abstract lock is given them.
HeldNow == [p \in Procs |-> IF Owns(p) THEN want[p].mode ELSE "none"]
LineNow == IF lock = NoLock THEN <<>> ELSE Line(locks[lock].core.waiters)

\* Who owns any lock owns the one the metered lock has now.
OwnersOfTheLock ==
  IF lock = NoLock THEN \A p \in Procs : ~Owns(p)
  ELSE HeldNow = HeldBy(locks[lock].core, At(lock, target, pc), want)

LEMMA OwnersUseTheLock == MInv => OwnersOfTheLock
<1> SUFFICES ASSUME MInv PROVE OwnersOfTheLock
  OBVIOUS
<1>1. TypeOK /\ OneLock /\ EnginesTied
  BY DEF MInv
<1>2. \A p \in Procs, l \in Locks :
        locks[l].core.verdict[p] = "granted" => lock # NoLock /\ l = lock
  BY <1>1 DEF OneLock, InitialCore
<1>3. CASE lock = NoLock
  BY <1>2, <1>3 DEF OwnersOfTheLock, Owns
<1>4. CASE lock # NoLock
  <2> DEFINE at == At(lock, target, pc)
             c == locks[lock].core
  <2>1. lock \in Locks /\ Tied(c, at, want)
    BY <1>1, <1>4 DEF TypeOK, EnginesTied
  <2>2. \A p \in Procs : at[p] \in {"waiting", "idle"}
    BY DEF At
  <2>3. \A p \in Procs : Owns(p) <=> c.verdict[p] = "granted"
    BY <1>2, <2>1 DEF Owns
  <2> HIDE DEF at, c
  <2>4. \A p \in Procs : c.verdict[p] = "granted" => at[p] = "waiting"
    BY <2>1, <2>2 DEF Tied, Typed
  <2>5. \A p \in Procs : Owns(p) <=> OwnsIn(c, at, p)
    BY <2>2, <2>3, <2>4 DEF OwnsIn
  <2>6. HeldNow = HeldBy(c, at, want)
    BY <2>5 DEF HeldNow, HeldBy
  <2> QED
    BY <1>4, <2>6 DEF OwnersOfTheLock, at, c
<1> QED
  BY <1>3, <1>4

\* A step that changes neither the owners nor the line is none of the abstract lock.
LEMMA FifoStutters ==
  ASSUME HeldNow' = HeldNow, LineNow' = LineNow
  PROVE  UNCHANGED Fifo!vars
BY DEF Fifo!vars, HeldNow, LineNow

\* Before the first use nobody owns the lock or waits for it, under whichever name; from
\* then on it stays the same object. So no step outside the engines shows.
LEMMA OutsideStutters ==
  ASSUME MInv, MInv', Outside
  PROVE  UNCHANGED Fifo!vars
<1>1. TypeOK /\ OneLock /\ EnginesTied /\ TypeOK'
  BY DEF MInv
<1>2. /\ \A l \in Locks : locks'[l].core = locks[l].core
      /\ used => lock' = lock
      /\ \A p \in Procs : pc[p] \in Engaged => want'[p] = want[p]
  BY DEF Outside
<1>3. ASSUME NEW p \in Procs, Owns(p) PROVE pc[p] \in Engaged
  <2>1. PICK l \in Locks : locks[l].core.verdict[p] = "granted"
    BY <1>3 DEF Owns
  <2> DEFINE at == At(l, target, pc)
  <2>2. Tied(locks[l].core, at, want) /\ at[p] # "gone"
    BY <1>1 DEF EnginesTied, At
  <2> HIDE DEF at
  <2>3. at[p] = "waiting"
    BY <2>1, <2>2 DEF Tied, Typed
  <2> QED
    BY <2>3 DEF at, At
<1>4. \A p \in Procs : Owns(p)' <=> Owns(p)
  BY <1>2 DEF Owns
<1>5. HeldNow' = HeldNow
  BY <1>2, <1>3, <1>4 DEF HeldNow
<1>6. LineNow' = LineNow
  <2>1. CASE used
    <3>1. lock' = lock /\ lock \in Locks
      BY <1>1, <1>2, <2>1 DEF OneLock, TypeOK
    <3> QED
      BY <1>2, <3>1 DEF LineNow
  <2>2. CASE ~used
    <3>1. \A l \in Locks : locks[l].core.waiters = <<>> /\ locks'[l].core.waiters = <<>>
      BY <1>1, <1>2, <2>2 DEF OneLock, InitialCore
    <3>2. Line(<<>>) = <<>>
      BY DEF Line
    <3> QED
      BY <1>1, <3>1, <3>2 DEF LineNow, TypeOK
  <2> QED
    BY <2>1, <2>2
<1> QED
  BY <1>5, <1>6, FifoStutters

\* FIFOLock reads lines, and tells who fits, as RWCoreProofs does.
LEMMA SameLines ==
  /\ \A s : Fifo!Elems(s) = Elems(s)
  /\ \A s, D : Fifo!Without(s, D) = Without(s, D)
  /\ \A h, s, n : Fifo!Admissible(h, s, n) <=> Fits(h, s, n)
<1>1. \A s : Fifo!Elems(s) = Elems(s)
  BY DEF Fifo!Elems, Elems
<1>2. \A s, D : Fifo!Without(s, D) = Without(s, D)
  BY DEF Fifo!Without, Without, Fifo!Rank, Rank, Fifo!Kept, Kept, Fifo!Cardinality, Cardinality
<1>3. \A h, s, n : Fifo!Admissible(h, s, n) <=> Fits(h, s, n)
  BY DEF Fifo!Admissible, Fits, Fifo!Free, Fifo!NoWriter
<1> QED
  BY <1>1, <1>2, <1>3

\* What FIFOLock admits is a longest prefix that fits.
LEMMA AdmittedFits ==
  ASSUME NEW h, NEW s, NEW j, NEW t, Settles(h, s, j, t),
         NEW n, n = Fifo!Admitted(h, s)
  PROVE  LongestFit(h, s, n)
<1>1. \E m \in 0..Len(s) : Fits(h, s, m) /\ \A l \in 0..Len(s) : Fits(h, s, l) => l <= m
  BY DEF Settles
<1>2. n = CHOOSE m \in 0..Len(s) :
            /\ Fifo!Admissible(h, s, m)
            /\ \A l \in 0..Len(s) : Fifo!Admissible(h, s, l) => l <= m
  BY DEF Fifo!Admitted
<1>3. \E m \in 0..Len(s) :
        /\ Fifo!Admissible(h, s, m)
        /\ \A l \in 0..Len(s) : Fifo!Admissible(h, s, l) => l <= m
  BY <1>1, SameLines
<1>4. n \in 0..Len(s) /\ Fifo!Admissible(h, s, n)
      /\ \A l \in 0..Len(s) : Fifo!Admissible(h, s, l) => l <= n
  BY <1>2, <1>3
<1> QED
  BY <1>4, SameLines DEF LongestFit

\* What FIFOLock comes to from h and s is what they settle to.
LEMMA FifoSettles ==
  ASSUME NEW h, NEW s \in Seq(Caller), Distinct(s),
         NEW j \in [Procs -> Modes \union {"none"}], NEW t, Settles(h, s, j, t),
         NEW n, n = Fifo!Admitted(h, s)
  PROVE  j = Entering(h, s, n) /\ t = SubSeq(s, n + 1, Len(s))
<1>1. LongestFit(h, s, n)
  BY AdmittedFits
<1> QED
  BY <1>1, SettlesExactly

\* A move of the engine is a step of FIFOLock.
LEMMA FifoSteps ==
  ASSUME HeldNow' \in [Procs -> Modes \union {"none"}],
         LineNow \in Seq(Caller), Distinct(LineNow),
         Moves(HeldNow, LineNow, HeldNow', LineNow')
  PROVE  Fifo!Next
<1> DEFINE h == HeldNow
           s == LineNow
           j == HeldNow'
           t == LineNow'
<1>1. PICK Q \in SUBSET Elems(s) :
        \/ Settles(h, Without(s, Q), j, t)
        \/ \E p \in Procs : h[p] # "none"
                            /\ Settles([h EXCEPT ![p] = "none"], Without(s, Q), j, t)
        \/ \E x \in Caller : /\ h[x.id] = "none" /\ \A y \in Elems(s) : y.id # x.id
                             /\ Settles(h, Append(Without(s, Q), x), j, t)
  BY DEF Moves
<1> DEFINE r == Fifo!Without(s, Q)
<1>2. r = Without(s, Q) /\ Q \in SUBSET Fifo!Elems(s)
  BY SameLines
<1>3. s \in Seq(Caller) /\ Distinct(s) /\ j \in [Procs -> Modes \union {"none"}]
  OBVIOUS
<1> HIDE DEF r, h, s, j, t
<1>4. r \in Seq(Caller) /\ Distinct(r) /\ Elems(r) \subseteq Elems(s)
  BY <1>2, <1>3, WithoutProperties
<1>5. CASE Settles(h, r, j, t)
  <2> DEFINE n == Fifo!Admitted(h, r)
  <2>1. j = Entering(h, r, n) /\ t = SubSeq(r, n + 1, Len(r))
    BY <1>3, <1>4, <1>5, FifoSettles
  <2>2. Fifo!Quit(Q)
    BY <2>1, Zenon DEF Fifo!Quit, Fifo!Settle, Entering, HeldNow, LineNow, r, h, s, j, t
  <2> QED
    BY <1>2, <2>2 DEF Fifo!Next, LineNow, s
<1>6. ASSUME NEW p \in Procs, h[p] # "none", Settles([h EXCEPT ![p] = "none"], r, j, t)
      PROVE  Fifo!Next
  <2> DEFINE g == [h EXCEPT ![p] = "none"]
             n == Fifo!Admitted(g, r)
  <2>1. Settles(g, r, j, t)
    BY <1>6
  <2> HIDE DEF g
  <2>2. j = Entering(g, r, n) /\ t = SubSeq(r, n + 1, Len(r))
    BY <1>3, <1>4, <2>1, FifoSettles
  <2>3. Fifo!Leave(p, Q)
    BY <1>6, <2>2, Zenon
    DEF Fifo!Leave, Fifo!Settle, Entering, HeldNow, LineNow, g, r, h, s, j, t
  <2> QED
    BY <1>2, <2>3 DEF Fifo!Next, LineNow, s
<1>7. ASSUME NEW x \in Caller, h[x.id] = "none", \A y \in Elems(s) : y.id # x.id,
             Settles(h, Append(r, x), j, t)
      PROVE  Fifo!Next
  <2>1. x.id \in Procs /\ x.mode \in {"write", "read"} /\ x = [id |-> x.id, mode |-> x.mode]
    BY DEF Caller, Modes
  <2> DEFINE a == Append(r, [id |-> x.id, mode |-> x.mode])
             n == Fifo!Admitted(h, a)
  <2>2. a = Append(r, x)
    BY <2>1
  <2>3. a \in Seq(Caller) /\ Distinct(a)
    <3>1. \A i \in DOMAIN r : r[i] \in Elems(s)
      BY <1>4 DEF Elems
    <3>2. \A i \in DOMAIN r : r[i].id # x.id
      BY <1>7, <3>1
    <3> QED
      BY <1>4, <2>2, <3>2, AppendDistinct
  <2>4. Settles(h, a, j, t)
    BY <1>7, <2>2
  <2> HIDE DEF a
  <2>5. j = Entering(h, a, n) /\ t = SubSeq(a, n + 1, Len(a))
    BY <1>3, <2>3, <2>4, FifoSettles
  <2>6. Fifo!Idle(x.id)
    BY <1>7, SameLines DEF Fifo!Idle, HeldNow, LineNow, h, s
  <2>7. Fifo!Arrive(x.id, x.mode, Q)
    BY <2>5, <2>6, Zenon DEF Fifo!Arrive, Fifo!Settle, Entering, HeldNow, LineNow, a, r, h, s, j, t
  <2> QED
    BY <1>2, <2>1, <2>7 DEF Fifo!Next, LineNow, s
<1> QED
  BY <1>1, <1>2, <1>5, <1>6, <1>7

\* A step in the engine of its goroutine is one in the engine the metered lock has, and a
\* step of the abstract lock or none.
LEMMA EngineRefines ==
  ASSUME MInv, OwnersOfTheLock, OwnersOfTheLock', NEW p \in Procs, EngineMoves(p)
  PROVE  Fifo!Next \/ UNCHANGED Fifo!vars
<1> PICK l, c : Advances(p, l, c) /\ Shows(p, l, c)
  BY DEF EngineMoves
<1> DEFINE at == At(lock, target, pc)
<1>1. /\ TypeOK /\ OneLock /\ pc[p] \in Using /\ l \in Engaged \union {"idle"}
      /\ pc' = [pc EXCEPT ![p] = l]
      /\ target' = IF l = "idle" THEN [target EXCEPT ![p] = NoLock] ELSE target
      /\ locks' = [locks EXCEPT ![target[p]].core = c]
      /\ lock' = lock /\ want' = want
      /\ Tied(c, After(p, l), want)
  BY DEF MInv, Advances
<1>2. target[p] = lock /\ lock \in Locks /\ lock # NoLock /\ Tied(CoreOf(p), at, want)
  <2>1. target[p] = lock /\ target[p] \in Locks
    BY <1>1, EngineOf DEF OneLock
  <2> QED
    BY <1>1, <2>1, EngineOf, MeteredAssumption
<1>3. locks'[lock].core = c /\ locks[lock].core = CoreOf(p)
  BY <1>1, <1>2 DEF TypeOK, CoreOf
<1>4. At(lock, target', pc') = After(p, l)
  <2>1. /\ pc'[p] = l /\ target'[p] = IF l = "idle" THEN NoLock ELSE lock
        /\ \A q \in Procs : q # p => pc'[q] = pc[q] /\ target'[q] = target[q]
    BY <1>1, <1>2 DEF TypeOK
  <2>2. l \notin Engaged <=> l = "idle"
    BY <1>1 DEF Engaged
  <2> QED
    BY <1>2, <2>1, <2>2 DEF At, After
<1>5. HeldNow = HeldBy(CoreOf(p), at, want) /\ LineNow = Line(CoreOf(p).waiters)
  BY <1>2, <1>3 DEF OwnersOfTheLock, LineNow
<1>6. HeldNow' = HeldBy(locks'[lock'].core, At(lock', target', pc'), want')
  BY <1>1, <1>2 DEF OwnersOfTheLock
<1>7. HeldNow' = HeldBy(c, After(p, l), want) /\ LineNow' = Line(c.waiters)
  BY <1>1, <1>2, <1>3, <1>4, <1>6 DEF LineNow
<1>8. /\ HeldNow' \in [Procs -> Modes \union {"none"}]
      /\ LineNow \in Seq(Caller) /\ Distinct(LineNow)
  BY <1>1, <1>2, <1>5, <1>7, AbstractTypes
<1>9. CASE HeldNow' = HeldNow /\ LineNow' = LineNow
  BY <1>9, FifoStutters
<1>10. CASE Moves(HeldNow, LineNow, HeldNow', LineNow')
  BY <1>8, <1>10, FifoSteps
<1> QED
  BY <1>2, <1>5, <1>7, <1>9, <1>10 DEF Shows

\* However often it is renamed before its first use, and whichever object a call, an
\* unlock or a guard has got hold of, the metered lock is one FIFO lock: lockForOperation
\* lets no two objects be in use, and every release meets the acquisition it ends.
THEOREM MeteredRefinement == Spec => MeteredFIFOLock
<1>1. Init => Fifo!Init
  <2> SUFFICES ASSUME Init PROVE Fifo!Init
    OBVIOUS
  <2>1. \A l \in Locks : locks[l].core = InitialCore
    BY DEF Init, NewLock
  <2>2. \A p \in Procs : ~Owns(p)
    BY <2>1 DEF Owns, InitialCore
  <2>3. LineNow = <<>>
    <3>1. Line(<<>>) = <<>> /\ InitialCore.waiters = <<>>
      BY DEF Line, InitialCore
    <3>2. lock \in Locks \union {NoLock}
      BY DEF Init
    <3> QED
      BY <2>1, <3>1, <3>2 DEF LineNow
  <2> QED
    BY <2>2, <2>3 DEF Fifo!Init, LineNow
<1>2. ASSUME MInv, OwnersOfTheLock, OwnersOfTheLock', [Next]_vars
      PROVE  [Fifo!Next]_Fifo!vars
  <2>1. MInv' /\ StepsApart
    BY <1>2, StepMetered
  <2> QED
    BY <1>2, <2>1, OutsideStutters, EngineRefines DEF StepsApart
<1> QED
  BY <1>1, <1>2, OwnersUseTheLock, MeteredInvariant, PTL DEF Spec, MeteredFIFOLock, Fifo!Spec

=============================================================================
