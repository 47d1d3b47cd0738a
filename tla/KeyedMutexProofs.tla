-------------------------- MODULE KeyedMutexProofs --------------------------
(* The keyed lock's safety for every number of goroutines, keys and         *)
(* entries.  The invariant ties each entry of the heap, in the table or     *)
(* not, to the goroutines whose calls are inside its engine, and the table  *)
(* to the goroutines that have a reference.                                 *)
EXTENDS KeyedMutex, RWCoreProofs

\* At these places a goroutine is known to the engine of its entry: it is in the queue,
\* has left it with a verdict it has not looked at, or owns the key.
Engaged == {"waiting", "holding", "found"}

\* The owner of k and the line for it, as the abstract locks are given them.
HeldFor(k) == [p \in Procs |-> IF Owns(p) /\ key[p] = k THEN "write" ELSE "none"]
LineFor(k) == IF entries[k] = NoEntry THEN <<>> ELSE Line(heap[entries[k]].core.waiters)

\* Who is known to the engine of e, and with which acquisition.
At(e, en, place) ==
  [p \in Procs |-> IF en[p] = e /\ place[p] \in Engaged THEN "waiting" ELSE "idle"]
Wants(g) == [p \in Procs |-> [id |-> p, mode |-> "write", guarded |-> g[p]]]

\* The goroutines with a reference to the entry of k.
Users(k) == {p \in Procs : pc[p] \in Referring /\ key[p] = k}

\* A goroutine with a reference has it on the entry of its key, and no other one points
\* to an entry; no two keys share an entry.
Linked ==
  /\ \A p \in Procs :
       IF pc[p] \in Referring
       THEN key[p] \in Keys /\ entry[p] = entries[key[p]] /\ entry[p] # NoEntry
       ELSE entry[p] = NoEntry
  /\ \A j, k \in ActiveKeys : entries[j] = entries[k] => j = k

Counted ==
  /\ \A k \in ActiveKeys :
       Users(k) # {} /\ heap[entries[k]].references = Cardinality(Users(k))
  /\ Cardinality(ActiveKeys) <= MaxKeys

EnginesTied ==
  \A e \in Entries : /\ Tied(heap[e].core, At(e, entry, pc), Wants(guarded))
                     /\ ~HeadCompatible(heap[e].core)

OwnersTold ==
  \A p \in Procs :
    /\ pc[p] \in {"holding", "found"} => heap[entry[p]].core.verdict[p] = "granted"
    /\ pc[p] # "panicked"

KInv == TypeOK /\ Linked /\ Counted /\ EnginesTied /\ OwnersTold

-----------------------------------------------------------------------------

\* The places and acquisitions an engine is tied to are well formed.
LEMMA UsersTyped ==
  ASSUME NEW e, NEW en, NEW place, NEW g \in [Procs -> BOOLEAN]
  PROVE  /\ At(e, en, place) \in [Procs -> Stations]
         /\ Wants(g) \in [Procs -> Waiter]
         /\ \A p \in Procs : /\ Wants(g)[p].id = p /\ Wants(g)[p].mode = "write"
                             /\ Wants(g)[p].guarded = g[p]
BY DEF At, Wants, Stations, Waiter, Modes

\* The keys in use are finitely many.
LEMMA FiniteKeys ==
  ASSUME NEW S \in SUBSET Keys
  PROVE  IsFiniteSet(S) /\ Cardinality(S) \in Nat
  BY KeyedAssumption, FS_Subset, FS_CardinalityType

\* The table is created empty.
LEMMA InitKeyed == Init => KInv
<1> SUFFICES ASSUME Init PROVE KInv
  OBVIOUS
<1>1. MaxKeys \in Nat /\ NoEntry \notin Entries
  BY KeyedAssumption
<1>2. /\ \A k \in Keys : entries[k] = NoEntry
      /\ \A e \in Entries : heap[e].core = InitialCore /\ heap[e].references = 0
      /\ \A p \in Procs : pc[p] = "idle" /\ entry[p] = NoEntry
      /\ guarded \in [Procs -> BOOLEAN]
  BY DEF Init
<1>3. \A e \in Entries :
        Tied(InitialCore, At(e, entry, pc), Wants(guarded)) /\ ~HeadCompatible(InitialCore)
  <2> TAKE e \in Entries
  <2>1. \A p \in Procs : At(e, entry, pc)[p] = "idle"
    BY <1>1, <1>2 DEF At
  <2> QED
    BY <1>2, <2>1, UsersTyped, InitialTied
<1>4. EnginesTied
  BY <1>2, <1>3 DEF EnginesTied
<1>5. TypeOK
  <2>1. InitialCore \in Core
    <3>1. <<>> \in Seq(Waiter)
      OBVIOUS
    <3> QED
      BY <3>1, CoreAssumption DEF InitialCore, Core, Verdicts
  <2> QED
    BY <2>1 DEF Init, TypeOK, Places
<1>6. ActiveKeys = {}
  BY <1>2 DEF ActiveKeys
<1>7. Counted
  BY <1>1, <1>6, FS_EmptySet DEF Counted
<1>8. Linked /\ OwnersTold
  BY <1>2, <1>6 DEF Linked, OwnersTold, Referring
<1> QED
  BY <1>4, <1>5, <1>7, <1>8 DEF KInv

-----------------------------------------------------------------------------
(* Inside an engine *)

\* The places in the engine of p once p has gone on to l.
After(p, l) ==
  [At(entry[p], entry, pc) EXCEPT ![p] = IF l \in Engaged THEN "waiting" ELSE "idle"]

\* p goes on to l and its engine to c, and everything else about the table, the other
\* engines and the other goroutines stays.
Advances(p, l, c) ==
  /\ pc[p] \in Referring /\ l \in Referring
  /\ pc' = [pc EXCEPT ![p] = l]
  /\ heap' = [heap EXCEPT ![entry[p]].core = c]
  /\ UNCHANGED <<entries, key, guarded, entry>> /\ dead' \subseteq Procs
  /\ Tied(c, After(p, l), Wants(guarded))
  /\ ~HeadCompatible(c)
  /\ \A q \in Procs : q # p /\ CoreOf(p).verdict[q] = "granted" => c.verdict[q] = "granted"
  /\ l \in {"holding", "found"} => c.verdict[p] = "granted"

\* From outside, the engine of p looks as before or has moved as a FIFO lock does.
Shows(p, l, c) ==
  LET h == HeldBy(CoreOf(p), At(entry[p], entry, pc), Wants(guarded))
      s == Line(CoreOf(p).waiters)
      j == HeldBy(c, After(p, l), Wants(guarded))
      t == Line(c.waiters)
  IN  (j = h /\ t = s) \/ Moves(h, s, j, t)

EngineMoves(p) == \E l, c : Advances(p, l, c) /\ Shows(p, l, c)

LEMMA EngineStep ==
  ASSUME KInv, NEW p \in Procs, EngineMoves(p)
  PROVE  KInv'
<1> DEFINE e == entry[p]
<1> PICK l, c : Advances(p, l, c)
  BY DEF EngineMoves
<1>0. TypeOK /\ Linked /\ Counted /\ EnginesTied /\ OwnersTold
  BY DEF KInv
<1>9. /\ pc[p] \in Referring /\ l \in Referring
      /\ pc' = [pc EXCEPT ![p] = l]
      /\ heap' = [heap EXCEPT ![e].core = c]
      /\ UNCHANGED <<entries, key, guarded, entry>> /\ dead' \subseteq Procs
      /\ Tied(c, [At(e, entry, pc) EXCEPT
                    ![p] = IF l \in Engaged THEN "waiting" ELSE "idle"], Wants(guarded))
      /\ ~HeadCompatible(c)
      /\ \A q \in Procs : q # p /\ heap[e].core.verdict[q] = "granted" => c.verdict[q] = "granted"
      /\ l \in {"holding", "found"} => c.verdict[p] = "granted"
  BY DEF Advances, After, CoreOf
<1>1. /\ e \in Entries /\ c \in Core /\ pc \in [Procs -> Places]
      /\ heap \in [Entries -> [core : Core, references : Nat]]
  BY <1>0, <1>9, KeyedAssumption DEF TypeOK, Linked, Tied, Typed
<1>2. /\ heap' \in [Entries -> [core : Core, references : Nat]]
      /\ heap'[e].core = c
      /\ \A d \in Entries : heap'[d].references = heap[d].references
      /\ \A d \in Entries : d # e => heap'[d].core = heap[d].core
  BY <1>1, <1>9
<1>3. /\ pc' \in [Procs -> Places] /\ pc'[p] = l
      /\ \A q \in Procs : q # p => pc'[q] = pc[q]
      /\ \A q \in Procs : pc'[q] \in Referring <=> pc[q] \in Referring
  BY <1>1, <1>9 DEF Referring
<1>4. TypeOK'
  BY <1>0, <1>2, <1>3, <1>9 DEF TypeOK
<1>5. Linked'
  BY <1>0, <1>3, <1>9 DEF Linked, ActiveKeys
<1>6. Counted'
  <2>1. ActiveKeys' = ActiveKeys
    BY <1>9 DEF ActiveKeys
  <2>2. \A k : Users(k)' = Users(k)
    BY <1>3, <1>9 DEF Users
  <2>3. \A k \in ActiveKeys : entries[k] \in Entries
    BY <1>0 DEF TypeOK, ActiveKeys
  <2> QED
    BY <1>0, <1>2, <1>9, <2>1, <2>2, <2>3 DEF Counted
<1>7. EnginesTied'
  <2>1. At(e, entry', pc') = [At(e, entry, pc) EXCEPT
                                ![p] = IF l \in Engaged THEN "waiting" ELSE "idle"]
    BY <1>3, <1>9 DEF At
  <2>2. \A d \in Entries : d # e => At(d, entry', pc') = At(d, entry, pc)
    BY <1>3, <1>9 DEF At
  <2> QED
    BY <1>0, <1>2, <1>9, <2>1, <2>2 DEF EnginesTied
<1>8. OwnersTold'
  <2> SUFFICES ASSUME NEW q \in Procs
               PROVE  /\ pc'[q] \in {"holding", "found"}
                           => heap'[entry[q]].core.verdict[q] = "granted"
                      /\ pc'[q] # "panicked"
    BY <1>9 DEF OwnersTold
  <2>1. CASE q = p
    BY <1>2, <1>3, <1>9, <2>1 DEF Referring
  <2>2. CASE q # p
    <3>1. pc[q] \in Referring => entry[q] \in Entries
      BY <1>0 DEF TypeOK, Linked
    <3>2. pc[q] \in {"holding", "found"} => pc[q] \in Referring
      BY DEF Referring, Places
    <3> QED
      BY <1>0, <1>2, <1>3, <1>9, <2>2, <3>1, <3>2 DEF OwnersTold
  <2> QED
    BY <2>1, <2>2
<1> QED
  BY <1>4, <1>5, <1>6, <1>7, <1>8 DEF KInv

\* What the invariant says of the engine p is about to call or is in.
LEMMA EngineOf ==
  ASSUME KInv, NEW p \in Procs, pc[p] \in Referring
  PROVE  /\ entry[p] \in Entries
         /\ Tied(CoreOf(p), At(entry[p], entry, pc), Wants(guarded))
         /\ ~HeadCompatible(CoreOf(p))
         /\ At(entry[p], entry, pc)[p] = IF pc[p] \in Engaged THEN "waiting" ELSE "idle"
         /\ Attempt(p) = Wants(guarded)[p] /\ Attempt(p) \in Waiter
         /\ Attempt(p).id = p /\ Attempt(p).mode = "write"
         /\ [Wants(guarded) EXCEPT ![p] = Attempt(p)] = Wants(guarded)
<1>1. TypeOK /\ Linked /\ EnginesTied
  BY DEF KInv
<1>2. entry[p] \in Entries /\ guarded \in [Procs -> BOOLEAN]
  BY <1>1 DEF TypeOK, Linked
<1>3. Wants(guarded) \in [Procs -> Waiter]
  BY <1>2, UsersTyped
<1>4. Attempt(p) = Wants(guarded)[p]
  BY DEF Attempt, Wants
<1>5. Attempt(p) \in Waiter /\ Attempt(p).id = p /\ Attempt(p).mode = "write"
  BY <1>2, <1>4, UsersTyped
<1>6. [Wants(guarded) EXCEPT ![p] = Wants(guarded)[p]] = Wants(guarded)
  BY <1>3
<1>7. At(entry[p], entry, pc)[p] = IF pc[p] \in Engaged THEN "waiting" ELSE "idle"
  BY DEF At
<1>8. /\ Tied(CoreOf(p), At(entry[p], entry, pc), Wants(guarded))
      /\ ~HeadCompatible(CoreOf(p))
  BY <1>1, <1>2 DEF EnginesTied, CoreOf
<1> QED
  BY <1>2, <1>4, <1>5, <1>6, <1>7, <1>8

\* What acquire finds once it has served the queue.
LEMMA ServedTied ==
  ASSUME KInv, NEW p \in Procs, pc[p] \in Referring
  PROVE  /\ Tied(Served(p), At(entry[p], entry, pc), Wants(guarded))
         /\ ~HeadCompatible(Served(p))
         /\ \A q \in Procs : CoreOf(p).verdict[q] # "none"
                              => Served(p).verdict[q] = CoreOf(p).verdict[q]
<1>1. Tied(CoreOf(p), At(entry[p], entry, pc), Wants(guarded)) /\ ~HeadCompatible(CoreOf(p))
  BY EngineOf
<1>2. CASE CoreOf(p).waiters = <<>>
  BY <1>1, <1>2 DEF Served
<1>3. CASE CoreOf(p).waiters # <<>>
  <2>1. Served(p) = GrantWaiters(CoreOf(p), dead)
    BY <1>3 DEF Served
  <2>2. /\ Tied(GrantWaiters(CoreOf(p), dead), At(entry[p], entry, pc), Wants(guarded))
        /\ ~HeadCompatible(GrantWaiters(CoreOf(p), dead))
    BY <1>1, GrantWaitersPreserves
  <2> QED
    BY <1>1, <2>1, <2>2, VerdictsKept
<1> QED
  BY <1>2, <1>3

\* Serving the queue lets some quit and lets in the longest prefix that fits.
LEMMA ServedOrder ==
  ASSUME KInv, NEW p \in Procs, pc[p] \in Referring
  PROVE  \E Q \in SUBSET Elems(Line(CoreOf(p).waiters)) :
           Settles(HeldBy(CoreOf(p), At(entry[p], entry, pc), Wants(guarded)),
                   Without(Line(CoreOf(p).waiters), Q),
                   HeldBy(Served(p), At(entry[p], entry, pc), Wants(guarded)),
                   Line(Served(p).waiters))
<1> DEFINE c == CoreOf(p)
           at == At(entry[p], entry, pc)
           w == Wants(guarded)
           Q == Quitters(c.waiters, dead)
<1>1. Tied(c, at, w)
  BY EngineOf
<1>2. Served(p) = IF c.waiters = <<>> THEN c ELSE GrantWaiters(c, dead)
  BY DEF Served
<1> HIDE DEF c, at, w
<1>3. Settles(HeldBy(c, at, w), Without(Line(c.waiters), Q),
              HeldBy(Served(p), at, w), Line(Served(p).waiters))
  BY <1>1, <1>2, ServedSettles
<1>4. Q \in SUBSET Elems(Line(c.waiters))
  BY DEF Quitters
<1> HIDE DEF Q
<1> QED
  BY <1>3, <1>4 DEF c, at, w

\* A step that leaves the engine alone sets its core to what it is.
LEMMA CoreUnchanged ==
  ASSUME KInv, NEW p \in Procs, pc[p] \in Referring
  PROVE  heap = [heap EXCEPT ![entry[p]].core = CoreOf(p)]
<1>1. entry[p] \in Entries
  BY EngineOf
<1>2. heap \in [Entries -> [core : Core, references : Nat]]
  BY DEF KInv, TypeOK
<1> QED
  BY <1>1, <1>2 DEF CoreOf

\* Leaving the queue with an error, before or after having been in it.
LEMMA FailStep ==
  ASSUME KInv, NEW p \in Procs, AcquireExpired(p) \/ TryFail(p)
  PROVE  EngineMoves(p)
<1>1. /\ pc[p] \in {"referenced", "trying"} /\ pc' = [pc EXCEPT ![p] = "failed"]
      /\ heap' = heap /\ UNCHANGED <<entries, key, guarded, entry>> /\ dead' \subseteq Procs
  BY DEF AcquireExpired, TryFail, GoTo, KInv, TypeOK
<1>2. pc[p] \in Referring /\ "failed" \in Referring /\ pc[p] \notin Engaged
      /\ "failed" \notin Engaged
  BY <1>1 DEF Referring, Places, Engaged
<1> DEFINE at == At(entry[p], entry, pc)
<1>3. /\ Tied(CoreOf(p), at, Wants(guarded)) /\ ~HeadCompatible(CoreOf(p)) /\ at[p] = "idle"
  BY <1>2, EngineOf
<1>4. [at EXCEPT ![p] = "idle"] = at
  <2>1. at \in [Procs -> Stations]
    BY <1>3 DEF Tied, Typed
  <2> HIDE DEF at
  <2> QED
    BY <1>3, <2>1
<1>5. heap' = [heap EXCEPT ![entry[p]].core = CoreOf(p)]
  BY <1>1, <1>2, CoreUnchanged
<1> HIDE DEF at
<1>6. Advances(p, "failed", CoreOf(p))
  BY <1>1, <1>2, <1>3, <1>4, <1>5 DEF Advances, After, at
<1>7. Shows(p, "failed", CoreOf(p))
  BY <1>2, <1>4 DEF Shows, After, at
<1> QED
  BY <1>6, <1>7 DEF EngineMoves

\* p finds the engine it is given free and has the key.
LEMMA TakeStep ==
  ASSUME KInv, NEW p \in Procs, AcquireAtOnce(p) \/ TrySucceed(p)
  PROVE  EngineMoves(p)
<1> DEFINE at == At(entry[p], entry, pc)
           c == IF pc[p] = "referenced" THEN Served(p) ELSE CoreOf(p)
           x == Attempt(p)
           g == Told(Grant(c, x), x.id, "granted")
<1>1. /\ pc[p] \in {"referenced", "trying"} /\ pc' = [pc EXCEPT ![p] = "holding"]
      /\ CanAcquireImmediately(c, "write")
      /\ heap' = [heap EXCEPT ![entry[p]].core = Told(Grant(c, x), p, "granted")]
      /\ UNCHANGED <<entries, key, guarded, entry>> /\ dead' \subseteq Procs
  BY DEF AcquireAtOnce, TrySucceed, GoTo, SetCore, KInv, TypeOK
<1>2. pc[p] \in Referring /\ "holding" \in Referring /\ pc[p] \notin Engaged
      /\ "holding" \in Engaged
  BY <1>1 DEF Referring, Places, Engaged
<1>3. /\ Tied(c, at, Wants(guarded))
      /\ \A q \in Procs : CoreOf(p).verdict[q] # "none" => c.verdict[q] = CoreOf(p).verdict[q]
  BY <1>2, EngineOf, ServedTied
<1>4. /\ x \in Waiter /\ x.id = p /\ x.mode = "write" /\ at[p] = "idle"
      /\ [Wants(guarded) EXCEPT ![p] = x] = Wants(guarded)
  BY <1>2, EngineOf
<1> HIDE DEF at, c, x
<1>5. /\ Tied(g, [at EXCEPT ![x.id] = "waiting"], [Wants(guarded) EXCEPT ![x.id] = x])
      /\ ~HeadCompatible(g) /\ g.verdict = [c.verdict EXCEPT ![x.id] = "granted"]
  BY <1>1, <1>3, <1>4, AcquirePreserves, SMTT(60)
<1>6. /\ g.verdict[p] = "granted"
      /\ \A q \in Procs : q # p => g.verdict[q] = c.verdict[q]
  <2>1. c.verdict \in [Procs -> Verdicts]
    BY <1>3 DEF Tied, Typed, Core
  <2> QED
    BY <1>4, <1>5, <2>1
<1>7. Tied(g, [at EXCEPT ![p] = "waiting"], Wants(guarded))
  BY <1>4, <1>5
<1>8. heap' = [heap EXCEPT ![entry[p]].core = g]
  BY <1>1, <1>4
<1> HIDE DEF g
<1>9. Advances(p, "holding", g)
  BY <1>1, <1>2, <1>3, <1>5, <1>6, <1>7, <1>8 DEF Advances, After, at
<1>10. Shows(p, "holding", g)
  <2> DEFINE o == CoreOf(p)
             w == Wants(guarded)
             place == After(p, "holding")
  <2>1. Tied(o, at, w) /\ ~HeadCompatible(o)
    BY <1>2, EngineOf DEF at
  <2>2. /\ w[x.id] = x /\ place[x.id] = "waiting"
        /\ \A q \in Procs : q # x.id => place[q] = at[q] /\ w[q] = w[q]
    <3>1. at \in [Procs -> Stations] /\ place = [at EXCEPT ![p] = "waiting"]
      BY <1>2, <2>1 DEF Tied, Typed, After, at
    <3>2. w[p] = x
      BY <1>2, EngineOf DEF x
    <3> HIDE DEF w, place
    <3> QED
      BY <1>4, <3>1, <3>2
  <2>3. PICK Q \in SUBSET Elems(Line(o.waiters)) :
          Settles(HeldBy(o, at, w), Without(Line(o.waiters), Q),
                  HeldBy(c, at, w), Line(c.waiters))
    <3>1. CASE pc[p] = "referenced"
      BY <1>2, <3>1, ServedOrder DEF c, at
    <3>2. CASE pc[p] # "referenced"
      <4>1. c = o
        BY <3>2 DEF c
      <4>2. o.waiters = <<>> /\ o.waiters \in Seq(Waiter)
        BY <1>1, <2>1, <4>1 DEF CanAcquireImmediately, Tied, Typed, Core
      <4>3. Line(o.waiters) = <<>>
        BY <4>2, LineProperties
      <4> HIDE DEF o, w
      <4>4. Settles(HeldBy(o, at, w), Line(o.waiters), HeldBy(o, at, w), Line(o.waiters))
        BY <2>1, BlockedSettles
      <4>5. Without(Line(o.waiters), {}) = Line(o.waiters)
        BY <4>3, WithoutNothing
      <4> QED
        BY <4>1, <4>4, <4>5
    <3> QED
      BY <3>1, <3>2
  <2>4. g = Told(Grant(c, x), x.id, "granted")
    BY DEF g
  <2> HIDE DEF o, w, place
  <2>5. Moves(HeldBy(o, at, w), Line(o.waiters), HeldBy(g, place, w), Line(g.waiters))
    BY <1>1, <1>3, <1>4, <2>1, <2>2, <2>3, <2>4, TakeMoves DEF w
  <2> QED
    BY <2>5 DEF Shows, o, w, place, at
<1> QED
  BY <1>9, <1>10 DEF EngineMoves

\* p joins the queue of the engine.
LEMMA EnqueueStep ==
  ASSUME KInv, NEW p \in Procs, AcquireWait(p)
  PROVE  EngineMoves(p)
<1> DEFINE at == At(entry[p], entry, pc)
           c == Served(p)
           x == Attempt(p)
           g == Enqueue(c, x)
<1>1. /\ pc[p] = "referenced" /\ pc' = [pc EXCEPT ![p] = "waiting"]
      /\ ~CanAcquireImmediately(c, "write")
      /\ heap' = [heap EXCEPT ![entry[p]].core = g]
      /\ UNCHANGED <<entries, key, guarded, entry>> /\ dead' \subseteq Procs
  BY DEF AcquireWait, GoTo, SetCore, KInv, TypeOK
<1>2. pc[p] \in Referring /\ "waiting" \in Referring /\ pc[p] \notin Engaged
      /\ "waiting" \in Engaged
  BY <1>1 DEF Referring, Places, Engaged
<1>3. /\ Tied(c, at, Wants(guarded)) /\ ~HeadCompatible(c)
      /\ \A q \in Procs : CoreOf(p).verdict[q] # "none" => c.verdict[q] = CoreOf(p).verdict[q]
  BY <1>2, ServedTied
<1>4. /\ x \in Waiter /\ x.id = p /\ x.mode = "write" /\ at[p] = "idle"
      /\ [Wants(guarded) EXCEPT ![p] = x] = Wants(guarded)
  BY <1>2, EngineOf
<1> HIDE DEF at, c, x
<1>5. /\ Tied(g, [at EXCEPT ![x.id] = "waiting"], [Wants(guarded) EXCEPT ![x.id] = x])
      /\ ~HeadCompatible(g)
  BY <1>1, <1>3, <1>4, EnqueuePreserves
<1>6. g.verdict = c.verdict
  <2>1. c \in Core
    BY <1>3 DEF Tied, Typed
  <2> QED
    BY <2>1 DEF Enqueue, Core
<1>7. Tied(g, [at EXCEPT ![p] = "waiting"], Wants(guarded))
  BY <1>4, <1>5
<1> HIDE DEF g
<1>8. Advances(p, "waiting", g)
  BY <1>1, <1>2, <1>3, <1>5, <1>6, <1>7 DEF Advances, After, at
<1>9. Shows(p, "waiting", g)
  <2> DEFINE o == CoreOf(p)
             w == Wants(guarded)
             place == After(p, "waiting")
  <2>1. Tied(o, at, w)
    BY <1>2, EngineOf DEF at
  <2>2. /\ w[x.id] = x /\ place[x.id] = "waiting"
        /\ \A q \in Procs : q # x.id => place[q] = at[q] /\ w[q] = w[q]
    <3>1. at \in [Procs -> Stations] /\ place = [at EXCEPT ![p] = "waiting"]
      BY <1>2, <2>1 DEF Tied, Typed, After, at
    <3>2. w[p] = x
      BY <1>2, EngineOf DEF x
    <3> HIDE DEF w, place
    <3> QED
      BY <1>4, <3>1, <3>2
  <2>3. PICK Q \in SUBSET Elems(Line(o.waiters)) :
          Settles(HeldBy(o, at, w), Without(Line(o.waiters), Q),
                  HeldBy(c, at, w), Line(c.waiters))
    BY <1>2, ServedOrder DEF c, at
  <2>4. g = Enqueue(c, x)
    BY DEF g
  <2> HIDE DEF o, w, place
  <2>5. Moves(HeldBy(o, at, w), Line(o.waiters), HeldBy(g, place, w), Line(g.waiters))
    BY <1>1, <1>3, <1>4, <2>1, <2>2, <2>3, <2>4, WaitMoves DEF w
  <2> QED
    BY <2>5 DEF Shows, o, w, place, at
<1> QED
  BY <1>8, <1>9 DEF EngineMoves

\* p gives up in its select, or has been finished by then.
LEMMA GiveUpStep ==
  ASSUME KInv, NEW p \in Procs, GiveUp(p)
  PROVE  EngineMoves(p)
<1> DEFINE at == At(entry[p], entry, pc)
           c == CoreOf(p)
           g == CancelWaiter(c, p, dead)
<1>1. /\ pc[p] = "waiting" /\ pc' = [pc EXCEPT ![p] = "waiting"]
      /\ heap' = [heap EXCEPT ![entry[p]].core = g]
      /\ UNCHANGED <<entries, key, guarded, entry>> /\ dead' \subseteq Procs
  BY DEF GiveUp, SetCore, KInv, TypeOK
<1>2. pc[p] \in Referring /\ "waiting" \in Engaged
  BY <1>1 DEF Referring, Places, Engaged
<1>3. Tied(c, at, Wants(guarded)) /\ ~HeadCompatible(c) /\ at[p] = "waiting"
  BY <1>1, <1>2, EngineOf
<1>4. [at EXCEPT ![p] = "waiting"] = at
  <2>1. at \in [Procs -> Stations]
    BY <1>3 DEF Tied, Typed
  <2> HIDE DEF at
  <2> QED
    BY <1>3, <2>1
<1> HIDE DEF at, c
<1>5. /\ Tied(g, at, Wants(guarded)) /\ ~HeadCompatible(g)
      /\ \A q \in Procs : c.verdict[q] # "none" => g.verdict[q] = c.verdict[q]
  BY <1>3, GiveUpPreserves
<1> HIDE DEF g
<1>6. Advances(p, "waiting", g)
  BY <1>1, <1>2, <1>4, <1>5 DEF Advances, After, at, c
<1>7. Shows(p, "waiting", g)
  <2> DEFINE w == Wants(guarded)
  <2>1. g = CancelWaiter(c, p, dead) /\ p \in dead /\ Tied(c, at, w)
    BY <1>3 DEF g, GiveUp
  <2>2. After(p, "waiting") = at
    BY <1>2, <1>4 DEF After, at
  <2> HIDE DEF w
  <2>3. g = c \/ Moves(HeldBy(c, at, w), Line(c.waiters), HeldBy(g, at, w), Line(g.waiters))
    BY <1>3, <2>1, GiveUpMoves
  <2> QED
    BY <2>2, <2>3 DEF Shows, c, w, at
<1> QED
  BY <1>6, <1>7 DEF EngineMoves

\* p returns from acquire with what it was told.
LEMMA FinishStep ==
  ASSUME KInv, NEW p \in Procs, FinishWait(p)
  PROVE  EngineMoves(p)
<1> DEFINE at == At(entry[p], entry, pc)
           c == CoreOf(p)
           g == Told(c, p, "none")
           x == Attempt(p)
<1>1. /\ pc[p] = "waiting" /\ c.verdict[p] # "none"
      /\ UNCHANGED <<entries, key, guarded, entry>> /\ dead' \subseteq Procs
  BY DEF FinishWait, KInv, TypeOK
<1>2. /\ pc[p] \in Referring /\ {"waiting", "holding"} \subseteq Engaged
      /\ "failed" \notin Engaged /\ {"holding", "failed"} \subseteq Referring
      /\ entry[p] # NoEntry
  <2>1. pc[p] \in Referring
    BY <1>1 DEF Referring, Places
  <2> QED
    BY <2>1 DEF Referring, Places, Engaged, KInv, Linked
<1>3. /\ Tied(c, at, Wants(guarded)) /\ ~HeadCompatible(c) /\ at[p] = "waiting"
      /\ x \in Waiter /\ x.id = p /\ [Wants(guarded) EXCEPT ![p] = x] = Wants(guarded)
  BY <1>1, <1>2, EngineOf
<1>4. c.verdict \in [Procs -> Verdicts] /\ c \in Core /\ at \in [Procs -> Stations]
  BY <1>3 DEF Tied, Typed, Core
<1>5. CASE c.verdict[p] = "granted"
  <2>1. pc' = [pc EXCEPT ![p] = "holding"] /\ heap' = heap
    BY <1>2, <1>5 DEF FinishWait, GoTo, Owns
  <2>2. heap' = [heap EXCEPT ![entry[p]].core = c]
    BY <1>2, <2>1, CoreUnchanged
  <2> HIDE DEF at
  <2>3. [at EXCEPT ![p] = "waiting"] = at
    BY <1>3, <1>4
  <2> HIDE DEF c
  <2>4. Advances(p, "holding", c)
    BY <1>1, <1>2, <1>3, <1>5, <2>1, <2>2, <2>3 DEF Advances, After, at, c
  <2>5. Shows(p, "holding", c)
    BY <1>2, <2>3 DEF Shows, After, at, c
  <2> QED
    BY <2>4, <2>5 DEF EngineMoves
<1>6. CASE c.verdict[p] # "granted"
  <2>1. pc' = [pc EXCEPT ![p] = "failed"] /\ heap' = [heap EXCEPT ![entry[p]].core = g]
    BY <1>6 DEF FinishWait, GoTo, Owns, SetCore
  <2> HIDE DEF at, c, x
  <2>2. /\ Tied(g, [at EXCEPT ![p] = "idle"], [Wants(guarded) EXCEPT ![p] = x])
        /\ HeadCompatible(g) <=> HeadCompatible(c)
    <3>1. g = [c EXCEPT !.verdict = [c.verdict EXCEPT ![p] = "none"]]
      BY <1>4 DEF Told, Core
    <3>2. c.verdict[p] \notin {"none", "granted"}
      BY <1>1, <1>6
    <3> HIDE DEF g
    <3> QED
      BY <1>3, <3>1, <3>2, ReturnRejected
  <2>3. \A q \in Procs : q # p => g.verdict[q] = c.verdict[q]
    BY <1>4 DEF Told, Core
  <2> HIDE DEF g
  <2>4. Advances(p, "failed", g)
    BY <1>1, <1>2, <1>3, <2>1, <2>2, <2>3 DEF Advances, After, at, c
  <2>5. Shows(p, "failed", g)
    <3> DEFINE w == Wants(guarded)
               place == After(p, "failed")
    <3>1. g.waiters = c.waiters
      BY <1>4 DEF g, Told, Core
    <3>2. /\ place[p] = "idle" /\ \A q \in Procs : q # p => place[q] = at[q]
      BY <1>2, <1>4 DEF After, at
    <3> HIDE DEF w, place
    <3>3. ~OwnsIn(g, place, p) /\ ~OwnsIn(c, at, p)
      BY <1>3, <1>6, <3>2 DEF OwnsIn
    <3>4. \A q \in Procs : HeldBy(g, place, w)[q] = HeldBy(c, at, w)[q]
      BY <2>3, <3>2, <3>3 DEF HeldBy, OwnsIn
    <3>5. HeldBy(g, place, w) = HeldBy(c, at, w)
      BY <3>4, EachTheSame
    <3> QED
      BY <3>1, <3>5 DEF Shows, w, place, at, c
  <2> QED
    BY <2>4, <2>5 DEF EngineMoves
<1> QED
  BY <1>5, <1>6

\* Unlock finds the entry of the key that p holds, which is the one it acquired, and
\* the one its guard remembers.
LEMMA FindStep ==
  ASSUME KInv, NEW p \in Procs, FindEntry(p) \/ UnlockGuard(p)
  PROVE  EngineMoves(p)
<1> DEFINE at == At(entry[p], entry, pc)
           c == CoreOf(p)
<1>1. pc[p] = "holding" /\ UNCHANGED <<entries, heap, key, guarded, dead>>
  BY DEF FindEntry, UnlockGuard
<1>2. /\ pc[p] \in Referring /\ "found" \in Referring /\ {"holding", "found"} \subseteq Engaged
  BY <1>1 DEF Referring, Places, Engaged
<1>3. entries[key[p]] = entry[p] /\ entry[p] # NoEntry
  BY <1>2 DEF KInv, Linked
<1>4. entry' = entry /\ pc' = [pc EXCEPT ![p] = "found"]
  BY <1>3 DEF FindEntry, UnlockGuard, GoTo, KInv, TypeOK
<1>5. /\ Tied(c, at, Wants(guarded)) /\ ~HeadCompatible(c) /\ at[p] = "waiting"
  BY <1>1, <1>2, EngineOf
<1>6. heap' = [heap EXCEPT ![entry[p]].core = c]
  BY <1>1, <1>2, CoreUnchanged
<1>7. at \in [Procs -> Stations]
  BY <1>5 DEF Tied, Typed
<1>8. c.verdict[p] = "granted" /\ dead \subseteq Procs
  BY <1>1 DEF KInv, OwnersTold, CoreOf, TypeOK
<1> HIDE DEF at
<1>9. [at EXCEPT ![p] = "waiting"] = at
  BY <1>5, <1>7
<1> HIDE DEF c
<1>10. Advances(p, "found", c)
  BY <1>1, <1>2, <1>4, <1>5, <1>6, <1>8, <1>9 DEF Advances, After, at, c
<1>11. Shows(p, "found", c)
  BY <1>2, <1>9 DEF Shows, After, at, c
<1> QED
  BY <1>10, <1>11 DEF EngineMoves

\* An owner that unlocks ends its acquisition, and the next one in the queue has the key.
LEMMA ReleaseStep ==
  ASSUME KInv, NEW p \in Procs, ReleaseCore(p)
  PROVE  EngineMoves(p)
<1> DEFINE at == At(entry[p], entry, pc)
           c == CoreOf(p)
           attempt == IF guarded[p] THEN p ELSE NoAttempt
           g == Release(Told(c, p, "none"), "write", attempt, dead)
<1>1. pc[p] = "found" /\ UNCHANGED <<entries, key, guarded, entry, dead>>
  BY DEF ReleaseCore
<1>2. /\ pc[p] \in Referring /\ "released" \in Referring /\ "released" \notin Engaged
      /\ pc[p] \in Engaged
  BY <1>1 DEF Referring, Places, Engaged
<1>3. /\ Tied(c, at, Wants(guarded)) /\ at[p] = "waiting"
      /\ Wants(guarded)[p].mode = "write" /\ Wants(guarded)[p].guarded = guarded[p]
  <2>1. Wants(guarded)[p].mode = "write" /\ Wants(guarded)[p].guarded = guarded[p]
    BY DEF Wants
  <2> QED
    BY <1>1, <1>2, <2>1, EngineOf
<1>4. c.verdict[p] = "granted" /\ dead \subseteq Procs
  BY <1>1 DEF KInv, OwnersTold, CoreOf, TypeOK
<1> DEFINE w == Wants(guarded)
<1>5. attempt = IF w[p].guarded THEN p ELSE NoAttempt
  BY <1>3
<1> HIDE DEF at, c, attempt, w
<1>6. /\ ReleaseMatches(c, w[p].mode, attempt)
      /\ Tied(Release(Told(c, p, "none"), w[p].mode, attempt, dead), [at EXCEPT ![p] = "idle"], w)
      /\ ~HeadCompatible(Release(Told(c, p, "none"), w[p].mode, attempt, dead))
      /\ \A q \in Procs : q # p /\ c.verdict[q] # "none"
            => Release(Told(c, p, "none"), w[p].mode, attempt, dead).verdict[q] = c.verdict[q]
  BY <1>3, <1>4, <1>5, ReleasePreserves DEF w
<1>7. /\ ReleaseMatches(c, "write", attempt)
      /\ Tied(g, [at EXCEPT ![p] = "idle"], w) /\ ~HeadCompatible(g)
      /\ \A q \in Procs : q # p /\ c.verdict[q] # "none" => g.verdict[q] = c.verdict[q]
  BY <1>3, <1>6 DEF w
<1>8. pc' = [pc EXCEPT ![p] = "released"] /\ heap' = [heap EXCEPT ![entry[p]].core = g]
  BY <1>7 DEF ReleaseCore, c, attempt, GoTo, SetCore
<1> HIDE DEF g
<1>9. Advances(p, "released", g)
  BY <1>1, <1>2, <1>4, <1>7, <1>8 DEF Advances, After, at, c, w
<1>10. Shows(p, "released", g)
  <2> DEFINE place == After(p, "released")
  <2>1. /\ place \in [Procs -> Stations] /\ place[p] = "idle"
        /\ \A q \in Procs : q # p => place[q] = at[q]
    BY <1>2, <1>3 DEF After, at, Tied, Typed, Stations
  <2>2. g = Release(Told(c, p, "none"), w[p].mode, attempt, dead)
    BY <1>3 DEF g, w
  <2> HIDE DEF place
  <2>3. Moves(HeldBy(c, at, w), Line(c.waiters), HeldBy(g, place, w), Line(g.waiters))
    BY <1>3, <1>4, <1>5, <2>1, <2>2, ReleaseMoves DEF w
  <2> QED
    BY <2>3 DEF Shows, place, at, c, w
<1> QED
  BY <1>9, <1>10 DEF EngineMoves

-----------------------------------------------------------------------------
(* At the table *)

\* The step of p at the table: no engine that is known to a goroutine is touched, and p
\* itself is known to none before or after it.
AtTable(p) ==
  /\ pc[p] \notin Engaged /\ pc'[p] \in Places \ (Engaged \union {"panicked"})
  /\ entries' \in [Keys -> Entries \union {NoEntry}]
  /\ heap' \in [Entries -> [core : Core, references : Nat]]
  /\ pc' \in [Procs -> Places]
  /\ key' \in [Procs -> Keys \union {NoKey}]
  /\ guarded' \in [Procs -> BOOLEAN]
  /\ entry' \in [Procs -> Entries \union {NoEntry}]
  /\ dead' \subseteq Procs
  /\ \A q \in Procs : q # p => /\ pc'[q] = pc[q] /\ entry'[q] = entry[q]
                               /\ key'[q] = key[q] /\ guarded'[q] = guarded[q]
  /\ \A e \in Entries : \/ heap'[e].core = heap[e].core
                        \/ heap'[e].core = InitialCore /\ \A q \in Procs : q # p => entry[q] # e

\* Nor is anybody's place in the line for a key.
TableMoves(p) == AtTable(p) /\ \A k \in Keys : LineFor(k)' = LineFor(k)

\* The engines stay tied to the goroutines in them.
LEMMA TableKeepsEngines ==
  ASSUME KInv, NEW p \in Procs, AtTable(p)
  PROVE  TypeOK' /\ EnginesTied' /\ OwnersTold'
<1>1. TypeOK /\ EnginesTied /\ OwnersTold /\ Linked
  BY DEF KInv
<1>2. TypeOK'
  BY DEF AtTable, TypeOK
<1>3. EnginesTied'
  <2> SUFFICES ASSUME NEW e \in Entries
               PROVE  /\ Tied(heap'[e].core, At(e, entry', pc'), Wants(guarded'))
                      /\ ~HeadCompatible(heap'[e].core)
    BY DEF EnginesTied
  <2> DEFINE at == At(e, entry, pc)
             at2 == At(e, entry', pc')
             w2 == Wants(guarded')
  <2>1. /\ at2 \in [Procs -> Stations] /\ w2 \in [Procs -> Waiter]
        /\ \A q \in Procs : w2[q].id = q
    <3>1. guarded' \in [Procs -> BOOLEAN]
      BY DEF AtTable
    <3> QED
      BY <3>1, UsersTyped
  <2>2. /\ \A q \in Procs : at2[q] = at[q] /\ at2[q] \in {"waiting", "idle"}
        /\ at[p] = "idle"
    BY DEF AtTable, At
  <2>3. \A q \in Procs : q # p => w2[q] = Wants(guarded)[q]
    BY DEF AtTable, Wants
  <2>4. CASE heap'[e].core = heap[e].core
    <3>1. Tied(heap[e].core, at, Wants(guarded)) /\ ~HeadCompatible(heap[e].core)
      BY <1>1 DEF EnginesTied
    <3> HIDE DEF at, at2, w2
    <3>2. \A q \in Procs : at[q] \in {"waiting", "holding"} => w2[q] = Wants(guarded)[q]
      BY <2>2, <2>3
    <3>3. Tied(heap[e].core, at2, w2)
      BY <2>1, <2>2, <3>1, <3>2, SameUsers
    <3> QED
      BY <2>4, <3>1, <3>3 DEF at2, w2
  <2>5. CASE heap'[e].core = InitialCore /\ \A q \in Procs : q # p => entry[q] # e
    <3>1. \A q \in Procs : at2[q] = "idle"
      BY <2>2, <2>5 DEF At
    <3> HIDE DEF at2, w2
    <3>2. Tied(InitialCore, at2, w2) /\ ~HeadCompatible(InitialCore)
      BY <2>1, <3>1, InitialTied
    <3> QED
      BY <2>5, <3>2 DEF at2, w2
  <2> QED
    BY <2>4, <2>5 DEF AtTable
<1>4. OwnersTold'
  <2> SUFFICES ASSUME NEW q \in Procs
               PROVE  /\ pc'[q] \in {"holding", "found"}
                           => heap'[entry'[q]].core.verdict[q] = "granted"
                      /\ pc'[q] # "panicked"
    BY DEF OwnersTold
  <2>1. CASE q = p
    BY <2>1 DEF AtTable, Engaged
  <2>2. CASE q # p
    <3>1. pc'[q] = pc[q] /\ entry'[q] = entry[q] /\ guarded'[q] = guarded[q]
      BY <2>2 DEF AtTable
    <3>2. pc[q] \in {"holding", "found"} => entry[q] \in Entries
      BY <1>1 DEF TypeOK, Linked, Referring, Places
    <3>3. entry[q] \in Entries => heap'[entry[q]].core = heap[entry[q]].core
      BY <2>2 DEF AtTable
    <3> QED
      BY <1>1, <3>1, <3>2, <3>3 DEF OwnersTold
  <2> QED
    BY <2>1, <2>2
<1> QED
  BY <1>2, <1>3, <1>4

\* Contexts expire and calls are rejected before they reach the table; a refused caller
\* goes on; neither has a reference.
LEMMA ElsewhereStep ==
  ASSUME KInv, NEW p \in Procs, Expire(p) \/ RejectContext(p) \/ HandleRefusal(p)
  PROVE  /\ KInv'
         /\ UNCHANGED <<entries, heap, pc, key, guarded, entry>> \/ TableMoves(p)
<1>1. TypeOK /\ Linked /\ Counted /\ EnginesTied /\ OwnersTold
  BY DEF KInv
<1>2. CASE Expire(p) \/ RejectContext(p)
  <2>1. UNCHANGED <<entries, heap, pc, key, guarded, entry>> /\ dead' \subseteq Procs
    BY <1>1, <1>2 DEF Expire, RejectContext, TypeOK
  <2>2. TypeOK' /\ Linked' /\ EnginesTied' /\ OwnersTold'
    BY <1>1, <2>1 DEF TypeOK, Linked, ActiveKeys, EnginesTied, OwnersTold
  <2>3. ActiveKeys' = ActiveKeys /\ \A k : Users(k)' = Users(k)
    BY <2>1 DEF ActiveKeys, Users
  <2>4. Counted'
    BY <1>1, <2>1, <2>3 DEF Counted
  <2> QED
    BY <2>1, <2>2, <2>4 DEF KInv
<1>3. CASE HandleRefusal(p)
  <2>1. /\ pc[p] = "refused" /\ UNCHANGED <<entries, heap>>
        /\ pc' = [pc EXCEPT ![p] = "idle"] /\ key' = [key EXCEPT ![p] = NoKey]
        /\ guarded' = [guarded EXCEPT ![p] = FALSE] /\ entry' = [entry EXCEPT ![p] = NoEntry]
        /\ dead' = dead \ {p}
    BY <1>3 DEF HandleRefusal, Return, GoTo
  <2>2. AtTable(p)
    BY <1>1, <2>1 DEF AtTable, TypeOK, Places, Engaged
  <2>7. pc \in [Procs -> Places] /\ key \in [Procs -> Keys \union {NoKey}]
        /\ entry \in [Procs -> Entries \union {NoEntry}] /\ {"idle", "refused"} \cap Referring = {}
    BY <1>1 DEF TypeOK, Referring
  <2>3. \A q \in Procs : /\ pc'[q] \in Referring <=> pc[q] \in Referring
                         /\ pc[q] \in Referring => key'[q] = key[q]
                         /\ q # p => entry'[q] = entry[q]
    BY <2>1, <2>7
  <2>8. entry'[p] = NoEntry /\ pc'[p] \notin Referring
    BY <2>1, <2>7
  <2>4. Linked'
    BY <1>1, <2>1, <2>3, <2>8 DEF Linked, ActiveKeys
  <2>5. ActiveKeys' = ActiveKeys /\ \A k : Users(k)' = Users(k)
    BY <2>1, <2>3 DEF ActiveKeys, Users
  <2>6. Counted'
    BY <1>1, <2>1, <2>5 DEF Counted
  <2> QED
    BY <2>1, <2>2, <2>4, <2>6, TableKeepsEngines DEF KInv, TableMoves, LineFor
<1> QED
  BY <1>2, <1>3

\* The goroutines that use a key are finitely many.
LEMMA UsersFinite ==
  ASSUME NEW k
  PROVE  IsFiniteSet(Users(k)) /\ Cardinality(Users(k)) \in Nat
BY FiniteProcs DEF Users

\* What the steps of p out of its caller have in common.
LEMMA StartsTyped ==
  ASSUME KInv, NEW p \in Procs, NEW k \in Keys, NEW next \in {"referenced", "trying", "refused"},
         NEW g \in BOOLEAN, pc[p] = "idle", pc' = [pc EXCEPT ![p] = next],
         key' = [key EXCEPT ![p] = k], guarded' = [guarded EXCEPT ![p] = g]
  PROVE  /\ pc' \in [Procs -> Places] /\ pc'[p] = next
         /\ key' \in [Procs -> Keys \union {NoKey}] /\ key'[p] = k
         /\ guarded' \in [Procs -> BOOLEAN]
         /\ \A q \in Procs : q # p => /\ pc'[q] = pc[q] /\ key'[q] = key[q]
                                      /\ guarded'[q] = guarded[q]
         /\ pc[p] \notin Referring /\ pc[p] \notin Engaged /\ entry[p] = NoEntry
         /\ next \in Places \ (Engaged \union {"panicked"})
         /\ next \in Referring <=> next # "refused"
BY DEF KInv, TypeOK, Linked, Places, Referring, Engaged

\* One more reference to an entry that the table has.
LEMMA ShareStep ==
  ASSUME KInv, NEW p \in Procs, NEW k \in Keys, NEW next \in {"referenced", "trying"},
         NEW g \in BOOLEAN, Share(p, k, next, g)
  PROVE  KInv' /\ TableMoves(p)
<1> DEFINE e == entries[k]
<1>1. TypeOK /\ Linked /\ Counted /\ EnginesTied /\ OwnersTold
  BY DEF KInv
<1>2. /\ pc[p] = "idle" /\ pc' = [pc EXCEPT ![p] = next] /\ key' = [key EXCEPT ![p] = k]
      /\ guarded' = [guarded EXCEPT ![p] = g] /\ e # NoEntry
      /\ heap' = [heap EXCEPT ![e].references = @ + 1]
      /\ entry' = [entry EXCEPT ![p] = e] /\ UNCHANGED <<entries, dead>>
  BY DEF Share, Starts, GoTo
<1>3. /\ pc' \in [Procs -> Places] /\ pc'[p] = next
      /\ key' \in [Procs -> Keys \union {NoKey}] /\ key'[p] = k
      /\ guarded' \in [Procs -> BOOLEAN]
      /\ \A q \in Procs : q # p => /\ pc'[q] = pc[q] /\ key'[q] = key[q]
                                   /\ guarded'[q] = guarded[q]
      /\ pc[p] \notin Referring /\ pc[p] \notin Engaged
      /\ next \in Places \ (Engaged \union {"panicked"}) /\ next \in Referring
  BY <1>2, StartsTyped
<1>4. e \in Entries /\ k \in ActiveKeys /\ heap \in [Entries -> [core : Core, references : Nat]]
      /\ entry \in [Procs -> Entries \union {NoEntry}] /\ entries \in [Keys -> Entries \union {NoEntry}]
  BY <1>1, <1>2 DEF TypeOK, ActiveKeys
<1>5. /\ heap' \in [Entries -> [core : Core, references : Nat]]
      /\ \A d \in Entries : heap'[d].core = heap[d].core
      /\ \A d \in Entries : d # e => heap'[d].references = heap[d].references
      /\ heap'[e].references = heap[e].references + 1
  BY <1>2, <1>4
<1>6. /\ entry' \in [Procs -> Entries \union {NoEntry}] /\ entry'[p] = e
      /\ \A q \in Procs : q # p => entry'[q] = entry[q]
  BY <1>2, <1>4
<1>7. AtTable(p)
  BY <1>1, <1>2, <1>3, <1>5, <1>6 DEF AtTable, TypeOK
<1>8. ActiveKeys' = ActiveKeys
  BY <1>2 DEF ActiveKeys
<1>9. Linked'
  BY <1>1, <1>2, <1>3, <1>4, <1>6, <1>8 DEF Linked
<1>10. Counted'
  <2>1. \A j : Users(j)' = IF j = k THEN Users(k) \union {p} ELSE Users(j)
    BY <1>3 DEF Users
  <2>2. p \notin Users(k)
    BY <1>3 DEF Users
  <2>3. Cardinality(Users(k) \union {p}) = Cardinality(Users(k)) + 1
    BY <2>2, UsersFinite, FS_AddElement
  <2>4. \A j \in ActiveKeys : j # k => entries[j] # e /\ entries[j] \in Entries
    BY <1>1, <1>4 DEF Linked, ActiveKeys
  <2>5. heap[e].references = Cardinality(Users(k))
    BY <1>1, <1>4 DEF Counted
  <2> QED
    BY <1>1, <1>2, <1>5, <1>8, <2>1, <2>3, <2>4, <2>5 DEF Counted
<1>11. TableMoves(p)
  <2>1. \A j \in Keys : entries[j] # NoEntry => entries[j] \in Entries
    BY <1>4
  <2> QED
    BY <1>2, <1>5, <1>7, <2>1 DEF TableMoves, LineFor
<1> QED
  BY <1>7, <1>9, <1>10, <1>11, TableKeepsEngines DEF KInv

\* A new entry for a key that has none, while there is room.
LEMMA CreateStep ==
  ASSUME KInv, NEW p \in Procs, NEW k \in Keys, NEW next \in {"referenced", "trying"},
         NEW g \in BOOLEAN, NEW e \in Entries, Create(p, k, next, g, e)
  PROVE  KInv' /\ TableMoves(p)
<1>1. TypeOK /\ Linked /\ Counted /\ EnginesTied /\ OwnersTold
  BY DEF KInv
<1>2. /\ pc[p] = "idle" /\ pc' = [pc EXCEPT ![p] = next] /\ key' = [key EXCEPT ![p] = k]
      /\ guarded' = [guarded EXCEPT ![p] = g] /\ entries[k] = NoEntry
      /\ Cardinality(ActiveKeys) < MaxKeys
      /\ e \notin {entries[j] : j \in Keys} \union {entry[q] : q \in Procs}
      /\ heap' = [heap EXCEPT ![e] = [core |-> InitialCore, references |-> 1]]
      /\ entries' = [entries EXCEPT ![k] = e]
      /\ entry' = [entry EXCEPT ![p] = e] /\ dead' = dead
  BY DEF Create, Starts, GoTo
<1>3. /\ pc' \in [Procs -> Places] /\ pc'[p] = next
      /\ key' \in [Procs -> Keys \union {NoKey}] /\ key'[p] = k
      /\ guarded' \in [Procs -> BOOLEAN]
      /\ \A q \in Procs : q # p => /\ pc'[q] = pc[q] /\ key'[q] = key[q]
                                   /\ guarded'[q] = guarded[q]
      /\ pc[p] \notin Referring /\ pc[p] \notin Engaged
      /\ next \in Places \ (Engaged \union {"panicked"}) /\ next \in Referring
  BY <1>2, StartsTyped
<1>4. /\ heap \in [Entries -> [core : Core, references : Nat]]
      /\ entry \in [Procs -> Entries \union {NoEntry}]
      /\ entries \in [Keys -> Entries \union {NoEntry}]
      /\ e # NoEntry /\ InitialCore \in Core
  <2>1. <<>> \in Seq(Waiter)
    OBVIOUS
  <2>2. InitialCore \in Core
    BY <2>1, CoreAssumption DEF InitialCore, Core, Verdicts
  <2> QED
    BY <1>1, <2>2, KeyedAssumption DEF TypeOK
<1>5. /\ heap' \in [Entries -> [core : Core, references : Nat]]
      /\ heap'[e].core = InitialCore /\ heap'[e].references = 1
      /\ \A d \in Entries : d # e => heap'[d] = heap[d]
  BY <1>2, <1>4
<1>6. /\ entry' \in [Procs -> Entries \union {NoEntry}] /\ entry'[p] = e
      /\ \A q \in Procs : q # p => entry'[q] = entry[q]
      /\ entries' \in [Keys -> Entries \union {NoEntry}] /\ entries'[k] = e
      /\ \A j \in Keys : j # k => entries'[j] = entries[j]
      /\ \A j \in Keys : entries[j] # e
      /\ \A q \in Procs : entry[q] # e
  BY <1>2, <1>4
<1>7. AtTable(p)
  BY <1>1, <1>2, <1>3, <1>5, <1>6 DEF AtTable, TypeOK
<1>8. ActiveKeys' = ActiveKeys \union {k} /\ k \notin ActiveKeys
  BY <1>2, <1>4, <1>6 DEF ActiveKeys
<1>9. \A q \in Procs : pc[q] \in Referring => key[q] # k
  BY <1>1, <1>2 DEF Linked
<1>10. Linked'
  <2>1. ASSUME NEW q \in Procs
        PROVE  IF pc'[q] \in Referring
               THEN key'[q] \in Keys /\ entry'[q] = entries'[key'[q]] /\ entry'[q] # NoEntry
               ELSE entry'[q] = NoEntry
    <3>1. CASE q = p
      BY <1>3, <1>4, <1>6, <3>1
    <3>2. CASE q # p
      BY <1>1, <1>3, <1>6, <1>9, <3>2 DEF Linked
    <3> QED
      BY <3>1, <3>2
  <2>2. \A i, j \in ActiveKeys' : entries'[i] = entries'[j] => i = j
    BY <1>1, <1>6, <1>8 DEF Linked, ActiveKeys
  <2> QED
    BY <2>1, <2>2 DEF Linked
<1>11. Counted'
  <2>1. \A j : Users(j)' = IF j = k THEN {p} ELSE Users(j)
    BY <1>3, <1>9 DEF Users
  <2>2. Cardinality({p}) = 1
    BY FS_Singleton
  <2>3. \A j \in ActiveKeys : j # k /\ entries'[j] = entries[j] /\ entries[j] # e /\ entries[j] \in Entries
    BY <1>4, <1>6, <1>8 DEF ActiveKeys
  <2>4. Cardinality(ActiveKeys') <= MaxKeys
    <3>1. IsFiniteSet(ActiveKeys) /\ Cardinality(ActiveKeys) \in Nat
      BY FiniteKeys DEF ActiveKeys
    <3>2. Cardinality(ActiveKeys \union {k}) = Cardinality(ActiveKeys) + 1
      BY <1>8, <3>1, FS_AddElement
    <3> QED
      BY <1>2, <1>8, <3>1, <3>2, KeyedAssumption
  <2>5. ASSUME NEW j \in ActiveKeys'
        PROVE  Users(j)' # {} /\ heap'[entries'[j]].references = Cardinality(Users(j)')
    <3>1. CASE j = k
      BY <1>5, <1>6, <2>1, <2>2, <3>1
    <3>2. CASE j # k
      <4>1. j \in ActiveKeys
        BY <1>8, <3>2
      <4>2. Users(j)' = Users(j) /\ heap'[entries'[j]] = heap[entries[j]]
        BY <1>5, <2>1, <2>3, <3>2, <4>1
      <4> QED
        BY <1>1, <4>1, <4>2 DEF Counted
    <3> QED
      BY <3>1, <3>2
  <2> QED
    BY <2>4, <2>5 DEF Counted
<1>12. TableMoves(p)
  <2>1. LineFor(k) = <<>>
    BY <1>2 DEF LineFor
  <2>2. LineFor(k)' = <<>>
    <3>1. InitialCore.waiters = <<>> /\ <<>> \in Seq(Waiter)
      BY DEF InitialCore
    <3>2. Line(InitialCore.waiters) = <<>>
      BY <3>1, LineProperties
    <3>3. entries'[k] = e /\ e # NoEntry /\ heap'[e].core.waiters = InitialCore.waiters
      BY <1>4, <1>5, <1>6
    <3> QED
      BY <3>2, <3>3 DEF LineFor
  <2>3. \A j \in Keys : j # k => LineFor(j)' = LineFor(j)
    <3>1. \A j \in Keys : entries[j] # NoEntry => entries[j] \in Entries
      BY <1>4
    <3> QED
      BY <1>5, <1>6, <3>1 DEF LineFor
  <2> QED
    BY <1>7, <2>1, <2>2, <2>3 DEF TableMoves
<1> QED
  BY <1>7, <1>10, <1>11, <1>12, TableKeepsEngines DEF KInv

\* A call that is refused leaves no trace.
LEMMA RefuseStep ==
  ASSUME KInv, NEW p \in Procs, NEW k \in Keys, NEW next \in {"referenced", "trying"},
         NEW g \in BOOLEAN, RefuseKey(p, k, next, g)
  PROVE  KInv' /\ TableMoves(p)
<1>1. TypeOK /\ Linked /\ Counted /\ EnginesTied /\ OwnersTold
  BY DEF KInv
<1>2. /\ pc[p] = "idle" /\ pc' = [pc EXCEPT ![p] = "refused"] /\ key' = [key EXCEPT ![p] = k]
      /\ guarded' = [guarded EXCEPT ![p] = g] /\ UNCHANGED <<entries, heap, entry, dead>>
  BY DEF RefuseKey, Starts, GoTo
<1>3. /\ pc' \in [Procs -> Places] /\ pc'[p] = "refused"
      /\ key' \in [Procs -> Keys \union {NoKey}]
      /\ guarded' \in [Procs -> BOOLEAN]
      /\ \A q \in Procs : q # p => /\ pc'[q] = pc[q] /\ key'[q] = key[q]
                                   /\ guarded'[q] = guarded[q]
      /\ pc[p] \notin Referring /\ pc[p] \notin Engaged /\ entry[p] = NoEntry
      /\ "refused" \in Places \ (Engaged \union {"panicked"}) /\ "refused" \notin Referring
  BY <1>2, StartsTyped
<1>4. AtTable(p)
  BY <1>1, <1>2, <1>3 DEF AtTable, TypeOK
<1>5. ActiveKeys' = ActiveKeys /\ \A j : Users(j)' = Users(j)
  BY <1>2, <1>3 DEF ActiveKeys, Users
<1>6. Linked' /\ Counted'
  BY <1>1, <1>2, <1>3, <1>5 DEF Linked, Counted
<1>7. TableMoves(p)
  BY <1>2, <1>4 DEF TableMoves, LineFor
<1> QED
  BY <1>4, <1>6, <1>7, TableKeepsEngines DEF KInv

\* The reference that p gives back is one that was counted, and the entry goes with the
\* last one.
LEMMA GiveBackStep ==
  ASSUME KInv, NEW p \in Procs, ReleaseReference(p)
  PROVE  KInv' /\ TableMoves(p)
<1> DEFINE k == key[p]
           e == entry[p]
           remaining == heap[e].references - 1
<1>1. TypeOK /\ Linked /\ Counted /\ EnginesTied /\ OwnersTold
  BY DEF KInv
<1>2. pc[p] \in {"failed", "released"} /\ pc[p] \in Referring /\ pc[p] \notin Engaged
  BY DEF ReleaseReference, Referring, Places, Engaged
<1>3. /\ heap \in [Entries -> [core : Core, references : Nat]] /\ pc \in [Procs -> Places]
      /\ entry \in [Procs -> Entries \union {NoEntry}]
      /\ entries \in [Keys -> Entries \union {NoEntry}]
      /\ key \in [Procs -> Keys \union {NoKey}] /\ guarded \in [Procs -> BOOLEAN]
      /\ dead \subseteq Procs
  BY <1>1 DEF TypeOK
<1>4. /\ k \in Keys /\ e \in Entries /\ e = entries[k] /\ e # NoEntry
  BY <1>1, <1>2, <1>3 DEF Linked
<1>5. k \in ActiveKeys /\ p \in Users(k) /\ heap[e].references = Cardinality(Users(k))
  BY <1>1, <1>2, <1>4 DEF ActiveKeys, Users, Counted
<1>6. /\ remaining = Cardinality(Users(k) \ {p}) /\ remaining \in Nat
      /\ remaining = 0 <=> Users(k) \ {p} = {}
  <2>1. IsFiniteSet(Users(k)) /\ IsFiniteSet(Users(k) \ {p})
    BY UsersFinite, FS_Subset
  <2>2. Cardinality(Users(k) \ {p}) = Cardinality(Users(k)) - 1
    BY <1>5, <2>1, FS_RemoveElement
  <2>3. Cardinality(Users(k) \ {p}) \in Nat
    BY <2>1, FS_CardinalityType
  <2>4. Cardinality(Users(k) \ {p}) = 0 <=> Users(k) \ {p} = {}
    BY <2>1, FS_EmptySet
  <2> QED
    BY <1>5, <2>2, <2>3, <2>4
<1>7. /\ heap' = [heap EXCEPT ![e].references = remaining]
      /\ entries' = [entries EXCEPT ![k] = IF remaining = 0 THEN NoEntry ELSE @]
      /\ pc' = [pc EXCEPT ![p] = "idle"] /\ key' = [key EXCEPT ![p] = NoKey]
      /\ guarded' = [guarded EXCEPT ![p] = FALSE] /\ entry' = [entry EXCEPT ![p] = NoEntry]
      /\ dead' = dead \ {p}
  BY <1>4, <1>6 DEF ReleaseReference, Return, GoTo
<1> HIDE DEF remaining
<1>8. /\ heap' \in [Entries -> [core : Core, references : Nat]]
      /\ \A d \in Entries : heap'[d].core = heap[d].core
      /\ \A d \in Entries : d # e => heap'[d].references = heap[d].references
      /\ heap'[e].references = remaining
  BY <1>3, <1>4, <1>6, <1>7
<1>9. /\ entries' \in [Keys -> Entries \union {NoEntry}]
      /\ \A j \in Keys : j # k => entries'[j] = entries[j]
      /\ entries'[k] = IF remaining = 0 THEN NoEntry ELSE e
  BY <1>3, <1>4, <1>7
<1>10. /\ pc' \in [Procs -> Places] /\ pc'[p] = "idle" /\ "idle" \notin Referring
       /\ "idle" \in Places \ (Engaged \union {"panicked"})
       /\ key' \in [Procs -> Keys \union {NoKey}] /\ guarded' \in [Procs -> BOOLEAN]
       /\ entry' \in [Procs -> Entries \union {NoEntry}] /\ entry'[p] = NoEntry
       /\ \A q \in Procs : q # p => /\ pc'[q] = pc[q] /\ entry'[q] = entry[q]
                                    /\ key'[q] = key[q] /\ guarded'[q] = guarded[q]
  BY <1>3, <1>7 DEF Places, Referring, Engaged
<1>11. AtTable(p)
  BY <1>2, <1>3, <1>7, <1>8, <1>9, <1>10 DEF AtTable
<1>12. \A j \in Keys : Users(j)' = IF j = k THEN Users(k) \ {p} ELSE Users(j)
  BY <1>10 DEF Users
<1>13. /\ \A j \in Keys : j # k => (j \in ActiveKeys' <=> j \in ActiveKeys)
       /\ k \in ActiveKeys' <=> remaining # 0
       /\ ActiveKeys' \subseteq ActiveKeys
  BY <1>4, <1>5, <1>9 DEF ActiveKeys
<1>14. Linked'
  <2>1. ASSUME NEW q \in Procs
        PROVE  IF pc'[q] \in Referring
               THEN key'[q] \in Keys /\ entry'[q] = entries'[key'[q]] /\ entry'[q] # NoEntry
               ELSE entry'[q] = NoEntry
    <3>1. CASE q = p
      BY <1>10, <3>1
    <3>2. CASE q # p /\ pc[q] \in Referring
      <4>1. key[q] = k => q \in Users(k) \ {p}
        BY <3>2 DEF Users
      <4>2. key[q] = k => remaining # 0
        BY <1>6, <4>1
      <4> QED
        BY <1>1, <1>4, <1>9, <1>10, <3>2, <4>2 DEF Linked
    <3>3. CASE q # p /\ pc[q] \notin Referring
      BY <1>1, <1>10, <3>3 DEF Linked
    <3> QED
      BY <3>1, <3>2, <3>3
  <2>2. \A i, j \in ActiveKeys' : entries'[i] = entries'[j] => i = j
    <3>1. \A i \in ActiveKeys' : i \in ActiveKeys /\ entries'[i] = entries[i]
      BY <1>4, <1>9, <1>13 DEF ActiveKeys
    <3> QED
      BY <1>1, <3>1 DEF Linked
  <2> QED
    BY <2>1, <2>2 DEF Linked
<1>15. Counted'
  <2>1. ASSUME NEW j \in ActiveKeys'
        PROVE  Users(j)' # {} /\ heap'[entries'[j]].references = Cardinality(Users(j)')
    <3>1. j \in ActiveKeys /\ j \in Keys
      BY <1>13 DEF ActiveKeys
    <3>2. CASE j = k
      BY <1>6, <1>8, <1>9, <1>12, <1>13, <3>1, <3>2
    <3>3. CASE j # k
      <4>1. entries[j] # e /\ entries[j] \in Entries
        BY <1>1, <1>3, <1>4, <1>5, <3>1, <3>3 DEF Linked, ActiveKeys
      <4> QED
        BY <1>1, <1>8, <1>9, <1>12, <3>1, <3>3, <4>1 DEF Counted
    <3> QED
      BY <3>2, <3>3
  <2>2. Cardinality(ActiveKeys') <= MaxKeys
    <3>1. IsFiniteSet(ActiveKeys) /\ Cardinality(ActiveKeys) \in Nat
          /\ Cardinality(ActiveKeys') \in Nat
      BY <1>13, FiniteKeys DEF ActiveKeys
    <3>2. Cardinality(ActiveKeys') <= Cardinality(ActiveKeys)
      BY <1>13, <3>1, FS_Subset
    <3> QED
      BY <1>1, <3>1, <3>2, KeyedAssumption DEF Counted
  <2> QED
    BY <2>1, <2>2 DEF Counted
\* When p was the last to refer to the entry, nobody was in line for its key.
<1>16. TableMoves(p)
  <2> PICK u \in Keys : u = k
    BY <1>4
  <2>1. \A j \in Keys : entries[j] # NoEntry => entries[j] \in Entries
    BY <1>3
  <2>2. \A j \in Keys : j # k => LineFor(j)' = LineFor(j)
    BY <1>8, <1>9, <2>1 DEF LineFor
  <2>3. CASE remaining # 0
    <3>1. entries'[u] = entries[u] /\ heap'[entries[u]].core = heap[entries[u]].core
      BY <1>4, <1>8, <1>9, <2>3
    <3>2. LineFor(u)' = LineFor(u)
      BY <3>1 DEF LineFor
    <3> QED
      BY <1>11, <2>2, <3>2 DEF TableMoves
  <2>4. CASE remaining = 0
    <3>1. LineFor(u)' = <<>>
      BY <1>9, <2>4 DEF LineFor
    <3> DEFINE c == heap[e].core
               at == At(e, entry, pc)
               w == Wants(guarded)
    <3>2. Tied(c, at, w)
      BY <1>1, <1>4 DEF EnginesTied
    <3>3. \A q \in Procs : at[q] # "waiting"
      <4>1. ASSUME NEW q \in Procs, entry[q] = e, pc[q] \in Engaged PROVE FALSE
        <5>1. pc[q] \in Referring
          BY <4>1 DEF Engaged, Referring, Places
        <5>2. key[q] \in ActiveKeys /\ entries[key[q]] = entries[k]
          BY <1>1, <1>4, <4>1, <5>1 DEF Linked, ActiveKeys
        <5>3. key[q] = k
          BY <1>1, <1>5, <5>2 DEF Linked
        <5>4. q \in Users(k) \ {p}
          BY <1>2, <4>1, <5>1, <5>3 DEF Users
        <5> QED
          BY <1>6, <2>4, <5>4
      <4> QED
        BY <4>1 DEF At
    <3>4. c.waiters \in Seq(Waiter)
      BY <3>2 DEF Tied, Typed, Core
    <3> HIDE DEF c, at, w
    <3>5. Elems(c.waiters) = {}
      BY <3>2, <3>3 DEF Tied, QueueTied, QueuedIn
    <3>6. c.waiters = <<>>
      <4>1. c.waiters # <<>> => 1 \in DOMAIN c.waiters
        BY <3>4
      <4> QED
        BY <3>5, <4>1 DEF Elems
    <3>7. Line(c.waiters) = <<>>
      BY <3>4, <3>6, LineProperties
    <3>8. LineFor(u) = <<>>
      BY <1>4, <3>7 DEF LineFor, c
    <3> QED
      BY <1>11, <2>2, <3>1, <3>8 DEF TableMoves
  <2> QED
    BY <2>3, <2>4
<1> QED
  BY <1>11, <1>14, <1>15, <1>16, TableKeepsEngines DEF KInv

-----------------------------------------------------------------------------

\* What a step may be to the table and the engines.
StepsApart ==
  \/ UNCHANGED <<entries, heap, pc, key, guarded, entry>>
  \/ \E p \in Procs : TableMoves(p) \/ EngineMoves(p)

\* Every step of every goroutine keeps the table and the engines tied, and is one at the
\* table or in one engine.
LEMMA StepKeyed == KInv /\ [Next]_vars => KInv' /\ StepsApart
<1> SUFFICES ASSUME KInv, [Next]_vars PROVE KInv' /\ StepsApart
  OBVIOUS
<1>1. CASE UNCHANGED vars
  <2>1. KInv'
    BY <1>1 DEF vars, KInv, TypeOK, Linked, Counted, EnginesTied, OwnersTold, ActiveKeys, Users
  <2> QED
    BY <1>1, <2>1 DEF vars, StepsApart
<1>2. ASSUME NEW p \in Procs, EngineMoves(p) PROVE KInv' /\ StepsApart
  BY <1>2, EngineStep DEF StepsApart
<1>3. ASSUME NEW p \in Procs, Expire(p) \/ RejectContext(p) \/ HandleRefusal(p)
      PROVE  KInv' /\ StepsApart
  BY <1>3, ElsewhereStep DEF StepsApart
<1>4. ASSUME NEW p \in Procs, NEW k \in Keys, NEW next \in {"referenced", "trying"},
             NEW g \in BOOLEAN, Share(p, k, next, g) \/ RefuseKey(p, k, next, g)
      PROVE  KInv' /\ StepsApart
  BY <1>4, ShareStep, RefuseStep DEF StepsApart
<1>5. ASSUME NEW p \in Procs, NEW k \in Keys, NEW next \in {"referenced", "trying"},
             NEW g \in BOOLEAN, NEW e \in Entries, Create(p, k, next, g, e)
      PROVE  KInv' /\ StepsApart
  BY <1>5, CreateStep DEF StepsApart
<1>6. ASSUME NEW p \in Procs, ReleaseReference(p) PROVE KInv' /\ StepsApart
  BY <1>6, GiveBackStep DEF StepsApart
<1>7. ASSUME NEW p \in Procs, FindEntry(p) \/ UnlockGuard(p) \/ AcquireExpired(p) \/ TryFail(p)
      PROVE  EngineMoves(p)
  BY <1>7, FindStep, FailStep
<1>8. ASSUME NEW p \in Procs, AcquireAtOnce(p) \/ TrySucceed(p) \/ AcquireWait(p)
      PROVE  EngineMoves(p)
  BY <1>8, TakeStep, EnqueueStep
<1>9. ASSUME NEW p \in Procs, GiveUp(p) \/ FinishWait(p) \/ ReleaseCore(p)
      PROVE  EngineMoves(p)
  BY <1>9, GiveUpStep, FinishStep, ReleaseStep
<1> QED
  BY <1>1, <1>2, <1>3, <1>4, <1>5, <1>6, <1>7, <1>8, <1>9 DEF Next

\* The invariant of the table holds in every state of every behaviour.
THEOREM KeyedInvariant == Spec => []KInv
<1> QED
  BY InitKeyed, StepKeyed, PTL DEF Spec

-----------------------------------------------------------------------------
(* What the invariant says of the keyed lock *)

\* Every variable keeps to its type; in particular no entry's reference count is ever
\* negative.
THEOREM KeyedTypeCorrect == Spec => []TypeOK
<1>1. KInv => TypeOK
  BY DEF KInv
<1> QED
  BY <1>1, KeyedInvariant, PTL

\* However often the entry of a key is dropped and made anew, a key has one owner.
THEOREM OneOwnerPerKey == Spec => []KeyExclusion
<1>1. ASSUME KInv PROVE KeyExclusion
  <2> SUFFICES ASSUME NEW p \in Procs, NEW q \in Procs, Owns(p), Owns(q), key[p] = key[q]
               PROVE  p = q
    BY DEF KeyExclusion
  <2>1. \A r \in Procs : Owns(r) => pc[r] \in Referring /\ entry[r] = entries[key[r]]
    BY <1>1 DEF KInv, Linked, Owns
  <2>2. /\ entry[p] = entry[q] /\ entry[p] \in Entries
        /\ Tied(CoreOf(p), At(entry[p], entry, pc), Wants(guarded))
    BY <1>1, <2>1, EngineOf
  <2> DEFINE at == At(entry[p], entry, pc)
             c == CoreOf(p)
  <2>3. c.verdict[p] = "granted" /\ c.verdict[q] = "granted"
    BY <2>2 DEF Owns, CoreOf
  <2>4. \A r \in Procs : at[r] \in {"waiting", "idle"} /\ Wants(guarded)[r].mode = "write"
    BY DEF At, Wants
  <2> HIDE DEF at, c
  <2>5. at[p] = "waiting" /\ at[q] = "waiting"
    BY <2>2, <2>3, <2>4 DEF Tied, Typed, at, c
  <2>6. {p, q} \subseteq WritersIn(c, at, Wants(guarded))
    BY <2>3, <2>4, <2>5 DEF WritersIn, OwnsIn
  <2> QED
    BY <2>2, <2>6 DEF Tied, Exclusive, at, c
<1> QED
  BY <1>1, KeyedInvariant, PTL

\* A goroutine blocked on a key without a verdict waits for a goroutine that owns that
\* key, whatever became of the entries of the key before.
KeyWaitersHaveAnOwner ==
  \A p \in Procs : pc[p] = "waiting" /\ CoreOf(p).verdict[p] = "none" =>
    \E q \in Procs : Owns(q) /\ key[q] = key[p]

\* No waiter is left on an entry that nobody will release.
THEOREM NobodyStrandedOnAKey == Spec => []KeyWaitersHaveAnOwner
<1>1. ASSUME KInv PROVE KeyWaitersHaveAnOwner
  <2> SUFFICES ASSUME NEW p \in Procs, pc[p] = "waiting", CoreOf(p).verdict[p] = "none"
               PROVE  \E q \in Procs : Owns(q) /\ key[q] = key[p]
    BY DEF KeyWaitersHaveAnOwner
  <2> DEFINE at == At(entry[p], entry, pc)
             c == CoreOf(p)
  <2>0. pc[p] \in Referring /\ Engaged \subseteq Referring
    BY DEF Referring, Places, Engaged
  <2>1. Tied(c, at, Wants(guarded)) /\ ~HeadCompatible(c)
    BY <1>1, <2>0, EngineOf
  <2>2. \A r \in Procs : at[r] = "waiting" \/ at[r] = "idle"
    BY DEF At
  <2>3. \A r \in Procs : at[r] = "waiting" => entry[r] = entry[p] /\ pc[r] \in Engaged
    BY DEF At
  <2>4. at[p] = "waiting"
    BY DEF At, Engaged
  <2> HIDE DEF at, c
  <2>5. QueuedIn(c, at) # {}
    BY <2>4 DEF QueuedIn, c
  <2>6. PICK q \in Procs : OwnsIn(c, at, q)
    BY <2>1, <2>5, SomebodyOwns
  <2>7. entry[q] = entry[p] /\ c.verdict[q] = "granted" /\ pc[q] \in Engaged
    BY <2>2, <2>3, <2>6 DEF OwnsIn
  <2>8. key[q] = key[p]
    BY <1>1, <2>0, <2>7 DEF KInv, Linked, ActiveKeys
  <2> QED
    BY <1>1, <2>0, <2>7, <2>8 DEF KInv, Linked, Owns, CoreOf, c
<1> QED
  BY <1>1, KeyedInvariant, PTL

\* References are counted exactly, on every path of every call and for any number of
\* callers.
THEOREM ReferencesCounted == Spec => []ReferencesMatchUsers
<1>1. KInv => ReferencesMatchUsers
  BY DEF KInv, Linked, Counted, Users, ReferencesMatchUsers
<1> QED
  BY <1>1, KeyedInvariant, PTL

\* No owner that unlocks finds its entry, its acquisition or its reference gone.
THEOREM KeyedUnlockIsMatched == Spec => []NoUnlockPanic
<1>1. KInv => NoUnlockPanic
  BY DEF KInv, OwnersTold, NoUnlockPanic
<1> QED
  BY <1>1, KeyedInvariant, PTL

\* The keys with an entry are the keys in use.
LEMMA ActiveKeysInUse == KInv => KeysInUse = ActiveKeys /\ Cardinality(ActiveKeys) <= MaxKeys
<1> SUFFICES ASSUME KInv PROVE KeysInUse = ActiveKeys /\ Cardinality(ActiveKeys) <= MaxKeys
  OBVIOUS
<1>1. Linked /\ Counted /\ TypeOK
  BY DEF KInv
<1>2. ASSUME NEW k \in KeysInUse PROVE k \in ActiveKeys
  BY <1>1, <1>2 DEF Linked, KeysInUse, ActiveKeys
<1>3. ASSUME NEW k \in ActiveKeys PROVE k \in KeysInUse
  BY <1>1, <1>3 DEF Counted, KeysInUse, Users
<1> QED
  BY <1>1, <1>2, <1>3 DEF Counted

\* A key is refused for the sake of MaxKeys keys in use and for nothing else.
THEOREM RefusalIsJustified == Spec => RefusedForKeysInUse
<1> DEFINE InUse == KeysInUse = ActiveKeys /\ Cardinality(ActiveKeys) <= MaxKeys
           Justified ==
             /\ Cardinality(KeysInUse') <= MaxKeys
             /\ \A p \in Procs : pc[p] # "refused" /\ pc'[p] = "refused"
                                  => Cardinality(KeysInUse) = MaxKeys
<1>1. ASSUME KInv, InUse, InUse', [Next]_vars PROVE [Justified]_vars
  <2>1. pc \in [Procs -> Places]
    BY <1>1 DEF KInv, TypeOK
  <2>2. ASSUME NEW p \in Procs, pc[p] # "refused", pc'[p] = "refused", Next
        PROVE  Cardinality(ActiveKeys) >= MaxKeys
    <3>1. PICK q \in Procs :
            \/ Expire(q) \/ RejectContext(q)
            \/ \E k \in Keys, next \in {"referenced", "trying"}, g \in BOOLEAN :
                 \/ Share(q, k, next, g) \/ RefuseKey(q, k, next, g)
                 \/ \E e \in Entries : Create(q, k, next, g, e)
            \/ HandleRefusal(q) \/ FindEntry(q) \/ UnlockGuard(q) \/ ReleaseReference(q)
            \/ AcquireExpired(q) \/ AcquireAtOnce(q) \/ AcquireWait(q)
            \/ GiveUp(q) \/ FinishWait(q) \/ TrySucceed(q) \/ TryFail(q) \/ ReleaseCore(q)
      BY <2>2 DEF Next
    <3>2. ~(Expire(q) \/ RejectContext(q) \/ GiveUp(q))
      BY <2>2 DEF Expire, RejectContext, GiveUp
    <3>3. ~(HandleRefusal(q) \/ FindEntry(q) \/ UnlockGuard(q) \/ ReleaseReference(q))
      BY <2>1, <2>2 DEF HandleRefusal, FindEntry, UnlockGuard, ReleaseReference, Return, GoTo
    <3>4. ~(AcquireExpired(q) \/ AcquireAtOnce(q) \/ AcquireWait(q) \/ FinishWait(q))
      BY <2>1, <2>2 DEF AcquireExpired, AcquireAtOnce, AcquireWait, FinishWait, GoTo
    <3>5. ~(TrySucceed(q) \/ TryFail(q) \/ ReleaseCore(q))
      BY <2>1, <2>2 DEF TrySucceed, TryFail, ReleaseCore, GoTo
    <3>6. ASSUME NEW k \in Keys, NEW next \in {"referenced", "trying"}, NEW g \in BOOLEAN
          PROVE  ~Share(q, k, next, g) /\ \A e \in Entries : ~Create(q, k, next, g, e)
      BY <2>1, <2>2 DEF Share, Create, GoTo
    <3> QED
      BY <3>1, <3>2, <3>3, <3>4, <3>5, <3>6 DEF RefuseKey
  <2>3. Cardinality(ActiveKeys) \in Nat /\ MaxKeys \in Nat
    BY FiniteKeys, KeyedAssumption DEF ActiveKeys
  <2> QED
    BY <1>1, <2>2, <2>3 DEF vars
<1>2. KInv => InUse
  BY ActiveKeysInUse
<1>3. [][Justified]_vars => RefusedForKeysInUse
  BY PTL DEF RefusedForKeysInUse
<1> QED
  BY <1>1, <1>2, <1>3, KeyedInvariant, PTL DEF Spec

\* Whenever a goroutine may create an entry for a key, some address is free: the bound
\* on Entries keeps no step of referenceEntry from happening.
AllocationNeverFails ==
  \A p \in Procs, k \in Keys :
    pc[p] = "idle" /\ entries[k] = NoEntry /\ Cardinality(ActiveKeys) < MaxKeys
      => \E e \in Entries :
           e \notin {entries[j] : j \in Keys} \union {entry[q] : q \in Procs}

\* An entry in use is that of one active key, and some goroutine other than the idle p
\* works on it: were all of Entries taken, they would be fewer than the keys that may
\* be in use and fewer than the goroutines.
LEMMA FreeEntry == KInv => AllocationNeverFails
<1> DEFINE Taken(e) == \/ \E j \in Keys : entries[j] = e
                       \/ \E q \in Procs : entry[q] = e
<1> SUFFICES ASSUME KInv, NEW p \in Procs, NEW k \in Keys, pc[p] = "idle",
                    Cardinality(ActiveKeys) < MaxKeys, \A e \in Entries : Taken(e)
             PROVE  FALSE
  BY DEF AllocationNeverFails
<1>1. Linked /\ Counted /\ TypeOK
  BY DEF KInv
<1>2. /\ NoEntry \notin Entries /\ IsFiniteSet(Entries) /\ Cardinality(Entries) \in Nat
      /\ MaxKeys \in Nat
      /\ Cardinality(Entries) >= Cardinality(Procs) \/ Cardinality(Entries) >= MaxKeys
  BY KeyedAssumption, FS_CardinalityType
<1>3. ASSUME NEW e \in Entries
      PROVE  \E j \in ActiveKeys : entries[j] = e
  <2>1. Taken(e)
    OBVIOUS
  <2> QED
    BY <1>1, <1>2, <2>1 DEF Linked, ActiveKeys
<1>4. ASSUME NEW e \in Entries
      PROVE  \E q \in Procs \ {p} : pc[q] \in Referring /\ entry[q] = e
  <2>1. PICK j \in ActiveKeys : entries[j] = e
    BY <1>3
  <2>2. PICK q \in Users(j) : TRUE
    BY <1>1 DEF Counted
  <2>3. q \in Procs /\ pc[q] \in Referring /\ entry[q] = e
    BY <1>1, <2>1, <2>2 DEF Users, Linked
  <2> QED
    BY <2>3 DEF Referring
<1>5. Cardinality(Entries) < MaxKeys
  <2> DEFINE keyOf == [e \in Entries |-> CHOOSE j \in ActiveKeys : entries[j] = e]
  <2>1. keyOf \in [Entries -> ActiveKeys] /\ \A e \in Entries : entries[keyOf[e]] = e
    BY <1>3
  <2>2. ~(Cardinality(ActiveKeys) < Cardinality(Entries))
    <3> SUFFICES ASSUME Cardinality(ActiveKeys) < Cardinality(Entries) PROVE FALSE
      OBVIOUS
    <3>1. IsFiniteSet(ActiveKeys)
      BY FiniteKeys DEF ActiveKeys
    <3>2. \E d, e \in Entries : d # e /\ keyOf[d] = keyOf[e]
      <4> HIDE DEF keyOf
      <4> QED
        BY <1>2, <2>1, <3>1, FS_PigeonHole
    <3> QED
      BY <2>1, <3>2
  <2>3. Cardinality(ActiveKeys) \in Nat
    BY FiniteKeys DEF ActiveKeys
  <2> QED
    BY <1>2, <2>2, <2>3
<1>6. Cardinality(Entries) < Cardinality(Procs)
  <2> DEFINE userOf == [e \in Entries |->
                          CHOOSE q \in Procs \ {p} : pc[q] \in Referring /\ entry[q] = e]
  <2>1. userOf \in [Entries -> Procs \ {p}] /\ \A e \in Entries : entry[userOf[e]] = e
    BY <1>4
  <2>2. /\ IsFiniteSet(Procs \ {p}) /\ Cardinality(Procs \ {p}) = Cardinality(Procs) - 1
        /\ Cardinality(Procs) \in Nat
    BY CoreAssumption, FS_RemoveElement, FS_CardinalityType
  <2>3. ~(Cardinality(Procs \ {p}) < Cardinality(Entries))
    <3> SUFFICES ASSUME Cardinality(Procs \ {p}) < Cardinality(Entries) PROVE FALSE
      OBVIOUS
    <3>1. \E d, e \in Entries : d # e /\ userOf[d] = userOf[e]
      <4> HIDE DEF userOf
      <4> QED
        BY <1>2, <2>1, <2>2, FS_PigeonHole
    <3> QED
      BY <2>1, <3>1
  <2> QED
    BY <1>2, <2>2, <2>3
<1> QED
  BY <1>2, <1>5, <1>6, CoreAssumption, FS_CardinalityType

\* The model has an address for every entry the code would allocate.
THEOREM EntriesSuffice == Spec => []AllocationNeverFails
  BY FreeEntry, KeyedInvariant, PTL

-----------------------------------------------------------------------------
(* Every key is a FIFO lock *)

\* FIFOLock reads lines, and tells who fits, as RWCoreProofs does.
LEMMA SameLines ==
  ASSUME NEW k \in Keys
  PROVE  /\ \A s : Key(k)!Elems(s) = Elems(s)
         /\ \A s, D : Key(k)!Without(s, D) = Without(s, D)
         /\ \A h, s, n : Key(k)!Admissible(h, s, n) <=> Fits(h, s, n)
<1>1. \A s : Key(k)!Elems(s) = Elems(s)
  BY DEF Key!Elems, Elems
<1>2. \A s, D : Key(k)!Without(s, D) = Without(s, D)
  BY DEF Key!Without, Without, Key!Rank, Rank, Key!Kept, Kept, Key!Cardinality, Cardinality
<1>3. \A h, s, n : Key(k)!Admissible(h, s, n) <=> Fits(h, s, n)
  BY DEF Key!Admissible, Fits, Key!Free, Key!NoWriter
<1> QED
  BY <1>1, <1>2, <1>3

\* What FIFOLock admits is a longest prefix that fits.
LEMMA AdmittedFits ==
  ASSUME NEW k \in Keys, NEW h, NEW s, NEW j, NEW t, Settles(h, s, j, t),
         NEW n, n = Key(k)!Admitted(h, s)
  PROVE  LongestFit(h, s, n)
<1>1. \E m \in 0..Len(s) : Fits(h, s, m) /\ \A l \in 0..Len(s) : Fits(h, s, l) => l <= m
  BY DEF Settles
<1>2. n = CHOOSE m \in 0..Len(s) :
            /\ Key(k)!Admissible(h, s, m)
            /\ \A l \in 0..Len(s) : Key(k)!Admissible(h, s, l) => l <= m
  BY DEF Key!Admitted
<1>3. \E m \in 0..Len(s) :
        /\ Key(k)!Admissible(h, s, m)
        /\ \A l \in 0..Len(s) : Key(k)!Admissible(h, s, l) => l <= m
  BY <1>1, SameLines
<1>4. n \in 0..Len(s) /\ Key(k)!Admissible(h, s, n)
      /\ \A l \in 0..Len(s) : Key(k)!Admissible(h, s, l) => l <= n
  BY <1>2, <1>3
<1> QED
  BY <1>4, SameLines DEF LongestFit

\* What FIFOLock comes to from h and s is what they settle to.
LEMMA KeySettles ==
  ASSUME NEW k \in Keys, NEW h, NEW s \in Seq(Caller), Distinct(s),
         NEW j \in [Procs -> Modes \union {"none"}], NEW t, Settles(h, s, j, t),
         NEW n, n = Key(k)!Admitted(h, s)
  PROVE  j = Entering(h, s, n) /\ t = SubSeq(s, n + 1, Len(s))
<1>1. LongestFit(h, s, n)
  BY AdmittedFits
<1> QED
  BY <1>1, SettlesExactly

\* A move of the engine is a step of FIFOLock.
LEMMA KeySteps ==
  ASSUME NEW k \in Keys, HeldFor(k)' \in [Procs -> Modes \union {"none"}],
         LineFor(k) \in Seq(Caller), Distinct(LineFor(k)),
         Moves(HeldFor(k), LineFor(k), HeldFor(k)', LineFor(k)')
  PROVE  Key(k)!Next
<1> DEFINE h == HeldFor(k)
           s == LineFor(k)
           j == HeldFor(k)'
           t == LineFor(k)'
<1>1. PICK Q \in SUBSET Elems(s) :
        \/ Settles(h, Without(s, Q), j, t)
        \/ \E p \in Procs : h[p] # "none"
                            /\ Settles([h EXCEPT ![p] = "none"], Without(s, Q), j, t)
        \/ \E x \in Caller : /\ h[x.id] = "none" /\ \A y \in Elems(s) : y.id # x.id
                             /\ Settles(h, Append(Without(s, Q), x), j, t)
  BY DEF Moves
<1> DEFINE r == Key(k)!Without(s, Q)
<1>2. r = Without(s, Q) /\ Q \in SUBSET Key(k)!Elems(s)
  BY SameLines
<1>3. s \in Seq(Caller) /\ Distinct(s) /\ j \in [Procs -> Modes \union {"none"}]
  OBVIOUS
<1> HIDE DEF r, h, s, j, t
<1>4. r \in Seq(Caller) /\ Distinct(r) /\ Elems(r) \subseteq Elems(s)
  BY <1>2, <1>3, WithoutProperties
<1>5. CASE Settles(h, r, j, t)
  <2> DEFINE n == Key(k)!Admitted(h, r)
  <2>1. j = Entering(h, r, n) /\ t = SubSeq(r, n + 1, Len(r))
    BY <1>3, <1>4, <1>5, KeySettles, SMTT(60)
  <2>2. Key(k)!Quit(Q)
    BY <2>1, Zenon DEF Key!Quit, Key!Settle, Entering, HeldFor, LineFor, r, h, s, j, t
  <2> QED
    BY <1>2, <2>2 DEF Key!Next, LineFor, s
<1>6. ASSUME NEW p \in Procs, h[p] # "none", Settles([h EXCEPT ![p] = "none"], r, j, t)
      PROVE  Key(k)!Next
  <2> DEFINE g == [h EXCEPT ![p] = "none"]
             n == Key(k)!Admitted(g, r)
  <2>1. Settles(g, r, j, t)
    BY <1>6
  <2> HIDE DEF g
  <2>2. j = Entering(g, r, n) /\ t = SubSeq(r, n + 1, Len(r))
    BY <1>3, <1>4, <2>1, KeySettles
  <2>3. Key(k)!Leave(p, Q)
    BY <1>6, <2>2, Zenon
    DEF Key!Leave, Key!Settle, Entering, HeldFor, LineFor, g, r, h, s, j, t
  <2> QED
    BY <1>2, <2>3 DEF Key!Next, LineFor, s
<1>7. ASSUME NEW x \in Caller, h[x.id] = "none", \A y \in Elems(s) : y.id # x.id,
             Settles(h, Append(r, x), j, t)
      PROVE  Key(k)!Next
  <2>1. x.id \in Procs /\ x.mode \in {"write", "read"} /\ x = [id |-> x.id, mode |-> x.mode]
    BY DEF Caller, Modes
  <2> DEFINE a == Append(r, [id |-> x.id, mode |-> x.mode])
             n == Key(k)!Admitted(h, a)
  <2>2. a = Append(r, x)
    BY <2>1
  <2>3. a \in Seq(Caller) /\ Distinct(a)
    <3>1. \A i \in DOMAIN r : r[i] \in Elems(s)
      BY <1>4 DEF Elems
    <3>2. \A i \in DOMAIN r : r[i].id # x.id
      BY <1>7, <3>1
    <3> QED
      BY <1>4, <2>2, <3>2, AppendDistinct
  <2>4. Settles(h, a, j, t)
    BY <1>7, <2>2
  <2> HIDE DEF a
  <2>5. j = Entering(h, a, n) /\ t = SubSeq(a, n + 1, Len(a))
    BY <1>3, <2>3, <2>4, KeySettles, SMTT(60)
  <2>6. Key(k)!Idle(x.id)
    BY <1>7, SameLines DEF Key!Idle, HeldFor, LineFor, h, s
  <2>7. Key(k)!Arrive(x.id, x.mode, Q)
    BY <2>5, <2>6, Zenon DEF Key!Arrive, Key!Settle, Entering, HeldFor, LineFor, a, r, h, s, j, t
  <2> QED
    BY <1>2, <2>1, <2>7 DEF Key!Next, LineFor, s
<1> QED
  BY <1>1, <1>2, <1>5, <1>6, <1>7

\* Who owns a key is inside its engine.
OwnersInside == \A p \in Procs : Owns(p) => pc[p] \in Engaged

\* The owner of a key that has an entry is the one its engine has granted it to.
OwnersShownByEngines ==
  \A k \in ActiveKeys :
    HeldFor(k) = HeldBy(heap[entries[k]].core, At(entries[k], entry, pc), Wants(guarded))

LEMMA OwnersAreInside == KInv => OwnersInside
<1> SUFFICES ASSUME KInv, NEW p \in Procs, Owns(p) PROVE pc[p] \in Engaged
  BY DEF OwnersInside
<1>1. pc[p] \in Referring
  BY DEF KInv, Linked, Owns
<1> DEFINE at == At(entry[p], entry, pc)
<1>2. Tied(CoreOf(p), at, Wants(guarded)) /\ at[p] = IF pc[p] \in Engaged THEN "waiting" ELSE "idle"
  BY <1>1, EngineOf
<1> HIDE DEF at
<1>3. at[p] # "waiting" => CoreOf(p).verdict[p] = "none"
  BY <1>2 DEF Tied, Typed
<1> QED
  BY <1>2, <1>3 DEF Owns

LEMMA EnginesShowOwners == KInv => OwnersShownByEngines
<1> SUFFICES ASSUME KInv, NEW k \in ActiveKeys
             PROVE  HeldFor(k) = HeldBy(heap[entries[k]].core, At(entries[k], entry, pc),
                                        Wants(guarded))
  BY DEF OwnersShownByEngines
<1> DEFINE e == entries[k]
           at == At(e, entry, pc)
<1>1. Linked /\ OwnersInside
  BY OwnersAreInside DEF KInv
<1>2. k \in Keys /\ e # NoEntry
  BY DEF ActiveKeys
<1>3. ASSUME NEW q \in Procs
      PROVE  Owns(q) /\ key[q] = k <=> OwnsIn(heap[e].core, at, q)
  <2>1. ASSUME Owns(q), key[q] = k PROVE OwnsIn(heap[e].core, at, q)
    <3>1. entry[q] = e /\ pc[q] \in Engaged
      BY <1>1, <2>1 DEF Owns, Linked, OwnersInside
    <3> QED
      BY <2>1, <3>1 DEF Owns, CoreOf, OwnsIn, At
  <2>2. ASSUME OwnsIn(heap[e].core, at, q) PROVE Owns(q) /\ key[q] = k
    <3>1. entry[q] = e
      BY <2>2 DEF OwnsIn, At
    <3>2. key[q] \in Keys /\ entries[key[q]] = e
      BY <1>1, <1>2, <3>1 DEF Linked
    <3>3. key[q] = k
      BY <1>1, <1>2, <3>2 DEF Linked, ActiveKeys
    <3>4. heap[e].core.verdict[q] = "granted"
      BY <2>2 DEF OwnsIn, At
    <3> QED
      BY <1>2, <3>1, <3>3, <3>4 DEF Owns, CoreOf
  <2> QED
    BY <2>1, <2>2
<1>4. \A q \in Procs : Wants(guarded)[q].mode = "write"
  BY DEF Wants
<1> HIDE DEF e, at
<1>5. HeldBy(heap[e].core, at, Wants(guarded))
        = [q \in Procs |-> IF OwnsIn(heap[e].core, at, q) THEN "write" ELSE "none"]
  BY <1>4 DEF HeldBy
<1>6. HeldFor(k) = [q \in Procs |-> IF OwnsIn(heap[e].core, at, q) THEN "write" ELSE "none"]
  BY <1>3 DEF HeldFor
<1> QED
  BY <1>5, <1>6 DEF e, at

\* A step that changes neither the owner of k nor the line for it is none of its lock.
LEMMA KeyStutters ==
  ASSUME NEW k \in Keys, HeldFor(k)' = HeldFor(k), LineFor(k)' = LineFor(k)
  PROVE  UNCHANGED Key(k)!vars
BY DEF Key!vars, HeldFor, LineFor

\* A step at the table is none for any key.
LEMMA TableRefines ==
  ASSUME KInv, OwnersInside, OwnersInside', NEW p \in Procs, TableMoves(p), NEW k \in Keys
  PROVE  UNCHANGED Key(k)!vars
<1>1. ASSUME NEW q \in Procs PROVE Owns(q)' /\ key'[q] = k <=> Owns(q) /\ key[q] = k
  <2>1. CASE q = p
    <3>1. ~Owns(p) /\ ~Owns(p)'
      BY DEF OwnersInside, TableMoves, AtTable
    <3> QED
      BY <2>1, <3>1
  <2>2. CASE q # p
    <3>1. entry'[q] = entry[q] /\ key'[q] = key[q]
      BY <2>2 DEF TableMoves, AtTable
    <3>2. entry[q] \in Entries => heap'[entry[q]].core = heap[entry[q]].core
      BY <2>2 DEF TableMoves, AtTable
    <3>3. entry[q] \in Entries \union {NoEntry}
      BY DEF KInv, TypeOK
    <3> QED
      BY <3>1, <3>2, <3>3 DEF Owns, CoreOf
  <2> QED
    BY <2>1, <2>2
<1>2. HeldFor(k)' = HeldFor(k)
  BY <1>1 DEF HeldFor
<1>3. LineFor(k)' = LineFor(k)
  BY DEF TableMoves
<1> QED
  BY <1>2, <1>3, KeyStutters

\* A step in an engine is one of the lock of its key and none of the others.
LEMMA EngineRefines ==
  ASSUME KInv, OwnersShownByEngines, OwnersShownByEngines', NEW p \in Procs, EngineMoves(p),
         NEW k \in Keys
  PROVE  Key(k)!Next \/ UNCHANGED Key(k)!vars
<1> PICK l, c : Advances(p, l, c) /\ Shows(p, l, c)
  BY DEF EngineMoves
<1> DEFINE e == entry[p]
           at == At(e, entry, pc)
<1>1. /\ TypeOK /\ Linked /\ pc[p] \in Referring /\ pc' = [pc EXCEPT ![p] = l]
      /\ heap' = [heap EXCEPT ![e].core = c]
      /\ UNCHANGED <<entries, key, guarded, entry>>
      /\ Tied(c, After(p, l), Wants(guarded))
  BY DEF KInv, Advances
<1>2. e \in Entries /\ Tied(CoreOf(p), at, Wants(guarded)) /\ key[p] \in Keys
      /\ e = entries[key[p]] /\ e # NoEntry
  BY <1>1, EngineOf DEF Linked
<1>3. /\ heap \in [Entries -> [core : Core, references : Nat]] /\ pc \in [Procs -> Places]
      /\ entries \in [Keys -> Entries \union {NoEntry}]
  BY <1>1 DEF TypeOK
<1>4. heap'[e].core = c /\ \A d \in Entries : d # e => heap'[d].core = heap[d].core
  BY <1>1, <1>2, <1>3
<1>5. CASE k # key[p]
  <2>1. entries[k] # e
    BY <1>1, <1>2, <1>5 DEF Linked, ActiveKeys
  <2>2. ASSUME NEW q \in Procs PROVE Owns(q)' /\ key'[q] = k <=> Owns(q) /\ key[q] = k
    <3>1. key[q] = k => entry[q] = NoEntry \/ entry[q] = entries[k]
      BY <1>1 DEF Linked
    <3>2. key[q] = k /\ entry[q] # NoEntry => heap'[entry[q]].core = heap[entry[q]].core
      BY <1>3, <1>4, <2>1, <3>1
    <3> QED
      BY <1>1, <3>2 DEF Owns, CoreOf
  <2>3. HeldFor(k)' = HeldFor(k)
    BY <2>2 DEF HeldFor
  <2>4. LineFor(k)' = LineFor(k)
    BY <1>1, <1>3, <1>4, <2>1 DEF LineFor
  <2> QED
    BY <2>3, <2>4, KeyStutters
<1>6. CASE k = key[p]
  <2>1. entries[k] = e /\ k \in ActiveKeys /\ entries'[k] = e /\ k \in ActiveKeys'
    BY <1>1, <1>2, <1>6 DEF ActiveKeys
  <2>2. At(e, entry', pc') = After(p, l)
    BY <1>1, <1>3 DEF At, After
  <2>3. /\ HeldFor(k) = HeldBy(CoreOf(p), at, Wants(guarded))
        /\ LineFor(k) = Line(CoreOf(p).waiters)
    BY <1>2, <2>1 DEF OwnersShownByEngines, LineFor, CoreOf
  <2>4. HeldFor(k)' = HeldBy(heap'[e].core, At(e, entry', pc'), Wants(guarded'))
    BY <2>1 DEF OwnersShownByEngines
  <2>5. /\ HeldFor(k)' = HeldBy(c, After(p, l), Wants(guarded))
        /\ LineFor(k)' = Line(c.waiters)
    BY <1>1, <1>2, <1>4, <2>1, <2>2, <2>4 DEF LineFor
  <2>6. /\ HeldFor(k)' \in [Procs -> Modes \union {"none"}]
        /\ LineFor(k) \in Seq(Caller) /\ Distinct(LineFor(k))
    BY <1>1, <1>2, <2>3, <2>5, AbstractTypes
  <2>7. CASE HeldFor(k)' = HeldFor(k) /\ LineFor(k)' = LineFor(k)
    BY <2>7, KeyStutters
  <2>8. CASE Moves(HeldFor(k), LineFor(k), HeldFor(k)', LineFor(k)')
    BY <2>6, <2>8, KeySteps
  <2> QED
    BY <2>3, <2>5, <2>7, <2>8 DEF Shows
<1> QED
  BY <1>5, <1>6

\* No key is owned or awaited at first.
LEMMA KeysStartFree == Init => \A k \in Keys : Key(k)!Init
<1> SUFFICES ASSUME Init, NEW k \in Keys PROVE Key(k)!Init
  OBVIOUS
<1>1. entries[k] = NoEntry /\ \A p \in Procs : ~Owns(p)
  BY DEF Init, Owns
<1>2. HeldFor(k) = [p \in Procs |-> "none"] /\ LineFor(k) = <<>>
  BY <1>1 DEF HeldFor, LineFor
<1> QED
  BY <1>2 DEF Key!Init, HeldFor, LineFor

\* Each key is a FIFO lock of its own: whoever comes and goes, however often its entry is
\* dropped and made anew, the goroutines own it one after the other in the order of its line,
\* and a step on one key moves no other.
THEOREM KeyedRefinement == Spec => KeysAreFIFOLocks
<1> DEFINE Refined == \A k \in Keys : Key(k)!Next \/ UNCHANGED Key(k)!vars
           Owned == OwnersInside /\ OwnersShownByEngines
<1>1. ASSUME KInv, Owned, Owned', [Next]_vars PROVE [Refined]_vars
  <2> SUFFICES ASSUME NEW k \in Keys PROVE Key(k)!Next \/ UNCHANGED Key(k)!vars
    OBVIOUS
  <2>1. CASE UNCHANGED <<entries, heap, pc, key, guarded, entry>>
    <3>1. HeldFor(k)' = HeldFor(k) /\ LineFor(k)' = LineFor(k)
      BY <2>1 DEF HeldFor, LineFor, Owns, CoreOf
    <3> QED
      BY <3>1, KeyStutters
  <2>2. CASE \E p \in Procs : TableMoves(p) \/ EngineMoves(p)
    BY <1>1, <2>2, TableRefines, EngineRefines
  <2> QED
    BY <1>1, <2>1, <2>2, StepKeyed DEF StepsApart
<1>2. KInv => Owned
  BY OwnersAreInside, EnginesShowOwners
<1>3. (\A k \in Keys : Key(k)!Init) /\ [][Refined]_vars => KeysAreFIFOLocks
  BY PTL DEF KeysAreFIFOLocks
<1> QED
  BY <1>1, <1>2, <1>3, KeysStartFree, KeyedInvariant, PTL DEF Spec

=============================================================================
