-------------------------- MODULE ObservedRWMutex --------------------------
(* A lock with an observer: ObservedRWMutex and WatchdogRWMutex over the    *)
(* engine of RWCore.  Events are sent outside c.mu, by the goroutine that   *)
(* acquires, by the one that releases and by the callbacks of the wait and  *)
(* the hold timer; pendingAcquired and pendingEvents of rwCore, reportMu of *)
(* a waiter and the holdReport of an exact acquisition keep them in order.  *)
(*                                                                          *)
(* A member of Procs is one acquisition attempt with everything that acts   *)
(* for it: its calling goroutine, the goroutine that releases it and its    *)
(* two timer callbacks.  Once nothing refers to the attempt any more the    *)
(* identity serves for a new one (Recycle).  An event is delivered at one   *)
(* instant; reportMu and report.mu are held from before it until after it.  *)
EXTENDS RWCore

CONSTANTS
  WaitThreshold,   \* the wait threshold is positive
  HoldThreshold,   \* the hold threshold is positive
  Requests,        \* the <<mode, guarded>> that callers ask for
  Stamped          \* whether events carry the state of the lock

ASSUME ObserverAssumption ==
  /\ Observed
  /\ {WaitThreshold, HoldThreshold, Stamped} \subseteq BOOLEAN
  /\ Requests \subseteq Modes \X BOOLEAN

VARIABLES
  lockID,        \* the identity of the lock
  core,          \* the rwCore, its identity and its delivery fields apart
  undelivered,   \* pendingAcquired
  pending,       \* pendingEvents
  pc,            \* where the call of acquire or tryAcquire of each attempt is
  want,          \* what each attempt asks for
  dead,          \* the attempts whose context is done
  left,          \* the attempts that have been released
  outbox,        \* the notifications that have been made and not sent
  seen,          \* what the observer has been told of each attempt
  waitLong,      \* the attempts that waited for the wait threshold
  holdLong,      \* the attempts that held for the hold threshold
  waitTimer, waitReported,   \* of the rwWaiter
  holdTimer, holdReported    \* of the readerHold or writer, and its holdReport

coreVars == <<lockID, core, undelivered, pending, holdTimer>>
callVars == <<pc, want, dead>>
leaveVars == <<left, holdReported>>
clockVars == <<waitLong, holdLong>>
waitVars == <<waitTimer, waitReported>>
sendVars == <<outbox, seen>>
vars == <<coreVars, callVars, leaveVars, clockVars, waitVars, sendVars>>

Kinds == {"waitStarted", "waitExceeded", "acquired", "rejected", "tryFailed",
          "holdExceeded", "released"}

\* The LockState of an event: its version and counts are those of one instant.
\* Without Stamped it is left out.
NoState == [lock |-> 0, version |-> 0, counts |-> Counts(InitialCore)]
StateOf(c) ==
  IF Stamped THEN [lock |-> lockID, version |-> c.version, counts |-> Counts(c)]
  ELSE NoState

LockStates ==
  [lock : Nat, version : 0..(VersionModulus - 1),
   counts : [readers : Nat, writer : BOOLEAN, waitingReaders : Nat, waitingWriters : Nat,
             cancelled : BOOLEAN]]

Event == [id : Procs, kind : Kinds, state : LockStates]
Ev(p, k, c) == [id |-> p, kind |-> k, state |-> StateOf(c)]

\* Who sends the events of an attempt: its call, the goroutine that releases it, and
\* the callbacks of its wait and its hold timer.
Senders == {"call", "release", "wait", "hold"}

\* "announce" and "finish" are on either side of the select; "complete" is between
\* the acquired event and completeAcquiredDelivery; "back" has returned.  At
\* "announce", "deliver" and "send" the call has events to send, the last of
\* which is the wait-started, the acquired or any other one.
Places == {"idle", "announce", "select", "finish", "deliver", "complete", "send", "back"}
Sending == [announce |-> "select", deliver |-> "complete", send |-> "back"]

\* "armed" until time.AfterFunc fires; "watching" has found the holdReport.
TimerStates == {"off", "armed", "fired", "watching"}

Attempt(p, m, g) == [id |-> p, mode |-> m, guarded |-> g]

TypeOK ==
  /\ lockID \in Nat
  /\ core \in Core
  /\ undelivered \in Nat
  /\ pending \in Seq(Event)
  /\ pc \in [Procs -> Places]
  /\ want \in [Procs -> Waiter]
  /\ {dead, left, waitLong, holdLong, waitReported, holdReported} \subseteq SUBSET Procs
  /\ outbox \in [Senders -> [Procs -> Seq(Event)]]
  /\ seen \in [Procs -> Seq(Kinds)]
  /\ waitTimer \in [Procs -> TimerStates]
  /\ holdTimer \in [Procs -> TimerStates]

Init ==
  /\ lockID = 1
  /\ core = InitialCore
  /\ undelivered = 0
  /\ pending = <<>>
  /\ pc = [p \in Procs |-> "idle"]
  /\ want = [p \in Procs |-> Attempt(p, "read", FALSE)]
  /\ dead = {} /\ left = {} /\ waitLong = {} /\ holdLong = {}
  /\ waitReported = {} /\ holdReported = {}
  /\ outbox = [s \in Senders |-> [p \in Procs |-> <<>>]]
  /\ seen = [p \in Procs |-> <<>>]
  /\ waitTimer = [p \in Procs |-> "off"]
  /\ holdTimer = [p \in Procs |-> "off"]

Owns(p) == core.verdict[p] = "granted" /\ p \notin left

\* A write or a guarded read: the acquisitions with an identity of their own
\* for as long as they last, hence with a hold timer and a report.
Exact(w) == w.mode = "write" \/ w.guarded

\* Nobody holds waiter.reportMu: not the call, which keeps it while it sends,
\* and not the callback.
ReportMuFree(p) ==
  pc[p] \notin {"announce", "deliver", "complete", "send"} /\ outbox["wait"][p] = <<>>

\* Nobody holds report.mu of p's hold.
HoldMuFree(p) == outbox["release"][p] = <<>> /\ outbox["hold"][p] = <<>>

\* Slip: the delivery is signalled to whoever waits for it at that moment.
DeliveredSignal(p) == pc[p] = "complete"

\* acquiredDelivered of p's hold is closed.
Delivered(p) == pc[p] \in {"complete", "send", "back"}

\* Slip: one pending delivery however many were granted.
AdvanceUncounted(c, w, timer) ==
  LET granted == {q \in Procs : core.verdict[q] # "granted" /\ c.verdict[q] = "granted"}
  IN  /\ core' = c
      /\ undelivered' = undelivered + (IF granted = {} THEN 0 ELSE 1)
      /\ holdTimer' = [q \in Procs |->
                         IF q \in granted /\ HoldThreshold /\ Exact(w[q])
                         THEN "armed" ELSE timer[q]]
      /\ UNCHANGED lockID

\* The engine moves to c: each grant on the way is a delivery to come and, if it
\* is exact, a hold to time.
Advance(c, w, timer) ==
  LET granted == {q \in Procs : core.verdict[q] # "granted" /\ c.verdict[q] = "granted"}
  IN  /\ core' = c
      /\ undelivered' = undelivered + Cardinality(granted)
      /\ holdTimer' = [q \in Procs |->
                         IF q \in granted /\ HoldThreshold /\ Exact(w[q])
                         THEN "armed" ELSE timer[q]]
      /\ UNCHANGED lockID

\* s has these events of p, or those p has taken over, to send.
Post(s, p, events) == outbox' = [outbox EXCEPT ![s][p] = events] /\ UNCHANGED seen

GoTo(p, place) == pc' = [pc EXCEPT ![p] = place]

\* The observer is told the next event that s has to send for p.  The call goes on
\* when it has sent its last one.
Deliver(s, p) ==
  LET e == Head(outbox[s][p])
  IN  /\ outbox[s][p] # <<>>
      /\ outbox' = [outbox EXCEPT ![s][p] = Tail(@)]
      /\ seen' = [seen EXCEPT ![e.id] = Append(@, e.kind)]
      /\ pc' = IF s = "call" /\ Len(outbox[s][p]) = 1
               THEN [pc EXCEPT ![p] = Sending[@]] ELSE pc
      /\ UNCHANGED <<coreVars, want, dead, leaveVars, clockVars, waitVars>>

-----------------------------------------------------------------------------
(* acquire and tryAcquire *)

\* A context that is done before the call, or a Try that finds the lock taken.
Refuse(p, k) ==
  /\ pc[p] = "idle"
  /\ (k = "tryFailed") => \E r \in Requests : ~CanAcquireImmediately(core, r[1])
  /\ GoTo(p, "send")
  /\ Post("call", p, <<Ev(p, k, core)>>)
  /\ UNCHANGED <<coreVars, want, dead, leaveVars, clockVars, waitVars>>

\* What acquire does to the queue before it looks whether it can go on.
Served == IF core.waiters = <<>> THEN core ELSE GrantWaiters(core, dead)

Immediately(p, m, g, c) ==
  LET w == Attempt(p, m, g)
      d == [Grant(c, w) EXCEPT !.verdict = [@ EXCEPT ![p] = "granted"]]
  IN  /\ pc[p] = "idle"
      /\ CanAcquireImmediately(c, m)
      /\ want' = [want EXCEPT ![p] = w]
      /\ Advance(d, want', holdTimer)
      /\ GoTo(p, "deliver")
      /\ Post("call", p, <<Ev(p, "acquired", d)>>)
      /\ UNCHANGED <<pending, dead, leaveVars, clockVars, waitVars>>

AcquireAtOnce(p, m, g) == Immediately(p, m, g, Served)

TrySucceed(p, m, g) == Immediately(p, m, g, core)

\* The attempt joins the queue, with reportMu locked and its timer started.
AcquireWait(p, m, g) ==
  LET d == Enqueue(Served, Attempt(p, m, g))
  IN  /\ pc[p] = "idle"
      /\ ~CanAcquireImmediately(Served, m)
      /\ want' = [want EXCEPT ![p] = Attempt(p, m, g)]
      /\ Advance(d, want', holdTimer)
      /\ GoTo(p, "announce")
      /\ Post("call", p, <<Ev(p, "waitStarted", d)>>)
      /\ waitTimer' = [waitTimer EXCEPT ![p] = IF WaitThreshold THEN "armed" ELSE "off"]
      /\ UNCHANGED <<pending, dead, leaveVars, clockVars, waitReported>>

\* The context of a queued attempt is cancelled or its deadline passes.
Expire(p) ==
  /\ pc[p] \in {"announce", "select"}
  /\ p \notin dead
  /\ dead' = dead \union {p}
  /\ UNCHANGED <<coreVars, pc, want, leaveVars, clockVars, waitVars, sendVars>>

\* The select takes ready.
Wake(p) ==
  /\ pc[p] = "select"
  /\ core.verdict[p] # "none"
  /\ GoTo(p, "finish")
  /\ UNCHANGED <<coreVars, want, dead, leaveVars, clockVars, waitVars, sendVars>>

\* The select takes ctx.Done().
GiveUp(p) ==
  /\ pc[p] = "select"
  /\ p \in dead
  /\ Advance(CancelWaiter(core, p, dead), want, holdTimer)
  /\ GoTo(p, "finish")
  /\ UNCHANGED <<pending, want, dead, leaveVars, clockVars, waitVars, sendVars>>

DueWait(p) == p \in waitLong \ waitReported

\* What finishWait has to say after these events: the end of the wait.
Conclude(p, first) ==
  IF core.verdict[p] = "granted"
  THEN GoTo(p, "deliver") /\ Post("call", p, Append(first, Ev(p, "acquired", core)))
  ELSE GoTo(p, "send") /\ Post("call", p, Append(first, Ev(p, "rejected", core)))

\* Slip: a wait threshold that passed before its timer ran is forgotten.
FinishWaitForgetful(p) ==
  /\ pc[p] = "finish"
  /\ ReportMuFree(p)
  /\ waitTimer' = [waitTimer EXCEPT ![p] = IF @ = "armed" THEN "off" ELSE @]
  /\ Conclude(p, <<>>)
  /\ UNCHANGED <<coreVars, want, dead, leaveVars, clockVars, waitReported>>

\* finishWait up to its first event: reportMu is taken and the lock looked at again;
\* a due wait report is made up for.
FinishWait(p) ==
  /\ pc[p] = "finish"
  /\ ReportMuFree(p)
  /\ waitTimer' = [waitTimer EXCEPT ![p] = IF @ = "armed" THEN "off" ELSE @]
  /\ IF DueWait(p)
     THEN Conclude(p, <<Ev(p, "waitExceeded", core)>>) /\ waitReported' = waitReported \union {p}
     ELSE Conclude(p, <<>>) /\ UNCHANGED waitReported
  /\ UNCHANGED <<coreVars, want, dead, leaveVars, clockVars>>

\* Slip: the last delivery looks at the counter before it counts itself out.
CompleteBeforeCounting(p) ==
  /\ pc[p] = "complete"
  /\ undelivered' = undelivered - 1
  /\ IF undelivered > 0 \/ pending = <<>>
     THEN GoTo(p, "back") /\ UNCHANGED <<pending, sendVars>>
     ELSE GoTo(p, "send") /\ pending' = <<>> /\ Post("call", p, pending)
  /\ UNCHANGED <<lockID, core, holdTimer, want, dead, leaveVars, clockVars, waitVars>>

\* completeAcquiredDelivery: the last delivery takes over the pending events.
\* The counter is not zero here (DeliveriesCounted), or the code would panic.
Complete(p) ==
  /\ pc[p] = "complete"
  /\ undelivered' = undelivered - 1
  /\ IF undelivered - 1 > 0 \/ pending = <<>>
     THEN GoTo(p, "back") /\ UNCHANGED <<pending, sendVars>>
     ELSE GoTo(p, "send") /\ pending' = <<>> /\ Post("call", p, pending)
  /\ UNCHANGED <<lockID, core, holdTimer, want, dead, leaveVars, clockVars, waitVars>>

-----------------------------------------------------------------------------
(* release *)

\* The caller of Unlock is whoever knows that p has the lock: p after its call
\* returned or, if the acquisition is plain, a goroutine that learned of it
\* from the observer or a snapshot.
MayRelease(p) ==
  /\ Owns(p)
  /\ want[p].guarded => pc[p] = "back"
  /\ Exact(want[p]) => HoldMuFree(p)

DueHold(p) == HoldThreshold /\ Exact(want[p]) /\ p \in holdLong \ holdReported

\* The events of p's release, which takes the engine to d.
Farewell(p, d) ==
  (IF DueHold(p) THEN <<Ev(p, "holdExceeded", core)>> ELSE <<>>) \o <<Ev(p, "released", d)>>

\* The engine after p's release.
Relinquished(p) ==
  Release(core, want[p].mode, IF want[p].guarded THEN p ELSE NoAttempt, dead)

\* release up to its first event, d being what it leaves of the engine.
Leave(p, d) ==
  /\ MayRelease(p)
  /\ ReleaseMatches(core, want[p].mode, IF want[p].guarded THEN p ELSE NoAttempt)
  /\ left' = left \union {p}
  /\ holdReported' = IF DueHold(p) THEN holdReported \union {p} ELSE holdReported
  /\ Advance(d, want, [holdTimer EXCEPT ![p] = IF @ = "armed" THEN "off" ELSE @])
  /\ UNCHANGED <<callVars, clockVars, waitVars>>

\* Slip: the events of a release are sent at once.
ReleaseUnqueued(p) ==
  /\ Leave(p, Relinquished(p))
  /\ Post("release", p, Farewell(p, Relinquished(p)))
  /\ UNCHANGED pending

\* Ownership ends; the hold report that is due and the released event are queued
\* if an acquired event is still on its way, else sent by this goroutine.
ReleaseLock(p) ==
  /\ Leave(p, Relinquished(p))
  /\ IF undelivered > 0
     THEN pending' = pending \o Farewell(p, Relinquished(p)) /\ UNCHANGED sendVars
     ELSE Post("release", p, Farewell(p, Relinquished(p))) /\ UNCHANGED pending

-----------------------------------------------------------------------------
(* The timers *)

\* The wait threshold of a queued attempt, or the hold threshold of an exact
\* owner, passes.
WaitElapses(p) ==
  /\ WaitThreshold
  /\ pc[p] \in {"announce", "select"} /\ core.verdict[p] = "none"
  /\ p \notin waitLong
  /\ waitLong' = waitLong \union {p}
  /\ UNCHANGED <<coreVars, callVars, leaveVars, holdLong, waitVars, sendVars>>

HoldElapses(p) ==
  /\ HoldThreshold
  /\ Owns(p) /\ Exact(want[p])
  /\ p \notin holdLong
  /\ holdLong' = holdLong \union {p}
  /\ UNCHANGED <<coreVars, callVars, leaveVars, waitLong, waitVars, sendVars>>

\* The runtime starts the callback, as late as it likes, even after the wait.
WaitFires(p) ==
  /\ waitTimer[p] = "armed"
  /\ p \in waitLong \/ core.verdict[p] # "none"
  /\ waitTimer' = [waitTimer EXCEPT ![p] = "fired"]
  /\ UNCHANGED <<coreVars, callVars, leaveVars, clockVars, waitReported, sendVars>>

HoldFires(p) ==
  /\ holdTimer[p] = "armed" /\ p \in holdLong
  /\ holdTimer' = [holdTimer EXCEPT ![p] = "fired"]
  /\ UNCHANGED <<lockID, core, undelivered, pending, callVars, leaveVars, clockVars, waitVars,
                 sendVars>>

\* reportWaitExceeded takes reportMu and looks whether the wait is over.
CheckWait(p) ==
  /\ waitTimer[p] = "fired"
  /\ ReportMuFree(p)
  /\ waitTimer' = [waitTimer EXCEPT ![p] = "off"]
  /\ IF core.verdict[p] = "none" /\ p \notin waitReported
     THEN waitReported' = waitReported \union {p} /\ Post("wait", p, <<Ev(p, "waitExceeded", core)>>)
     ELSE UNCHANGED <<waitReported, sendVars>>
  /\ UNCHANGED <<coreVars, callVars, leaveVars, clockVars>>

\* reportHoldExceeded looks its report up by attempt.
FindHold(p) ==
  /\ holdTimer[p] = "fired"
  /\ holdTimer' = [holdTimer EXCEPT ![p] = IF Owns(p) THEN "watching" ELSE "off"]
  /\ UNCHANGED <<lockID, core, undelivered, pending, callVars, leaveVars, clockVars, waitVars,
                 sendVars>>

\* After the acquired event it takes report.mu and looks whether the hold lasts.
CheckHold(p) ==
  /\ holdTimer[p] = "watching"
  /\ Delivered(p)
  /\ HoldMuFree(p)
  /\ holdTimer' = [holdTimer EXCEPT ![p] = "off"]
  /\ IF Owns(p) /\ p \notin holdReported
     THEN holdReported' = holdReported \union {p} /\ Post("hold", p, <<Ev(p, "holdExceeded", core)>>)
     ELSE UNCHANGED <<holdReported, sendVars>>
  /\ UNCHANGED <<lockID, core, undelivered, pending, callVars, left, clockVars, waitVars>>

-----------------------------------------------------------------------------

\* Every event of p's attempt has been sent, and nothing will send another.
Over(p) ==
  /\ pc[p] = "back" /\ ~Owns(p)
  /\ waitTimer[p] = "off" /\ holdTimer[p] = "off"
  /\ \A s \in Senders : outbox[s][p] = <<>>
  /\ \A e \in Elems(pending) \union UNION {Elems(outbox["call"][q]) : q \in Procs} : e.id # p

\* The identity of an attempt that is over serves for the next one.
Recycle(p) ==
  /\ Over(p)
  /\ core' = [core EXCEPT !.verdict = [@ EXCEPT ![p] = "none"]]
  /\ GoTo(p, "idle")
  /\ want' = [want EXCEPT ![p] = Attempt(p, "read", FALSE)]
  /\ seen' = [seen EXCEPT ![p] = <<>>]
  /\ dead' = dead \ {p} /\ left' = left \ {p}
  /\ waitLong' = waitLong \ {p} /\ holdLong' = holdLong \ {p}
  /\ waitReported' = waitReported \ {p} /\ holdReported' = holdReported \ {p}
  /\ UNCHANGED <<lockID, undelivered, pending, holdTimer, outbox, waitTimer>>

\* A call that goes ahead: each changes the engine.
Start(p) ==
  \E r \in Requests :
    \/ AcquireAtOnce(p, r[1], r[2]) \/ AcquireWait(p, r[1], r[2])
    \/ TrySucceed(p, r[1], r[2])

\* Everything else but the delivery of an event.
Step(p) ==
  \/ Refuse(p, "rejected") \/ Refuse(p, "tryFailed")
  \/ Expire(p) \/ Wake(p) \/ GiveUp(p) \/ FinishWait(p) \/ Complete(p)
  \/ ReleaseLock(p)
  \/ WaitElapses(p) \/ WaitFires(p) \/ CheckWait(p)
  \/ HoldElapses(p) \/ HoldFires(p) \/ FindHold(p) \/ CheckHold(p)
  \/ Recycle(p)

Next == \E p \in Procs : Start(p) \/ Step(p) \/ \E s \in Senders : Deliver(s, p)

Spec == Init /\ [][Next]_vars

\* Goroutines and callbacks that can run do, observers return, and holders
\* unlock.
FairSpec ==
  /\ Spec
  /\ \A p \in Procs :
       /\ WF_vars(Wake(p) \/ GiveUp(p)) /\ WF_vars(FinishWait(p)) /\ WF_vars(Complete(p))
       /\ WF_vars(CheckWait(p)) /\ WF_vars(FindHold(p)) /\ WF_vars(CheckHold(p))
       /\ WF_vars(pc[p] = "back" /\ ReleaseLock(p))
       /\ \A s \in Senders : WF_vars(Deliver(s, p))

-----------------------------------------------------------------------------
(* What the observer may rely on. *)

\* The place of a kind of event in the life of an attempt.
Stage(k) ==
  CASE k = "waitStarted" -> 1 [] k = "waitExceeded" -> 2
    [] k \in {"acquired", "rejected", "tryFailed"} -> 3
    [] k = "holdExceeded" -> 4 [] k = "released" -> 5

\* Whoever sends them, the events of one attempt are delivered in the order of
\* its life, each at most once: the wait report between the wait and its end, the
\* acquired event before the hold report, the hold report before the released
\* event, and neither of these without an acquired event.  A call that has returned
\* has told how it ended.
EventOrder ==
  \A p \in Procs :
    /\ \A i, j \in DOMAIN seen[p] : i < j => Stage(seen[p][i]) < Stage(seen[p][j])
    /\ \A k \in Elems(seen[p]) :
         /\ k = "waitExceeded" => "waitStarted" \in Elems(seen[p])
         /\ Stage(k) > 3 => "acquired" \in Elems(seen[p])
    /\ pc[p] = "back" => \E k \in Elems(seen[p]) : Stage(k) = 3

\* An elapsed threshold is not lost: by the time an attempt's end of wait, or the
\* release of its exact hold, has been delivered, so has the report of every
\* threshold that passed before it, whether or not the timer ever ran.
ThresholdsReported ==
  \A p \in Procs :
    /\ Elems(seen[p]) \intersect {"acquired", "rejected"} # {} /\ p \in waitLong
         => "waitExceeded" \in Elems(seen[p])
    /\ "released" \in Elems(seen[p]) /\ p \in holdLong
         => "holdExceeded" \in Elems(seen[p])

\* pendingAcquired is the number of attempts that own or owned the lock and whose
\* acquired event is not behind them; in particular no delivery finds it zero.
DeliveriesCounted ==
  undelivered = Cardinality({p \in Procs : /\ core.verdict[p] = "granted"
                                           /\ pc[p] \notin {"send", "back"}})

\* A queued event has somebody to send it: while there is one, an acquired event is
\* on its way whose delivery will look at the queue.
NothingStranded == pending # <<>> => undelivered > 0

\* Calls of acquire and tryAcquire return: the call, the release and the callback of
\* the hold timer take c.mu, report.mu and acquiredDelivered in different orders and
\* never wait for each other for ever.
CallsReturn == \A p \in Procs : pc[p] \notin {"idle", "back"} ~> pc[p] = "back"

\* So does the callback of a hold timer, although it waits for an acquired event that
\* may have been delivered long before and for a release that may be sending.
HoldCallbackReturns ==
  \A p \in Procs : holdTimer[p] = "fired" ~> holdTimer[p] = "off" /\ outbox["hold"][p] = <<>>

\* The observer changes nothing of who owns the lock and when: every step is a step
\* of the abstract FIFO lock or none, early releases included.
Fifo == INSTANCE FIFOLock
          WITH held   <- [p \in Procs |-> IF Owns(p) THEN want[p].mode ELSE "none"],
               line   <- [i \in DOMAIN core.waiters |->
                            [id |-> core.waiters[i].id, mode |-> core.waiters[i].mode]],
               closed <- core.cancelled
ObservedFIFOLock == Fifo!Spec

=============================================================================
