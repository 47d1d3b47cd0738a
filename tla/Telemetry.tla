----------------------------- MODULE Telemetry -----------------------------
(* The observers that come with the library, fed by ObservedRWMutex: the    *)
(* Prometheus observer, the one of the legacy metered locks and the pprof   *)
(* profile observer.  Goroutines and timer callbacks deliver their events   *)
(* in any order and long after the states they tell of, and a lock may be   *)
(* replaced by a new one of the same name while events of the old one are   *)
(* on their way.                                                            *)
(*                                                                          *)
(* Each observer works on an event under a mutex of its own and shares      *)
(* nothing with the others, so that what they do with one event is one step.*)
EXTENDS ObservedRWMutex

CONSTANT MaxLocks   \* how many locks take the name, one after the other (a bound)

ASSUME TelemetryAssumption == Stamped /\ MaxLocks \in Nat \ {0}

VARIABLES
  metrics,   \* Observer.versions[name] and the four gauges of the name
  legacy,    \* the legacyPrometheusObserver of each lock
  totals,    \* the two legacy gauges of the location
  profile    \* the three maps of the ProfileObserver

observerVars == <<metrics, legacy, totals, profile>>
telemetryVars == <<vars, observerVars>>

\* The four state gauges.
Gauges(counts) ==
  [waiting |-> [read |-> counts.waitingReaders, write |-> counts.waitingWriters],
   held    |-> [read |-> counts.readers, write |-> IF counts.writer THEN 1 ELSE 0]]

\* The two legacy gauges: both modes together.
Sums(counts) ==
  LET g == Gauges(counts)
  IN  [waiting |-> g.waiting.read + g.waiting.write, held |-> g.held.read + g.held.write]

TelemetryInit ==
  /\ Init
  /\ metrics = [lock |-> 0, version |-> 0, gauges |-> Gauges(Counts(InitialCore))]
  /\ legacy = [l \in 1..MaxLocks |-> [version |-> 0, part |-> Sums(Counts(InitialCore))]]
  /\ totals = Sums(Counts(InitialCore))
  /\ profile = [waiting |-> {}, held |-> {}, released |-> {}]

-----------------------------------------------------------------------------
(* Prometheus: Observer.updateState *)

\* Slip: versions of different locks are compared.
UpdateStateAcrossLocks(m, s) ==
  IF s.version < m.version THEN m
  ELSE [lock |-> s.lock, version |-> s.version, gauges |-> Gauges(s.counts)]

\* Slip: a state is taken over however old it is.
UpdateStateUnfiltered(m, s) ==
  [lock |-> s.lock, version |-> s.version, gauges |-> Gauges(s.counts)]

\* The gauges take the state over, unless they show one of a newer lock or a newer one
\* of the same lock.
UpdateState(m, s) ==
  IF s.lock < m.lock \/ (s.lock = m.lock /\ s.version < m.version) THEN m
  ELSE [lock |-> s.lock, version |-> s.version, gauges |-> Gauges(s.counts)]

-----------------------------------------------------------------------------
(* Legacy gauges: legacyPrometheusObserver.ObserveLock *)

\* Slip: every state is taken over, as late as it may be.
ContributionUnfiltered(o, s) == [version |-> s.version, part |-> Sums(s.counts)]

\* What the lock contributes after an event with state s.
Contribution(o, s) ==
  IF s.version < o.version THEN o ELSE [version |-> s.version, part |-> Sums(s.counts)]

\* The totals change by what the contribution of one lock changes by.
Shift(t, old, new) ==
  [waiting |-> t.waiting + (new.waiting - old.waiting), held |-> t.held + (new.held - old.held)]

-----------------------------------------------------------------------------
(* Profiles: ProfileObserver.ObserveLock *)

\* Slip: a waiter that is rejected stays in the profile.
ProfileEventForgetful(f, e) ==
  CASE e.kind = "waitStarted" -> [f EXCEPT !.waiting = @ \union {e.id}]
    [] e.kind = "acquired" ->
         [waiting |-> f.waiting \ {e.id},
          held |-> IF Exact(want[e.id]) THEN f.held \union {e.id} ELSE f.held,
          released |-> f.released]
    [] e.kind = "released" -> [f EXCEPT !.held = @ \ {e.id}]
    [] OTHER -> f

\* The maps after the event e.  A release that comes before its acquired event is
\* remembered, to keep that one from adding a holder.
ProfileEvent(f, e) ==
  LET early == e.id \in f.released
  IN  CASE e.kind = "waitStarted" -> [f EXCEPT !.waiting = @ \union {e.id}]
        [] e.kind = "rejected" -> [f EXCEPT !.waiting = @ \ {e.id}]
        [] e.kind = "acquired" /\ ~Exact(want[e.id]) -> [f EXCEPT !.waiting = @ \ {e.id}]
        [] e.kind = "acquired" /\ Exact(want[e.id]) ->
             [waiting  |-> f.waiting \ {e.id},
              held     |-> IF early THEN f.held ELSE f.held \union {e.id},
              released |-> f.released \ {e.id}]
        [] e.kind = "released" /\ Exact(want[e.id]) ->
             [f EXCEPT !.held = @ \ {e.id},
                       !.released = IF e.id \in f.held THEN @ ELSE @ \union {e.id}]
        [] OTHER -> f

-----------------------------------------------------------------------------

\* LockObserverGroup.ObserveLock, and the legacy observer of the event's lock.
Observe(e) ==
  LET l == e.state.lock
  IN  /\ metrics' = UpdateState(metrics, e.state)
      /\ legacy' = [legacy EXCEPT ![l] = Contribution(@, e.state)]
      /\ totals' = Shift(totals, legacy[l].part, legacy'[l].part)
      /\ profile' = ProfileEvent(profile, e)

DeliverObserved(s, p) == Deliver(s, p) /\ Observe(Head(outbox[s][p]))

\* Nobody holds the lock, waits for it or is about to look at it again; only events
\* may be on their way.
Retired ==
  /\ undelivered = 0 /\ pending = <<>>
  /\ \A p \in Procs : pc[p] \in {"idle", "send", "back"} /\ ~Owns(p)

\* A new lock takes the name of one that is retired.  Its identity is drawn at its
\* first use, before which it has no events.
Replace ==
  /\ Retired
  /\ lockID < MaxLocks
  /\ lockID' = lockID + 1
  /\ core' = [InitialCore EXCEPT !.verdict = core.verdict]
  /\ UNCHANGED <<undelivered, pending, holdTimer, callVars, leaveVars, clockVars, waitVars,
                 sendVars, observerVars>>

\* An attempt changes the version three times at most: it is queued, it is granted and
\* released.  Calls that would take it past VersionModulus are left out (a bound),
\* so that versions are those of a counter that does not wrap.
Room == core.version + 3 * Cardinality(Procs) < VersionModulus

TelemetryNext ==
  \/ \E p \in Procs :
       \/ Room /\ Start(p) /\ UNCHANGED observerVars
       \/ Step(p) /\ UNCHANGED observerVars
       \/ \E s \in Senders : DeliverObserved(s, p)
  \/ Replace

TelemetrySpec == TelemetryInit /\ [][TelemetryNext]_telemetryVars

-----------------------------------------------------------------------------
(* What a dashboard or a profile may rely on. *)

\* Every event there was has been told, and nobody is going to send another before the
\* lock changes again.
Quiet ==
  /\ pending = <<>>
  /\ \A p \in Procs :
       /\ \A s \in Senders : outbox[s][p] = <<>>
       /\ pc[p] \in {"idle", "back"} \/ (pc[p] = "select" /\ core.verdict[p] = "none")

\* A version of a lock names one state of it: the current state, those on their way and
\* the one shown agree wherever lock and version do.  The observers keep one of two
\* states of the same version, whichever they are told last.
VersionNamesState ==
  LET sent == Elems(pending) \union UNION {Elems(outbox[s][p]) : s \in Senders, p \in Procs}
      known == {StateOf(core)} \union {e.state : e \in sent}
  IN  /\ \A x, y \in known : x.lock = y.lock /\ x.version = y.version => x.counts = y.counts
      /\ \A x \in known : x.lock = metrics.lock /\ x.version = metrics.version
                            => Gauges(x.counts) = metrics.gauges

\* Whatever the order events were delivered in, once they all are the gauges show the
\* lock as it is: every change of its counts is in some event, no old state is left
\* standing, and a replaced lock leaves nothing behind.
GaugesSettle == Quiet => metrics.gauges = Gauges(Counts(core))

\* The gauges are never behind what has returned: an acquisition whose call is back is
\* shown as held until its release, one whose wait has been announced as waiting while
\* it waits, however late older events are.
GaugesShowReturned ==
  \A p \in Procs :
    /\ pc[p] = "back" /\ Owns(p) => metrics.gauges.held[want[p].mode] > 0
    /\ pc[p] = "select" /\ core.verdict[p] = "none"
         => metrics.gauges.waiting[want[p].mode] > 0

\* The legacy totals, which are only ever changed by differences, end up as the counts
\* of the lock that has the location now: nothing of a retired lock remains.
LegacySettles == Quiet => totals = Sums(Counts(core))

\* The profiles follow the attempts: one that is over is in none of the maps, one whose
\* call has returned is not a waiter, and an exact acquisition is a holder from the
\* return of its call to its release.
ProfilesExact ==
  \A p \in Procs :
    /\ Over(p) => p \notin profile.waiting \union profile.held \union profile.released
    /\ pc[p] = "select" /\ core.verdict[p] = "none" => p \in profile.waiting
    /\ pc[p] = "back" => p \notin profile.waiting
    /\ pc[p] = "back" /\ Owns(p) /\ Exact(want[p]) => p \in profile.held

=============================================================================
