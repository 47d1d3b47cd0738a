------------------------------ MODULE FIFOLock ------------------------------
(* What a Powerlock read/write lock promises, without the engine: owners, a *)
(* line of callers in the order they arrived, and one rule - after every    *)
(* step the longest prefix of the line that may own the lock does own it.   *)
(* There are no counters, verdicts, contexts or versions here, and a caller *)
(* may leave the line at any step.                                          *)
EXTENDS LockQueue

CONSTANT Procs

VARIABLES
  held,    \* the mode in which each caller owns the lock, or "none"
  line,    \* the callers waiting, first come first
  closed   \* permanently cancelled

vars == <<held, line, closed>>

Caller == [id : Procs, mode : {"write", "read"}]

TypeOK ==
  /\ held \in [Procs -> {"none", "write", "read"}]
  /\ line \in Seq(Caller)
  /\ closed \in BOOLEAN

Init ==
  /\ held = [p \in Procs |-> "none"]
  /\ line = <<>>
  /\ closed = FALSE

Free(h) == \A p \in Procs : h[p] = "none"
NoWriter(h) == \A p \in Procs : h[p] # "write"

\* The first n callers of s may own the lock together with the owners in h.
Admissible(h, s, n) ==
  \/ n = 0
  \/ n = 1 /\ s[1].mode = "write" /\ Free(h)
  \/ NoWriter(h) /\ \A i \in 1..n : s[i].mode = "read"

\* The longest such prefix.
Admitted(h, s) ==
  CHOOSE n \in 0..Len(s) :
    Admissible(h, s, n) /\ \A k \in 0..Len(s) : Admissible(h, s, k) => k <= n

\* With owners h and line s, everyone who may own the lock does.
Settle(h, s) ==
  LET n == Admitted(h, s)
      in(p) == {c \in {s[i] : i \in 1..n} : c.id = p}
  IN  /\ held' = [p \in Procs |-> IF in(p) = {} THEN h[p]
                                  ELSE (CHOOSE c \in in(p) : TRUE).mode]
      /\ line' = SubSeq(s, n + 1, Len(s))

Idle(p) == held[p] = "none" /\ \A c \in Elems(line) : c.id # p

\* p comes for the lock, and the callers in Q tire of waiting.
Arrive(p, m, Q) ==
  /\ ~closed
  /\ Idle(p)
  /\ Settle(held, Append(Without(line, Q), [id |-> p, mode |-> m]))
  /\ UNCHANGED closed

Quit(Q) ==
  /\ Settle(held, Without(line, Q))
  /\ UNCHANGED closed

\* p gives the lock back.
Leave(p, Q) ==
  /\ held[p] # "none"
  /\ Settle([held EXCEPT ![p] = "none"], Without(line, Q))
  /\ UNCHANGED closed

Close ==
  /\ closed' = TRUE
  /\ line' = <<>>
  /\ UNCHANGED held

Next ==
  \/ Close
  \/ \E Q \in SUBSET Elems(line) :
       \/ Quit(Q)
       \/ \E p \in Procs :
            \/ Leave(p, Q)
            \/ \E m \in {"write", "read"} : Arrive(p, m, Q)

Spec == Init /\ [][Next]_vars

=============================================================================
