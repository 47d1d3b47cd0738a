----------------------------- MODULE LockQueue -----------------------------
(* The waiter queue of a lock, as the sequence c.waiters of src/rw_core.go, *)
(* and the scans the code makes over it.  They are given in closed form     *)
(* rather than as loops, so that facts about them can be proved; the bodies *)
(* of the loops stand beside them, and RWCoreProofs shows where they lead.  *)
EXTENDS Integers, Sequences, FiniteSets

\* The waiters in the queue s.
Elems(s) == {s[i] : i \in DOMAIN s}

\* The positions of s that survive the removal of the waiters in D.
Kept(s, D) == {i \in DOMAIN s : s[i] \notin D}

\* The place position i of s takes once the waiters in D are gone.
Rank(s, D, i) == Cardinality({k \in Kept(s, D) : k <= i})

\* s compacted over the waiters in D, the survivors in their order.
Without(s, D) ==
  [j \in 1..Cardinality(Kept(s, D)) |->
      s[CHOOSE i \in Kept(s, D) : Rank(s, D, i) = j]]

\* One turn of the loop that compacts the queue in place, when its range has come to
\* position i: `remaining` is the first `kept` cells of the array it reads from.
CompactionTurn(loop, i, D) ==
  LET w == loop.array[i]
  IN  IF w \in D THEN loop
      ELSE [array |-> [loop.array EXCEPT ![loop.kept + 1] = w], kept |-> loop.kept + 1]

\* What copy(waiters[i:], waiters[i+1:]) and the cut of the last cell leave of s.
CutOut(s, i) == [j \in 1..(Len(s) - 1) |-> IF j < i THEN s[j] ELSE s[j + 1]]

\* The number of consecutive readers at the front of s: the grants of the loop
\* `for len(waiters) > 0 && waiters[0].mode == LockModeRead`.
LeadingReaders(s) ==
  CHOOSE n \in 0..Len(s) :
    /\ \A i \in 1..n : s[i].mode = "read"
    /\ n < Len(s) => s[n + 1].mode # "read"

=============================================================================
