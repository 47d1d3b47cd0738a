----------------------------- MODULE MCRWMutex -----------------------------
(* Small instances of RWMutex for TLC, and a bounded check of the closed    *)
(* forms of LockQueue against the loops they stand for.                     *)
EXTENDS RWMutex, TLC

\* Goroutines are interchangeable: no operator or property names one.
Symmetry == Permutations(Procs)

\* MaxWaiting of the types without a limit.
NoLimit == Unlimited

\* All queues of up to three waiters, repetitions included.
SampleQueues == UNION {[1..n -> Waiter] : n \in 0..3}

\* The compaction loop of rejectCancelledWaitersLocked, turn by turn.
Compacted(s, D) ==
  LET loop[i \in 0..Len(s)] == IF i = 0 THEN [array |-> s, kept |-> 0]
                               ELSE CompactionTurn(loop[i - 1], i, D)
  IN  SubSeq(loop[Len(s)].array, 1, loop[Len(s)].kept)

\* The grant loop of grantWaitersLocked.
RECURSIVE GrantAll(_)
GrantAll(c) == IF ReaderNext(c) THEN GrantAll(GrantHead(c)) ELSE c

\* The closed forms are where the loops lead, as the theorems CompactionLoop and WaiterCutOut
\* of LockQueueProofs and GrantLoop of RWCoreProofs say of every queue.
ASSUME QueueOperatorsAreTheLoops ==
  \A s \in SampleQueues :
    LET c == [InitialCore EXCEPT !.waiters = s]
        Of(gone) == {w \in Waiter : w.id \in gone}
    IN  /\ \A gone \in SUBSET Ids(s) : Compacted(s, Of(gone)) = Without(s, Of(gone))
        /\ \A i \in DOMAIN s : (\A k \in DOMAIN s : s[k].id = s[i].id => k = i)
                                => CutOut(s, i) = Without(s, Of({s[i].id}))
        /\ GrantAll(c) = GrantReaders(c, LeadingReaders(s))

=============================================================================
