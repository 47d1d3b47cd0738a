-------------------------- MODULE MCObservedRWMutex --------------------------
(* Small instances of ObservedRWMutex for TLC. *)
EXTENDS ObservedRWMutex, TLC

\* Attempts are interchangeable: no operator or property names one.
Symmetry == Permutations(Procs)

\* Every kind of acquisition, and two that compete and both have a hold report.
AllRequests == Modes \X BOOLEAN
ExactRequests == {<<"write", FALSE>>, <<"read", TRUE>>}

=============================================================================
