-------------------------- MODULE MCMeteredRWMutex --------------------------
(* Small instances of MeteredRWMutex for TLC. *)
EXTENDS MeteredRWMutex, TLC

\* Goroutines, names and addresses are interchangeable.
Symmetry == Permutations(Procs) \union Permutations(Names) \union Permutations(Locks)

=============================================================================
