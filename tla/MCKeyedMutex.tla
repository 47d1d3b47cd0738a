---------------------------- MODULE MCKeyedMutex ----------------------------
(* Small instances of KeyedMutex for TLC. *)
EXTENDS KeyedMutex, TLC

\* Goroutines, keys and addresses are interchangeable.
Symmetry == Permutations(Procs) \union Permutations(Keys) \union Permutations(Entries)

=============================================================================
