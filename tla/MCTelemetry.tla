----------------------------- MODULE MCTelemetry -----------------------------
(* Small instances of Telemetry for TLC. *)
EXTENDS Telemetry, TLC

\* Attempts are interchangeable: no operator or property names one.
Symmetry == Permutations(Procs)

\* Every kind of acquisition.
AllRequests == Modes \X BOOLEAN

=============================================================================
