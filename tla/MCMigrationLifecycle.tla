-------------------------- MODULE MCMigrationLifecycle -------------------------
(* Two handlers, two workers, two attempts at most, of one migration. *)
EXTENDS MigrationLifecycle, TLC

\* Handlers, workers and idempotency keys are interchangeable.
Interchangeable ==
  Permutations(Requests) \cup Permutations(Workers) \cup Permutations(Keys)

================================================================================
