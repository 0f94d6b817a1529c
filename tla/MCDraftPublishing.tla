--------------------------- MODULE MCDraftPublishing ---------------------------
(* One migration, its branch and up to two pull requests of it. *)
EXTENDS PublicationOwner, TLC

\* Workers, handlers and idempotency keys are interchangeable.
Interchangeable ==
  Permutations(Publishers) \cup Permutations(Handlers) \cup Permutations(Keys)

================================================================================
