--------------------------- MODULE MCRepositoryFanout ---------------------------
(* Overlapping syncs of one source, and two workers that analyse its changes. *)
EXTENDS RepositoryFanout, TLC

CONSTANT Source

OnlySource == [y \in Syncs |-> Source]

================================================================================
