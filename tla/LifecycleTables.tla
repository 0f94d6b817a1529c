---------------------------- MODULE LifecycleTables ----------------------------
(***************************************************************************)
(* The transition tables of the two versioned entities of the control      *)
(* plane, and the optimistic check every store function makes before it    *)
(* moves one of them.                                                      *)
(***************************************************************************)
EXTENDS Naturals

MIGRATION_TRANSITIONS ==
  [ queued         |-> {"planning"},
    planning       |-> {"generating", "blocked"},
    generating     |-> {"verifying", "needs_revision", "blocked"},
    verifying      |-> {"ready", "needs_revision", "blocked"},
    ready          |-> {"pr_opening", "needs_revision", "snoozed", "declined"},
    needs_revision |-> {"planning"},
    blocked        |-> {"planning", "pr_opening"},
    pr_opening     |-> {"pr_opened", "blocked"},
    pr_opened      |-> {"approved", "needs_revision", "snoozed", "declined"},
    snoozed        |-> {"queued"},
    declined       |-> {"queued"},
    approved       |-> {"completed"},
    completed      |-> {} ]

ATTEMPT_TRANSITIONS ==
  [ created    |-> {"planning", "cancelled"},
    planning   |-> {"generating", "failed", "cancelled"},
    generating |-> {"verifying", "failed", "cancelled"},
    verifying  |-> {"reviewing", "failed", "cancelled"},
    reviewing  |-> {"completed", "failed", "cancelled"},
    completed  |-> {},
    failed     |-> {},
    cancelled  |-> {} ]

MigrationStates ==
  {"queued", "planning", "generating", "verifying", "ready", "needs_revision",
   "blocked", "pr_opening", "pr_opened", "snoozed", "declined", "approved",
   "completed"}

AttemptStates ==
  {"created", "planning", "generating", "verifying", "reviewing", "completed",
   "failed", "cancelled"}

TerminalAttempt == {s \in AttemptStates : ATTEMPT_TRANSITIONS[s] = {}}

\* Mutation: the optimistic version check is missing.
ValidTransition_Unversioned(transitions, current, requested, version, expected) ==
  requested \in transitions[current]

(***************************************************************************)
(* validate_transition: the caller's version is the row's, and the table   *)
(* has the edge.  Where it holds, the row's next version is version + 1.   *)
(***************************************************************************)
ValidTransition(transitions, current, requested, version, expected) ==
  /\ version = expected
  /\ requested \in transitions[current]

================================================================================
