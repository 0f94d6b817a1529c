---------------------------- MODULE MCSandboxWorker ----------------------------
(* Requests for TLC: two files of which one is edited, and two checks. *)
EXTENDS SandboxWorker, TLC

File(path, bytes) ==
  [path |-> path, bytes |-> bytes, sha256 |-> bytes, wellFormed |-> TRUE]

App == <<"src", "app.py">>

Check(id, argv) == [id |-> id, kind |-> "unit_test", argv |-> argv, timeout |-> 100]

\* Quotes of both kinds, spaces and an empty quotation inside the arguments.
Imports == Check("imports", <<<<"python">>, <<"it", "'", "s">>>>)
Tests == Check("tests", <<<<"pytest">>, <<"a", " ", "\"", "b", "'", "'", "\"">>, <<"'">>>>)

Request(attempt, token, files, edits, checks) ==
  [attempt |-> attempt, token |-> token, wellFormed |-> TRUE,
   files |-> files, edits |-> edits, checks |-> checks]

Patch ==
  Request("a1", "token", <<File(App, "v1")>>, <<File(App, "v2")>>, <<Imports, Tests>>)

\* The repaired patch of the same attempt adds a file and drops the edit of App.
Repaired ==
  Request("a1", "token", <<File(App, "v1")>>, <<File(<<"test.py">>, "t")>>, <<Tests>>)

\* A file whose bytes are not those of its digest.
Damaged ==
  Request("a2", "token", <<[File(App, "v1") EXCEPT !.sha256 = "v0"]>>,
          <<File(<<"test.py">>, "t")>>, <<Tests>>)

\* Requests that are turned away: an old token, a repeated edit, a workflow.
Stale == [Patch EXCEPT !.token = "old"]
Repeated == [Patch EXCEPT !.edits = @ \o @]
Workflow == [Patch EXCEPT !.files = <<File(<<".github", "workflows", "ci.yml">>, "v1")>>]

\* A command may put the original of App back.
SomeOutputs == {File(App, "v1")}

SomeRequests == {Patch, Repaired, Damaged, Stale, Repeated, Workflow}

================================================================================
