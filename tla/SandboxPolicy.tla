------------------------------ MODULE SandboxPolicy ------------------------------
(***************************************************************************)
(* sandbox-worker/src/policy.ts: what the Sandbox Worker accepts as an     *)
(* execution request, and the shell quoting of the commands it runs.       *)
(*                                                                         *)
(* A path is the sequence of its segments in lower case (the worker        *)
(* compares lower-cased paths), so the empty path, a leading "/" and "//"  *)
(* are empty segments; a segment with a backslash or a NUL is written      *)
(* "\\".  A word of a command is a sequence of characters, a run of        *)
(* ordinary ones written as one.                                           *)
(***************************************************************************)
EXTENDS Naturals, Sequences, SequencesExt

CONSTANTS
  MAX_FILES, MAX_EDITS, MAX_CHECKS,  \* limits of policy.ts
  MaxCommandTimeout                  \* MAX_COMMAND_TIMEOUT_MS of the deployment

ASSUME PolicyAssumption ==
  /\ MAX_FILES \in Nat /\ MAX_EDITS \in Nat /\ MAX_CHECKS \in Nat
  /\ MaxCommandTimeout \in Nat

--------------------------------------------------------------------------------
(* Paths *)

DENIED_PREFIXES ==
  {<<".git">>, <<".github", "workflows">>, <<".circleci">>, <<".buildkite">>,
   <<".ssh">>, <<".aws">>, <<".config", "gcloud">>}

\* The last five stand for .env.* and for the suffixes .key, .pem, .p12 and .pfx.
DENIED_FILE_NAMES ==
  {".env", ".env.local", ".npmrc", ".pypirc", ".netrc", "id_rsa", "id_ed25519",
   "credentials", "credentials.json", "credentials.yml", "credentials.yaml",
   "service-account.json", ".env.x", "x.key", "x.pem", "x.p12", "x.pfx"}

\* normalizePath throws for every other path and returns these unchanged.
NormalPath(path) ==
  /\ path # <<>>
  /\ ToSet(path) \cap {"", ".", "..", "\\"} = {}
  /\ \A prefix \in DENIED_PREFIXES : ~ IsPrefix(prefix, path)
  /\ Last(path) \notin DENIED_FILE_NAMES

--------------------------------------------------------------------------------
(* Requests *)

ALLOWED_EXECUTABLES ==
  {<<"python">>, <<"python3">>, <<"pytest">>, <<"ruff">>, <<"mypy">>, <<"pyright">>,
   <<"pip">>, <<"uv">>, <<"poetry">>, <<"node">>, <<"npm">>, <<"npx">>, <<"pnpm">>,
   <<"yarn">>, <<"bun">>, <<"go">>, <<"cargo">>, <<"bundle">>}

\* parseFile and parseExecutionRequest: the types, patterns and versions of a
\* value's scalar fields are its field wellFormed.
ParsesAsFile(file) == file.wellFormed /\ NormalPath(file.path)

ParsesAsCommand(check) ==
  /\ Len(check.argv) \in 1 .. 32
  /\ check.timeout \in 100 .. MaxCommandTimeout
  /\ check.argv[1] \in ALLOWED_EXECUTABLES
  /\ \A i \in DOMAIN check.argv :
       check.argv[i] # <<>> /\ ToSet(check.argv[i]) \cap {"\r", "\n"} = {}

Distinct(seq) == \A i, j \in DOMAIN seq : seq[i] = seq[j] => i = j

Paths(files) == [i \in DOMAIN files |-> files[i].path]
CheckIds(checks) == [i \in DOMAIN checks |-> checks[i].id]

\* parseExecutionRequest.  An edit may name a bundled file (it replaces it); no list
\* repeats itself.
ParsesAsRequest(r) ==
  /\ r.wellFormed
  /\ Len(r.files) <= MAX_FILES
  /\ Len(r.edits) \in 1 .. MAX_EDITS
  /\ Len(r.checks) \in 1 .. MAX_CHECKS
  /\ \A i \in DOMAIN r.files : ParsesAsFile(r.files[i])
  /\ \A i \in DOMAIN r.edits : ParsesAsFile(r.edits[i])
  /\ \A i \in DOMAIN r.checks : ParsesAsCommand(r.checks[i])
  /\ Distinct(Paths(r.files))
  /\ Distinct(Paths(r.edits))
  /\ Distinct(CheckIds(r.checks))

--------------------------------------------------------------------------------
(* Commands *)

CharactersOf(argv) == UNION {ToSet(argv[i]) : i \in DOMAIN argv}

\* Mutation: quotes inside a word are left as they are.
ShellQuote_Outside(word) == <<"'">> \o word \o <<"'">>

\* A quote inside a word closes the quotation, is quoted, and opens it again.
ShellQuote(word) ==
  LET quoted == [i \in DOMAIN word |->
                   IF word[i] = "'" THEN <<"'", "\"", "'", "\"", "'">>
                   ELSE <<word[i]>>]
  IN  <<"'">> \o FlattenSeq(quoted) \o <<"'">>

\* check.argv.map(shellQuote).join(" ")
CommandLine(argv) ==
  FlattenSeq([i \in DOMAIN argv |->
                IF i = 1 THEN ShellQuote(argv[i]) ELSE <<" ">> \o ShellQuote(argv[i])])

\* The shell's own reading of a line, one character at a time: the reference the
\* quoting is checked against.  What it reads is literal as long as every character of a
\* word is quoted, by single quotes or, if it is one of those, by double ones: any other
\* may be expanded.
ShellStart == [quote |-> "none", open |-> FALSE, word |-> <<>>, words |-> <<>>, literal |-> TRUE]

ShellTakes(s, c) ==
  [quote |-> s.quote, open |-> TRUE, word |-> Append(s.word, c), words |-> s.words,
   literal |-> s.literal /\ (s.quote = "'" \/ <<s.quote, c>> = <<"\"", "'">>)]

ShellEndsWord(s) ==
  [s EXCEPT !.words = Append(@, s.word), !.word = <<>>, !.open = FALSE]

ShellStep(s, c) ==
  CASE s.quote = "none" /\ c \in {"'", "\""} -> [s EXCEPT !.quote = c, !.open = TRUE]
    [] s.quote = "none" /\ c = " " -> IF s.open THEN ShellEndsWord(s) ELSE s
    [] s.quote # "none" /\ s.quote = c -> [s EXCEPT !.quote = "none"]
    [] OTHER -> ShellTakes(s, c)

\* The shell after reading a line from state s.
ShellReads(s, line) ==
  LET reading[n \in 0 .. Len(line)] ==
        IF n = 0 THEN s ELSE ShellStep(reading[n - 1], line[n])
  IN  reading[Len(line)]

\* The words of a line, and whether the shell takes them as they are written.
ShellWords(line) == ShellReads(ShellStart, Append(line, " ")).words
ShellTakesLiterally(line) == ShellReads(ShellStart, line).literal

================================================================================
