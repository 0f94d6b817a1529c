------------------------------ MODULE SandboxWorker ------------------------------
(***************************************************************************)
(* sandbox-worker/src/index.ts and its client: the generation worker sends *)
(* a patch and its checks, the Sandbox Worker writes them into a container *)
(* of its own, runs the checks one after the other, destroys the container *)
(* and answers; the client accepts the answer or not                       *)
(* (CloudflareSandboxExecutor.execute).                                    *)
(*                                                                         *)
(* The platform is external: a container is started by the first call made *)
(* to its name, unless MaxInstances of them are running, keeps its files   *)
(* and its processes until it is destroyed or stops by itself, and a call  *)
(* to one that stopped throws.  A command whose time limit passed is       *)
(* abandoned by the worker but goes on running, and so does what a command *)
(* started in the background.  A command runs the code of the repository:  *)
(* it may write any file, exit with any code and print anything.  The check*)
(* of the imports itself puts the original files back for a while.         *)
(***************************************************************************)
EXTENDS SandboxPolicy, FiniteSets

CONSTANTS
  Requests,       \* requests the generation worker may send
  MaxExecutions,  \* bound: requests sent
  MaxInstances,   \* max_instances of wrangler.jsonc
  ExecutorToken,  \* SANDBOX_EXECUTOR_TOKEN of the worker
  Outputs,        \* what a command may leave at a path: bytes, or none once removed
  MaxLongLogs     \* results with logs of full length in MAX_EXECUTOR_RESPONSE_BYTES

ASSUME WorkerAssumption ==
  /\ MaxExecutions \in Nat /\ MaxInstances \in Nat /\ MaxLongLogs \in Nat
  /\ Requests # {}
  /\ \A r \in Requests : /\ r.files \in Seq(ToSet(r.files))
                         /\ r.edits \in Seq(ToSet(r.edits))
                         /\ r.checks \in Seq(ToSet(r.checks))
                         /\ \A check \in ToSet(r.checks) :
                              check.argv \in Seq(Seq(CharactersOf(check.argv)))

VARIABLES
  calls,       \* the executions of the worker, one per request received
  containers,  \* the platform's containers, by sandbox name: their files, and the
               \* executions whose commands run in them
  client,      \* what became of each request at the generation worker
  observed,    \* history: checks seen to pass on exactly the request's own tree
  ownTree      \* history: the requested tree with what the request's own commands did
               \* to it, for as long as its container holds it

vars == <<calls, containers, client, observed, ownTree>>

Executions == 1 .. MaxExecutions

CallStates ==
  {"none", "received", "opening", "writing", "ready", "running", "destroying",
   "answered", "rejected", "lost"}
ClientStates == {"unsent", "waiting", "accepted", "refused", "failed"}
CheckStatuses == {"passed", "failed", "timed_out", "blocked", "infrastructure_error"}

\* What redactLog leaves of an output: all of it; its first 20,000 code units, each of
\* which JSON escapes; or a cut through a surrogate pair.
Logs == {"plain", "long", "split"}

NoTree == {}
NoContainer == [alive |-> FALSE, tree |-> NoTree, processes |-> {}]

Init ==
  /\ calls = [e \in Executions |->
       [state |-> "none", request |-> CHOOSE r \in Requests : TRUE, next |-> 1,
        written |-> 0, results |-> <<>>, status |-> "passed", destroyed |-> FALSE]]
  /\ containers = [e \in Executions |-> NoContainer]
  /\ client = [e \in Executions |-> "unsent"]
  /\ observed = [e \in Executions |-> {}]
  /\ ownTree = [e \in Executions |-> NoTree]

\* Mutation: the sandbox is named after the attempt only.
SandboxName_OfAttempt(e) ==
  CHOOSE d \in Executions :
    /\ calls[d].request.attempt = calls[e].request.attempt
    /\ \A f \in Executions : calls[f].request.attempt = calls[e].request.attempt
                             => d <= f

\* attempt-<attempt id>-<random UUID>: a name of its own for each execution.
SandboxName(e) == e

Container(e) == containers[SandboxName(e)]
Checks(e) == calls[e].request.checks

\* The tree as the set of <<path, bytes>> a container holds.
Written(tree, file) ==
  {entry \in tree : entry[1] # file.path} \cup {<<file.path, file.bytes>>}

\* Mutation: the bundle is written over the edits.
WriteOrder_EditsFirst(r) == r.edits \o r.files

WriteOrder(r) == r.files \o r.edits

\* What the request asks to be checked: the contents with the digests it names, the
\* edits over the bundled files.
RequestedTree(r) ==
  {<<r.edits[i].path, r.edits[i].sha256>> : i \in DOMAIN r.edits} \cup
  {<<r.files[i].path, r.files[i].sha256>> :
     i \in {j \in DOMAIN r.files : \A k \in DOMAIN r.edits :
              r.edits[k].path # r.files[j].path}}

--------------------------------------------------------------------------------
(* fetch and execute *)

\* The generation worker sends one request at a time: a repaired patch of the same
\* attempt, or another attempt's, once it is done with the last one.
Send(e, r) ==
  /\ client[e] = "unsent"
  /\ \A d \in Executions : d < e => client[d] \notin {"unsent", "waiting"}
  /\ client' = [client EXCEPT ![e] = "waiting"]
  /\ calls' = [calls EXCEPT ![e].state = "received", ![e].request = r]
  /\ UNCHANGED <<containers, observed, ownTree>>

\* 401 for another token, 400 for a request that does not parse.
Rejects(r) == r.token # ExecutorToken \/ ~ ParsesAsRequest(r)

Reject(e) ==
  /\ calls[e].state = "received"
  /\ Rejects(calls[e].request)
  /\ calls' = [calls EXCEPT ![e].state = "rejected"]
  /\ UNCHANGED <<containers, client, observed, ownTree>>

Accept(e) ==
  /\ calls[e].state = "received"
  /\ ~ Rejects(calls[e].request)
  /\ calls' = [calls EXCEPT ![e].state = "opening"]
  /\ UNCHANGED <<containers, client, observed, ownTree>>

Running == {e \in Executions : containers[e].alive}

\* The first call, mkdir /workspace/repository, starts the container.
Open(e) ==
  /\ calls[e].state = "opening"
  /\ Container(e).alive \/ Cardinality(Running) < MaxInstances
  /\ containers' = [containers EXCEPT ![SandboxName(e)].alive = TRUE]
  /\ calls' = [calls EXCEPT ![e].state = "writing"]
  /\ UNCHANGED <<client, observed, ownTree>>

\* Mutation: the digest of a file is not compared.
CanWriteFile_Unverified(file) == NormalPath(file.path)

\* writeFiles throws for a path it does not accept or bytes that are not those of
\* the digest.
CanWriteFile(file) == NormalPath(file.path) /\ file.bytes = file.sha256

WriteFile(e) ==
  LET c == calls[e]
      file == WriteOrder(c.request)[c.written + 1]
  IN  /\ c.state = "writing"
      /\ c.written < Len(WriteOrder(c.request))
      /\ CanWriteFile(file)
      /\ Container(e).alive
      /\ containers' = [containers EXCEPT ![SandboxName(e)].tree = Written(@, file)]
      /\ calls' = [calls EXCEPT ![e].written = @ + 1]
      /\ UNCHANGED <<client, observed, ownTree>>

WritingEnds(e) ==
  /\ calls[e].state = "writing"
  /\ calls[e].written = Len(WriteOrder(calls[e].request))
  /\ calls' = [calls EXCEPT ![e].state = "ready"]
  /\ ownTree' = [ownTree EXCEPT ![e] = RequestedTree(calls[e].request)]
  /\ UNCHANGED <<containers, client, observed>>

\* Any call of the preparation may throw: no check runs.
PreparationThrows(e) ==
  /\ calls[e].state \in {"opening", "writing"}
  /\ calls' = [calls EXCEPT ![e].state = "destroying",
                            ![e].status = "infrastructure_error"]
  /\ UNCHANGED <<containers, client, observed, ownTree>>

--------------------------------------------------------------------------------
(* The checks, in the order of the request *)

StartCheck(e) ==
  /\ calls[e].state = "ready"
  /\ Container(e).alive
  /\ containers' = [containers EXCEPT ![SandboxName(e)].processes =
                      @ \cup {e}]
  /\ calls' = [calls EXCEPT ![e].state = "running"]
  /\ UNCHANGED <<client, observed, ownTree>>

\* A command of the execution, the current one or one left behind, changes a file.
CommandWrites(e) ==
  LET n == SandboxName(e)
  IN  /\ e \in containers[n].processes
      /\ \E file \in Outputs :
           /\ containers' = [containers EXCEPT ![n].tree = Written(@, file)]
           /\ ownTree' = [ownTree EXCEPT ![e] = Written(@, file)]
      /\ UNCHANGED <<calls, client, observed>>

Result(check, status, log) ==
  [id |-> check.id, kind |-> check.kind, status |-> status, log |-> log]

\* Where each result of a check leaves the execution.
StatusAfter ==
  [passed |-> "passed", failed |-> "failed", timed_out |-> "infrastructure_error",
   infrastructure_error |-> "infrastructure_error"]

IsLast(c) == c.next = Len(c.request.checks)

\* Mutation: the index stays on the check that stopped the run.
Recorded_SameIndex(c, result, log) ==
  [c EXCEPT !.results = Append(@, Result(c.request.checks[c.next], result, log)),
            !.next = IF result = "passed" THEN c.next + 1 ELSE c.next,
            !.status = StatusAfter[result],
            !.state = IF result = "passed" /\ ~ IsLast(c) THEN "ready" ELSE "destroying"]

\* One more result: the first that is not "passed" ends the run.
Recorded(c, result, log) ==
  [c EXCEPT !.results = Append(@, Result(c.request.checks[c.next], result, log)),
            !.next = c.next + 1,
            !.status = StatusAfter[result],
            !.state = IF result = "passed" /\ ~ IsLast(c) THEN "ready" ELSE "destroying"]

\* The command exits within its limit; the repository decides with which code, what is
\* printed, and what keeps running in the background.
CheckExits(e, success, log) ==
  LET c == calls[e]
      n == SandboxName(e)
  IN  /\ c.state = "running"
      /\ e \in containers[n].processes
      /\ calls' = [calls EXCEPT ![e] =
                     Recorded(c, IF success THEN "passed" ELSE "failed", log)]
      /\ \/ containers' = [containers EXCEPT ![n].processes = @ \ {e}]
         \/ UNCHANGED containers
      /\ observed' =
           IF /\ success
              /\ containers[n].tree = ownTree[e]
              /\ containers[n].processes = {e}
           THEN [observed EXCEPT ![e] = @ \cup {c.next}]
           ELSE observed
      /\ UNCHANGED <<client, ownTree>>

\* exec throws at the limit of the command, which goes on running.
CheckTimesOut(e) ==
  /\ calls[e].state = "running"
  /\ calls' = [calls EXCEPT ![e] = Recorded(@, "timed_out", "plain")]
  /\ UNCHANGED <<containers, client, observed, ownTree>>

\* exec throws for another reason: the container is gone, or cannot be reached.
CheckThrows(e) ==
  /\ calls[e].state \in {"ready", "running"}
  /\ calls' = [calls EXCEPT ![e] = Recorded(@, "infrastructure_error", "plain")]
  /\ UNCHANGED <<containers, client, observed, ownTree>>

--------------------------------------------------------------------------------
(* The finally block and the answer *)

\* Mutation: a sandbox that may still exist does not matter.
Answered_Anyway(c, destroyed) ==
  [c EXCEPT !.state = "answered", !.destroyed = destroyed,
            !.results = @ \o [i \in 1 .. Len(c.request.checks) + 1 - c.next |->
                                Result(c.request.checks[c.next + i - 1], "blocked", "plain")]]

\* Checks that did not run are "blocked"; no success without the teardown.
Answered(c, destroyed) ==
  [c EXCEPT !.state = "answered", !.destroyed = destroyed,
            !.status = IF destroyed THEN @ ELSE "infrastructure_error",
            !.results = @ \o [i \in 1 .. Len(c.request.checks) + 1 - c.next |->
                                Result(c.request.checks[c.next + i - 1], "blocked", "plain")]]

Destroy(e) ==
  /\ calls[e].state = "destroying"
  /\ containers' = [containers EXCEPT ![SandboxName(e)] = NoContainer]
  /\ calls' = [calls EXCEPT ![e] = Answered(@, TRUE)]
  /\ ownTree' = [ownTree EXCEPT ![e] = NoTree]
  /\ UNCHANGED <<client, observed>>

\* Mutation: the teardown is awaited however long it takes.
DestroyFails_Never(e) ==
  /\ FALSE
  /\ UNCHANGED vars

\* destroy throws or takes 10 seconds: the container may live on.
DestroyFails(e) ==
  /\ calls[e].state = "destroying"
  /\ calls' = [calls EXCEPT ![e] = Answered(@, FALSE)]
  /\ UNCHANGED <<containers, client, observed, ownTree>>

--------------------------------------------------------------------------------
(* The platform, and the client *)

InProgress(e) ==
  calls[e].state \in {"received", "opening", "writing", "ready", "running", "destroying"}

\* A container stops by itself: idle after a failed teardown, or evicted.
ContainerStops(n) ==
  /\ containers[n].alive
  /\ containers' = [containers EXCEPT ![n] = NoContainer]
  /\ ownTree' = [e \in Executions |-> IF SandboxName(e) = n THEN NoTree ELSE ownTree[e]]
  /\ UNCHANGED <<calls, client, observed>>

\* The request's worker is evicted, or its client disconnected: no finally block.
WorkerDies(e) ==
  /\ InProgress(e)
  /\ calls' = [calls EXCEPT ![e].state = "lost"]
  /\ UNCHANGED <<containers, client, observed, ownTree>>

\* The answer fits in the client's response limit and is read back as the JSON it was:
\* half a surrogate pair is no string of SandboxCheckResult.
Legible(c) ==
  /\ Cardinality({i \in DOMAIN c.results : c.results[i].log = "long"}) <= MaxLongLogs
  /\ \A i \in DOMAIN c.results : c.results[i].log # "split"

\* The client's own validation of a 200 answer.
Acceptable(c) ==
  /\ Legible(c)
  /\ Len(c.results) = Len(c.request.checks)
  /\ \A i \in DOMAIN c.results :
       /\ c.results[i].id = c.request.checks[i].id
       /\ c.results[i].kind = c.request.checks[i].kind
  /\ c.status = "passed" =>
       /\ c.destroyed
       /\ \A i \in DOMAIN c.results : c.results[i].status = "passed"

Receive(e) ==
  /\ client[e] = "waiting"
  /\ calls[e].state \in {"answered", "rejected"}
  /\ client' = [client EXCEPT ![e] =
       IF calls[e].state = "rejected" THEN "failed"
       ELSE IF Acceptable(calls[e]) THEN "accepted" ELSE "refused"]
  /\ UNCHANGED <<calls, containers, observed, ownTree>>

\* 180 seconds without a byte, or a connection error: the attempt fails.
GiveUp(e) ==
  /\ client[e] = "waiting"
  /\ client' = [client EXCEPT ![e] = "failed"]
  /\ UNCHANGED <<calls, containers, observed, ownTree>>

--------------------------------------------------------------------------------

Next ==
  \E e \in Executions :
    \/ \E r \in Requests : Send(e, r)
    \/ Reject(e) \/ Accept(e) \/ Open(e)
    \/ WriteFile(e) \/ WritingEnds(e) \/ PreparationThrows(e)
    \/ StartCheck(e) \/ CommandWrites(e)
    \/ \E success \in BOOLEAN, log \in Logs : CheckExits(e, success, log)
    \/ CheckTimesOut(e) \/ CheckThrows(e)
    \/ Destroy(e) \/ DestroyFails(e)
    \/ ContainerStops(e) \/ WorkerDies(e)
    \/ Receive(e) \/ GiveUp(e)

\* Once the files are written, every wait of the worker is bounded by the code: a
\* command by its timeout, the teardown by 10 seconds.  The calls that prepare the
\* container have no such bound, so nothing is assumed of them.
Fairness ==
  \A e \in Executions :
    /\ WF_vars(WritingEnds(e))
    /\ WF_vars(StartCheck(e) \/ CheckThrows(e))
    /\ WF_vars(CheckTimesOut(e))
    /\ WF_vars(DestroyFails(e))

Spec == Init /\ [][Next]_vars
FairSpec == Spec /\ Fairness

--------------------------------------------------------------------------------
(* Properties *)

\* The variables have their types.
TypeOK ==
  /\ DOMAIN calls = Executions
  /\ \A e \in Executions :
       /\ calls[e].state \in CallStates
       /\ calls[e].request \in Requests
       /\ calls[e].next \in Nat \ {0} /\ calls[e].written \in Nat
       /\ calls[e].status \in {"passed", "failed", "infrastructure_error"}
       /\ calls[e].destroyed \in BOOLEAN
       /\ Len(calls[e].results) < calls[e].next \/ calls[e].state = "answered"
  /\ client \in [Executions -> ClientStates]
  /\ observed \in [Executions -> SUBSET Nat]
  /\ DOMAIN ownTree = Executions

\* Evidence the client accepts as a pass is a fact of the execution: every requested
\* check, and no other, exited with success, while nothing of another request ran, on
\* the bundled files with the edits over them and nothing else but what the commands of
\* this very request had written there, in a container that is gone.  It survives a
\* client that gave up on another request, a teardown that failed, a repaired patch
\* of the same attempt, commands that outlive their check and go on writing, and
\* containers that stop at any moment.
AcceptedPassIsReal ==
  \A e \in Executions :
    client[e] = "accepted" /\ calls[e].status = "passed" =>
      /\ observed[e] = DOMAIN Checks(e)
      /\ ~ Container(e).alive

\* The worker's bookkeeping of results and the client's validation of them agree:
\* whatever happened in the sandbox, the answer has one result for each requested
\* check, in order, and is a success only with all of them passed and the teardown
\* confirmed.  The client refuses a genuine answer only for what the commands printed:
\* logs that outgrow its response limit, or that redactLog cut inside a character.
GenuineAnswersAreAccepted ==
  \A e \in Executions : client[e] = "refused" => ~ Legible(calls[e])

\* The one string handed to exec is read back by the shell as the requested argv,
\* word for word and with no character left to an expansion, whatever quotes and spaces
\* the arguments contain.
CommandsSurviveTheShell ==
  \A e \in Executions :
    calls[e].state = "running" =>
      LET argv == Checks(e)[calls[e].next].argv
      IN  /\ ShellWords(CommandLine(argv)) = argv
          /\ ShellTakesLiterally(CommandLine(argv))

\* However long the repository's commands and the teardown take, a request whose
\* files were written is answered, unless the worker itself dies.
WrittenRequestsAreAnswered ==
  \A e \in Executions :
    calls[e].state = "ready" ~> calls[e].state \in {"answered", "lost"}

================================================================================
