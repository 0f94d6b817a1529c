---------------------------- MODULE SandboxWorkerProofs ----------------------------
(***************************************************************************)
(* SandboxWorker for any requests, executions, instances and limits.  An   *)
(* execution and its container are touched by nobody else, since the       *)
(* sandbox has a name of its own, so the invariant CallOK is about one     *)
(* execution at a time: what its phase says of its results, of the checks  *)
(* seen to pass, and of the tree of its container, which is what was       *)
(* requested with what the execution's own commands did to it.             *)
(***************************************************************************)
EXTENDS SandboxWorker, SequenceTheorems, WellFoundedInduction, TLAPS

AllFiles == Outputs \cup UNION {ToSet(r.files) \cup ToSet(r.edits) : r \in Requests}
AllChecks == UNION {ToSet(r.checks) : r \in Requests}

ResultRecord ==
  [id : {check.id : check \in AllChecks}, kind : {check.kind : check \in AllChecks},
   status : CheckStatuses, log : Logs]

CallRecord ==
  [state : CallStates, request : Requests, next : Nat \ {0}, written : Nat,
   results : Seq(ResultRecord), status : {"passed", "failed", "infrastructure_error"},
   destroyed : BOOLEAN]

ContainerRecord ==
  [alive : BOOLEAN,
   tree : SUBSET ({file.path : file \in AllFiles} \X {file.bytes : file \in AllFiles}),
   processes : SUBSET Executions]

\* The tree after the first n files of a list: of the files with one path, the last.
LastWrites(files, n) ==
  {i \in 1 .. n : \A j \in i + 1 .. n : files[j].path # files[i].path}

TreeOf(files, n) == {<<files[i].path, files[i].bytes>> : i \in LastWrites(files, n)}

--------------------------------------------------------------------------------
(* The invariant of one execution: call c, container k, client cl, observation ob and *)
(* the tree l as its commands left it                                                *)

\* The results so far are of the requested checks, in order.
ResultsMatch(c) ==
  \A i \in 1 .. Len(c.results) :
    c.results[i].id = c.request.checks[i].id /\ c.results[i].kind = c.request.checks[i].kind

AllPassed(c) == \A i \in 1 .. Len(c.results) : c.results[i].status = "passed"

\* Nothing has happened yet.
FreshOK(c, k, ob) ==
  /\ c.next = 1 /\ c.written = 0 /\ c.results = <<>> /\ c.status = "passed"
  /\ k = NoContainer
  /\ ob = {}

\* The files written so far are what they should be, if the container is still there.
WritingOK(c, k, ob) ==
  /\ c.next = 1 /\ c.results = <<>> /\ c.status = "passed"
  /\ ob = {} /\ k.processes = {}
  /\ c.written <= Len(WriteOrder(c.request))
  /\ \A i \in 1 .. c.written : CanWriteFile(WriteOrder(c.request)[i])
  /\ k.alive => k.tree = TreeOf(WriteOrder(c.request), c.written)

\* Every check so far passed, and nothing but the request's own commands has touched
\* the tree since it was written.
CheckingOK(e, c, k, ob, l) ==
  /\ c.next <= Len(c.request.checks) /\ Len(c.results) = c.next - 1
  /\ ResultsMatch(c) /\ AllPassed(c)
  /\ ob = 1 .. c.next - 1
  /\ k.alive => k.tree = l
  /\ k.processes \subseteq {e}

\* The run is over; a success is one of every check.
PassIsReal(c, ob) ==
  /\ c.next = Len(c.request.checks) + 1
  /\ AllPassed(c)
  /\ ob = 1 .. Len(c.request.checks)

EndingOK(c, ob) ==
  /\ c.next <= Len(c.request.checks) + 1 /\ Len(c.results) = c.next - 1
  /\ ResultsMatch(c)
  /\ c.status = "passed" => PassIsReal(c, ob)

\* The answer; a success is of a container that is gone.
AnsweredOK(c, k, ob) ==
  /\ Len(c.results) = Len(c.request.checks)
  /\ ResultsMatch(c)
  /\ c.status = "passed" => PassIsReal(c, ob) /\ c.destroyed /\ ~ k.alive

CallOK(e, c, k, cl, ob, l) ==
  /\ cl = "unsent" <=> c.state = "none"
  /\ cl = "accepted" => c.state = "answered"
  /\ cl = "refused" => c.state = "answered" /\ ~ Legible(c)
  /\ k.processes # {} => k.alive
  /\ c.state \notin {"none", "received", "rejected", "lost"} => ~ Rejects(c.request)
  /\ c.state # "answered" => Len(c.results) < c.next
  /\ c.state \in {"none", "received", "opening"} => FreshOK(c, k, ob)
  /\ c.state = "writing" => WritingOK(c, k, ob)
  /\ c.state \in {"ready", "running"} => CheckingOK(e, c, k, ob, l)
  /\ c.state = "destroying" => EndingOK(c, ob)
  /\ c.state = "answered" => AnsweredOK(c, k, ob)

WorkerInv ==
  /\ calls \in [Executions -> CallRecord]
  /\ containers \in [Executions -> ContainerRecord]
  /\ client \in [Executions -> ClientStates]
  /\ observed \in [Executions -> SUBSET Nat]
  /\ ownTree = [e \in Executions |-> ownTree[e]]
  /\ \A e \in Executions :
       CallOK(e, calls[e], containers[e], client[e], observed[e], ownTree[e])

--------------------------------------------------------------------------------
(* Requests and trees *)

LEMMA SeqOfMore ==
  ASSUME NEW A, NEW B, A \subseteq B, NEW seq \in Seq(A)
  PROVE  seq \in Seq(B)
<1>1. Len(seq) \in Nat /\ seq \in [1 .. Len(seq) -> B]
  BY LenProperties
<1>2. QED
  BY <1>1

LEMMA RequestLists ==
  ASSUME NEW r \in Requests
  PROVE  r.files \in Seq(AllFiles) /\ r.edits \in Seq(AllFiles) /\ r.checks \in Seq(AllChecks)
<1>1. /\ r.files \in Seq(ToSet(r.files))
      /\ r.edits \in Seq(ToSet(r.edits))
      /\ r.checks \in Seq(ToSet(r.checks))
  BY WorkerAssumption
<1>2. /\ ToSet(r.files) \subseteq AllFiles /\ ToSet(r.edits) \subseteq AllFiles
      /\ ToSet(r.checks) \subseteq AllChecks
  BY DEF AllFiles, AllChecks
<1>3. QED
  BY <1>1, <1>2, SeqOfMore

\* The bundled files, then the edits.
LEMMA WriteOrderParts ==
  ASSUME NEW r \in Requests
  PROVE  /\ WriteOrder(r) \in Seq(AllFiles)
         /\ Len(r.files) \in Nat /\ Len(r.edits) \in Nat
         /\ Len(WriteOrder(r)) = Len(r.files) + Len(r.edits)
         /\ \A i \in 1 .. Len(r.files) : WriteOrder(r)[i] = r.files[i]
         /\ \A i \in 1 .. Len(r.edits) : WriteOrder(r)[Len(r.files) + i] = r.edits[i]
<1>1. r.files \in Seq(AllFiles) /\ r.edits \in Seq(AllFiles)
  BY RequestLists
<1> DEFINE m == Len(r.files)
           n == Len(r.edits)
           W == r.files \o r.edits
<1>2. m \in Nat /\ n \in Nat
  BY <1>1, LenProperties
<1>3. /\ W \in Seq(AllFiles)
      /\ Len(W) = m + n
      /\ \A i \in 1 .. m + n : W[i] = IF i <= m THEN r.files[i] ELSE r.edits[i - m]
  BY <1>1, ConcatProperties
<1>4. WriteOrder(r) = W
  BY DEF WriteOrder
<1> HIDE DEF m, n, W
<1>5. \A i \in 1 .. m : W[i] = r.files[i]
  BY <1>2, <1>3
<1>6. ASSUME NEW i \in 1 .. n PROVE W[m + i] = r.edits[i]
  <2>1. m + i \in 1 .. m + n /\ ~ (m + i <= m) /\ (m + i) - m = i
    BY <1>2
  <2>2. QED
    BY <1>3, <2>1
<1>7. QED
  BY <1>2, <1>3, <1>4, <1>5, <1>6 DEF m, n

\* Writing one more file of a list.
LEMMA WrittenIsTheNextTree ==
  ASSUME NEW files, NEW n \in Nat
  PROVE  Written(TreeOf(files, n), files[n + 1]) = TreeOf(files, n + 1)
<1> DEFINE f == files[n + 1]
<1>1. LastWrites(files, n + 1) =
        {i \in LastWrites(files, n) : files[i].path # f.path} \cup {n + 1}
  <2>1. ASSUME NEW i \in LastWrites(files, n + 1)
        PROVE  i = n + 1 \/ (i \in LastWrites(files, n) /\ files[i].path # f.path)
    BY <2>1 DEF LastWrites
  <2>2. n + 1 \in LastWrites(files, n + 1)
    BY DEF LastWrites
  <2>3. ASSUME NEW i \in LastWrites(files, n), files[i].path # f.path
        PROVE  i \in LastWrites(files, n + 1)
    <3>1. i \in 1 .. n /\ \A j \in i + 1 .. n : files[j].path # files[i].path
      BY DEF LastWrites
    <3>2. \A j \in i + 1 .. n + 1 : j = n + 1 \/ j \in i + 1 .. n
      BY <3>1
    <3>3. QED
      BY <2>3, <3>1, <3>2 DEF LastWrites
  <2>4. QED
    BY <2>1, <2>2, <2>3
<1>2. Written(TreeOf(files, n), f) =
        {entry \in TreeOf(files, n) : entry[1] # f.path} \cup {<<f.path, f.bytes>>}
  BY DEF Written
<1>3. {entry \in TreeOf(files, n) : entry[1] # f.path} =
        {<<files[i].path, files[i].bytes>> :
           i \in {j \in LastWrites(files, n) : files[j].path # f.path}}
  BY DEF TreeOf
<1> HIDE DEF f
<1>4. TreeOf(files, n + 1) =
        {<<files[i].path, files[i].bytes>> :
           i \in {j \in LastWrites(files, n) : files[j].path # f.path} \cup {n + 1}}
  BY <1>1 DEF TreeOf
<1>5. f = files[n + 1]
  BY DEF f
<1>6. QED
  BY <1>2, <1>3, <1>4, <1>5

\* All of the files, written with the bytes of their digests, are the requested tree: an
\* edit is the last write of its path, a bundled file unless an edit has its path.
LEMMA AllWrittenIsRequested ==
  ASSUME NEW r \in Requests, ParsesAsRequest(r),
         \A i \in 1 .. Len(WriteOrder(r)) : CanWriteFile(WriteOrder(r)[i])
  PROVE  TreeOf(WriteOrder(r), Len(WriteOrder(r))) = RequestedTree(r)
<1> DEFINE W == WriteOrder(r)
           m == Len(r.files)
           n == Len(r.edits)
           Kept == {j \in DOMAIN r.files : \A k \in DOMAIN r.edits :
                      r.edits[k].path # r.files[j].path}
<1>1. /\ m \in Nat /\ n \in Nat /\ Len(W) = m + n
      /\ \A i \in 1 .. m : W[i] = r.files[i]
      /\ \A i \in 1 .. n : W[m + i] = r.edits[i]
      /\ \A i \in 1 .. m + n : W[i].bytes = W[i].sha256
  BY WriteOrderParts DEF CanWriteFile
<1>2. DOMAIN r.files = 1 .. m /\ DOMAIN r.edits = 1 .. n
  BY RequestLists, LenProperties
<1>3. /\ \A i, j \in 1 .. m : r.files[i].path = r.files[j].path => i = j
      /\ \A i, j \in 1 .. n : r.edits[i].path = r.edits[j].path => i = j
  BY <1>2 DEF ParsesAsRequest, Distinct, Paths
<1> HIDE DEF W, m, n
<1>4. \A i \in 1 .. m + n : (\E k \in 1 .. n : i = m + k) \/ i \in 1 .. m
  <2> TAKE i \in 1 .. m + n
  <2>1. i > m => i - m \in 1 .. n /\ i = m + (i - m)
    BY <1>1
  <2>2. QED
    BY <1>1, <2>1
<1>5. \A k \in 1 .. n : m + k \in LastWrites(W, m + n)
  <2> TAKE k \in 1 .. n
  <2>1. m + k \in 1 .. m + n
    BY <1>1
  <2>2. ASSUME NEW j \in m + k + 1 .. m + n PROVE W[j].path # W[m + k].path
    <3>1. j - m \in 1 .. n /\ j = m + (j - m) /\ j - m # k
      BY <1>1
    <3>2. W[j] = r.edits[j - m] /\ W[m + k] = r.edits[k]
      BY <1>1, <3>1
    <3>3. QED
      BY <1>3, <3>1, <3>2
  <2>3. QED
    BY <2>1, <2>2 DEF LastWrites
<1>6. \A i \in 1 .. m : i \in LastWrites(W, m + n) <=> i \in Kept
  <2> TAKE i \in 1 .. m
  <2>1. ASSUME i \in LastWrites(W, m + n), NEW k \in 1 .. n PROVE r.edits[k].path # r.files[i].path
    <3>1. m + k \in i + 1 .. m + n
      BY <1>1
    <3>2. W[m + k].path # W[i].path
      BY <2>1, <3>1 DEF LastWrites
    <3>3. QED
      BY <1>1, <3>2
  <2>2. ASSUME i \in Kept, NEW j \in i + 1 .. m + n PROVE W[j].path # W[i].path
    <3>1. CASE j \in 1 .. m
      <4>1. W[j] = r.files[j] /\ W[i] = r.files[i] /\ i # j
        BY <1>1, <3>1
      <4>2. QED
        BY <1>3, <3>1, <4>1
    <3>2. CASE \E k \in 1 .. n : j = m + k
      BY <1>1, <1>2, <2>2, <3>2
    <3>3. j \in 1 .. m + n
      BY <1>1
    <3>4. QED
      BY <1>4, <3>1, <3>2, <3>3
  <2>3. i \in 1 .. m + n
    BY <1>1
  <2>4. QED
    BY <1>2, <2>1, <2>2, <2>3 DEF LastWrites
<1>7. \A i \in LastWrites(W, m + n) : i \in 1 .. m + n
  BY DEF LastWrites
<1> DEFINE Edited == {<<r.edits[i].path, r.edits[i].sha256>> : i \in DOMAIN r.edits}
           Bundled == {<<r.files[i].path, r.files[i].sha256>> : i \in Kept}
<1>8. ASSUME NEW entry \in TreeOf(W, m + n) PROVE entry \in Edited \cup Bundled
  <2>1. PICK i \in LastWrites(W, m + n) : entry = <<W[i].path, W[i].bytes>>
    BY <1>8 DEF TreeOf
  <2>2. entry = <<W[i].path, W[i].sha256>>
    BY <1>1, <1>7, <2>1
  <2>3. CASE i \in 1 .. m
    BY <1>1, <1>6, <2>2, <2>3
  <2>4. CASE \E k \in 1 .. n : i = m + k
    <3>1. PICK k \in 1 .. n : i = m + k
      BY <2>4
    <3>2. entry = <<r.edits[k].path, r.edits[k].sha256>>
      BY <1>1, <2>2, <3>1
    <3>3. QED
      BY <1>2, <3>2
  <2>5. QED
    BY <1>4, <1>7, <2>3, <2>4
<1>9. ASSUME NEW entry \in Edited PROVE entry \in TreeOf(W, m + n)
  <2>1. PICK k \in 1 .. n : entry = <<r.edits[k].path, r.edits[k].sha256>>
    BY <1>2, <1>9
  <2>2. m + k \in 1 .. m + n
    BY <1>1
  <2>3. entry = <<W[m + k].path, W[m + k].bytes>>
    BY <1>1, <2>1, <2>2
  <2>4. QED
    BY <1>5, <2>3 DEF TreeOf
<1>10. ASSUME NEW entry \in Bundled PROVE entry \in TreeOf(W, m + n)
  <2>1. PICK i \in Kept : entry = <<r.files[i].path, r.files[i].sha256>>
    BY <1>10
  <2>2. i \in 1 .. m /\ i \in 1 .. m + n
    BY <1>1, <1>2, <2>1
  <2>3. entry = <<W[i].path, W[i].bytes>>
    BY <1>1, <2>1, <2>2
  <2>4. QED
    BY <1>6, <2>1, <2>2, <2>3 DEF TreeOf
<1>11. TreeOf(W, m + n) = Edited \cup Bundled
  BY <1>8, <1>9, <1>10
<1>12. RequestedTree(r) = Edited \cup Bundled
  BY DEF RequestedTree
<1>13. QED
  BY <1>1, <1>11, <1>12 DEF W

--------------------------------------------------------------------------------
(* Results *)

\* The result of a check.
LEMMA ResultIsARecord ==
  ASSUME NEW r \in Requests, NEW i \in 1 .. Len(r.checks), NEW status \in CheckStatuses,
         NEW log \in Logs
  PROVE  Result(r.checks[i], status, log) \in ResultRecord
<1>1. r.checks[i] \in AllChecks
  BY RequestLists, ElementOfSeq
<1>2. QED
  BY <1>1 DEF Result, ResultRecord

\* One more result is of the next check, and the call goes on only if it passed and
\* there is another.
LEMMA RecordedFacts ==
  ASSUME NEW c \in CallRecord, c.next <= Len(c.request.checks), Len(c.results) = c.next - 1,
         ResultsMatch(c), NEW log \in Logs,
         NEW result \in {"passed", "failed", "timed_out", "infrastructure_error"}
  PROVE  LET d == Recorded(c, result, log)
         IN  /\ d \in CallRecord
             /\ d.request = c.request
             /\ d.next = c.next + 1 /\ Len(d.results) = c.next
             /\ ResultsMatch(d)
             /\ AllPassed(c) /\ result = "passed" => AllPassed(d)
             /\ d.status = "passed" <=> result = "passed"
             /\ d.state = IF result = "passed" /\ c.next # Len(c.request.checks)
                          THEN "ready" ELSE "destroying"
<1> DEFINE new == Result(c.request.checks[c.next], result, log)
           d == Recorded(c, result, log)
           state == IF result = "passed" /\ ~ IsLast(c) THEN "ready" ELSE "destroying"
<1>1. /\ c.results \in Seq(ResultRecord) /\ c.request \in Requests
      /\ c.next \in Nat \ {0}
  BY DEF CallRecord
<1>2. Len(c.request.checks) \in Nat
  BY <1>1, RequestLists, LenProperties
<1>3. new \in ResultRecord
  <2>1. c.next \in 1 .. Len(c.request.checks)
    BY <1>1, <1>2
  <2>2. result \in CheckStatuses
    BY DEF CheckStatuses
  <2>3. QED
    BY <1>1, <2>1, <2>2, ResultIsARecord
<1>4. /\ new.id = c.request.checks[c.next].id
      /\ new.kind = c.request.checks[c.next].kind
      /\ new.status = result
  BY DEF Result
<1>5. /\ StatusAfter[result] \in {"passed", "failed", "infrastructure_error"}
      /\ StatusAfter[result] = "passed" <=> result = "passed"
  BY DEF StatusAfter
<1>6. state \in CallStates
  BY DEF CallStates
<1>7. d = [c EXCEPT !.results = Append(c.results, new), !.next = c.next + 1,
                    !.status = StatusAfter[result], !.state = state]
  BY DEF Recorded
<1> DEFINE rs == Append(c.results, new)
<1>8. /\ rs \in Seq(ResultRecord)
      /\ Len(rs) = Len(c.results) + 1
      /\ \A i \in 1 .. Len(c.results) : rs[i] = c.results[i]
      /\ rs[Len(c.results) + 1] = new
  <2> HIDE DEF new
  <2>1. QED
    BY <1>1, <1>3, AppendProperties
<1> DEFINE status == StatusAfter[result]
           next == c.next + 1
<1>9. d = [c EXCEPT !.results = rs, !.next = next, !.status = status, !.state = state]
  BY <1>7
<1>10. /\ status \in {"passed", "failed", "infrastructure_error"}
       /\ next \in Nat \ {0}
  BY <1>1, <1>5
<1> HIDE DEF new, state, rs, d, status, next
<1>11. /\ d \in CallRecord
       /\ d.request = c.request /\ d.next = next
       /\ d.results = rs
       /\ d.status = status /\ d.state = state
  BY <1>1, <1>10, <1>6, <1>9, <1>8 DEF CallRecord
<1>12. Len(d.results) = c.next
  BY <1>1, <1>8, <1>11
<1>13. \A i \in 1 .. c.next : i \in 1 .. Len(c.results) \/ i = Len(c.results) + 1
  BY <1>1
<1>14. ResultsMatch(d)
  <2> SUFFICES ASSUME NEW i \in 1 .. c.next
               PROVE  /\ d.results[i].id = c.request.checks[i].id
                      /\ d.results[i].kind = c.request.checks[i].kind
    BY <1>11, <1>12 DEF ResultsMatch
  <2>1. CASE i \in 1 .. Len(c.results)
    BY <1>8, <1>11, <2>1 DEF ResultsMatch
  <2>2. CASE i = Len(c.results) + 1
    <3>1. i = c.next /\ d.results[i] = new
      BY <1>1, <1>8, <1>11, <2>2
    <3>2. QED
      BY <1>4, <3>1
  <2>3. QED
    BY <1>13, <2>1, <2>2
<1>15. ASSUME AllPassed(c), result = "passed" PROVE AllPassed(d)
  <2> SUFFICES ASSUME NEW i \in 1 .. c.next PROVE d.results[i].status = "passed"
    BY <1>12 DEF AllPassed
  <2>1. CASE i \in 1 .. Len(c.results)
    BY <1>8, <1>11, <1>15, <2>1 DEF AllPassed
  <2>2. CASE i = Len(c.results) + 1
    BY <1>1, <1>4, <1>8, <1>11, <1>15, <2>2
  <2>3. QED
    BY <1>13, <2>1, <2>2
<1>16. state = IF result = "passed" /\ c.next # Len(c.request.checks)
               THEN "ready" ELSE "destroying"
  BY DEF state, IsLast
<1>17. QED
  BY <1>5, <1>11, <1>12, <1>14, <1>15, <1>16 DEF d, status, next

\* The answer: "blocked" for each check that did not run, and no success without the
\* teardown.
LEMMA AnsweredFacts ==
  ASSUME NEW c \in CallRecord, NEW ob, EndingOK(c, ob), NEW destroyed \in BOOLEAN
  PROVE  LET d == Answered(c, destroyed)
         IN  /\ d \in CallRecord
             /\ d.state = "answered" /\ d.request = c.request
             /\ Len(d.results) = Len(c.request.checks)
             /\ ResultsMatch(d)
             /\ d.status = "passed" => destroyed /\ d.destroyed /\ PassIsReal(d, ob)
<1> DEFINE m == Len(c.results)
           n == Len(c.request.checks)
           blocked == [i \in 1 .. n + 1 - c.next |->
                         Result(c.request.checks[c.next + i - 1], "blocked", "plain")]
           d == Answered(c, destroyed)
           status == IF destroyed THEN c.status ELSE "infrastructure_error"
<1>1. /\ c.results \in Seq(ResultRecord) /\ c.request \in Requests
      /\ c.next \in Nat \ {0}
      /\ c.status \in {"passed", "failed", "infrastructure_error"}
  BY DEF CallRecord
<1>2. n \in Nat
  BY <1>1, RequestLists, LenProperties
<1>3. /\ c.next <= n + 1 /\ m = c.next - 1 /\ m \in Nat
      /\ ResultsMatch(c)
      /\ c.status = "passed" => PassIsReal(c, ob)
  BY <1>1 DEF EndingOK
<1>4. n + 1 - c.next = n - m /\ n - m \in Nat
  BY <1>1, <1>2, <1>3
<1>5. \A i \in 1 .. n - m : m + i \in 1 .. n /\ c.next + i - 1 = m + i
  BY <1>1, <1>2, <1>3
<1>6. blocked = [i \in 1 .. n - m |-> Result(c.request.checks[m + i], "blocked", "plain")]
  BY <1>4, <1>5
<1> HIDE DEF m, n, blocked
<1>7. /\ blocked \in Seq(ResultRecord) /\ Len(blocked) = n - m
      /\ \A i \in 1 .. n - m : blocked[i] = Result(c.request.checks[m + i], "blocked", "plain")
  <2>1. \A i \in 1 .. n - m : Result(c.request.checks[m + i], "blocked", "plain") \in ResultRecord
    BY <1>1, <1>5, ResultIsARecord DEF CheckStatuses, Logs, n
  <2>2. blocked \in [1 .. n - m -> ResultRecord]
    BY <1>6, <2>1
  <2>3. blocked \in Seq(ResultRecord) /\ Len(blocked) = n - m
    BY <1>4, <2>2
  <2>4. QED
    BY <1>6, <2>3
<1> DEFINE rs == c.results \o blocked
           l == Len(blocked)
<1>8. /\ rs \in Seq(ResultRecord)
      /\ Len(rs) = m + l
      /\ \A i \in 1 .. m + l : rs[i] = IF i <= m THEN c.results[i] ELSE blocked[i - m]
  BY <1>1, <1>7, ConcatProperties DEF m
<1>9. l = n - m
  BY <1>7
<1>10. d = [c EXCEPT !.state = "answered", !.destroyed = destroyed, !.status = status,
                    !.results = rs]
  BY DEF Answered, blocked, n
<1> HIDE DEF rs, l
<1>11. /\ rs \in Seq(ResultRecord)
       /\ Len(rs) = n
       /\ \A i \in 1 .. n : i <= m => rs[i] = c.results[i]
       /\ \A i \in 1 .. n : ~ (i <= m) => rs[i] = blocked[i - m]
  <2>1. m + l = n
    BY <1>2, <1>3, <1>9
  <2>2. QED
    BY <1>8, <2>1
<1>12. /\ d \in CallRecord
       /\ d.state = "answered" /\ d.destroyed = destroyed /\ d.status = status
       /\ d.request = c.request /\ d.next = c.next
       /\ d.results = rs
  BY <1>1, <1>11, <1>10 DEF CallRecord, CallStates
<1> HIDE DEF d
<1>13. Len(d.results) = n
  BY <1>2, <1>3, <1>11, <1>12
<1>14. ResultsMatch(d)
  <2> SUFFICES ASSUME NEW i \in 1 .. n
               PROVE  /\ d.results[i].id = c.request.checks[i].id
                      /\ d.results[i].kind = c.request.checks[i].kind
    BY <1>12, <1>13 DEF ResultsMatch
  <2>1. CASE i <= m
    <3>1. d.results[i] = c.results[i]
      BY ONLY <1>11, <1>12, <2>1, i \in 1 .. n, Zenon
    <3>2. i \in 1 .. m
      BY <1>2, <1>3, <2>1
    <3>3. QED
      BY <1>3, <3>1, <3>2 DEF ResultsMatch, m
  <2>2. CASE ~ (i <= m)
    <3>1. i - m \in 1 .. n - m /\ m + (i - m) = i
      BY <1>2, <1>3, <2>2
    <3>2. \A j \in 1 .. n : ~ (j <= m) => rs[j] = blocked[j - m]
      BY <1>11
    <3>3. rs[i] = blocked[i - m]
      BY <2>2, <3>2
    <3>4. d.results[i] = blocked[i - m]
      BY <1>12, <3>3
    <3>5. d.results[i] = Result(c.request.checks[i], "blocked", "plain")
      BY <1>7, <3>1, <3>4
    <3>6. QED
      BY <3>5 DEF Result
  <2>3. QED
    BY <2>1, <2>2
<1>15. ASSUME d.status = "passed" PROVE destroyed /\ PassIsReal(d, ob)
  <2>1. destroyed /\ c.status = "passed"
    BY <1>12, <1>15
  <2>2. PassIsReal(c, ob)
    BY <1>3, <2>1
  <2>3. m = n
    BY <1>1, <1>2, <1>3, <2>2 DEF PassIsReal, n
  <2>4. \A i \in 1 .. n : d.results[i] = c.results[i]
    BY <1>2, <1>3, <1>11, <1>12, <2>3
  <2>5. AllPassed(d)
    BY <1>13, <2>2, <2>3, <2>4 DEF PassIsReal, AllPassed, m
  <2>6. QED
    BY <1>12, <2>1, <2>2, <2>5 DEF PassIsReal
<1>16. QED
  BY <1>12, <1>13, <1>14, <1>15 DEF d, n

--------------------------------------------------------------------------------
(* The steps *)

\* A step is of one execution: nothing of another one changes.
OnlyMoves(e) ==
  /\ calls' = [calls EXCEPT ![e] = calls'[e]]
  /\ containers' = [containers EXCEPT ![e] = containers'[e]]
  /\ client' = [client EXCEPT ![e] = client'[e]]
  /\ observed' = [observed EXCEPT ![e] = observed'[e]]
  /\ ownTree' = [ownTree EXCEPT ![e] = ownTree'[e]]

LEMMA OneExecutionMoves ==
  ASSUME WorkerInv, NEW e \in Executions, OnlyMoves(e),
         calls'[e] \in CallRecord, containers'[e] \in ContainerRecord,
         client'[e] \in ClientStates, observed'[e] \in SUBSET Nat,
         CallOK(e, calls'[e], containers'[e], client'[e], observed'[e], ownTree'[e])
  PROVE  WorkerInv'
<1>1. /\ calls' \in [Executions -> CallRecord]
      /\ containers' \in [Executions -> ContainerRecord]
      /\ client' \in [Executions -> ClientStates]
      /\ observed' \in [Executions -> SUBSET Nat]
      /\ ownTree' = [d \in Executions |-> ownTree'[d]]
  BY DEF WorkerInv, OnlyMoves
<1>2. ASSUME NEW d \in Executions
      PROVE  CallOK(d, calls'[d], containers'[d], client'[d], observed'[d], ownTree'[d])
  <2>1. CASE d = e
    BY <2>1
  <2>2. CASE d # e
    <3>1. /\ calls'[d] = calls[d] /\ containers'[d] = containers[d]
          /\ client'[d] = client[d] /\ observed'[d] = observed[d] /\ ownTree'[d] = ownTree[d]
      BY <2>2 DEF WorkerInv, OnlyMoves
    <3>2. QED
      BY <3>1 DEF WorkerInv
  <2>3. QED
    BY <2>1, <2>2
<1>3. QED
  BY <1>1, <1>2 DEF WorkerInv

\* What the invariant says of one execution.
LEMMA OneExecution ==
  ASSUME WorkerInv, NEW e \in Executions
  PROVE  /\ calls[e] \in CallRecord
         /\ containers[e] \in ContainerRecord
         /\ client[e] \in ClientStates
         /\ observed[e] \in SUBSET Nat
         /\ CallOK(e, calls[e], containers[e], client[e], observed[e], ownTree[e])
BY DEF WorkerInv

LEMMA CallStatesAre ==
  {"none", "received", "opening", "writing", "ready", "running", "destroying", "answered",
   "rejected", "lost"} = CallStates
BY DEF CallStates

LEMMA NoContainerIsARecord == NoContainer \in ContainerRecord
BY DEF NoContainer, NoTree, ContainerRecord

LEMMA WorkerInitGivesInv == Init => WorkerInv
<1> SUFFICES ASSUME Init PROVE WorkerInv
  OBVIOUS
<1> DEFINE r == CHOOSE r \in Requests : TRUE
           c == [state |-> "none", request |-> r, next |-> 1, written |-> 0, results |-> <<>>,
                 status |-> "passed", destroyed |-> FALSE]
<1>1. r \in Requests
  BY WorkerAssumption
<1>2. <<>> \in Seq(ResultRecord) /\ Len(<<>>) = 0
  BY EmptySeq
<1> HIDE DEF r
<1>3. c \in CallRecord
  BY <1>1, <1>2, CallStatesAre DEF CallRecord
<1>4. ASSUME NEW e \in Executions PROVE CallOK(e, c, NoContainer, "unsent", {}, NoTree)
  BY <1>2 DEF CallOK, FreshOK, NoContainer
<1>5. /\ calls = [e \in Executions |-> c]
      /\ containers = [e \in Executions |-> NoContainer]
      /\ client = [e \in Executions |-> "unsent"]
      /\ observed = [e \in Executions |-> {}]
      /\ ownTree = [e \in Executions |-> NoTree]
  BY DEF Init, r
<1> HIDE DEF c
<1>6. QED
  BY <1>3, <1>4, <1>5, NoContainerIsARecord DEF WorkerInv, ClientStates

LEMMA SendKeepsInv ==
  ASSUME WorkerInv, NEW e \in Executions, NEW r \in Requests, Send(e, r)
  PROVE  WorkerInv'
<1> DEFINE c == calls[e]
           d == [c EXCEPT !.state = "received", !.request = r]
<1>1. c \in CallRecord /\ CallOK(e, c, containers[e], client[e], observed[e], ownTree[e])
  BY OneExecution
<1>2. client[e] = "unsent" /\ c.state = "none"
  BY <1>1 DEF Send, CallOK
<1>3. /\ d \in CallRecord
      /\ d.state = "received" /\ d.next = c.next /\ d.written = c.written
      /\ d.results = c.results /\ d.status = c.status
  BY <1>1, CallStatesAre DEF CallRecord
<1>4. /\ calls'[e] = d /\ client'[e] = "waiting"
      /\ containers'[e] = containers[e] /\ observed'[e] = observed[e]
      /\ ownTree'[e] = ownTree[e]
      /\ OnlyMoves(e)
  BY DEF Send, WorkerInv, OnlyMoves
<1> HIDE DEF c, d
<1>5. CallOK(e, d, containers[e], "waiting", observed[e], ownTree[e])
  BY <1>1, <1>2, <1>3 DEF CallOK, FreshOK
<1>6. "waiting" \in ClientStates
  BY DEF ClientStates
<1>7. QED
  BY <1>3, <1>4, <1>5, <1>6, OneExecution, OneExecutionMoves

\* The call moves to another state; nothing else changes.
LEMMA StateStep ==
  ASSUME WorkerInv, NEW e \in Executions, NEW state \in CallStates,
         calls' = [calls EXCEPT ![e].state = state],
         UNCHANGED <<containers, client, observed, ownTree>>,
         \/ calls[e].state = "received" /\ state = "rejected"
         \/ calls[e].state = "received" /\ state = "opening" /\ ~ Rejects(calls[e].request)
         \/ InProgress(e) /\ state = "lost"
  PROVE  WorkerInv'
<1> DEFINE c == calls[e]
           d == [c EXCEPT !.state = state]
<1>1. c \in CallRecord /\ CallOK(e, c, containers[e], client[e], observed[e], ownTree[e])
  BY OneExecution
<1>2. /\ d \in CallRecord
      /\ d.state = state /\ d.request = c.request /\ d.next = c.next
      /\ d.written = c.written /\ d.results = c.results /\ d.status = c.status
  BY <1>1 DEF CallRecord
<1>3. /\ calls'[e] = d /\ client'[e] = client[e]
      /\ containers'[e] = containers[e] /\ observed'[e] = observed[e]
      /\ ownTree'[e] = ownTree[e]
      /\ OnlyMoves(e)
  BY DEF WorkerInv, OnlyMoves
<1>4. \/ c.state = "received" /\ state = "rejected"
      \/ c.state = "received" /\ state = "opening" /\ ~ Rejects(c.request)
      \/ c.state \notin {"none", "answered"} /\ state = "lost"
  BY DEF InProgress
<1> HIDE DEF c, d
<1>5. CallOK(e, d, containers[e], client[e], observed[e], ownTree[e])
  BY <1>1, <1>2, <1>4 DEF CallOK, FreshOK
<1>6. QED
  BY <1>2, <1>3, <1>5, OneExecution, OneExecutionMoves

\* Preparing the container.
LEMMA OpenKeepsInv ==
  ASSUME WorkerInv, NEW e \in Executions, Open(e)
  PROVE  WorkerInv'
<1> DEFINE c == calls[e]
           d == [c EXCEPT !.state = "writing"]
           k == [containers[e] EXCEPT !.alive = TRUE]
           W == WriteOrder(c.request)
<1>1. /\ c \in CallRecord /\ CallOK(e, c, containers[e], client[e], observed[e], ownTree[e])
      /\ c.state = "opening"
  BY OneExecution DEF Open
<1>2. /\ d \in CallRecord
      /\ d.state = "writing" /\ d.request = c.request /\ d.next = c.next
      /\ d.written = c.written /\ d.results = c.results /\ d.status = c.status
  BY <1>1, CallStatesAre DEF CallRecord
<1>3. /\ calls'[e] = d /\ client'[e] = client[e]
      /\ containers'[e] = k /\ observed'[e] = observed[e]
      /\ ownTree'[e] = ownTree[e]
      /\ OnlyMoves(e)
  BY DEF Open, SandboxName, WorkerInv, OnlyMoves
<1>4. FreshOK(c, containers[e], observed[e])
  BY <1>1 DEF CallOK
<1>5. k \in ContainerRecord /\ k.processes = {} /\ k.tree = {} /\ k.alive
  <2>1. containers[e].tree = {} /\ containers[e].processes = {}
    BY <1>4 DEF FreshOK, NoContainer, NoTree
  <2>2. /\ k \in ContainerRecord /\ k.alive
        /\ k.tree = containers[e].tree /\ k.processes = containers[e].processes
    BY OneExecution DEF ContainerRecord
  <2>3. QED
    BY <2>1, <2>2
<1>6. TreeOf(W, 0) = {}
  BY DEF TreeOf, LastWrites
<1>7. Len(W) \in Nat
  BY <1>1, WriteOrderParts DEF CallRecord
<1> HIDE DEF c, d, k, W
<1>8. WritingOK(d, k, observed[e])
  <2>1. d.written = 0 /\ d.next = 1 /\ d.results = <<>> /\ d.status = "passed"
          /\ observed[e] = {} /\ WriteOrder(d.request) = W
    BY <1>2, <1>4 DEF FreshOK, W
  <2>2. QED
    BY <1>5, <1>6, <1>7, <2>1 DEF WritingOK
<1>9. CallOK(e, d, k, client[e], observed[e], ownTree[e])
  BY <1>1, <1>2, <1>5, <1>8 DEF CallOK
<1>10. QED
  BY <1>2, <1>3, <1>5, <1>9, OneExecution, OneExecutionMoves

LEMMA WriteFileKeepsInv ==
  ASSUME WorkerInv, NEW e \in Executions, WriteFile(e)
  PROVE  WorkerInv'
<1> DEFINE c == calls[e]
           W == WriteOrder(c.request)
           file == W[c.written + 1]
           d == [c EXCEPT !.written = c.written + 1]
           k == [containers[e] EXCEPT !.tree = Written(containers[e].tree, file)]
<1>1. /\ c \in CallRecord /\ CallOK(e, c, containers[e], client[e], observed[e], ownTree[e])
      /\ containers[e] \in ContainerRecord
      /\ c.state = "writing" /\ c.written < Len(W) /\ CanWriteFile(file) /\ containers[e].alive
  BY OneExecution DEF WriteFile, Container, SandboxName
<1>2. /\ d \in CallRecord
      /\ d.state = c.state /\ d.request = c.request /\ d.next = c.next
      /\ d.written = c.written + 1 /\ d.results = c.results /\ d.status = c.status
      /\ c.written \in Nat /\ c.request \in Requests
  BY <1>1 DEF CallRecord
<1>3. /\ calls'[e] = d /\ client'[e] = client[e]
      /\ containers'[e] = k /\ observed'[e] = observed[e]
      /\ ownTree'[e] = ownTree[e]
      /\ OnlyMoves(e)
  BY DEF WriteFile, SandboxName, WorkerInv, OnlyMoves
<1>4. WritingOK(c, containers[e], observed[e])
  BY <1>1 DEF CallOK
<1>5. Written(containers[e].tree, file) = TreeOf(W, c.written + 1)
  BY <1>1, <1>2, <1>4, WrittenIsTheNextTree DEF WritingOK
<1>6. file \in AllFiles
  <2>1. W \in Seq(AllFiles) /\ Len(W) \in Nat
    BY <1>2, WriteOrderParts, LenProperties
  <2>2. c.written + 1 \in 1 .. Len(W)
    BY <1>1, <1>2, <2>1
  <2>3. QED
    BY <2>1, <2>2, ElementOfSeq
<1>7. Written(containers[e].tree, file) \in
        SUBSET ({f.path : f \in AllFiles} \X {f.bytes : f \in AllFiles})
  BY <1>1, <1>6 DEF Written, ContainerRecord
<1>8. /\ k \in ContainerRecord /\ k.alive /\ k.processes = containers[e].processes
      /\ k.tree = TreeOf(W, c.written + 1)
  BY <1>1, <1>5, <1>7 DEF ContainerRecord
<1>9. \A i \in 1 .. c.written + 1 : CanWriteFile(W[i])
  <2>1. \A i \in 1 .. c.written + 1 : i \in 1 .. c.written \/ i = c.written + 1
    BY <1>2
  <2>2. \A i \in 1 .. c.written : CanWriteFile(W[i])
    BY <1>4 DEF WritingOK
  <2>3. QED
    BY <1>1, <2>1, <2>2
<1>10. Len(W) \in Nat
  BY <1>2, WriteOrderParts
<1> HIDE DEF c, d, k, file
<1>11. WritingOK(d, k, observed[e])
  BY <1>1, <1>2, <1>4, <1>8, <1>9, <1>10 DEF WritingOK
<1>12. CallOK(e, d, k, client[e], observed[e], ownTree[e])
  BY <1>1, <1>2, <1>8, <1>11 DEF CallOK
<1>13. QED
  BY <1>2, <1>3, <1>8, <1>12, OneExecution, OneExecutionMoves

LEMMA WritingEndsKeepsInv ==
  ASSUME WorkerInv, NEW e \in Executions, WritingEnds(e)
  PROVE  WorkerInv'
<1> DEFINE c == calls[e]
           k == containers[e]
           r == c.request
           d == [c EXCEPT !.state = "ready"]
<1>1. /\ c \in CallRecord /\ CallOK(e, c, k, client[e], observed[e], ownTree[e])
      /\ c.state = "writing" /\ c.written = Len(WriteOrder(r))
  BY OneExecution DEF WritingEnds
<1>2. /\ d \in CallRecord
      /\ d.state = "ready" /\ d.request = r /\ d.next = c.next
      /\ d.written = c.written /\ d.results = c.results /\ d.status = c.status
      /\ r \in Requests
  BY <1>1, CallStatesAre DEF CallRecord
<1>3. /\ calls'[e] = d /\ client'[e] = client[e]
      /\ containers'[e] = k /\ observed'[e] = observed[e]
      /\ ownTree'[e] = RequestedTree(r)
      /\ OnlyMoves(e)
  BY DEF WritingEnds, WorkerInv, OnlyMoves
<1>4. WritingOK(c, k, observed[e]) /\ ~ Rejects(r)
  BY <1>1 DEF CallOK
<1>5. ParsesAsRequest(r)
  BY <1>4 DEF Rejects
<1>6. k.alive => k.tree = RequestedTree(r)
  BY <1>1, <1>2, <1>4, <1>5, AllWrittenIsRequested DEF WritingOK
<1>7. Len(r.checks) \in Nat /\ Len(r.checks) >= 1
  <2>1. Len(r.checks) \in Nat
    BY <1>2, RequestLists, LenProperties
  <2>2. QED
    BY <1>5, <2>1, PolicyAssumption DEF ParsesAsRequest
<1>8. Len(<<>>) = 0
  BY EmptySeq
<1> HIDE DEF c, d, k, r
<1>9. CheckingOK(e, d, k, observed[e], ownTree'[e])
  BY <1>2, <1>3, <1>4, <1>6, <1>7, <1>8 DEF CheckingOK, WritingOK, ResultsMatch, AllPassed
<1>10. CallOK(e, d, k, client[e], observed[e], ownTree'[e])
  BY <1>1, <1>2, <1>9 DEF CallOK, r
<1>11. QED
  BY <1>2, <1>3, <1>10, OneExecution, OneExecutionMoves DEF k

LEMMA PreparationThrowsKeepsInv ==
  ASSUME WorkerInv, NEW e \in Executions, PreparationThrows(e)
  PROVE  WorkerInv'
<1> DEFINE c == calls[e]
           k == containers[e]
           r == c.request
           d == [c EXCEPT !.state = "destroying", !.status = "infrastructure_error"]
<1>1. /\ c \in CallRecord /\ CallOK(e, c, k, client[e], observed[e], ownTree[e])
      /\ c.state \in {"opening", "writing"}
  BY OneExecution DEF PreparationThrows
<1>2. /\ d \in CallRecord
      /\ d.state = "destroying" /\ d.request = r /\ d.next = c.next
      /\ d.results = c.results /\ d.status = "infrastructure_error"
      /\ r \in Requests
  BY <1>1, CallStatesAre DEF CallRecord
<1>3. /\ calls'[e] = d /\ client'[e] = client[e]
      /\ containers'[e] = k /\ observed'[e] = observed[e]
      /\ ownTree'[e] = ownTree[e]
      /\ OnlyMoves(e)
  BY DEF PreparationThrows, WorkerInv, OnlyMoves
<1>4. c.next = 1 /\ c.results = <<>>
  BY <1>1 DEF CallOK, FreshOK, WritingOK
<1>5. Len(r.checks) \in Nat /\ Len(<<>>) = 0
  BY <1>2, RequestLists, LenProperties, EmptySeq
<1> HIDE DEF c, d, k, r
<1>6. EndingOK(d, observed[e])
  BY <1>2, <1>4, <1>5 DEF EndingOK, ResultsMatch
<1>7. CallOK(e, d, k, client[e], observed[e], ownTree[e])
  BY <1>1, <1>2, <1>6 DEF CallOK, r
<1>8. QED
  BY <1>2, <1>3, <1>7, OneExecution, OneExecutionMoves DEF k

\* The checks.
LEMMA StartCheckKeepsInv ==
  ASSUME WorkerInv, NEW e \in Executions, StartCheck(e)
  PROVE  WorkerInv'
<1> DEFINE c == calls[e]
           d == [c EXCEPT !.state = "running"]
           ps == containers[e].processes \cup {e}
           k == [containers[e] EXCEPT !.processes = ps]
<1>1. /\ c \in CallRecord /\ CallOK(e, c, containers[e], client[e], observed[e], ownTree[e])
      /\ containers[e] \in ContainerRecord
      /\ c.state = "ready" /\ containers[e].alive
  BY OneExecution DEF StartCheck, Container, SandboxName
<1>2. /\ d \in CallRecord
      /\ d.state = "running" /\ d.request = c.request /\ d.next = c.next
      /\ d.results = c.results /\ d.status = c.status
      /\ c.next \in Nat
  BY <1>1, CallStatesAre DEF CallRecord
<1>3. /\ calls'[e] = d /\ client'[e] = client[e]
      /\ containers'[e] = k /\ observed'[e] = observed[e]
      /\ ownTree'[e] = ownTree[e]
      /\ OnlyMoves(e)
  BY DEF StartCheck, SandboxName, WorkerInv, OnlyMoves
<1>4. CheckingOK(e, c, containers[e], observed[e], ownTree[e])
  BY <1>1 DEF CallOK
<1>5. ps = {e}
  BY <1>1, <1>4 DEF CheckingOK
<1>6. ps \in SUBSET Executions
  BY <1>5
<1> HIDE DEF ps
<1>7. /\ k \in ContainerRecord /\ k.processes = ps
      /\ k.alive = containers[e].alive /\ k.tree = containers[e].tree
  BY <1>1, <1>6 DEF ContainerRecord
<1> HIDE DEF c, d, k
<1>8. CheckingOK(e, d, k, observed[e], ownTree[e])
  BY <1>2, <1>4, <1>5, <1>7 DEF CheckingOK, ResultsMatch, AllPassed
<1>9. CallOK(e, d, k, client[e], observed[e], ownTree[e])
  BY <1>1, <1>2, <1>7, <1>8 DEF CallOK
<1>10. QED
  BY <1>2, <1>3, <1>7, <1>9, OneExecution, OneExecutionMoves

\* A recorded result keeps the invariant: of a check that passed on the request's own
\* tree, or of one that ends the run.
LEMMA RecordingKeepsCallOK ==
  ASSUME NEW e \in Executions, NEW c \in CallRecord, NEW k, NEW cl, NEW ob, NEW l,
         CallOK(e, c, k, cl, ob, l), c.state \in {"ready", "running"}, NEW log \in Logs,
         NEW result \in {"passed", "failed", "timed_out", "infrastructure_error"},
         NEW m, NEW seen,
         m.processes \subseteq k.processes, m.alive = k.alive, m.tree = k.tree,
         result = "passed" => seen = 1 .. c.next
  PROVE  CallOK(e, Recorded(c, result, log), m, cl, seen, l)
<1> DEFINE d == Recorded(c, result, log)
<1>1. CheckingOK(e, c, k, ob, l) /\ ~ Rejects(c.request)
  BY DEF CallOK
<1>2. /\ d.request = c.request
      /\ d.next = c.next + 1 /\ Len(d.results) = c.next
      /\ ResultsMatch(d)
      /\ result = "passed" => AllPassed(d)
      /\ d.status = "passed" <=> result = "passed"
      /\ d.state = IF result = "passed" /\ c.next # Len(c.request.checks)
                   THEN "ready" ELSE "destroying"
  BY <1>1, RecordedFacts DEF CheckingOK
<1> HIDE DEF d
<1>3. /\ c.next \in Nat /\ c.next <= Len(c.request.checks)
      /\ Len(c.request.checks) \in Nat
  BY <1>1, RequestLists, LenProperties DEF CheckingOK, CallRecord
<1>4. (k.alive => k.tree = l) /\ k.processes \subseteq {e}
  BY <1>1 DEF CheckingOK
<1>5. d.state = "ready" => CheckingOK(e, d, m, seen, l)
  BY <1>2, <1>3, <1>4 DEF CheckingOK
<1>6. d.state = "destroying" => EndingOK(d, seen)
  BY <1>2, <1>3 DEF EndingOK, PassIsReal
<1>7. /\ cl # "unsent" /\ cl # "accepted" /\ cl # "refused"
      /\ m.processes # {} => m.alive
  BY DEF CallOK
<1>8. CallOK(e, d, m, cl, seen, l)
  BY <1>1, <1>2, <1>3, <1>5, <1>6, <1>7 DEF CallOK
<1>9. QED
  BY <1>8 DEF d

LEMMA CheckExitsKeepsInv ==
  ASSUME WorkerInv, NEW e \in Executions, NEW success \in BOOLEAN, NEW log \in Logs,
         CheckExits(e, success, log)
  PROVE  WorkerInv'
<1> DEFINE c == calls[e]
           result == IF success THEN "passed" ELSE "failed"
           d == Recorded(c, result, log)
           k == containers'[e]
<1>1. /\ c \in CallRecord /\ CallOK(e, c, containers[e], client[e], observed[e], ownTree[e])
      /\ containers[e] \in ContainerRecord /\ observed[e] \in SUBSET Nat
      /\ c.state = "running" /\ e \in containers[e].processes
  BY OneExecution DEF CheckExits, SandboxName
<1>2. CheckingOK(e, c, containers[e], observed[e], ownTree[e]) /\ containers[e].alive
  BY <1>1 DEF CallOK
<1>3. d \in CallRecord
  BY <1>1, <1>2, RecordedFacts DEF CheckingOK
<1>4. /\ calls'[e] = d /\ client'[e] = client[e] /\ ownTree'[e] = ownTree[e]
      /\ OnlyMoves(e)
  BY DEF CheckExits, SandboxName, WorkerInv, OnlyMoves
<1>5. containers[e].processes = {e} /\ containers[e].tree = ownTree[e]
  BY <1>1, <1>2 DEF CheckingOK
<1>6. /\ k \in ContainerRecord /\ k.processes \subseteq containers[e].processes
      /\ k.alive = containers[e].alive /\ k.tree = containers[e].tree
  <2> DEFINE ps == containers[e].processes \ {e}
             gone == [containers[e] EXCEPT !.processes = ps]
  <2>1. k = containers[e] \/ k = gone
    BY DEF CheckExits, SandboxName, WorkerInv
  <2>2. ps \in SUBSET Executions /\ ps \subseteq containers[e].processes
    BY <1>1 DEF ContainerRecord
  <2> HIDE DEF ps
  <2>3. /\ gone \in ContainerRecord /\ gone.processes = ps
        /\ gone.alive = containers[e].alive /\ gone.tree = containers[e].tree
    BY <1>1, <2>2 DEF ContainerRecord
  <2>4. QED
    BY <1>1, <2>1, <2>2, <2>3
<1>7. /\ observed'[e] = IF success THEN observed[e] \cup {c.next} ELSE observed[e]
      /\ observed'[e] \in SUBSET Nat
  <2>1. observed' = IF success THEN [observed EXCEPT ![e] = @ \cup {c.next}] ELSE observed
    BY <1>5 DEF CheckExits, SandboxName
  <2>2. c.next \in Nat
    BY <1>1 DEF CallRecord
  <2>3. QED
    BY <1>1, <2>1, <2>2 DEF WorkerInv
<1>8. success => observed'[e] = 1 .. c.next
  BY <1>1, <1>2, <1>7 DEF CheckingOK, CallRecord
<1> HIDE DEF c, k
<1>9. CallOK(e, d, k, client[e], observed'[e], ownTree[e])
  BY <1>1, <1>6, <1>8, RecordingKeepsCallOK
<1>10. QED
  BY <1>3, <1>4, <1>6, <1>7, <1>9, OneExecution, OneExecutionMoves DEF k

\* A command that changes a file of its container changes what its request is checked on.
LEMMA CommandWritesKeepsInv ==
  ASSUME WorkerInv, NEW e \in Executions, CommandWrites(e)
  PROVE  WorkerInv'
<1> DEFINE c == calls[e]
           k == containers[e]
<1>1. /\ c \in CallRecord /\ CallOK(e, c, k, client[e], observed[e], ownTree[e])
      /\ k \in ContainerRecord
  BY OneExecution
<1>2. PICK file \in Outputs :
        /\ containers' = [containers EXCEPT ![e].tree = Written(k.tree, file)]
        /\ ownTree' = [ownTree EXCEPT ![e] = Written(ownTree[e], file)]
        /\ e \in k.processes
        /\ UNCHANGED <<calls, client, observed>>
  BY DEF CommandWrites, SandboxName, WorkerInv
<1> DEFINE tree == Written(k.tree, file)
           m == [k EXCEPT !.tree = tree]
<1>3. /\ calls'[e] = c /\ client'[e] = client[e] /\ observed'[e] = observed[e]
      /\ containers'[e] = m /\ ownTree'[e] = Written(ownTree[e], file)
      /\ OnlyMoves(e)
  BY <1>2 DEF WorkerInv, OnlyMoves
<1>4. tree \in SUBSET ({f.path : f \in AllFiles} \X {f.bytes : f \in AllFiles})
  <2>1. file \in AllFiles
    BY DEF AllFiles
  <2>2. QED
    BY <1>1, <2>1 DEF Written, ContainerRecord
<1> HIDE DEF tree
<1>5. /\ m \in ContainerRecord /\ m.alive = k.alive /\ m.processes = k.processes
      /\ m.tree = tree
  BY <1>1, <1>4 DEF ContainerRecord
<1>6. k.processes # {} /\ k.alive
  BY <1>1, <1>2 DEF CallOK
<1>7. /\ c.state \notin {"none", "received", "opening", "writing"}
      /\ k.tree = ownTree[e] \/ c.state \notin {"ready", "running"}
  BY <1>1, <1>6 DEF CallOK, FreshOK, WritingOK, CheckingOK, NoContainer
<1> HIDE DEF c, k, m
<1>8. c.state \in {"ready", "running"} =>
        CheckingOK(e, c, m, observed[e], Written(ownTree[e], file))
  BY <1>1, <1>5, <1>7 DEF CallOK, CheckingOK, tree
<1>9. c.state = "answered" => AnsweredOK(c, m, observed[e])
  BY <1>1, <1>5 DEF CallOK, AnsweredOK
<1>10. CallOK(e, c, m, client[e], observed[e], Written(ownTree[e], file))
  BY <1>1, <1>5, <1>6, <1>7, <1>8, <1>9 DEF CallOK
<1>11. QED
  BY <1>1, <1>3, <1>5, <1>10, OneExecution, OneExecutionMoves

\* exec throws, at its limit or not: the run is over.
LEMMA CheckEndsKeepsInv ==
  ASSUME WorkerInv, NEW e \in Executions, CheckTimesOut(e) \/ CheckThrows(e)
  PROVE  WorkerInv'
<1> DEFINE c == calls[e]
<1>1. PICK result \in {"timed_out", "infrastructure_error"} :
        /\ calls' = [calls EXCEPT ![e] = Recorded(c, result, "plain")]
        /\ c.state \in {"ready", "running"}
        /\ UNCHANGED <<containers, client, observed, ownTree>>
  BY DEF CheckTimesOut, CheckThrows
<1>0. "plain" \in Logs
  BY DEF Logs
<1> DEFINE d == Recorded(c, result, "plain")
<1>2. /\ c \in CallRecord /\ CallOK(e, c, containers[e], client[e], observed[e], ownTree[e])
  BY OneExecution
<1>3. CheckingOK(e, c, containers[e], observed[e], ownTree[e])
  BY <1>1, <1>2 DEF CallOK
<1>4. d \in CallRecord
  BY <1>0, <1>2, <1>3, RecordedFacts DEF CheckingOK
<1>5. /\ calls'[e] = d /\ client'[e] = client[e]
      /\ containers'[e] = containers[e] /\ observed'[e] = observed[e]
      /\ ownTree'[e] = ownTree[e]
      /\ OnlyMoves(e)
  BY <1>1 DEF WorkerInv, OnlyMoves
<1>6. containers[e].processes # {} => containers[e].alive
  BY <1>2 DEF CallOK
<1> HIDE DEF c
<1>7. CallOK(e, d, containers[e], client[e], observed[e], ownTree[e])
  BY <1>0, <1>1, <1>2, <1>6, RecordingKeepsCallOK
<1>8. QED
  BY <1>4, <1>5, <1>7, OneExecution, OneExecutionMoves

\* The answer, with the container gone or not.
LEMMA AnsweringKeepsInv ==
  ASSUME WorkerInv, NEW e \in Executions, Destroy(e) \/ DestroyFails(e)
  PROVE  WorkerInv'
<1> DEFINE c == calls[e]
<1>1. /\ c \in CallRecord /\ CallOK(e, c, containers[e], client[e], observed[e], ownTree[e])
      /\ c.state = "destroying"
  BY OneExecution DEF Destroy, DestroyFails
<1>2. PICK destroyed \in BOOLEAN :
        /\ calls' = [calls EXCEPT ![e] = Answered(c, destroyed)]
        /\ containers' = IF destroyed THEN [containers EXCEPT ![e] = NoContainer] ELSE containers
        /\ ownTree' = IF destroyed THEN [ownTree EXCEPT ![e] = NoTree] ELSE ownTree
        /\ UNCHANGED <<client, observed>>
  BY DEF Destroy, DestroyFails, SandboxName
<1> DEFINE d == Answered(c, destroyed)
<1>3. EndingOK(c, observed[e]) /\ ~ Rejects(c.request)
  BY <1>1 DEF CallOK
<1>4. /\ d \in CallRecord
      /\ d.state = "answered" /\ d.request = c.request
      /\ Len(d.results) = Len(c.request.checks)
      /\ ResultsMatch(d)
      /\ d.status = "passed" => destroyed /\ d.destroyed /\ PassIsReal(d, observed[e])
  BY <1>1, <1>3, AnsweredFacts
<1>5. /\ calls'[e] = d /\ client'[e] = client[e] /\ observed'[e] = observed[e]
      /\ containers'[e] = IF destroyed THEN NoContainer ELSE containers[e]
      /\ OnlyMoves(e)
  BY <1>2 DEF WorkerInv, OnlyMoves
<1>6. /\ containers'[e] \in ContainerRecord
      /\ containers'[e].processes # {} => containers'[e].alive
      /\ destroyed => ~ containers'[e].alive
  BY <1>1, <1>5, OneExecution, NoContainerIsARecord DEF CallOK, NoContainer
<1> HIDE DEF c, d
<1>7. AnsweredOK(d, containers'[e], observed[e])
  BY <1>4, <1>6 DEF AnsweredOK
<1>8. CallOK(e, d, containers'[e], client[e], observed[e], ownTree'[e])
  BY <1>1, <1>3, <1>4, <1>6, <1>7 DEF CallOK
<1>9. QED
  BY <1>4, <1>5, <1>6, <1>8, OneExecution, OneExecutionMoves

\* A container that stops takes its tree and its processes with it.
LEMMA ContainerStopsKeepsInv ==
  ASSUME WorkerInv, NEW e \in Executions, ContainerStops(e)
  PROVE  WorkerInv'
<1> DEFINE c == calls[e]
           k == containers[e]
<1>1. /\ c \in CallRecord /\ CallOK(e, c, k, client[e], observed[e], ownTree[e])
      /\ k.alive
  BY OneExecution DEF ContainerStops
<1>2. /\ calls'[e] = c /\ client'[e] = client[e] /\ observed'[e] = observed[e]
      /\ containers'[e] = NoContainer /\ ownTree'[e] = NoTree
      /\ OnlyMoves(e)
  BY DEF ContainerStops, SandboxName, WorkerInv, OnlyMoves
<1>3. NoContainer.processes = {} /\ ~ NoContainer.alive
  BY DEF NoContainer
<1> HIDE DEF c, k
<1>4. CallOK(e, c, NoContainer, client[e], observed[e], NoTree)
  BY <1>1, <1>3 DEF CallOK, FreshOK, WritingOK, CheckingOK, AnsweredOK
<1>5. QED
  BY <1>1, <1>2, <1>4, OneExecution, OneExecutionMoves, NoContainerIsARecord DEF c

\* The client, which accepts the answers that it can read.
LEMMA ReceiveKeepsInv ==
  ASSUME WorkerInv, NEW e \in Executions, Receive(e)
  PROVE  WorkerInv'
<1> DEFINE c == calls[e]
           k == containers[e]
           cl == IF c.state = "rejected" THEN "failed"
                 ELSE IF Acceptable(c) THEN "accepted" ELSE "refused"
<1>1. /\ c \in CallRecord /\ CallOK(e, c, k, client[e], observed[e], ownTree[e])
      /\ client[e] = "waiting" /\ c.state \in {"answered", "rejected"}
  BY OneExecution DEF Receive
<1>2. /\ calls'[e] = c /\ client'[e] = cl /\ observed'[e] = observed[e]
      /\ containers'[e] = k /\ ownTree'[e] = ownTree[e]
      /\ OnlyMoves(e)
  BY DEF Receive, WorkerInv, OnlyMoves
<1>3. c.state = "answered" /\ Legible(c) => Acceptable(c)
  <2>1. DOMAIN c.results = 1 .. Len(c.results)
    BY <1>1, LenProperties DEF CallRecord
  <2>2. QED
    BY <1>1, <2>1 DEF CallOK, AnsweredOK, PassIsReal, ResultsMatch, AllPassed, Acceptable
<1>4. \/ cl = "accepted" /\ c.state = "answered"
      \/ cl = "refused" /\ c.state = "answered" /\ ~ Legible(c)
      \/ cl = "failed"
  BY <1>1, <1>3
<1> HIDE DEF c, k, cl
<1>5. CallOK(e, c, k, cl, observed[e], ownTree[e])
  BY <1>1, <1>4 DEF CallOK
<1>6. cl \in ClientStates
  BY <1>4 DEF ClientStates
<1>7. QED
  BY <1>1, <1>2, <1>5, <1>6, OneExecution, OneExecutionMoves DEF k

LEMMA GiveUpKeepsInv ==
  ASSUME WorkerInv, NEW e \in Executions, GiveUp(e)
  PROVE  WorkerInv'
<1>1. /\ CallOK(e, calls[e], containers[e], client[e], observed[e], ownTree[e])
      /\ client[e] = "waiting"
  BY OneExecution DEF GiveUp
<1>2. /\ calls'[e] = calls[e] /\ client'[e] = "failed" /\ observed'[e] = observed[e]
      /\ containers'[e] = containers[e] /\ ownTree'[e] = ownTree[e]
      /\ OnlyMoves(e)
  BY DEF GiveUp, WorkerInv, OnlyMoves
<1>3. CallOK(e, calls[e], containers[e], "failed", observed[e], ownTree[e])
  BY <1>1 DEF CallOK
<1>4. "failed" \in ClientStates
  BY DEF ClientStates
<1>5. QED
  BY <1>2, <1>3, <1>4, OneExecution, OneExecutionMoves

LEMMA WorkerStepsKeepInv == WorkerInv /\ [Next]_vars => WorkerInv'
<1> SUFFICES ASSUME WorkerInv, [Next]_vars PROVE WorkerInv'
  OBVIOUS
<1>1. CASE UNCHANGED vars
  BY <1>1 DEF vars, WorkerInv
<1>2. ASSUME NEW e \in Executions,
             \/ Reject(e) \/ Accept(e) \/ WorkerDies(e)
      PROVE  WorkerInv'
  <2>1. CASE Reject(e)
    BY <2>1, StateStep DEF Reject, CallStates
  <2>2. CASE Accept(e)
    BY <2>2, StateStep DEF Accept, CallStates
  <2>3. CASE WorkerDies(e)
    BY <2>3, StateStep DEF WorkerDies, CallStates
  <2>4. QED
    BY <1>2, <2>1, <2>2, <2>3
<1>3. QED
  BY <1>1, <1>2, SendKeepsInv, OpenKeepsInv, WriteFileKeepsInv, WritingEndsKeepsInv,
     PreparationThrowsKeepsInv, StartCheckKeepsInv, CommandWritesKeepsInv, CheckExitsKeepsInv,
     CheckEndsKeepsInv, AnsweringKeepsInv, ContainerStopsKeepsInv, ReceiveKeepsInv, GiveUpKeepsInv
     DEF Next

THEOREM WorkerInvariance == Spec => []WorkerInv
BY WorkerInitGivesInv, WorkerStepsKeepInv, PTL DEF Spec

\* Type correctness of the executions, the client and what was seen to pass.
THEOREM WorkerTypeCorrect == Spec => []TypeOK
<1>1. WorkerInv => TypeOK
  BY DEF WorkerInv, TypeOK, CallRecord, CallOK
<1>2. QED
  BY <1>1, WorkerInvariance, PTL

\* An accepted pass is a fact of the execution: every requested check passed, with no
\* command of another request in the container, on the requested tree as the request's
\* own commands left it, and the container is gone (execute of index.ts and
\* CloudflareSandboxExecutor.execute).
THEOREM AcceptedPassesAreReal == Spec => []AcceptedPassIsReal
<1>1. WorkerInv => AcceptedPassIsReal
  <2> SUFFICES ASSUME WorkerInv, NEW e \in Executions,
                      client[e] = "accepted", calls[e].status = "passed"
               PROVE  observed[e] = DOMAIN Checks(e) /\ ~ Container(e).alive
    BY DEF AcceptedPassIsReal
  <2>1. AnsweredOK(calls[e], containers[e], observed[e])
    BY OneExecution DEF CallOK
  <2>2. calls[e].request \in Requests
    BY OneExecution DEF CallRecord
  <2>3. DOMAIN Checks(e) = 1 .. Len(Checks(e))
    BY <2>2, RequestLists, LenProperties DEF Checks
  <2>4. QED
    BY <2>1, <2>3 DEF AnsweredOK, PassIsReal, Checks, Container, SandboxName
<1>2. QED
  BY <1>1, WorkerInvariance, PTL

\* The client refuses no answer it can read: one result for each requested check, in
\* order, and a success only with all of them passed and the teardown confirmed.  What
\* it cannot read is decided by the logs alone.
THEOREM OnlyIllegibleAnswersAreRefused == Spec => []GenuineAnswersAreAccepted
<1>1. WorkerInv => GenuineAnswersAreAccepted
  BY DEF WorkerInv, CallOK, GenuineAnswersAreAccepted
<1>2. QED
  BY <1>1, WorkerInvariance, PTL

--------------------------------------------------------------------------------
(* The shell.  What a recursion over a sequence computes is shown of its shortest *)
(* counterexample, since the natural numbers are well-ordered.                    *)

\* What the shell has read of the first m characters of a line.
IsReading(g, s, line, m) ==
  g = [n \in 0 .. m |-> IF n = 0 THEN s ELSE ShellStep(g[n - 1], line[n])]

LEMMA LeastNatural ==
  ASSUME NEW S \in SUBSET Nat, S # {}
  PROVE  \E n \in S : \A m \in S : n <= m
<1> DEFINE below == {pair \in Nat \X Nat : pair[1] < pair[2]}
<1>1. IsWellFoundedOn(below, Nat)
  BY NatLessThanWellFounded DEF OpToRel
<1>2. \A m, n \in Nat : m < n => <<m, n>> \in below
  OBVIOUS
<1> HIDE DEF below
<1>3. PICK n \in S : \A m \in S : ~ (<<m, n>> \in below)
  BY <1>1, WFMin
<1>4. ASSUME NEW m \in S PROVE n <= m
  <2>1. m \in Nat /\ n \in Nat /\ ~ (<<m, n>> \in below)
    BY <1>3
  <2>2. QED
    BY <1>2, <2>1
<1>5. QED
  BY <1>4

\* The shell's reading of a line is the recursion it is written as.
LEMMA ReadingExists ==
  ASSUME NEW s, NEW line, NEW m \in Nat
  PROVE  \E g : IsReading(g, s, line, m)
<1> DEFINE Unreadable == {k \in Nat : ~ \E g : IsReading(g, s, line, k)}
<1> SUFFICES ASSUME Unreadable # {} PROVE FALSE
  OBVIOUS
<1>1. PICK n \in Unreadable : \A k \in Unreadable : n <= k
  BY LeastNatural
<1>2. n # 0
  <2> DEFINE g == [k \in 0 .. 0 |-> s]
  <2>1. IsReading(g, s, line, 0)
    BY DEF IsReading
  <2>2. QED
    BY <1>1, <2>1
<1>3. n - 1 \in Nat /\ n - 1 \notin Unreadable
  BY <1>1, <1>2
<1>4. PICK g : IsReading(g, s, line, n - 1)
  BY <1>3
<1> DEFINE h == [k \in 0 .. n |-> IF k = n THEN ShellStep(g[n - 1], line[n]) ELSE g[k]]
<1>5. ASSUME NEW k \in 0 .. n
      PROVE  h[k] = IF k = 0 THEN s ELSE ShellStep(h[k - 1], line[k])
  <2>1. CASE k = n
    BY <1>2, <1>3, <2>1
  <2>2. CASE k # n
    <3>1. k \in 0 .. n - 1
      BY <2>2, <1>3
    <3>2. h[k] = g[k] /\ (k # 0 => h[k - 1] = g[k - 1])
      BY <2>2, <1>3, <3>1
    <3>3. g[k] = IF k = 0 THEN s ELSE ShellStep(g[k - 1], line[k])
      BY <1>4, <3>1 DEF IsReading
    <3>4. QED
      BY <3>2, <3>3
  <2>3. QED
    BY <2>1, <2>2
<1>6. IsReading(h, s, line, n)
  BY <1>5 DEF IsReading
<1>7. QED
  BY <1>1, <1>6

LEMMA ReadingIsARecursion ==
  ASSUME NEW s, NEW line, Len(line) \in Nat
  PROVE  \E g : IsReading(g, s, line, Len(line)) /\ ShellReads(s, line) = g[Len(line)]
<1> DEFINE reading == CHOOSE g : IsReading(g, s, line, Len(line))
<1>1. ShellReads(s, line) = reading[Len(line)]
  BY DEF ShellReads, IsReading
<1>2. \E g : IsReading(g, s, line, Len(line))
  BY ReadingExists
<1>3. IsReading(reading, s, line, Len(line))
  BY <1>2
<1>4. QED
  BY <1>1, <1>3

\* Nothing read is nothing done, and one more character is one more step.
LEMMA NothingRead ==
  ASSUME NEW s
  PROVE  ShellReads(s, <<>>) = s
<1>1. Len(<<>>) = 0
  OBVIOUS
<1>2. PICK g : IsReading(g, s, <<>>, 0) /\ ShellReads(s, <<>>) = g[0]
  BY <1>1, ReadingIsARecursion
<1>3. QED
  BY <1>2 DEF IsReading

LEMMA OneMoreCharacter ==
  ASSUME NEW C, NEW s, NEW line \in Seq(C), NEW c \in C
  PROVE  ShellReads(s, Append(line, c)) = ShellStep(ShellReads(s, line), c)
<1> DEFINE longer == Append(line, c)
           N == Len(line)
<1>1. /\ N \in Nat /\ Len(longer) = N + 1 /\ longer[N + 1] = c
      /\ \A n \in 1 .. N : longer[n] = line[n]
  BY AppendProperties, LenProperties
<1> HIDE DEF longer
<1>2. PICK g : IsReading(g, s, line, N) /\ ShellReads(s, line) = g[N]
  BY <1>1, ReadingIsARecursion
<1>3. PICK h : IsReading(h, s, longer, N + 1) /\ ShellReads(s, longer) = h[N + 1]
  <2>1. Len(longer) \in Nat
    BY <1>1
  <2>2. \E h : IsReading(h, s, longer, Len(longer)) /\ ShellReads(s, longer) = h[Len(longer)]
    BY <2>1, ReadingIsARecursion
  <2>3. QED
    BY <1>1, <2>2
<1> HIDE DEF N
<1> DEFINE Apart == {n \in Nat : n <= N /\ h[n] # g[n]}
<1>4. ASSUME Apart # {} PROVE FALSE
  <2>1. PICK n \in Apart : \A m \in Apart : n <= m
    BY <1>4, LeastNatural
  <2>2. n # 0
    BY <1>1, <1>2, <1>3, <2>1 DEF IsReading
  <2>3. n - 1 \in 0 .. N /\ n \in 1 .. N /\ h[n - 1] = g[n - 1]
    BY <1>1, <2>1, <2>2
  <2>4. h[n] = ShellStep(h[n - 1], longer[n]) /\ g[n] = ShellStep(g[n - 1], line[n])
    BY <1>1, <1>2, <1>3, <2>2, <2>3 DEF IsReading
  <2>5. QED
    BY <1>1, <2>1, <2>3, <2>4
<1>5. h[N] = g[N]
  BY <1>1, <1>4
<1>6. h[N + 1] = ShellStep(h[N], c)
  BY <1>1, <1>3 DEF IsReading
<1>7. QED
  BY <1>2, <1>3, <1>5, <1>6 DEF longer

LEMMA OneCharacter ==
  ASSUME NEW s, NEW c
  PROVE  ShellReads(s, <<c>>) = ShellStep(s, c)
<1> DEFINE C == {c}
           nothing == <<>>
<1>1. nothing \in Seq(C) /\ c \in C
  OBVIOUS
<1>2. Append(nothing, c) = <<c>>
  OBVIOUS
<1> HIDE DEF C, nothing
<1>3. ShellReads(s, Append(nothing, c)) = ShellStep(ShellReads(s, nothing), c)
  BY <1>1, OneMoreCharacter
<1>4. QED
  BY <1>2, <1>3, NothingRead DEF nothing

\* Of some sequences, one is the shortest.
LEMMA ShortestSequence ==
  ASSUME NEW C, NEW W \in SUBSET Seq(C), W # {}
  PROVE  \E s \in W : \A t \in W : Len(s) <= Len(t)
<1> DEFINE lengths == {Len(s) : s \in W}
<1>1. lengths # {} /\ lengths \in SUBSET Nat
  BY LenProperties
<1> HIDE DEF lengths
<1>2. PICK n \in lengths : \A m \in lengths : n <= m
  BY <1>1, LeastNatural
<1>3. QED
  BY <1>2 DEF lengths

LEMMA AppendToConcat ==
  ASSUME NEW C, NEW a \in Seq(C), NEW b \in Seq(C), NEW c \in C
  PROVE  a \o Append(b, c) = Append(a \o b, c)
<1>1. <<c>> \in Seq(C) /\ a \o b \in Seq(C)
  BY ConcatProperties
<1>2. Append(b, c) = b \o <<c>> /\ Append(a \o b, c) = (a \o b) \o <<c>>
  BY <1>1, AppendIsConcat
<1>3. (a \o b) \o <<c>> = a \o (b \o <<c>>)
  BY <1>1, ConcatAssociative
<1>4. QED
  BY <1>2, <1>3

\* A line may be read in two parts.
LEMMA ReadInParts ==
  ASSUME NEW C, NEW s, NEW a \in Seq(C), NEW b \in Seq(C)
  PROVE  ShellReads(s, a \o b) = ShellReads(ShellReads(s, a), b)
<1> DEFINE Wrong == {t \in Seq(C) :
                       ShellReads(s, a \o t) # ShellReads(ShellReads(s, a), t)}
<1> SUFFICES ASSUME Wrong # {} PROVE FALSE
  OBVIOUS
<1>1. PICK t \in Wrong : \A u \in Wrong : Len(t) <= Len(u)
  <2>1. Wrong \in SUBSET Seq(C)
    OBVIOUS
  <2> HIDE DEF Wrong
  <2>2. QED
    BY <2>1, ShortestSequence
<1>2. t # <<>>
  <2>1. a \o <<>> = a
    BY ConcatEmptySeq
  <2>2. ShellReads(ShellReads(s, a), <<>>) = ShellReads(s, a)
    BY NothingRead
  <2>3. QED
    BY <1>1, <2>1, <2>2
<1>3. PICK u \in Seq(C), c \in C : t = Append(u, c)
  BY <1>1, <1>2, SequenceEmptyOrAppend
<1>4. ShellReads(s, a \o u) = ShellReads(ShellReads(s, a), u)
  <2>1. Len(t) = Len(u) + 1 /\ Len(u) \in Nat
    BY <1>3, AppendProperties, LenProperties
  <2>2. u \notin Wrong
    BY <1>1, <2>1
  <2>3. QED
    BY <2>2
<1>5. ShellReads(s, a \o t) = ShellStep(ShellReads(s, a \o u), c)
  <2>1. a \o t = Append(a \o u, c)
    BY <1>3, AppendToConcat
  <2>2. PICK au \in Seq(C) : au = a \o u
    BY ConcatProperties
  <2>3. ShellReads(s, Append(au, c)) = ShellStep(ShellReads(s, au), c)
    BY OneMoreCharacter
  <2>4. QED
    BY <2>1, <2>2, <2>3
<1>6. ShellReads(ShellReads(s, a), t) = ShellStep(ShellReads(ShellReads(s, a), u), c)
  BY <1>3, OneMoreCharacter
<1>7. QED
  BY <1>1, <1>4, <1>5, <1>6

--------------------------------------------------------------------------------
(* Flattening *)

\* What FlattenSeq has made of the first m sequences.
IsFlattening(g, seqs, m) ==
  g = [n \in 1 .. m |-> IF n = 1 THEN seqs[n] ELSE g[n - 1] \o seqs[n]]

LEMMA FlatteningExists ==
  ASSUME NEW seqs, NEW m \in Nat
  PROVE  \E g : IsFlattening(g, seqs, m)
<1> DEFINE None == {k \in Nat : ~ \E g : IsFlattening(g, seqs, k)}
<1> SUFFICES ASSUME None # {} PROVE FALSE
  OBVIOUS
<1>1. PICK n \in None : \A k \in None : n <= k
  BY LeastNatural
<1>2. n # 0
  <2> DEFINE g == [k \in 1 .. 0 |-> seqs]
  <2>1. IsFlattening(g, seqs, 0)
    BY DEF IsFlattening
  <2>2. QED
    BY <1>1, <2>1
<1>3. n - 1 \in Nat /\ n - 1 \notin None
  BY <1>1, <1>2
<1>4. PICK g : IsFlattening(g, seqs, n - 1)
  BY <1>3
<1> DEFINE h == [k \in 1 .. n |->
                   IF k # n THEN g[k] ELSE IF n = 1 THEN seqs[n] ELSE g[n - 1] \o seqs[n]]
<1>5. ASSUME NEW k \in 1 .. n
      PROVE  h[k] = IF k = 1 THEN seqs[k] ELSE h[k - 1] \o seqs[k]
  <2>1. CASE k = n
    BY <1>2, <1>3, <2>1
  <2>2. CASE k # n
    <3>1. k \in 1 .. n - 1
      BY <2>2, <1>3
    <3>2. h[k] = g[k] /\ (k # 1 => h[k - 1] = g[k - 1])
      BY <2>2, <1>3, <3>1
    <3>3. g[k] = IF k = 1 THEN seqs[k] ELSE g[k - 1] \o seqs[k]
      BY <1>4, <3>1 DEF IsFlattening
    <3>4. QED
      BY <3>2, <3>3
  <2>3. QED
    BY <2>1, <2>2
<1>6. IsFlattening(h, seqs, n)
  BY <1>5 DEF IsFlattening
<1>7. QED
  BY <1>1, <1>6

LEMMA FlatteningIsARecursion ==
  ASSUME NEW seqs, Len(seqs) \in Nat \ {0}
  PROVE  \E g : IsFlattening(g, seqs, Len(seqs)) /\ FlattenSeq(seqs) = g[Len(seqs)]
<1> DEFINE flatten == CHOOSE g : IsFlattening(g, seqs, Len(seqs))
<1>1. FlattenSeq(seqs) = flatten[Len(seqs)]
  BY DEF FlattenSeq, IsFlattening
<1>2. \E g : IsFlattening(g, seqs, Len(seqs))
  BY FlatteningExists
<1>3. IsFlattening(flatten, seqs, Len(seqs))
  BY <1>2
<1>4. QED
  BY <1>1, <1>3

LEMMA FlatteningStep ==
  ASSUME NEW g, NEW seqs, NEW m \in Nat, IsFlattening(g, seqs, m), NEW n \in 2 .. m
  PROVE  g[n] = g[n - 1] \o seqs[n]
<1>1. n \in 1 .. m /\ n # 1
  OBVIOUS
<1>2. g[n] = IF n = 1 THEN seqs[n] ELSE g[n - 1] \o seqs[n]
  BY <1>1 DEF IsFlattening
<1>3. QED
  BY <1>1, <1>2

\* Nothing is flattened to nothing, and one more sequence is put at the end.
LEMMA OneMoreSequence ==
  ASSUME NEW C, NEW seqs \in Seq(Seq(C)), NEW x \in Seq(C)
  PROVE  FlattenSeq(Append(seqs, x)) = FlattenSeq(seqs) \o x
<1> DEFINE longer == Append(seqs, x)
           N == Len(seqs)
<1>1. /\ N \in Nat /\ Len(longer) = N + 1 /\ longer[N + 1] = x
      /\ \A n \in 1 .. N : longer[n] = seqs[n]
  BY AppendProperties, LenProperties
<1> HIDE DEF longer
<1>2. PICK h : IsFlattening(h, longer, N + 1) /\ FlattenSeq(longer) = h[N + 1]
  <2>1. Len(longer) \in Nat \ {0}
    BY <1>1
  <2>2. \E h : IsFlattening(h, longer, Len(longer)) /\ FlattenSeq(longer) = h[Len(longer)]
    BY <2>1, FlatteningIsARecursion
  <2>3. QED
    BY <1>1, <2>2
<1>3. CASE N = 0
  <2>1. seqs = <<>> /\ FlattenSeq(seqs) = <<>>
    BY <1>3, EmptySeq DEF FlattenSeq
  <2>2. FlattenSeq(longer) = x
    BY <1>1, <1>2, <1>3 DEF IsFlattening
  <2>3. QED
    BY <2>1, <2>2, ConcatEmptySeq DEF longer
<1>4. CASE N # 0
  <2>1. PICK g : IsFlattening(g, seqs, N) /\ FlattenSeq(seqs) = g[N]
    BY <1>1, <1>4, FlatteningIsARecursion
  <2> HIDE DEF N
  <2>2. ASSUME NEW n \in 2 .. N PROVE g[n] = g[n - 1] \o seqs[n]
    BY <1>1, <2>1, FlatteningStep
  <2>3. ASSUME NEW n \in 2 .. N + 1 PROVE h[n] = h[n - 1] \o longer[n]
    <3>1. N + 1 \in Nat
      BY <1>1
    <3>2. QED
      BY <1>2, <3>1, FlatteningStep
  <2> DEFINE Apart == {n \in Nat \ {0} : n <= N /\ h[n] # g[n]}
  <2>4. ASSUME Apart # {} PROVE FALSE
    <3>1. PICK n \in Apart : \A m \in Apart : n <= m
      BY <2>4, LeastNatural
    <3>2. n # 1
      BY <1>1, <1>2, <2>1, <3>1 DEF IsFlattening
    <3>3. n - 1 \in 1 .. N /\ n \in 2 .. N /\ n \in 2 .. N + 1 /\ h[n - 1] = g[n - 1]
      BY <1>1, <3>1, <3>2
    <3>4. h[n] = h[n - 1] \o longer[n] /\ g[n] = g[n - 1] \o seqs[n]
      BY <2>2, <2>3, <3>3
    <3>5. h[n] # g[n] /\ longer[n] = seqs[n]
      BY <1>1, <3>1, <3>3
    <3>6. QED
      BY <3>3, <3>4, <3>5
  <2>5. h[N] = g[N]
    <3>1. N \in Nat \ {0} /\ N <= N
      BY <1>1, <1>4
    <3>2. QED
      BY <2>4, <3>1
  <2>6. h[N + 1] = h[N] \o x
    <3>1. N + 1 \in 2 .. N + 1 /\ (N + 1) - 1 = N
      BY <1>1, <1>4
    <3>2. h[N + 1] = h[(N + 1) - 1] \o longer[N + 1]
      BY <2>3, <3>1
    <3>3. QED
      BY <1>1, <3>1, <3>2
  <2>7. QED
    BY <1>2, <2>1, <2>5, <2>6 DEF longer
<1>5. QED
  BY <1>3, <1>4

LEMMA NoSequences == FlattenSeq(<<>>) = <<>>
BY EmptySeq DEF FlattenSeq

LEMMA FlatteningIsASequence ==
  ASSUME NEW C, NEW seqs \in Seq(Seq(C))
  PROVE  FlattenSeq(seqs) \in Seq(C)
<1> DEFINE Wrong == {t \in Seq(Seq(C)) : FlattenSeq(t) \notin Seq(C)}
<1> SUFFICES ASSUME Wrong # {} PROVE FALSE
  OBVIOUS
<1>1. PICK t \in Wrong : \A u \in Wrong : Len(t) <= Len(u)
  <2>1. Wrong \in SUBSET Seq(Seq(C))
    OBVIOUS
  <2> HIDE DEF Wrong
  <2>2. QED
    BY <2>1, ShortestSequence
<1>2. t # <<>>
  BY <1>1, NoSequences, EmptySeq
<1>3. PICK u \in Seq(Seq(C)), x \in Seq(C) : t = Append(u, x)
  BY <1>1, <1>2, SequenceEmptyOrAppend
<1>4. FlattenSeq(u) \in Seq(C)
  BY <1>1, <1>3, AppendProperties, LenProperties
<1>5. FlattenSeq(t) = FlattenSeq(u) \o x
  BY <1>3, OneMoreSequence
<1>6. QED
  BY <1>1, <1>4, <1>5, ConcatProperties

--------------------------------------------------------------------------------
(* What the shell makes of a command line *)

\* The shell in an open word, having read nothing but literal characters.
Reading(quote, word, words) ==
  [quote |-> quote, open |-> TRUE, word |-> word, words |-> words, literal |-> TRUE]

\* A word of shellQuote between its outer quotes.
QuotedCharacter(c) == IF c = "'" THEN <<"'", "\"", "'", "\"", "'">> ELSE <<c>>
Quoted(word) == [i \in DOMAIN word |-> QuotedCharacter(word[i])]

\* Characters of a command line.
Shell(C) == C \cup {"'", "\"", " "}

LEMMA FiveCharacters ==
  ASSUME NEW c1, NEW c2, NEW c3, NEW c4, NEW c5, NEW s
  PROVE  ShellReads(s, <<c1, c2, c3, c4, c5>>)
           = ShellStep(ShellStep(ShellStep(ShellStep(ShellStep(s, c1), c2), c3), c4), c5)
<1> DEFINE line == <<c1, c2, c3, c4, c5>>
<1>1. Len(line) = 5
  OBVIOUS
<1>2. line[1] = c1 /\ line[2] = c2 /\ line[3] = c3 /\ line[4] = c4 /\ line[5] = c5
  OBVIOUS
<1> HIDE DEF line
<1>3. PICK g : IsReading(g, s, line, 5) /\ ShellReads(s, line) = g[5]
  <2>1. Len(line) \in Nat
    BY <1>1
  <2>2. \E g : IsReading(g, s, line, Len(line)) /\ ShellReads(s, line) = g[Len(line)]
    BY <2>1, ReadingIsARecursion
  <2>3. QED
    BY <1>1, <2>2
<1>4. ASSUME NEW n \in 1 .. 5 PROVE g[n] = ShellStep(g[n - 1], line[n])
  BY <1>3 DEF IsReading
<1>5. g[0] = s
  BY <1>3 DEF IsReading
<1>6. /\ g[1] = ShellStep(g[0], c1) /\ g[2] = ShellStep(g[1], c2)
      /\ g[3] = ShellStep(g[2], c3) /\ g[4] = ShellStep(g[3], c4)
      /\ g[5] = ShellStep(g[4], c5)
  BY <1>2, <1>4
<1>7. QED
  BY <1>1, <1>3, <1>5, <1>6 DEF line

LEMMA QuotedCharacters ==
  ASSUME NEW C, NEW c \in C
  PROVE  QuotedCharacter(c) \in Seq(Shell(C))
<1>1. "'" \in Shell(C) /\ "\"" \in Shell(C) /\ c \in Shell(C)
  BY DEF Shell
<1>2. <<c>> \in Seq(Shell(C))
  <2>1. c \in Shell(C)
    BY <1>1
  <2>2. QED
    BY <2>1
<1>3. PICK a \in Shell(C) : a = "'"
  BY <1>1
<1>4. PICK b \in Shell(C) : b = "\""
  BY <1>1
<1>5. PICK D : D = Shell(C)
  OBVIOUS
<1>6. a \in D /\ b \in D
  BY <1>5
<1>7. <<a, b, a, b, a>> \in Seq(D)
  BY <1>6
<1>8. QED
  BY <1>2, <1>3, <1>4, <1>5, <1>7 DEF QuotedCharacter

LEMMA QuotedIsASequence ==
  ASSUME NEW C, NEW word \in Seq(C)
  PROVE  Quoted(word) \in Seq(Seq(Shell(C)))
<1> DEFINE T == Seq(Shell(C))
<1>1. Len(word) \in Nat /\ DOMAIN word = 1 .. Len(word)
  BY LenProperties
<1>2. \A i \in 1 .. Len(word) : QuotedCharacter(word[i]) \in T
  BY ElementOfSeq, QuotedCharacters
<1> HIDE DEF T
<1>3. [i \in 1 .. Len(word) |-> QuotedCharacter(word[i])] \in Seq(T)
  BY <1>1, <1>2
<1>4. QED
  BY <1>1, <1>3 DEF Quoted, T

LEMMA OneMoreQuoted ==
  ASSUME NEW C, NEW word \in Seq(C), NEW c \in C
  PROVE  Quoted(Append(word, c)) = Append(Quoted(word), QuotedCharacter(c))
<1> DEFINE T == Seq(Shell(C))
           N == Len(word)
           longer == Append(word, c)
           left == Quoted(longer)
           right == Append(Quoted(word), QuotedCharacter(c))
<1>1. /\ longer \in Seq(C) /\ N \in Nat /\ Len(longer) = N + 1 /\ longer[N + 1] = c
      /\ DOMAIN word = 1 .. N /\ DOMAIN longer = 1 .. N + 1
      /\ \A i \in 1 .. N : longer[i] = word[i]
  BY AppendProperties, LenProperties
<1>2. Quoted(word) \in Seq(T) /\ left \in Seq(T) /\ QuotedCharacter(c) \in T
  BY <1>1, QuotedIsASequence, QuotedCharacters
<1>3. DOMAIN Quoted(word) = 1 .. N /\ DOMAIN left = 1 .. N + 1
  BY <1>1 DEF Quoted
<1>4. Len(Quoted(word)) = N /\ Len(left) = N + 1
  BY <1>1, <1>2, <1>3, LenProperties
<1>5. \A i \in 1 .. N + 1 : left[i] = QuotedCharacter(longer[i])
  BY <1>1 DEF Quoted
<1>6. \A i \in 1 .. N : Quoted(word)[i] = QuotedCharacter(word[i])
  BY <1>1 DEF Quoted
<1> HIDE DEF T, left, longer
<1>7. /\ right \in Seq(T) /\ Len(right) = N + 1
      /\ \A i \in 1 .. N : right[i] = Quoted(word)[i]
      /\ right[N + 1] = QuotedCharacter(c)
  BY <1>2, <1>4, AppendProperties
<1> HIDE DEF right, N
<1>8. \A i \in 1 .. N + 1 : left[i] = right[i]
  <2> SUFFICES ASSUME NEW i \in 1 .. N + 1 PROVE left[i] = right[i]
    OBVIOUS
  <2>1. CASE i = N + 1
    BY <1>1, <1>5, <1>7, <2>1
  <2>2. CASE i # N + 1
    <3>1. i \in 1 .. N
      BY <1>1, <2>2
    <3>2. QED
      BY <1>1, <1>5, <1>6, <1>7, <3>1
  <2>3. QED
    BY <2>1, <2>2
<1>9. left = right
  BY <1>2, <1>4, <1>7, <1>8, SeqEqual
<1>10. QED
  BY <1>9 DEF left, right, longer

\* The steps of the shell, by what they find.
LEMMA ShellOpensQuotes ==
  ASSUME NEW word, NEW words, NEW c \in {"'", "\""}
  PROVE  ShellStep(Reading("none", word, words), c) = Reading(c, word, words)
<1>1. PICK s : s = Reading("none", word, words)
  OBVIOUS
<1>2. s.quote = "none"
  BY <1>1 DEF Reading
<1>3. ShellStep(s, c) = [s EXCEPT !.quote = c, !.open = TRUE]
  BY <1>2 DEF ShellStep
<1>4. QED
  BY <1>1, <1>3 DEF Reading

LEMMA ShellClosesQuotes ==
  ASSUME NEW word, NEW words, NEW c \in {"'", "\""}
  PROVE  ShellStep(Reading(c, word, words), c) = Reading("none", word, words)
<1>1. PICK s : s = Reading(c, word, words)
  OBVIOUS
<1>2. s.quote = c /\ c # "none"
  BY <1>1 DEF Reading
<1>3. ShellStep(s, c) = [s EXCEPT !.quote = "none"]
  BY <1>2 DEF ShellStep
<1>4. QED
  BY <1>1, <1>3 DEF Reading

LEMMA ShellReadsInQuotes ==
  ASSUME NEW word, NEW words, NEW quote, NEW c, quote # c,
         quote = "'" \/ (quote = "\"" /\ c = "'")
  PROVE  ShellStep(Reading(quote, word, words), c) = Reading(quote, Append(word, c), words)
<1>1. PICK s : s = Reading(quote, word, words)
  OBVIOUS
<1>2. s.quote = quote /\ quote # "none" /\ quote # c
  BY <1>1 DEF Reading
<1>3. ShellStep(s, c) = ShellTakes(s, c)
  BY <1>2 DEF ShellStep
<1>4. QED
  BY <1>1, <1>3 DEF Reading, ShellTakes

LEMMA ShellReadsSpace ==
  ASSUME NEW word, NEW words
  PROVE  ShellStep(Reading("none", word, words), " ")
           = [quote |-> "none", open |-> FALSE, word |-> <<>>, words |-> Append(words, word),
              literal |-> TRUE]
<1>1. PICK s : s = Reading("none", word, words)
  OBVIOUS
<1>2. s.quote = "none" /\ s.open = TRUE
  BY <1>1 DEF Reading
<1>3. ShellStep(s, " ") = ShellEndsWord(s)
  BY <1>2 DEF ShellStep
<1>4. QED
  BY <1>1, <1>3 DEF Reading, ShellEndsWord

\* A character in quotes is read as itself.
LEMMA QuotedCharacterIsRead ==
  ASSUME NEW c, NEW word, NEW words
  PROVE  ShellReads(Reading("'", word, words), QuotedCharacter(c))
           = Reading("'", Append(word, c), words)
<1>1. CASE c # "'"
  <2>1. ShellStep(Reading("'", word, words), c) = Reading("'", Append(word, c), words)
    BY <1>1, ShellReadsInQuotes
  <2>2. QED
    BY <1>1, <2>1, OneCharacter DEF QuotedCharacter
<1>2. CASE c = "'"
  <2> DEFINE longer == Append(word, "'")
  <2>1. ShellStep(Reading("'", word, words), "'") = Reading("none", word, words)
    BY ShellClosesQuotes
  <2>2. ShellStep(Reading("none", word, words), "\"") = Reading("\"", word, words)
    BY ShellOpensQuotes
  <2>3. ShellStep(Reading("\"", word, words), "'") = Reading("\"", longer, words)
    BY ShellReadsInQuotes
  <2>4. ShellStep(Reading("\"", longer, words), "\"") = Reading("none", longer, words)
    BY ShellClosesQuotes
  <2>5. ShellStep(Reading("none", longer, words), "'") = Reading("'", longer, words)
    BY ShellOpensQuotes
  <2>6. PICK a, b : a = "'" /\ b = "\""
    OBVIOUS
  <2>7. ShellReads(Reading("'", word, words), <<a, b, a, b, a>>)
          = ShellStep(ShellStep(ShellStep(ShellStep(ShellStep(
              Reading("'", word, words), a), b), a), b), a)
    BY FiveCharacters
  <2>8. QED
    BY <1>2, <2>1, <2>2, <2>3, <2>4, <2>5, <2>6, <2>7 DEF QuotedCharacter
<1>3. QED
  BY <1>1, <1>2

\* A word in quotes is read as itself.
LEMMA QuotedWordIsRead ==
  ASSUME NEW C, NEW word \in Seq(C), NEW words
  PROVE  ShellReads(Reading("'", <<>>, words), FlattenSeq(Quoted(word)))
           = Reading("'", word, words)
<1> DEFINE start == Reading("'", <<>>, words)
           Wrong == {t \in Seq(C) :
                       ShellReads(start, FlattenSeq(Quoted(t))) # Reading("'", t, words)}
<1> SUFFICES ASSUME Wrong # {} PROVE FALSE
  OBVIOUS
<1>1. PICK t \in Wrong : \A u \in Wrong : Len(t) <= Len(u)
  <2>1. Wrong \in SUBSET Seq(C)
    OBVIOUS
  <2> HIDE DEF Wrong
  <2>2. QED
    BY <2>1, ShortestSequence
<1>2. t # <<>>
  <2>1. Quoted(<<>>) = <<>>
    BY DEF Quoted
  <2>2. ShellReads(start, FlattenSeq(Quoted(<<>>))) = start
    BY <2>1, NoSequences, NothingRead
  <2>3. QED
    BY <1>1, <2>2
<1>3. PICK u \in Seq(C), c \in C : t = Append(u, c)
  BY <1>1, <1>2, SequenceEmptyOrAppend
<1>4. ShellReads(start, FlattenSeq(Quoted(u))) = Reading("'", u, words)
  <2>1. Len(t) = Len(u) + 1 /\ Len(u) \in Nat
    BY <1>3, AppendProperties, LenProperties
  <2>2. u \notin Wrong
    BY <1>1, <2>1
  <2>3. QED
    BY <2>2
<1> HIDE DEF start
<1>5. PICK q \in Seq(Shell(C)) : q = QuotedCharacter(c)
  BY QuotedCharacters
<1>6. PICK parts \in Seq(Seq(Shell(C))) : parts = Quoted(u)
  BY QuotedIsASequence
<1>7. PICK line \in Seq(Shell(C)) : line = FlattenSeq(parts)
  BY FlatteningIsASequence
<1>8. FlattenSeq(Quoted(t)) = line \o q
  <2>1. Quoted(t) = Append(parts, q)
    BY <1>3, <1>5, <1>6, OneMoreQuoted
  <2>2. QED
    BY <1>7, <2>1, OneMoreSequence
<1>9. ShellReads(start, line \o q) = ShellReads(ShellReads(start, line), q)
  BY ReadInParts
<1>10. ShellReads(Reading("'", u, words), q) = Reading("'", t, words)
  BY <1>3, <1>5, QuotedCharacterIsRead
<1>11. QED
  BY <1>1, <1>4, <1>6, <1>7, <1>8, <1>9, <1>10

\* The shell between two words.
Between(words) ==
  [quote |-> "none", open |-> FALSE, word |-> <<>>, words |-> words, literal |-> TRUE]

LEMMA ShellQuoteParts ==
  ASSUME NEW C, NEW word \in Seq(C)
  PROVE  /\ FlattenSeq(Quoted(word)) \in Seq(Shell(C))
         /\ <<"'">> \in Seq(Shell(C))
         /\ ShellQuote(word) = (<<"'">> \o FlattenSeq(Quoted(word))) \o <<"'">>
         /\ ShellQuote(word) \in Seq(Shell(C))
<1>1. PICK body \in Seq(Shell(C)) : body = FlattenSeq(Quoted(word))
  BY QuotedIsASequence, FlatteningIsASequence
<1>2. PICK q \in Seq(Shell(C)) : q = <<"'">>
  <2>1. PICK a \in Shell(C) : a = "'"
    BY DEF Shell
  <2>2. <<a>> \in Seq(Shell(C))
    OBVIOUS
  <2>3. QED
    BY <2>1, <2>2
<1>3. ShellQuote(word) = (q \o body) \o q
  BY <1>1, <1>2 DEF ShellQuote, Quoted, QuotedCharacter
<1>4. (q \o body) \o q \in Seq(Shell(C))
  BY ConcatProperties
<1>5. QED
  BY <1>1, <1>2, <1>3, <1>4

\* A quoted word is read as itself, from where another may begin.
LEMMA WordIsRead ==
  ASSUME NEW C, NEW word \in Seq(C), NEW words
  PROVE  ShellReads(Between(words), ShellQuote(word)) = Reading("none", word, words)
<1>1. PICK body \in Seq(Shell(C)) : body = FlattenSeq(Quoted(word))
  BY ShellQuoteParts
<1>2. PICK q \in Seq(Shell(C)) : q = <<"'">>
  BY ShellQuoteParts
<1>3. ShellQuote(word) = (q \o body) \o q
  BY <1>1, <1>2, ShellQuoteParts
<1>4. ShellReads(Between(words), q) = Reading("'", <<>>, words)
  <2>1. PICK s : s = Between(words)
    OBVIOUS
  <2>2. s.quote = "none"
    BY <2>1 DEF Between
  <2>3. ShellStep(s, "'") = [s EXCEPT !.quote = "'", !.open = TRUE]
    BY <2>2 DEF ShellStep
  <2>4. ShellStep(s, "'") = Reading("'", <<>>, words)
    BY <2>1, <2>3 DEF Between, Reading
  <2>5. QED
    BY <1>2, <2>1, <2>4, OneCharacter
<1>5. ShellReads(Reading("'", <<>>, words), body) = Reading("'", word, words)
  BY <1>1, QuotedWordIsRead
<1>6. ShellReads(Reading("'", word, words), q) = Reading("none", word, words)
  BY <1>2, OneCharacter, ShellClosesQuotes
<1>7. PICK front \in Seq(Shell(C)) : front = q \o body
  BY ConcatProperties
<1>8. ShellReads(Between(words), front) = Reading("'", word, words)
  BY <1>4, <1>5, <1>7, ReadInParts
<1>9. ShellReads(Between(words), front \o q) = ShellReads(ShellReads(Between(words), front), q)
  BY ReadInParts
<1>10. QED
  BY <1>3, <1>6, <1>7, <1>8, <1>9

\* The words of a command line, each but the first after a space.
Piece(i, word) == IF i = 1 THEN ShellQuote(word) ELSE <<" ">> \o ShellQuote(word)
Pieces(argv) == [i \in DOMAIN argv |-> Piece(i, argv[i])]

LEMMA PieceIsASequence ==
  ASSUME NEW C, NEW i, NEW word \in Seq(C)
  PROVE  <<" ">> \in Seq(Shell(C)) /\ Piece(i, word) \in Seq(Shell(C))
<1>1. PICK space \in Seq(Shell(C)) : space = <<" ">>
  <2>1. PICK a \in Shell(C) : a = " "
    BY DEF Shell
  <2>2. <<a>> \in Seq(Shell(C))
    OBVIOUS
  <2>3. QED
    BY <2>1, <2>2
<1>2. PICK quoted \in Seq(Shell(C)) : quoted = ShellQuote(word)
  BY ShellQuoteParts
<1>3. space \o quoted \in Seq(Shell(C))
  BY ConcatProperties
<1>4. QED
  BY <1>1, <1>2, <1>3 DEF Piece

LEMMA PiecesAreSequences ==
  ASSUME NEW C, NEW argv \in Seq(Seq(C))
  PROVE  Pieces(argv) \in Seq(Seq(Shell(C)))
<1> DEFINE T == Seq(Shell(C))
<1>1. Len(argv) \in Nat /\ DOMAIN argv = 1 .. Len(argv)
  BY LenProperties
<1>2. \A i \in 1 .. Len(argv) : Piece(i, argv[i]) \in T
  BY ElementOfSeq, PieceIsASequence
<1> HIDE DEF T
<1>3. [i \in 1 .. Len(argv) |-> Piece(i, argv[i])] \in Seq(T)
  BY <1>1, <1>2
<1>4. QED
  BY <1>1, <1>3 DEF Pieces, T

LEMMA OneMorePiece ==
  ASSUME NEW C, NEW argv \in Seq(Seq(C)), NEW word \in Seq(C)
  PROVE  Pieces(Append(argv, word)) = Append(Pieces(argv), Piece(Len(argv) + 1, word))
<1> DEFINE T == Seq(Shell(C))
           N == Len(argv)
           longer == Append(argv, word)
           left == Pieces(longer)
           right == Append(Pieces(argv), Piece(N + 1, word))
<1>1. /\ longer \in Seq(Seq(C)) /\ N \in Nat /\ Len(longer) = N + 1 /\ longer[N + 1] = word
      /\ DOMAIN argv = 1 .. N /\ DOMAIN longer = 1 .. N + 1
      /\ \A i \in 1 .. N : longer[i] = argv[i]
  BY AppendProperties, LenProperties
<1>2. Pieces(argv) \in Seq(T) /\ left \in Seq(T) /\ Piece(N + 1, word) \in T
  BY <1>1, PiecesAreSequences, PieceIsASequence
<1>3. DOMAIN Pieces(argv) = 1 .. N /\ DOMAIN left = 1 .. N + 1
  BY <1>1 DEF Pieces
<1>4. Len(Pieces(argv)) = N /\ Len(left) = N + 1
  BY <1>1, <1>2, <1>3, LenProperties
<1>5. \A i \in 1 .. N + 1 : left[i] = Piece(i, longer[i])
  BY <1>1 DEF Pieces
<1>6. \A i \in 1 .. N : Pieces(argv)[i] = Piece(i, argv[i])
  BY <1>1 DEF Pieces
<1> HIDE DEF T, left, longer
<1>7. /\ right \in Seq(T) /\ Len(right) = N + 1
      /\ \A i \in 1 .. N : right[i] = Pieces(argv)[i]
      /\ right[N + 1] = Piece(N + 1, word)
  BY <1>2, <1>4, AppendProperties
<1> HIDE DEF right, N
<1>8. \A i \in 1 .. N + 1 : left[i] = right[i]
  <2> SUFFICES ASSUME NEW i \in 1 .. N + 1 PROVE left[i] = right[i]
    OBVIOUS
  <2>1. CASE i = N + 1
    BY <1>1, <1>5, <1>7, <2>1
  <2>2. CASE i # N + 1
    <3>1. i \in 1 .. N
      BY <1>1, <2>2
    <3>2. QED
      BY <1>1, <1>5, <1>6, <1>7, <3>1
  <2>3. QED
    BY <2>1, <2>2
<1>9. left = right
  BY <1>2, <1>4, <1>7, <1>8, SeqEqual
<1>10. QED
  BY <1>9 DEF left, right, longer, N

LEMMA CommandLineIsFlat ==
  ASSUME NEW argv
  PROVE  CommandLine(argv) = FlattenSeq(Pieces(argv))
BY DEF CommandLine, Pieces, Piece

LEMMA OneMoreWord ==
  ASSUME NEW C, NEW argv \in Seq(Seq(C)), NEW word \in Seq(C)
  PROVE  /\ CommandLine(argv) \in Seq(Shell(C))
         /\ CommandLine(Append(argv, word))
              = CommandLine(argv) \o Piece(Len(argv) + 1, word)
<1>1. PICK parts \in Seq(Seq(Shell(C))) : parts = Pieces(argv)
  BY PiecesAreSequences
<1>2. PICK piece \in Seq(Shell(C)) : piece = Piece(Len(argv) + 1, word)
  BY PieceIsASequence
<1>3. FlattenSeq(parts) \in Seq(Shell(C))
  BY FlatteningIsASequence
<1>4. FlattenSeq(Append(parts, piece)) = FlattenSeq(parts) \o piece
  BY OneMoreSequence
<1>5. Pieces(Append(argv, word)) = Append(parts, piece)
  BY <1>1, <1>2, OneMorePiece
<1>6. QED
  BY <1>1, <1>2, <1>3, <1>4, <1>5, CommandLineIsFlat

\* The shell has read all words of a command line but the last, which is still open.
LEMMA CommandLineIsRead ==
  ASSUME NEW C, NEW argv \in Seq(Seq(C)), argv # <<>>
  PROVE  \E word \in Seq(C), words \in Seq(Seq(C)) :
           /\ argv = Append(words, word)
           /\ ShellReads(ShellStart, CommandLine(argv)) = Reading("none", word, words)
<1> DEFINE IsRead(t) ==
             \E word \in Seq(C), words \in Seq(Seq(C)) :
               /\ t = Append(words, word)
               /\ ShellReads(ShellStart, CommandLine(t)) = Reading("none", word, words)
           Wrong == {t \in Seq(Seq(C)) : t # <<>> /\ ~ IsRead(t)}
<1> SUFFICES IsRead(argv)
  OBVIOUS
<1> HIDE DEF IsRead
<1> SUFFICES ASSUME Wrong # {} PROVE FALSE
  OBVIOUS
<1>1. PICK t \in Wrong : \A u \in Wrong : Len(t) <= Len(u)
  <2>1. Wrong \in SUBSET Seq(Seq(C))
    OBVIOUS
  <2> HIDE DEF Wrong
  <2>2. QED
    BY <2>1, ShortestSequence
<1>2. PICK rest \in Seq(Seq(C)), word \in Seq(C) : t = Append(rest, word)
  BY <1>1, SequenceEmptyOrAppend
<1>3. rest = <<>> \/ IsRead(rest)
  <2>1. Len(t) = Len(rest) + 1 /\ Len(rest) \in Nat
    BY <1>2, AppendProperties, LenProperties
  <2>2. rest \notin Wrong
    BY <1>1, <2>1
  <2>3. QED
    BY <2>2
<1>4. ~ IsRead(t)
  BY <1>1
<1>5. SUFFICES ShellReads(ShellStart, CommandLine(t)) = Reading("none", word, rest)
  BY <1>2, <1>4 DEF IsRead
<1>6. PICK quoted \in Seq(Shell(C)) : quoted = ShellQuote(word)
  BY ShellQuoteParts
<1>7. PICK line \in Seq(Shell(C)) : line = CommandLine(rest)
  BY OneMoreWord
<1>8. CommandLine(t) = line \o Piece(Len(rest) + 1, word)
  BY <1>2, <1>7, OneMoreWord
<1>9. CASE rest = <<>>
  <2>1. line = <<>> /\ Piece(Len(rest) + 1, word) = quoted
    <3>1. Pieces(<<>>) = <<>> /\ Len(<<>>) = 0
      BY DEF Pieces
    <3>2. QED
      BY <1>6, <1>7, <1>9, <3>1, CommandLineIsFlat, NoSequences DEF Piece
  <2>2. CommandLine(t) = quoted
    BY <1>8, <2>1, ConcatEmptySeq
  <2>3. ShellStart = Between(rest)
    BY <1>9 DEF ShellStart, Between
  <2>4. QED
    BY <1>6, <2>2, <2>3, WordIsRead
<1>10. CASE rest # <<>>
  <2>1. PICK last \in Seq(C), front \in Seq(Seq(C)) :
          /\ rest = Append(front, last)
          /\ ShellReads(ShellStart, line) = Reading("none", last, front)
    BY <1>3, <1>7, <1>10 DEF IsRead
  <2>2. PICK space \in Seq(Shell(C)) : space = <<" ">>
    BY PieceIsASequence
  <2>3. Piece(Len(rest) + 1, word) = space \o quoted
    <3>1. Len(rest) \in Nat \ {0}
      BY <1>10, EmptySeq
    <3>2. Len(rest) + 1 # 1
      BY <3>1
    <3>3. QED
      BY <1>6, <2>2, <3>2 DEF Piece
  <2>4. PICK spaced \in Seq(Shell(C)) : spaced = space \o quoted
    BY ConcatProperties
  <2>5. ShellReads(Reading("none", last, front), space) = Between(rest)
    BY <2>1, <2>2, OneCharacter, ShellReadsSpace DEF Between
  <2>6. ShellReads(Between(rest), quoted) = Reading("none", word, rest)
    BY <1>6, WordIsRead
  <2>7. ShellReads(Reading("none", last, front), spaced) = Reading("none", word, rest)
    BY <2>4, <2>5, <2>6, ReadInParts
  <2>8. ShellReads(ShellStart, line \o spaced) = ShellReads(ShellReads(ShellStart, line), spaced)
    BY ReadInParts
  <2>9. QED
    BY <1>8, <2>1, <2>3, <2>4, <2>7, <2>8
<1>11. QED
  BY <1>9, <1>10

\* A command line is read back as the argv it was made of, literally.
THEOREM CommandLinesAreReadBack ==
  ASSUME NEW C, NEW argv \in Seq(Seq(C)), argv # <<>>
  PROVE  ShellWords(CommandLine(argv)) = argv /\ ShellTakesLiterally(CommandLine(argv))
<1>1. PICK word \in Seq(C), words \in Seq(Seq(C)) :
        /\ argv = Append(words, word)
        /\ ShellReads(ShellStart, CommandLine(argv)) = Reading("none", word, words)
  BY CommandLineIsRead
<1>2. PICK line \in Seq(Shell(C)) : line = CommandLine(argv)
  BY OneMoreWord
<1>3. PICK space \in Shell(C) : space = " "
  BY DEF Shell
<1>4. ShellReads(ShellStart, Append(line, space)) = ShellStep(ShellReads(ShellStart, line), space)
  BY OneMoreCharacter
<1>5. ShellReads(ShellStart, Append(line, " ")) = Between(argv)
  BY <1>1, <1>2, <1>3, <1>4, ShellReadsSpace DEF Between
<1>6. ShellWords(CommandLine(argv)) = argv
  <2>1. Between(argv).words = argv
    BY DEF Between
  <2>2. QED
    BY <1>2, <1>5, <2>1 DEF ShellWords
<1>7. ShellTakesLiterally(CommandLine(argv))
  <2>1. Reading("none", word, words).literal
    BY DEF Reading
  <2>2. QED
    BY <1>1, <2>1 DEF ShellTakesLiterally
<1>8. QED
  BY <1>6, <1>7

\* Every command that runs is read by the shell as the argv of its check, word for word
\* and literally, whatever characters a request puts into it (shellQuote of policy.ts and
\* the exec call of index.ts).
THEOREM CommandsAreReadBack == Spec => []CommandsSurviveTheShell
<1>1. WorkerInv => CommandsSurviveTheShell
  <2> SUFFICES ASSUME WorkerInv, NEW e \in Executions, calls[e].state = "running"
               PROVE  LET argv == Checks(e)[calls[e].next].argv
                      IN  /\ ShellWords(CommandLine(argv)) = argv
                          /\ ShellTakesLiterally(CommandLine(argv))
    BY DEF CommandsSurviveTheShell
  <2> DEFINE r == calls[e].request
             n == calls[e].next
             argv == r.checks[n].argv
  <2>1. r \in Requests /\ n \in Nat \ {0} /\ ~ Rejects(r) /\ n <= Len(r.checks)
    BY OneExecution DEF CallRecord, CallOK, CheckingOK
  <2>2. r.checks \in Seq(ToSet(r.checks))
    BY <2>1, WorkerAssumption
  <2>3. n \in 1 .. Len(r.checks) /\ DOMAIN r.checks = 1 .. Len(r.checks)
    BY <2>1, <2>2, LenProperties
  <2>4. r.checks[n] \in ToSet(r.checks)
    BY <2>2, <2>3, ElementOfSeq
  <2>5. argv \in Seq(Seq(CharactersOf(argv)))
    BY <2>1, <2>4, WorkerAssumption
  <2>6. argv # <<>>
    <3>1. ParsesAsCommand(r.checks[n])
      BY <2>1, <2>3 DEF Rejects, ParsesAsRequest
    <3>2. Len(argv) # 0
      BY <3>1 DEF ParsesAsCommand
    <3>3. QED
      BY <3>2, EmptySeq
  <2> HIDE DEF argv
  <2>7. ShellWords(CommandLine(argv)) = argv /\ ShellTakesLiterally(CommandLine(argv))
    BY <2>5, <2>6, CommandLinesAreReadBack
  <2>8. QED
    BY <2>7 DEF argv, Checks
<1>2. QED
  BY <1>1, WorkerInvariance, PTL

================================================================================
