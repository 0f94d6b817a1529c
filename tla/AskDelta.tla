-------------------------------- MODULE AskDelta --------------------------------
(***************************************************************************)
(* Ask Delta (AskDeltaChat of MigrationWorkspace.tsx, lib/dashboardChat.ts)*)
(* over the messages and the jobs of workspace_intelligence's chat.  An    *)
(* exchange is a question and its answer; a thread is named by the first   *)
(* exchange it holds.  What a poll reads replaces what is shown, and polls *)
(* and POSTs of one thread may land in any order.  Repositories are        *)
(* selected; selecting others shows a new, empty chat.                     *)
(***************************************************************************)
EXTENDS Browser

CONSTANTS
  Questions,      \* bound: the POSTs the page may have under way
  MaxExchanges,   \* bound: exchanges
  ThreadLimit     \* exchanges of a thread that one read returns

ASSUME AskAssumption ==
  /\ IsFiniteSet(Questions)
  /\ MaxExchanges \in Nat
  /\ ThreadLimit \in Nat

VARIABLES
  exchanges,    \* workspace_ai_chat_messages: thread and status of each answer
  chatTasks,    \* the job of each answer, and what its worker is doing
  chat,         \* the state hooks of the chat
  chatPolls,    \* its GETs under way
  asked         \* its POSTs under way

askVars == <<exchanges, chatTasks, chat, chatPolls, asked>>

ExchangeIds == 1 .. MaxExchanges
ThreadOrNone == 0 .. MaxExchanges

ShownStatus == JobStatuses \cup {"absent"}
Shown == [ExchangeIds -> ShownStatus]
NothingShown == [e \in ExchangeIds |-> "absent"]

NoThreadPoll == [state |-> "idle", thread |-> 0, messages |-> NothingShown]
NoQuestion == [state |-> "idle", heard |-> FALSE, thread |-> 0, exchange |-> 0]

FreshChat == [thread |-> 0, messages |-> NothingShown, sending |-> FALSE]

AskInit ==
  /\ exchanges = [e \in ExchangeIds |-> [thread |-> 0, status |-> "absent"]]
  /\ chatTasks = [e \in ExchangeIds |-> "none"]
  /\ chat = FreshChat
  /\ chatPolls = [s \in BrowserPolls |-> NoThreadPoll]
  /\ asked = [q \in Questions |-> NoQuestion]

--------------------------------------------------------------------------------
(* workspace_intelligence: chat_store, router and task *)

\* list_messages: the oldest of the thread.
ThreadRead(thread) ==
  LET earlier(e) == {d \in 1 .. e - 1 : exchanges[d].thread = thread}
  IN  [e \in ExchangeIds |->
         IF exchanges[e].thread = thread /\ Cardinality(earlier(e)) < ThreadLimit
         THEN exchanges[e].status ELSE "absent"]

SetAnswer(e, from, status) ==
  exchanges' = [exchanges EXCEPT ![e].status = IF @ \in from THEN status ELSE @]

\* claim_message, by the worker that was handed the job.
ClaimMessage(e) ==
  /\ chatTasks[e] = "queued"
  /\ SetAnswer(e, {"queued"}, "running")
  /\ chatTasks' = [chatTasks EXCEPT ![e] = "claimed"]

CompleteMessage(e) ==
  /\ chatTasks[e] = "claimed"
  /\ SetAnswer(e, {"running"}, "ready")
  /\ chatTasks' = [chatTasks EXCEPT ![e] = "done"]

\* fail_message, also when the claim itself raised.
FailMessage(e) ==
  /\ chatTasks[e] \in {"queued", "claimed"}
  /\ SetAnswer(e, JobStatuses, "failed")
  /\ chatTasks' = [chatTasks EXCEPT ![e] = "done"]

\* The worker process dies: nothing hands its job out again.
AnswererDies(e) ==
  /\ chatTasks[e] = "claimed"
  /\ chatTasks' = [chatTasks EXCEPT ![e] = "lost"]
  /\ UNCHANGED exchanges

AnswerWorkers ==
  /\ \E e \in ExchangeIds : ClaimMessage(e) \/ CompleteMessage(e) \/ FailMessage(e)
  /\ UNCHANGED <<chat, chatPolls, asked>>

AnswerWorkerDies ==
  /\ \E e \in ExchangeIds : AnswererDies(e)
  /\ UNCHANGED <<chat, chatPolls, asked>>

--------------------------------------------------------------------------------
(* The page: polling *)

\* Mutation: an answer that a worker is writing is not pending.
hasPending_Queued(messages) == \E e \in ExchangeIds : messages[e] = "queued"

hasPending(messages) == \E e \in ExchangeIds : messages[e] \in Working

PollsThread == chat.thread # 0 /\ (chat.sending \/ hasPending(chat.messages))

PollThread(s) ==
  /\ PollsThread
  /\ chatPolls[s].state = "idle"
  /\ chatPolls' = [chatPolls EXCEPT ![s].state = "sent", ![s].thread = chat.thread]
  /\ UNCHANGED <<exchanges, chatTasks, chat, asked>>

ReadThread(s) ==
  /\ chatPolls[s].state = "sent"
  /\ chatPolls' = [chatPolls EXCEPT ![s].state = "answered",
                                    ![s].messages = ThreadRead(chatPolls[s].thread)]
  /\ UNCHANGED <<exchanges, chatTasks, chat, asked>>

\* Whatever was sent or shown since the read.
LandThread(s) ==
  LET messages == chatPolls[s].messages
  IN  /\ chatPolls[s].state = "answered"
      /\ chat' = [chat EXCEPT !.messages = messages, !.sending = @ /\ hasPending(messages)]
      /\ chatPolls' = [chatPolls EXCEPT ![s] = NoThreadPoll]
      /\ UNCHANGED <<exchanges, chatTasks, asked>>

ThreadPollFails(s) ==
  /\ chatPolls[s].state = "answered"
  /\ chat' = [chat EXCEPT !.sending = FALSE]
  /\ chatPolls' = [chatPolls EXCEPT ![s] = NoThreadPoll]
  /\ UNCHANGED <<exchanges, chatTasks, asked>>

--------------------------------------------------------------------------------
(* The page: sending *)

SendMessage(q) ==
  /\ ~ chat.sending
  /\ asked[q].state = "idle"
  /\ chat' = [chat EXCEPT !.sending = TRUE]
  /\ asked' = [asked EXCEPT ![q] = [NoQuestion EXCEPT !.state = "sent", !.heard = TRUE,
                                                      !.thread = chat.thread]]
  /\ UNCHANGED <<exchanges, chatTasks, chatPolls>>

\* ask_dashboard, up to the commit of create_exchange.
QuestionCommits(q, e) ==
  LET thread == IF asked[q].thread = 0 THEN e ELSE asked[q].thread
  IN  /\ asked[q].state = "sent"
      /\ exchanges[e].status = "absent"
      /\ \A d \in 1 .. e - 1 : exchanges[d].status # "absent"
      /\ exchanges' = [exchanges EXCEPT ![e] = [thread |-> thread, status |-> "queued"]]
      /\ asked' = [asked EXCEPT ![q].state = "deferring", ![q].thread = thread,
                                ![q].exchange = e]
      /\ UNCHANGED <<chatTasks, chat, chatPolls>>

\* A POST nobody waits for any more is over.
AskedNext(q, state) ==
  [asked EXCEPT ![q] = IF asked[q].heard THEN [@ EXCEPT !.state = state] ELSE NoQuestion]

\* 403, 422, 503 or no connection.
QuestionRefused(q) ==
  /\ asked[q].state = "sent"
  /\ asked' = AskedNext(q, "refused")
  /\ UNCHANGED <<exchanges, chatTasks, chat, chatPolls>>

\* The job is deferred after the commit: it, or the answer, may be lost.
QuestionDefers(q, deferred) ==
  /\ asked[q].state = "deferring"
  /\ chatTasks' = [chatTasks EXCEPT ![asked[q].exchange] = IF deferred THEN "queued" ELSE "lost"]
  /\ asked' = AskedNext(q, IF deferred THEN "answered" ELSE "refused")
  /\ UNCHANGED <<exchanges, chat, chatPolls>>

\* The exchange is appended to what is shown by now.
LandQuestion(q) ==
  /\ asked[q].state = "answered"
  /\ chat' = [chat EXCEPT !.thread = asked[q].thread, !.messages[asked[q].exchange] = "queued"]
  /\ asked' = [asked EXCEPT ![q] = NoQuestion]
  /\ UNCHANGED <<exchanges, chatTasks, chatPolls>>

\* An error, or an answer that does not arrive.
QuestionFails(q) ==
  /\ asked[q].state \in {"answered", "refused"}
  /\ chat' = [chat EXCEPT !.sending = FALSE]
  /\ asked' = [asked EXCEPT ![q] = NoQuestion]
  /\ UNCHANGED <<exchanges, chatTasks, chatPolls>>

\* Other repositories are selected, or the page is left: the chat starts anew and hears
\* of nothing that was under way.
RemountChat ==
  /\ chat' = FreshChat
  /\ chatPolls' = [s \in BrowserPolls |-> NoThreadPoll]
  /\ asked' = [q \in Questions |->
                 IF asked[q].state \in {"sent", "deferring"}
                 THEN [asked[q] EXCEPT !.heard = FALSE] ELSE NoQuestion]
  /\ UNCHANGED <<exchanges, chatTasks>>

--------------------------------------------------------------------------------

ChatNext ==
  \/ \E s \in BrowserPolls : PollThread(s) \/ ReadThread(s) \/ LandThread(s) \/ ThreadPollFails(s)
  \/ \E q \in Questions, e \in ExchangeIds : QuestionCommits(q, e)
  \/ \E q \in Questions : SendMessage(q) \/ QuestionRefused(q) \/ LandQuestion(q) \/ QuestionFails(q)
  \/ \E q \in Questions, deferred \in BOOLEAN : QuestionDefers(q, deferred)
  \/ RemountChat

AskNext == ChatNext \/ AnswerWorkers \/ AnswerWorkerDies

\* Every POST goes on to its end, whatever that is.
QuestionMoves(q) ==
  \/ \E e \in ExchangeIds : QuestionCommits(q, e)
  \/ \E deferred \in BOOLEAN : QuestionDefers(q, deferred)
  \/ QuestionRefused(q) \/ LandQuestion(q) \/ QuestionFails(q)

\* As on the other pages: jobs are handed out and end, requests end, the interval fires
\* and is answered, and not every answer is lost.
AskFairness ==
  /\ WF_askVars(AnswerWorkers)
  /\ \A q \in Questions : WF_askVars(QuestionMoves(q))
  /\ \A s \in BrowserPolls : /\ WF_askVars(PollThread(s) \/ ReadThread(s))
                             /\ SF_askVars(LandThread(s))

AskSpec == AskInit /\ [][AskNext]_askVars /\ AskFairness

--------------------------------------------------------------------------------
(* Properties *)

AskTypeOK ==
  /\ exchanges \in [ExchangeIds -> [thread : ThreadOrNone, status : ShownStatus]]
  /\ chatTasks \in [ExchangeIds -> {"none", "queued", "claimed", "done", "lost"}]
  /\ chat \in [thread : ThreadOrNone, messages : Shown, sending : BOOLEAN]
  /\ chatPolls \in [BrowserPolls -> [state : {"idle", "sent", "answered"},
                                     thread : ThreadOrNone, messages : Shown]]
  /\ asked \in [Questions -> [state : {"idle", "sent", "deferring", "answered", "refused"},
                              heard : BOOLEAN, thread : ThreadOrNone,
                              exchange : 0 .. MaxExchanges]]

\* The composer is disabled, or a message says that its answer is being written.
ChatWaits == chat.sending \/ \E e \in ExchangeIds : chat.messages[e] \in Working

AnswerLost == \E e \in ExchangeIds : chat.messages[e] \in Working /\ chatTasks[e] = "lost"

\* However questions, polls and answers overlap, a chat that waits for an answer comes
\* to a point where it waits for none, unless a job was lost.
ChatWaitEnds == ChatWaits ~> (~ ChatWaits \/ AnswerLost)

================================================================================
