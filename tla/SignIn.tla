---------------------------------- MODULE SignIn ----------------------------------
(***************************************************************************)
(* Signing in and out (app/oauth.py; lib/data.ts and the header of         *)
(* DeltaCodeApp.tsx): a browser with several tabs, one cookie, and the     *)
(* three tables that a sign-in goes through.  The callback is three        *)
(* transactions, and a request of it may be repeated, cut short or never   *)
(* answered.  GitHub is external: it sends the tab back or not.            *)
(***************************************************************************)
EXTENDS Naturals, FiniteSets

CONSTANTS
  Tabs,
  Pages,        \* the pages of the workspace; "/" is the landing page
  MaxLogins,    \* bound: sign-ins begun
  MaxSessions   \* bound: sessions opened

ASSUME SignInAssumption ==
  /\ "/" \notin Pages
  /\ MaxLogins \in Nat
  /\ MaxSessions \in Nat

VARIABLES
  logins,      \* oauth_login_states, by order of creation
  sessions,    \* sessions, by order of creation
  tickets,     \* oauth_completion_tickets, by their session
  cookie,      \* session_id, in the browser
  tabs,        \* what each tab shows or waits for
  callbacks    \* the callbacks being served, by the login state they took

signInVars == <<logins, sessions, tickets, cookie, tabs, callbacks>>

LoginIds == 1 .. MaxLogins
SessionIds == 1 .. MaxSessions
SessionOrNone == 0 .. MaxSessions
Places == Pages \cup {"/"}

RowStates == {"absent", "open", "gone"}

\* A tab on a page; on its way through a sign-in, place is where that shall lead.
At(place) == [at |-> "page", place |-> place, login |-> 0, session |-> 0, user |-> 0,
              loaded |-> FALSE]

NoCallback == [step |-> "none", session |-> 0]

SignInInit ==
  /\ logins = [l \in LoginIds |-> [state |-> "absent", redirect |-> "/"]]
  /\ sessions = [s \in SessionIds |-> [state |-> "absent", login |-> 0]]
  /\ tickets = [s \in SessionIds |-> [state |-> "absent", redirect |-> "/"]]
  /\ cookie = 0
  /\ tabs = [t \in Tabs |-> At("/")]
  /\ callbacks = [l \in LoginIds |-> NoCallback]

--------------------------------------------------------------------------------
(* The pages: fetchMe, the links and the menu of the header *)

\* get_session, for the cookie the request carries.
SessionOf(c) == IF c # 0 /\ sessions[c].state = "open" THEN c ELSE 0

\* The answer of GET /auth/me, for a page of the workspace; an error is no user.
LandUser(t, delivered) ==
  /\ tabs[t].at = "page" /\ tabs[t].place \in Pages /\ ~ tabs[t].loaded
  /\ tabs' = [tabs EXCEPT ![t].user = IF delivered THEN SessionOf(cookie) ELSE 0,
                          ![t].loaded = TRUE]
  /\ UNCHANGED <<logins, sessions, tickets, cookie, callbacks>>

Navigate(t, place) ==
  /\ tabs[t].at \in {"page", "error"}
  /\ tabs' = [tabs EXCEPT ![t] = At(place)]
  /\ UNCHANGED <<logins, sessions, tickets, cookie, callbacks>>

\* "Sign out": the POST deletes the session of the cookie it carries, if it is delivered.
SignOut(t, delivered) ==
  /\ tabs[t].at = "page" /\ tabs[t].user # 0
  /\ IF delivered
     THEN /\ sessions' = IF cookie = 0 THEN sessions
                         ELSE [sessions EXCEPT ![cookie].state = "gone"]
          /\ tabs' = [tabs EXCEPT ![t].at = "leaving"]
     ELSE tabs' = [tabs EXCEPT ![t] = At("/")] /\ UNCHANGED sessions
  /\ UNCHANGED <<logins, tickets, cookie, callbacks>>

\* Its answer deletes the cookie, whichever that is by then.  The tab leaves for the
\* landing page when the POST is over.
SignedOut(t, delivered) ==
  /\ tabs[t].at = "leaving"
  /\ cookie' = IF delivered THEN 0 ELSE cookie
  /\ tabs' = [tabs EXCEPT ![t] = At("/")]
  /\ UNCHANGED <<logins, sessions, tickets, callbacks>>

--------------------------------------------------------------------------------
(* oauth *)

\* githubLoginUrlFor(page), where page is the one the link names, and github_login.
Login(t, l, page) ==
  /\ tabs[t].at = "page" /\ tabs[t].user = 0
  /\ logins[l].state = "absent"
  /\ \A k \in 1 .. l - 1 : logins[k].state # "absent"
  /\ logins' = [logins EXCEPT ![l] = [state |-> "open", redirect |-> page]]
  /\ tabs' = [tabs EXCEPT ![t] = [At(page) EXCEPT !.at = "github", !.login = l]]
  /\ UNCHANGED <<sessions, tickets, cookie, callbacks>>

\* Rows that are past their expiry are as good as deleted.
LoginExpires(l) ==
  /\ logins[l].state = "open"
  /\ logins' = [logins EXCEPT ![l].state = "gone"]
  /\ UNCHANGED <<sessions, tickets, cookie, tabs, callbacks>>

\* Mutation: the state is looked up and not deleted.
Taken_Kept(l) == logins

Taken(l) == [logins EXCEPT ![l].state = "gone"]

\* A tab that still waits for the answer to its sign-in gets it.
Waits(t, l) == tabs[t].at = "github" /\ tabs[t].login = l

TabsAfter(l, at, session) ==
  [t \in Tabs |-> IF Waits(t, l) THEN [tabs[t] EXCEPT !.at = at, !.session = session]
                  ELSE tabs[t]]

\* github_callback with the state of the tab: the state is deleted and returned.
CallbackTakes(t) ==
  LET l == tabs[t].login
  IN  /\ tabs[t].at = "github" /\ callbacks[l].step = "none"
      /\ IF logins[l].state = "open"
         THEN /\ logins' = Taken(l)
              /\ callbacks' = [callbacks EXCEPT ![l].step = "taken"]
              /\ tabs' = tabs
         ELSE /\ tabs' = TabsAfter(l, "error", 0)
              /\ UNCHANGED <<logins, callbacks>>
      /\ UNCHANGED <<sessions, tickets, cookie>>

\* The token, the user and the repositories come from GitHub; then a session is opened.
CallbackOpens(l, s) ==
  /\ callbacks[l].step = "taken"
  /\ sessions[s].state = "absent"
  /\ \A r \in 1 .. s - 1 : sessions[r].state # "absent"
  /\ sessions' = [sessions EXCEPT ![s] = [state |-> "open", login |-> l]]
  /\ callbacks' = [callbacks EXCEPT ![l] = [step |-> "opened", session |-> s]]
  /\ UNCHANGED <<logins, tickets, cookie, tabs>>

\* GitHub does not answer, or the process stops, between any two of the transactions.
CallbackFails(l) ==
  /\ callbacks[l].step # "none"
  /\ callbacks' = [callbacks EXCEPT ![l] = NoCallback]
  /\ tabs' = TabsAfter(l, "error", 0)
  /\ UNCHANGED <<logins, sessions, tickets, cookie>>

\* Mutation: the tab is sent where the last sign-in began.
Destination_OfLast(l) ==
  LET last == CHOOSE k \in LoginIds :
                /\ logins[k].state # "absent"
                /\ \A j \in LoginIds : logins[j].state # "absent" => j <= k
  IN  logins[last].redirect

\* _safe_frontend_redirect of what the state returned: a page of the frontend.
Destination(l) == logins[l].redirect

\* The ticket is stored; the answer sends the tab to redeem it.
CallbackIssues(l) ==
  LET s == callbacks[l].session
  IN  /\ callbacks[l].step = "opened"
      /\ tickets' = [tickets EXCEPT ![s] = [state |-> "open", redirect |-> Destination(l)]]
      /\ callbacks' = [callbacks EXCEPT ![l] = NoCallback]
      /\ tabs' = TabsAfter(l, "complete", s)
      /\ UNCHANGED <<logins, sessions, cookie>>

TicketExpires(s) ==
  /\ tickets[s].state = "open"
  /\ tickets' = [tickets EXCEPT ![s].state = "gone"]
  /\ UNCHANGED <<logins, sessions, cookie, tabs, callbacks>>

SessionExpires(s) ==
  /\ sessions[s].state = "open"
  /\ sessions' = [sessions EXCEPT ![s].state = "gone"]
  /\ UNCHANGED <<logins, tickets, cookie, tabs, callbacks>>

\* github_complete: the ticket is deleted and returned, and buys the cookie.
Complete(t, delivered) ==
  LET s == tabs[t].session
  IN  /\ tabs[t].at = "complete"
      /\ IF tickets[s].state = "open"
         THEN /\ tickets' = [tickets EXCEPT ![s].state = "gone"]
              /\ cookie' = IF delivered THEN s ELSE cookie
              /\ tabs' = IF delivered THEN [tabs EXCEPT ![t] = At(tickets[s].redirect)]
                         ELSE [tabs EXCEPT ![t].at = "error"]
         ELSE /\ tabs' = [tabs EXCEPT ![t].at = "error"]
              /\ UNCHANGED <<tickets, cookie>>
      /\ UNCHANGED <<logins, sessions, callbacks>>

\* The user cancels, or the connection is lost: the server goes on.
Abandon(t) ==
  /\ tabs[t].at \in {"github", "complete"}
  /\ tabs' = [tabs EXCEPT ![t].at = "error"]
  /\ UNCHANGED <<logins, sessions, tickets, cookie, callbacks>>

\* The browser asks again for what failed, or goes back to it.
Retry(t) ==
  /\ tabs[t].at = "error"
  /\ tabs' = [tabs EXCEPT ![t].at = IF tabs[t].session = 0 THEN "github" ELSE "complete"]
  /\ UNCHANGED <<logins, sessions, tickets, cookie, callbacks>>

SignInNext ==
  \/ \E t \in Tabs, delivered \in BOOLEAN :
       \/ LandUser(t, delivered) \/ Complete(t, delivered)
       \/ SignOut(t, delivered) \/ SignedOut(t, delivered)
  \/ \E t \in Tabs, place \in Places : Navigate(t, place)
  \/ \E t \in Tabs, l \in LoginIds, page \in Pages : Login(t, l, page)
  \/ \E l \in LoginIds, s \in SessionIds : CallbackOpens(l, s)
  \/ \E t \in Tabs : CallbackTakes(t) \/ Abandon(t) \/ Retry(t)
  \/ \E l \in LoginIds : LoginExpires(l) \/ CallbackFails(l) \/ CallbackIssues(l)
  \/ \E s \in SessionIds : TicketExpires(s) \/ SessionExpires(s)

SignInSpec == SignInInit /\ [][SignInNext]_signInVars

--------------------------------------------------------------------------------
(* Properties *)

SignInTypeOK ==
  /\ logins \in [LoginIds -> [state : RowStates, redirect : Places]]
  /\ sessions \in [SessionIds -> [state : RowStates, login : 0 .. MaxLogins]]
  /\ tickets \in [SessionIds -> [state : RowStates, redirect : Places]]
  /\ cookie \in SessionOrNone
  /\ tabs \in [Tabs -> [at : {"page", "leaving", "github", "complete", "error"},
                        place : Places, login : 0 .. MaxLogins, session : SessionOrNone,
                        user : SessionOrNone, loaded : BOOLEAN]]
  /\ callbacks \in [LoginIds -> [step : {"none", "taken", "opened"}, session : SessionOrNone]]

\* Tabs of one browser sign in at the same time, requests are repeated, cut short and
\* never answered, and rows expire in between.  Every sign-in still opens at most one
\* session, and the ticket a tab holds is of a session of its own sign-in and leads to
\* the page that the link followed in that tab names.
SignInsDoNotMix ==
  /\ \A r, s \in SessionIds :
       sessions[r].login = sessions[s].login /\ sessions[r].login # 0 => r = s
  /\ \A t \in Tabs : LET s == tabs[t].session
                     IN  s # 0 => /\ sessions[s].login = tabs[t].login
                                  /\ tickets[s].redirect = tabs[t].place

================================================================================
