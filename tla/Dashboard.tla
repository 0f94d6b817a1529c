--------------------------------- MODULE Dashboard ---------------------------------
(***************************************************************************)
(* The lighter panels of the workspace put together (DeltaCodeApp.tsx).    *)
(* Every link is a full navigation, so that a window shows one page at a   *)
(* time and starts it anew, and the pages share nothing but the server,    *)
(* each with its own rows there: a behaviour is one of one panel.  The     *)
(* pages that need a composition or a run of their own are MigrationPage,  *)
(* PullRequestPage, BriefPage and AskDelta.                                *)
(***************************************************************************)
EXTENDS HistoryPage, MigrationInbox, SignIn

VARIABLE panel    \* what the window shows

dashboardVars == <<panel, historyVars, inboxVars, signInVars>>

Panels == {"history", "migrations", "login"}

DashboardInit ==
  /\ panel \in Panels
  /\ HistoryInit /\ InboxInit /\ SignInInit

HistoryPanel ==
  /\ panel = "history" /\ HistoryNext
  /\ UNCHANGED <<panel, inboxVars, signInVars>>

InboxPanel ==
  /\ panel = "migrations" /\ InboxNext
  /\ UNCHANGED <<panel, historyVars, signInVars>>

LoginPanel ==
  /\ panel = "login" /\ SignInNext
  /\ UNCHANGED <<panel, historyVars, inboxVars>>

DashboardNext == HistoryPanel \/ InboxPanel \/ LoginPanel

DashboardSpec == DashboardInit /\ [][DashboardNext]_dashboardVars

--------------------------------------------------------------------------------
(* Properties *)

DashboardTypeOK ==
  /\ panel \in Panels
  /\ HistoryTypeOK /\ InboxTypeOK /\ SignInTypeOK

================================================================================
