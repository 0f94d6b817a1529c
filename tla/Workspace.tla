-------------------------------- MODULE Workspace --------------------------------
(***************************************************************************)
(* What a developer follows migrations on: the page of one of them, or one *)
(* of the lighter panels, whichever was navigated to.                      *)
(***************************************************************************)
EXTENDS Dashboard, MigrationPage

workspaceVars == <<dashboardVars, vars>>

WorkspaceInit ==
  /\ panel \in Panels \cup {"migration"}
  /\ HistoryInit /\ InboxInit /\ SignInInit /\ Init

MigrationPanel ==
  /\ panel = "migration" /\ Next
  /\ UNCHANGED dashboardVars

LighterPanel == DashboardNext /\ UNCHANGED vars

WorkspaceNext == MigrationPanel \/ LighterPanel

WorkspaceSpec == WorkspaceInit /\ [][WorkspaceNext]_workspaceVars /\ Fairness

================================================================================
