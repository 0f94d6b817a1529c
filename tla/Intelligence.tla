------------------------------ MODULE Intelligence ------------------------------
EXTENDS AskDelta, PullRequestPage, BriefPage
================================================================================
