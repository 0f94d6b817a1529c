----------------------------- MODULE MCMigrationPage -----------------------------
(* One migration page, two attempts at most, three commands from any tab. *)
EXTENDS MigrationPage, TLC
================================================================================
