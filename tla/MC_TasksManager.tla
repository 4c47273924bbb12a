--------------------------- MODULE MC_TasksManager ---------------------------
(* Both operations on two workers of two slots, with one chunk more than    *)
(* there are slots, so that slots are used again.                           *)
EXTENDS TasksManager
=============================================================================
