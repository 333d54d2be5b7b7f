--------------------------- MODULE MCTaskManager ----------------------------
(* Small instance of TaskManager for TLC. *)
EXTENDS TaskManager
=============================================================================
