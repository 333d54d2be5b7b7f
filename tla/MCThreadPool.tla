---------------------------- MODULE MCThreadPool ----------------------------
(* Small instance of ThreadPool for TLC. *)
EXTENDS ThreadPool
=============================================================================
