---------------------------- MODULE MCBaseKernel ----------------------------
(* Small instance of BaseKernel for TLC. *)
EXTENDS BaseKernel
=============================================================================
