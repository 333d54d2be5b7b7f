-------------------------- MODULE MCCircularBuffer --------------------------
(* Small instance of CircularBuffer for TLC. *)
EXTENDS CircularBuffer
=============================================================================
