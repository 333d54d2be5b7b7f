------------------------- MODULE MCResourceManager --------------------------
(* Small instance of ResourceManager for TLC. *)
EXTENDS ResourceManager
=============================================================================
