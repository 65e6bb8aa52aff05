------------------------ MODULE MCLocalModelLimiter ------------------------
(* Small instances of LocalModelLimiter for TLC. *)
EXTENDS LocalModelLimiter
=============================================================================
