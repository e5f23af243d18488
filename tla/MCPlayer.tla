------------------------------ MODULE MCPlayer ------------------------------
(* Small instances of Player. *)
EXTENDS Player

CONSTANTS a, b
=============================================================================
