----------------------------- MODULE MCCommands -----------------------------
(* Small instances of Commands; times are in units of 4 s. *)
EXTENDS Commands
=============================================================================
