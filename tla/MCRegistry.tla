---------------------------- MODULE MCRegistry ----------------------------
(* Small values for the constants of Registry. *)
EXTENDS Registry

(* The server starts to read a connection once. *)
NewLibuv == {FALSE}
=============================================================================
