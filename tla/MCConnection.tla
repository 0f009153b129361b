---------------------------- MODULE MCConnection ----------------------------
(* Small values for the constants of Connection. *)
EXTENDS Connection

(* Old and new libuv in one run. *)
AnyLibuv == {TRUE, FALSE}

(* libuv 1.38 and later. *)
NewLibuv == {FALSE}
=============================================================================
