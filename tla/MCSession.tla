----------------------------- MODULE MCSession -----------------------------
(* Small values for the constants of Session. *)
EXTENDS Session

MCServerKinds == {"ServerIn", "NodeIn"}
MCFaults == {"up", "reset", "stopped"}
NoFault == {"up"}

(* Old and new libuv in one run, and an old one. *)
AnyLibuv == {TRUE, FALSE}
OldLibuv == {TRUE}
=============================================================================
