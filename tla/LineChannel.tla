---------------------------- MODULE LineChannel ----------------------------
(***************************************************************************)
(* What a connection promises of its messages in one direction: complete   *)
(* lines go in at one end, and come out at the other one at a time, whole  *)
(* and in order.  How the network cuts the text is of no consequence.      *)
(***************************************************************************)
EXTENDS Wire

VARIABLE text   \* the lines on the way

Complete(t) == t = <<>> \/ t[Len(t)] = Terminator

Init == text = <<>>

Send == /\ Len(text') > Len(text)
        /\ SubSeq(text', 1, Len(text)) = text
        /\ Complete(text')

Take == HasLine(text) /\ text' = AfterLine(text)

Next == Send \/ Take

Spec == Init /\ [][Next]_text
=============================================================================
