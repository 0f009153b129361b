--------------------------- MODULE ConnLifecycle ---------------------------
(***************************************************************************)
(* What a connection promises, without the code's states: it is begun      *)
(* once, opened at most once, closed at most once; once it is closing no   *)
(* write is started and every write callback is delivered before it is     *)
(* gone, and after that nothing happens.  A connection can only break      *)
(* (a call on a stream that is no longer there) while it is closing.       *)
(***************************************************************************)
EXTENDS Naturals

VARIABLES
  phase,   \* "new", "opening", "failed", "open", "closing", "gone", "broken"
  owed     \* write callbacks still to be delivered

vars == <<phase, owed>>

Init == phase = "new" /\ owed = 0

Begin == /\ phase = "new"
         /\ phase' \in {"opening", "failed", "open", "closing"}
         /\ owed' = 0

Opened == /\ phase = "opening"
          /\ \/ phase' = "failed" /\ owed' = 0
             \/ phase' \in {"open", "closing"} /\ owed' \in Nat

(* A callback in an open connection: it settles at most one write.         *)
Use == /\ phase = "open"
       /\ phase' \in {"open", "closing"}
       /\ owed' \in Nat
       /\ owed' + 1 >= owed

Drain == /\ phase = "closing"
         /\ owed > 0
         /\ owed' = owed - 1
         /\ UNCHANGED phase

Finish == phase = "closing" /\ owed = 0 /\ phase' = "gone" /\ owed' = 0

Break == phase = "closing" /\ phase' = "broken" /\ UNCHANGED owed

Next == Begin \/ Opened \/ Use \/ Drain \/ Finish \/ Break

Spec == Init /\ [][Next]_vars
=============================================================================
