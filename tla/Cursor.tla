------------------------------- MODULE Cursor -------------------------------
(***************************************************************************)
(* What an iterator over the database promises: it hands out the results   *)
(* of its query one by one, in order, each of them once, and it ends when  *)
(* it has handed out all of them or when its consumer has seen enough.     *)
(* Closing the database loses those that are still to come.                *)
(***************************************************************************)
EXTENDS Sequences

CONSTANT Results

VARIABLES
  todo,    \* the results still to come
  got,     \* the results handed out
  status   \* "idle", "running", "done" or "stopped"

Init == todo = <<>> /\ got = <<>> /\ status = "idle"

Begin ==
  /\ status = "idle" /\ status' = "running"
  /\ todo' \in Seq(Results)
  /\ UNCHANGED got

Take ==
  /\ status = "running" /\ todo # <<>>
  /\ got' = Append(got, Head(todo))
  /\ todo' = Tail(todo)
  /\ status' \in {"running", "stopped"}

Finish ==
  /\ status = "running" /\ todo = <<>>
  /\ status' \in {"done", "stopped"}
  /\ UNCHANGED <<todo, got>>

\* The database is closed: what is still to come will not come.
Lose ==
  /\ todo' = <<>>
  /\ UNCHANGED <<got, status>>

Next == Begin \/ Take \/ Finish \/ Lose

Spec == Init /\ [][Next]_<<todo, got, status>>
=============================================================================
