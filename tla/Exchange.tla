------------------------------ MODULE Exchange ------------------------------
(***************************************************************************)
(* What one request of the desktop client promises to the person who made  *)
(* it, without versions, connections or messages: data moves from one      *)
(* machine to the other, and one result is shown.  Success is shown only   *)
(* if the data has moved by then; failure may be shown at any time, also   *)
(* when the data did move or still will.                                   *)
(***************************************************************************)
VARIABLES
    moved,   \* the data is at its destination
    result   \* "none" until the person is told

Init == moved = FALSE /\ result = "none"

Move ==
    /\ ~moved
    /\ moved' = TRUE
    /\ UNCHANGED result

Conclude ==
    /\ result = "none"
    /\ result' \in {"failure"} \cup (IF moved THEN {"success"} ELSE {})
    /\ UNCHANGED moved

Next == Move \/ Conclude

\* What may happen, and that the person is told in the end.
Safety == Init /\ [][Next]_<<moved, result>>
Spec == Safety /\ WF_<<moved, result>>(Conclude)
=============================================================================
