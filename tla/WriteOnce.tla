----------------------------- MODULE WriteOnce -----------------------------
(***************************************************************************)
(* What a generated secret promises to the pods that mount it: it gets a   *)
(* value once and keeps it, until someone erases it.                       *)
(***************************************************************************)
CONSTANT None
VARIABLE value

Init == value = None
Generate == value = None /\ value' # None
Erase == value # None /\ value' = None
Next == Generate \/ Erase

Spec == Init /\ [][Next]_value
=============================================================================
