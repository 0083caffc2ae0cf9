------------------------------- MODULE MCFlow -------------------------------
(* Flow for TLC: a block and two workers, and specs that have one of the   *)
(* workers or none.                                                        *)
EXTENDS Flow

OneBlock == {"b"}
TwoWorkers == {"v", "w"}
\* Workers come and go; the block stays, with or without one.
Rescaled == {[b \in OneBlock |-> ws] : ws \in {{}, {"v"}, {"w"}}}
=============================================================================
