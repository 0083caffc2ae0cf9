------------------------------ MODULE MCFleet ------------------------------
(* Fleet for TLC: two Astartes whose IDs and priorities may or may not     *)
(* agree, one of them with a listener, and a spec that is never admitted.  *)
EXTENDS Fleet

Defaults == [high |-> 1000, mid |-> 100, low |-> 10]
Simple == [simple |-> TRUE, factor |-> 1, centers |-> {}]
Base ==
    [id |-> "one", keyspace |-> Simple, listener |-> "named",
     priorities |-> {Defaults}, reserved |-> FALSE, scaled |-> FALSE,
     cfssl |-> "deployed"]
Asked ==
    {Base,
     [Base EXCEPT !.id = "two", !.listener = "off"],
     [Base EXCEPT !.id = "two", !.listener = "off",
                  !.priorities = {[Defaults EXCEPT !["high"] = 2000]}],
     [Base EXCEPT !.priorities = {[Defaults EXCEPT !["mid"] = 1000]}]}
=============================================================================
