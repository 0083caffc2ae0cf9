--------------------------- MODULE MCMicroservices ---------------------------
(* Microservices for TLC: a generic API, a backend with an autoscaler and   *)
(* the broker.                                                              *)
EXTENDS Microservices

Deployed == <<"flow", "trigger_engine", "vernemq">>
Enough ==
    [requests |-> [cpu |-> 1000, memory |-> 2000],
     limits |-> [cpu |-> 1100, memory |-> 2100]]
\* Flow's Deploy is not set: it is not deployed and counts all the same.
Base ==
    [deploy |-> [c \in Services |-> CASE c = "flow" -> "unset"
                                      [] c = "trigger_engine" -> "yes"
                                      [] OTHER -> "no"],
     broker |-> TRUE, listener |-> TRUE, replicas |-> 1, autoscale |-> TRUE,
     total |-> {Enough}]
WithFlow == [Base EXCEPT !.deploy["flow"] = "yes", !.broker = FALSE]
Astartes == {Base, WithFlow}
=============================================================================
