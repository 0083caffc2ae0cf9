-------------------------- MODULE MCDefaultIngress --------------------------
(* DefaultIngress for TLC: resources that differ in whether the API and    *)
(* the broker are deployed and in where the secret's name comes from, and  *)
(* Astartes with and without TLS.                                          *)
EXTENDS DefaultIngress

\* The dashboard is served under the API's host, without TLS of its own.
Base ==
    [api |-> TRUE, dashboard |-> TRUE, broker |-> TRUE, ssl |-> FALSE,
     own |-> FALSE, haproxy |-> TRUE, housekeeping |-> TRUE,
     tls |-> "cert", apiTLS |-> None, dashTLS |-> None]
Resources ==
    {Base,
     [Base EXCEPT !.broker = FALSE, !.ssl = TRUE, !.own = TRUE, !.haproxy = FALSE,
                  !.tls = None, !.dashTLS = "cert"],
     [Base EXCEPT !.api = FALSE, !.housekeeping = FALSE],
     [Base EXCEPT !.apiTLS = "lost"]}
Plain ==
    [ssl |-> TRUE, listener |-> TRUE, port |-> 8883,
     deployed |-> {"appengine", "housekeeping", "dashboard"}]
Astartes ==
    {Plain, [Plain EXCEPT !.ssl = FALSE, !.listener = FALSE, !.port = 1883],
     [Plain EXCEPT !.deployed = {}]}
Names == {"cert", "lost"}
Certificates == {"cert"}
=============================================================================
