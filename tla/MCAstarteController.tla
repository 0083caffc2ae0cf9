----------------------- MODULE MCAstarteController -----------------------
(* Instances of AstarteController for TLC. *)
EXTENDS AstarteController

AllComponents == {"cfssl", "microservices", "vernemq"}
NoCFSSL == {"microservices", "vernemq"}
==========================================================================
