---------------------------- MODULE MCBootstrap ----------------------------
(* Bootstrap for TLC: the cfg files choose its bounds.                     *)
EXTENDS Bootstrap
=============================================================================
