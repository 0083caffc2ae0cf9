------------------------ MODULE MCDataUpdaterPlant ------------------------
(* DataUpdaterPlant for TLC: the cfg files choose its instances.           *)
EXTENDS DataUpdaterPlant
============================================================================
