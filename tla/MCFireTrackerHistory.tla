------------------------ MODULE MCFireTrackerHistory ------------------------
(* Instances of FireTrackerHistory for TLC.                                *)
EXTENDS FireTrackerHistory
==============================================================================
