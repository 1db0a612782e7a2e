--------------------------- MODULE MCAlertPipeline ---------------------------
(* Instances of AlertPipeline for TLC.                                     *)
EXTENDS AlertPipeline

MCRequests == AlarmRequest
MCEvents == {event \in Event : event.state = "Active"}
==============================================================================
