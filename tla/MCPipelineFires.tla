--------------------------- MODULE MCPipelineFires ---------------------------
(* Instances of PipelineFires for TLC.                                     *)
EXTENDS PipelineFires

MCRequests == AlarmRequest
MCEvents == {event \in Event : event.state \in {"Active", "Inactive"}}
==============================================================================
