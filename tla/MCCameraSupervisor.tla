------------------------- MODULE MCCameraSupervisor -------------------------
(* Instances of CameraSupervisor for TLC.  What an event says is of no     *)
(* account to the camera task: one event stands for all.                   *)
EXTENDS CameraSupervisor

MCEvents == {[kind |-> "Event"]}
==============================================================================
