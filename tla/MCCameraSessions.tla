-------------------------- MODULE MCCameraSessions --------------------------
(* Instances of CameraSessions for TLC.  What an event says is of no       *)
(* account to the camera task: one event stands for all.                   *)
EXTENDS CameraSessions

MCEvents == {[kind |-> "Event"]}
==============================================================================
