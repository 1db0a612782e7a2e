--------------------------- MODULE MCWebhookWorker ---------------------------
(* Instances of WebhookWorker for TLC.                                     *)
EXTENDS WebhookWorker

MCRequests == {[source |-> "a"], [source |-> "b"]}
==============================================================================
