-------------------------- MODULE MCWebhookIngest --------------------------
(* Inbound webhooks on small instances. *)
EXTENDS WebhookIngest
=============================================================================
