--------------------------- MODULE MCWebhookInbox ---------------------------
(* Instances of the webhook inbox for TLC. *)
EXTENDS WebhookInbox
=============================================================================
