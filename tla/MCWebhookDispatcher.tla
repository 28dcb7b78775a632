------------------------- MODULE MCWebhookDispatcher -------------------------
(* Instances of WebhookDispatcher for TLC. *)
EXTENDS WebhookDispatcher

CONSTANTS w1, w2
=============================================================================
