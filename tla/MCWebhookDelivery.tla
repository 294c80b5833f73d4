-------------------------- MODULE MCWebhookDelivery --------------------------
(* Small instances of WebhookDelivery.                                       *)
EXTENDS WebhookDelivery

CONSTANTS s1, s2, e1, w1, w2
=============================================================================
