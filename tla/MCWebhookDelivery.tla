------------------------- MODULE MCWebhookDelivery -------------------------
(* WebhookDelivery on a small instance; liveness needs it without symmetry. *)
EXTENDS WebhookDelivery

CONSTANTS d1, d2

=============================================================================
