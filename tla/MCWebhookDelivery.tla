------------------------- MODULE MCWebhookDelivery -------------------------
(* Two deliveries; bodies and keys are model values.                             *)
EXTENDS WebhookDelivery, TLC

CONSTANTS d1, d2, b1, k1

OwnKey     == d1 :> k1
NoKeys     == d1 :> NoKey @@ d2 :> NoKey
SameBody   == d1 :> b1 @@ d2 :> b1
=============================================================================
