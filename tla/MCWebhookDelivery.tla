------------------------- MODULE MCWebhookDelivery -------------------------
(* Instances of WebhookDelivery for TLC.                                   *)
EXTENDS WebhookDelivery, TLC

\* A bound: two jobs run twice, or one, once more after its last write.
TwoFaults ==
  reruns + Cardinality({e \in Events : dispatch[e].runs > 1})
         + Cardinality({x \in Deliveries \X Slots : job[x[1]][x[2]].runs > 1}) <= 2
=============================================================================
