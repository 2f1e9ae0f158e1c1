-------------------------- MODULE MCWebhookSecrets --------------------------
(* Instances of WebhookSecrets for TLC.                                    *)
EXTENDS WebhookSecrets, TLC

Symmetry == Permutations(Secrets \ {First}) \cup Permutations(Rotators) \cup Permutations(Revokers)
=============================================================================
