---------------------------- MODULE MCWebhookRelay ----------------------------
(* Instances of WebhookRelay for TLC. *)
EXTENDS WebhookRelay
CONSTANTS r1, r2
=============================================================================
