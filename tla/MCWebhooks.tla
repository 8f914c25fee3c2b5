---------------------------- MODULE MCWebhooks ----------------------------
(* Two endpoints for the TLC run of Webhooks. *)
EXTENDS Webhooks

MCEndpoints == <<"crm", "analytics">>
=============================================================================
