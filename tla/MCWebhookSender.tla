-------------------------- MODULE MCWebhookSender --------------------------
(***************************************************************************)
(* Instances of WebhookSender for TLC.                                     *)
(***************************************************************************)
EXTENDS WebhookSender, TLC

CONSTANTS o1, o2

\* One order has an event sent about it; the other depends on retries alone.
OneEvent == [o \in Orders |-> IF o = o1 THEN 1 ELSE 0]
=============================================================================
