--------------------------- MODULE MCWebhookDelivery ---------------------------
(***************************************************************************)
(* One call's webhook between its task and the main loop, with the         *)
(* settings' defaults.                                                     *)
(***************************************************************************)
EXTENDS WebhookDelivery

\* DEFAULT_BACKOFF_S of webhook_dispatcher.py
MCBackoff == <<1, 4, 16, 64, 256>>
===============================================================================
