------------------------- MODULE MCWebhookForwarder -------------------------
(* Small instances of WebhookForwarder. *)
EXTENDS WebhookForwarder

CONSTANTS MaxRetries, BaseDelay, MaxDelay, EnableJitter

SmallPolicy == [MaxRetries |-> MaxRetries, BaseDelay |-> BaseDelay,
                MaxDelay |-> MaxDelay, EnableJitter |-> EnableJitter]
=============================================================================
