-------------------------- MODULE MCStripeBilling --------------------------
(* One user whose customer Stripe makes at the first checkout.             *)
EXTENDS StripeBilling
=============================================================================
