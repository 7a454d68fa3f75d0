-------------------------- MODULE MCNotifications --------------------------
(* Notifications on small instances: two items, two timer goroutines. *)
EXTENDS Notifications

CONSTANTS i1, i2, b1, b2
=============================================================================
