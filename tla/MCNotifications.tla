-------------------------- MODULE MCNotifications --------------------------
(* Instances of Notifications: a repeated notification, an urgent one and   *)
(* toasts that share a group.                                              *)
EXTENDS Notifications
CONSTANTS a, b, c, l
=============================================================================
