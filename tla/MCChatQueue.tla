---------------------------- MODULE MCChatQueue ----------------------------
(* Instances of ChatQueue: bounds in the configurations.                   *)
EXTENDS ChatQueue
=============================================================================
