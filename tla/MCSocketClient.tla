--------------------------- MODULE MCSocketClient ---------------------------
(* Instances of SocketClient: two restarts, one forced reconnect.          *)
EXTENDS SocketClient
=============================================================================
