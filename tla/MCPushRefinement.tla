-------------------------- MODULE MCPushRefinement --------------------------
(* Model checking of the refinement on one connection and one chat.        *)
EXTENDS PushRefinement
CONSTANTS s1, c1

OneSid == {s1}
OneContext == {c1}
FromZero == {0}
=============================================================================
