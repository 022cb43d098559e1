---------------------------- MODULE MCStateSync ----------------------------
(* Model checking of StateSync on small instances.                         *)
EXTENDS StateSync
CONSTANT c1

OneContext == {c1}
FromZero == {0}
OneItem == {1}
TwoItems == {1, 2}
=============================================================================
