---------------------------- MODULE MCRendering ----------------------------
(* Instances of Rendering: all types of items.                             *)
EXTENDS Rendering

MCTypes == AllTypes
=============================================================================
