--------------------------- MODULE MCSomController --------------------------
(* The two threads of SomController with values small enough for TLC.      *)
EXTENDS SomController
=============================================================================
