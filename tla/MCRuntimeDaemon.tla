--------------------------- MODULE MCRuntimeDaemon ---------------------------
(* Three commands, each a start or a stop: two runners and a stop, or one  *)
(* runner and two stops, in any order and overlap.                         *)
EXTENDS RuntimeDaemon

CONSTANTS c1, c2, c3
MCCommand == {c1, c2, c3}
==============================================================================
