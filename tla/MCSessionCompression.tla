------------------------- MODULE MCSessionCompression -------------------------
(* Two sessions, one of which has enough observations to be consolidated   *)
(* twice; the sweep of a reindex, with room for one session, and a command *)
(* beside it; one visit may be cut short, and the symbols of the first     *)
(* session may go and come back.                                           *)
EXTENDS SessionCompression

CONSTANTS s1, s2, w1, w2
MCSession == {s1, s2}
MCLinked == {s1}
MCSweeper == {w1, w2}
MCCaptures == [s \in MCSession |-> IF s = s1 THEN 4 ELSE 0]

\* One session alone, all of whose symbols stay, for the counterexample of IdleIsCompressed.
MCOneSession == {s1}
MCOneCaptures == [s \in MCOneSession |-> 1]
===============================================================================
