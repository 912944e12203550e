---------------------------- MODULE MCDeferredRefs ----------------------------
(* Two processes, capacities that two further refs exceed.                 *)
EXTENDS DeferredRefs, TLC

CONSTANTS p1, p2

MCProc == {p1, p2}
MCHash == 1..3
Symmetry == Permutations(MCProc)
=============================================================================
