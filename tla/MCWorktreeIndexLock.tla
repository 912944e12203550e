------------------------ MODULE MCWorktreeIndexLock ------------------------
(* Instances of WorktreeIndexLock: the first two claimants run in one      *)
(* process, the third in another.                                          *)
EXTENDS WorktreeIndexLock, TLC

CONSTANTS a, b, c, p, q

PidOf3 == (a :> p) @@ (b :> p) @@ (c :> q)
============================================================================
