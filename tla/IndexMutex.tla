---------------------------- MODULE IndexMutex ----------------------------
(***************************************************************************)
(* What withWorktreeIndexLock promises the rest of vtrace: one claimant at *)
(* a time runs the critical operation (a reindex, a migration), and this   *)
(* stays so for as long as nobody has begun to clear somebody's lock.      *)
(* Once a recovery has begun the promise is void: see WorktreeIndexLock.   *)
(***************************************************************************)
CONSTANT Claimants

VARIABLES holders,   \* the claimants inside the operation
          broken     \* a recovery has begun at some point

vars == <<holders, broken>>

Init == holders = {} /\ broken = FALSE

Enter(c) ==
  /\ c \notin holders
  /\ holders = {} \/ broken
  /\ holders' = holders \cup {c}
  /\ UNCHANGED broken

\* One claimant returns, or a process dies with every claimant it runs.
Leave(S) ==
  /\ S # {} /\ S \subseteq holders
  /\ holders' = holders \ S
  /\ UNCHANGED broken

BeginRecovery == broken' = TRUE /\ UNCHANGED holders

Next == (\E c \in Claimants : Enter(c))
     \/ (\E S \in SUBSET Claimants : Leave(S))
     \/ BeginRecovery

Spec == Init /\ [][Next]_vars
===========================================================================
