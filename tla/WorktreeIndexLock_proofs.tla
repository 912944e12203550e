---------------------- MODULE WorktreeIndexLock_proofs ----------------------
(***************************************************************************)
(* Theorems about WorktreeIndexLock, for every set of claimants, every set *)
(* of process ids and every placement of the claimants in processes.       *)
(***************************************************************************)
EXTENDS WorktreeIndexLock, TLAPS

USE ConstantsAssumption

(* Writing the text of a claim leaves it a claim.                          *)
LEMMA ClaimFields ==
  ASSUME NEW claim \in Claim
  PROVE  [claim EXCEPT !.whole = TRUE] \in Claim
BY DEF Claim

(* Every step leaves the variables in their types.                         *)
LEMMA TypeStep == TypeOK /\ [Next]_vars => TypeOK'
<1> SUFFICES ASSUME TypeOK, [Next]_vars PROVE TypeOK'
  OBVIOUS
<1> USE DEF TypeOK
<1>1. ASSUME NEW c \in Claimants, Begin(c) PROVE TypeOK'
  BY <1>1 DEF Begin, Goto, Steps
<1>2. ASSUME NEW c \in Claimants, DeadlinePasses(c) PROVE TypeOK'
  BY <1>2 DEF DeadlinePasses
<1>3. ASSUME NEW c \in Claimants, WriteFails(c) PROVE TypeOK'
  BY <1>3 DEF WriteFails, Goto, Steps, ForgetLocals
<1>4. ASSUME NEW c \in Claimants, Mkdir(c) PROVE TypeOK'
  BY <1>4 DEF Mkdir, Goto, Steps
<1>5. ASSUME NEW c \in Claimants, OpenOwner(c) PROVE TypeOK'
  <2>1. [by |-> c, pid |-> PidOf[c], worktree |-> "this", whole |-> FALSE] \in Claim
    BY DEF Claim, Worktree
  <2>2. owner' \in Claim \cup {NoFile}
    BY <1>5, <2>1 DEF OpenOwner
  <2>3. pc' \in [Claimants -> Steps]
    BY <1>5 DEF OpenOwner, Goto, Steps
  <2> QED
    BY <1>5, <2>2, <2>3 DEF OpenOwner
<1>6. ASSUME NEW c \in Claimants, WriteOwner(c) PROVE TypeOK'
  <2>1. owner' \in Claim \cup {NoFile}
    BY <1>6, ClaimFields DEF WriteOwner
  <2>2. /\ pc' \in [Claimants -> Steps]
        /\ expired' \in [Claimants -> BOOLEAN]
        /\ seen' \in [Claimants -> Claim \cup {NoFile}]
    BY <1>6 DEF WriteOwner, Goto, Steps, ForgetLocals
  <2> QED
    BY <1>6, <2>1, <2>2 DEF WriteOwner
<1>7. ASSUME NEW c \in Claimants, ReadOwner(c) PROVE TypeOK'
  BY <1>7 DEF ReadOwner, Goto, Steps
<1>8. ASSUME NEW c \in Claimants, ClassifyRecoverable(c) PROVE TypeOK'
  BY <1>8 DEF ClassifyRecoverable, Goto, Steps
<1>9. ASSUME NEW c \in Claimants, Refuse(c) PROVE TypeOK'
  BY <1>9 DEF Refuse, Goto, Steps, ForgetLocals
<1>10. ASSUME NEW c \in Claimants, SleepAndRetry(c) PROVE TypeOK'
  BY <1>10 DEF SleepAndRetry, Goto, Steps
<1>11. ASSUME NEW c \in Claimants, RecoverFile(c) \/ ReleaseFile(c) PROVE TypeOK'
  BY <1>11 DEF RecoverFile, ReleaseFile, RmFile, Goto, Steps
<1>12. ASSUME NEW c \in Claimants, RecoverDir(c) \/ ReleaseDir(c) PROVE TypeOK'
  BY <1>12 DEF RecoverDir, ReleaseDir, RmDir, Goto, Steps
<1>13. ASSUME NEW c \in Claimants, Finish(c) PROVE TypeOK'
  BY <1>13 DEF Finish, Goto, Steps
<1>14. ASSUME NEW p \in Pids, Crash(p) PROVE TypeOK'
  BY <1>14 DEF Crash, Steps
<1>15. ASSUME NEW p \in Pids, ReusePid(p) PROVE TypeOK'
  BY <1>15 DEF ReusePid
<1>16. CASE UNCHANGED vars
  BY <1>16 DEF vars
<1> QED
  BY <1>1, <1>2, <1>3, <1>4, <1>5, <1>6, <1>7, <1>8, <1>9, <1>10, <1>11,
     <1>12, <1>13, <1>14, <1>15, <1>16 DEF Next, Advance

(* The variables have their types initially, whoever left a lock behind.   *)
LEMMA InitTypes == Init => TypeOK
BY DEF Init, TypeOK, LeftBehind, Steps

(* The variables of the lock keep their types in every behaviour.          *)
THEOREM TypeCorrect == Spec => []TypeOK
BY InitTypes, TypeStep, PTL DEF Spec

----------------------------------------------------------------------------

(* Before the first recovery a claimant between its mkdir and the end of   *)
(* its rm is the only one, and its directory exists: every step keeps it.  *)
LEMMA OwnerStep == TypeOK /\ OwnerHasDirectory /\ [Next]_vars => OwnerHasDirectory'
<1> SUFFICES ASSUME TypeOK, OwnerHasDirectory, [Next]_vars, ~broken'
             PROVE  /\ \A c \in Claimants : pc'[c] \in Owning => dir'
                    /\ \A c, d \in Claimants : pc'[c] \in Owning /\ pc'[d] \in Owning => c = d
                    /\ \A c \in Claimants : pc'[c] \notin {"recoverFile", "recoverDir"}
  BY DEF OwnerHasDirectory
<1> DEFINE Alone == /\ \A c \in Claimants : pc'[c] \in Owning => dir'
                    /\ \A c, d \in Claimants : pc'[c] \in Owning /\ pc'[d] \in Owning => c = d
                    /\ \A c \in Claimants : pc'[c] \notin {"recoverFile", "recoverDir"}
<1>0. ~broken
  BY DEF Next, vars, Begin, DeadlinePasses, WriteFails, Advance, Mkdir, OpenOwner,
         WriteOwner, ReadOwner, ClassifyRecoverable, Refuse, SleepAndRetry,
         RecoverFile, RecoverDir, RmFile, RmDir, Finish, ReleaseFile, ReleaseDir,
         Crash, ReusePid
<1> USE <1>0 DEF TypeOK, OwnerHasDirectory, Owning
<1>1. ASSUME NEW c \in Claimants, Begin(c) \/ DeadlinePasses(c) PROVE Alone
  BY <1>1 DEF Begin, DeadlinePasses, Goto
<1>2. ASSUME NEW c \in Claimants, WriteFails(c) PROVE Alone
  BY <1>2 DEF WriteFails, Goto
<1>3. ASSUME NEW c \in Claimants, Mkdir(c) PROVE Alone
  BY <1>3 DEF Mkdir, Goto
<1>4. ASSUME NEW c \in Claimants, OpenOwner(c) PROVE Alone
  BY <1>4 DEF OpenOwner, Goto
<1>5. ASSUME NEW c \in Claimants, WriteOwner(c) PROVE Alone
  BY <1>5 DEF WriteOwner, Goto
<1>6. ASSUME NEW c \in Claimants, ReadOwner(c) PROVE Alone
  BY <1>6 DEF ReadOwner, Goto
<1>7. ASSUME NEW c \in Claimants, ClassifyRecoverable(c) PROVE Alone
  BY <1>7 DEF ClassifyRecoverable
<1>8. ASSUME NEW c \in Claimants, Refuse(c) \/ SleepAndRetry(c) PROVE Alone
  BY <1>8 DEF Refuse, SleepAndRetry, Goto
<1>9. ASSUME NEW c \in Claimants, RecoverFile(c) \/ RecoverDir(c) PROVE Alone
  BY <1>9 DEF RecoverFile, RecoverDir, RmFile, RmDir
<1>10. ASSUME NEW c \in Claimants, Finish(c) \/ ReleaseFile(c) PROVE Alone
  BY <1>10 DEF Finish, ReleaseFile, RmFile, Goto
<1>11. ASSUME NEW c \in Claimants, ReleaseDir(c) PROVE Alone
  BY <1>11 DEF ReleaseDir, RmDir, Goto
<1>12. ASSUME NEW p \in Pids, Crash(p) PROVE Alone
  BY <1>12 DEF Crash
<1>13. ASSUME NEW p \in Pids, ReusePid(p) PROVE Alone
  BY <1>13 DEF ReusePid
<1>14. CASE UNCHANGED vars
  BY <1>14 DEF vars
<1> QED
  BY <1>1, <1>2, <1>3, <1>4, <1>5, <1>6, <1>7, <1>8, <1>9, <1>10, <1>11,
     <1>12, <1>13, <1>14 DEF Next, Advance

(* Nobody owns the directory initially.                                    *)
LEMMA InitOwner == Init => OwnerHasDirectory
BY DEF Init, OwnerHasDirectory, Owning

(* OwnerHasDirectory is an invariant.                                      *)
THEOREM OwnersHaveTheDirectory == Spec => []OwnerHasDirectory
<1>1. Init => TypeOK /\ OwnerHasDirectory
  BY InitTypes, InitOwner
<1>2. TypeOK /\ OwnerHasDirectory /\ [Next]_vars => TypeOK' /\ OwnerHasDirectory'
  BY TypeStep, OwnerStep
<1> QED
  BY <1>1, <1>2, PTL DEF Spec

(* mkdir alone excludes: as long as nobody has begun to clear a lock, one  *)
(* claimant at most is inside the operation.                               *)
THEOREM ExclusionUntilRecovery == Spec => []OnlyRecoveryBreaksExclusion
<1>1. OwnerHasDirectory => OnlyRecoveryBreaksExclusion
  BY DEF OwnerHasDirectory, OnlyRecoveryBreaksExclusion, MutualExclusion, Holders, Owning
<1> QED
  BY <1>1, OwnersHaveTheDirectory, PTL

----------------------------------------------------------------------------

(* The initial states map to the one of IndexMutex.                        *)
LEMMA MutexInit == Init => Mutex!Init
BY DEF Init, Mutex!Init, Holders

(* A step of the lock is a step of IndexMutex or leaves its state alone.   *)
LEMMA MutexStep == TypeOK /\ OwnerHasDirectory /\ [Next]_vars => [Mutex!Next]_(Mutex!vars)
<1> SUFFICES ASSUME TypeOK, OwnerHasDirectory, [Next]_vars
             PROVE  Mutex!Next \/ UNCHANGED <<Holders, broken>>
  BY DEF Mutex!vars
<1> USE DEF TypeOK, Holders
<1>1. ASSUME NEW c \in Claimants, Begin(c) \/ DeadlinePasses(c) \/ WriteFails(c)
      PROVE  UNCHANGED <<Holders, broken>>
  BY <1>1 DEF Begin, DeadlinePasses, WriteFails, Goto
<1>2. ASSUME NEW c \in Claimants, Mkdir(c) \/ OpenOwner(c)
      PROVE  UNCHANGED <<Holders, broken>>
  BY <1>2 DEF Mkdir, OpenOwner, Goto
<1>3. ASSUME NEW c \in Claimants, WriteOwner(c) PROVE Mutex!Enter(c)
  <2>1. c \notin Holders
    BY <1>3 DEF WriteOwner
  <2>2. Holders = {} \/ broken
    BY <1>3 DEF WriteOwner, OwnerHasDirectory, Owning
  <2>3. Holders' = Holders \cup {c}
    BY <1>3 DEF WriteOwner, Goto
  <2> QED
    BY <1>3, <2>1, <2>2, <2>3 DEF Mutex!Enter, WriteOwner
<1>4. ASSUME NEW c \in Claimants, ReadOwner(c) \/ Refuse(c) \/ SleepAndRetry(c)
      PROVE  UNCHANGED <<Holders, broken>>
  BY <1>4 DEF ReadOwner, Refuse, SleepAndRetry, Goto
<1>5. ASSUME NEW c \in Claimants, ClassifyRecoverable(c) PROVE Mutex!BeginRecovery
  BY <1>5 DEF ClassifyRecoverable, Goto, Mutex!BeginRecovery
<1>6. ASSUME NEW c \in Claimants, RecoverFile(c) \/ RecoverDir(c)
      PROVE  UNCHANGED <<Holders, broken>>
  BY <1>6 DEF RecoverFile, RecoverDir, RmFile, RmDir, Goto
<1>7. ASSUME NEW c \in Claimants, Finish(c) PROVE Mutex!Leave({c})
  <2>1. Holders' = Holders \ {c} /\ c \in Holders
    BY <1>7 DEF Finish, Goto
  <2> QED
    BY <1>7, <2>1 DEF Mutex!Leave, Finish
<1>8. ASSUME NEW c \in Claimants, ReleaseFile(c) \/ ReleaseDir(c)
      PROVE  UNCHANGED <<Holders, broken>>
  BY <1>8 DEF ReleaseFile, ReleaseDir, RmFile, RmDir, Goto
<1>9. ASSUME NEW p \in Pids, Crash(p)
      PROVE  Mutex!Next \/ UNCHANGED <<Holders, broken>>
  <2> DEFINE S == {c \in Holders : PidOf[c] = p}
  <2>1. Holders' = Holders \ S /\ broken' = broken
    BY <1>9 DEF Crash
  <2>2. CASE S = {}
    BY <2>1, <2>2
  <2>3. CASE S # {}
    <3>1. Mutex!Leave(S)
      BY <2>1, <2>3 DEF Mutex!Leave
    <3>2. S \in SUBSET Claimants
      OBVIOUS
    <3> HIDE DEF S
    <3> QED
      BY <3>1, <3>2 DEF Mutex!Next, Mutex!Leave
  <2> QED
    BY <2>2, <2>3
<1>10. ASSUME NEW p \in Pids, ReusePid(p) PROVE UNCHANGED <<Holders, broken>>
  BY <1>10 DEF ReusePid
<1>11. CASE UNCHANGED vars
  BY <1>11 DEF vars
<1>12. ASSUME NEW c \in Claimants, Finish(c) PROVE Mutex!Next
  BY <1>7, <1>12 DEF Mutex!Next
<1> QED
  BY <1>1, <1>2, <1>3, <1>4, <1>5, <1>6, <1>8, <1>9, <1>10, <1>11, <1>12
     DEF Next, Advance, Mutex!Next

(* The lock implements IndexMutex: what a caller of withWorktreeIndexLock  *)
(* may rely on, for any number of claimants and processes.                 *)
THEOREM LockImplementsMutex == Spec => ImplementsIndexMutex
<1>1. Init => TypeOK /\ OwnerHasDirectory /\ Mutex!Init
  BY InitTypes, InitOwner, MutexInit
<1>2. TypeOK /\ OwnerHasDirectory /\ [Next]_vars
        => TypeOK' /\ OwnerHasDirectory' /\ [Mutex!Next]_(Mutex!vars)
  BY TypeStep, OwnerStep, MutexStep
<1> QED
  BY <1>1, <1>2, PTL DEF Spec, ImplementsIndexMutex, Mutex!Spec
----------------------------------------------------------------------------

(* A lock that is there is somebody's affair: of a claimant that will yet  *)
(* remove it, of one that died or failed and so may not, or of whoever     *)
(* left it before the first step.                                          *)
Answerable == Owning \cup {"recoverFile", "recoverDir", "failed", "crashed"}
LeftAlone  == IF owner = NoFile THEN ~broken ELSE owner.by = Planted

LockAccounted == dir => LeftAlone \/ \E c \in Claimants : pc[c] \in Answerable

(* The claimant that owner.json names has not removed a file since.        *)
ClaimAccounted ==
  owner # NoFile /\ owner.by # Planted =>
    pc[owner.by] \in {"write", "inside", "releaseFile", "failed", "crashed"}

Accounted == LockAccounted /\ ClaimAccounted

(* The only ways out of being answerable are an rm that has removed the    *)
(* lock, the loss of the directory, and a claim made by another one.       *)
LEMMA AccountedStep == TypeOK /\ Accounted /\ [Next]_vars => Accounted'
<1> SUFFICES ASSUME TypeOK, Accounted, [Next]_vars PROVE Accounted'
  OBVIOUS
<1> USE DEF TypeOK, Accounted, LockAccounted, ClaimAccounted, LeftAlone, Answerable, Owning
<1>1. ASSUME NEW c \in Claimants, Begin(c) \/ DeadlinePasses(c) PROVE Accounted'
  BY <1>1 DEF Begin, DeadlinePasses, Goto, Claim
<1>2. ASSUME NEW c \in Claimants, WriteFails(c) PROVE Accounted'
  BY <1>2 DEF WriteFails, Goto, Claim
<1>3. ASSUME NEW c \in Claimants, Mkdir(c) PROVE Accounted'
  BY <1>3 DEF Mkdir, Goto, Claim
<1>4. ASSUME NEW c \in Claimants, OpenOwner(c) PROVE Accounted'
  <2>1. CASE dir /\ owner = NoFile
    <3>1. owner'.by = c /\ pc'[c] = "write"
      BY <1>4, <2>1 DEF OpenOwner, Goto
    <3> QED
      BY <3>1
  <2>2. CASE dir /\ owner # NoFile
    <3>1. UNCHANGED <<dir, owner, broken>> /\ pc' = [pc EXCEPT ![c] = "read"]
      BY <1>4, <2>2 DEF OpenOwner, Goto
    <3>2. ClaimAccounted'
      BY <1>4, <3>1 DEF OpenOwner, Claim
    <3>3. owner.by # Planted => owner.by \in Claimants
      BY <2>2 DEF Claim
    <3> QED
      BY <2>2, <3>1, <3>2, <3>3
  <2>3. CASE ~dir
    BY <1>4, <2>3 DEF OpenOwner, Goto, Claim
  <2> QED
    BY <2>1, <2>2, <2>3
<1>5. ASSUME NEW c \in Claimants, WriteOwner(c) PROVE Accounted'
  <2>1. /\ (owner' = NoFile) <=> (owner = NoFile)
        /\ owner # NoFile => owner'.by = owner.by
        /\ pc' = [pc EXCEPT ![c] = "inside"]
        /\ UNCHANGED <<dir, broken>>
    BY <1>5, ClaimFields DEF WriteOwner, Goto, Claim
  <2> QED
    BY <1>5, <2>1 DEF WriteOwner, Claim
<1>6. ASSUME NEW c \in Claimants, ReadOwner(c) PROVE Accounted'
  BY <1>6 DEF ReadOwner, Goto, Claim
<1>7. ASSUME NEW c \in Claimants, ClassifyRecoverable(c) PROVE Accounted'
  BY <1>7 DEF ClassifyRecoverable, Goto, Claim
<1>8. ASSUME NEW c \in Claimants, Refuse(c) \/ SleepAndRetry(c) PROVE Accounted'
  BY <1>8 DEF Refuse, SleepAndRetry, Goto, Claim
<1>9. ASSUME NEW c \in Claimants, RecoverFile(c) \/ ReleaseFile(c) PROVE Accounted'
  BY <1>9 DEF RecoverFile, ReleaseFile, RmFile, Goto
<1>10. ASSUME NEW c \in Claimants, RecoverDir(c) \/ ReleaseDir(c) PROVE Accounted'
  BY <1>10 DEF RecoverDir, ReleaseDir, RmDir, Goto, Claim
<1>11. ASSUME NEW c \in Claimants, Finish(c) PROVE Accounted'
  BY <1>11 DEF Finish, Goto, Claim
<1>12. ASSUME NEW p \in Pids, Crash(p) PROVE Accounted'
  BY <1>12 DEF Crash, Claim
<1>13. ASSUME NEW p \in Pids, ReusePid(p) PROVE Accounted'
  BY <1>13 DEF ReusePid
<1>14. CASE UNCHANGED vars
  BY <1>14 DEF vars
<1> QED
  BY <1>1, <1>2, <1>3, <1>4, <1>5, <1>6, <1>7, <1>8, <1>9, <1>10, <1>11,
     <1>12, <1>13, <1>14 DEF Next, Advance

(* Initially a lock that is there was left by somebody else.               *)
LEMMA InitAccounted == Init => Accounted
BY DEF Init, Accounted, LockAccounted, ClaimAccounted, LeftAlone, LeftBehind

(* No lock is orphaned: when every claimant has returned or was refused,   *)
(* the directory is gone, or is the one that was there at first, in every  *)
(* interleaving of recoveries, releases and claims.                        *)
THEOREM NoneOrphaned == Spec => []NoOrphanLock
<1>1. Accounted => NoOrphanLock
  BY DEF Accounted, LockAccounted, LeftAlone, Answerable, Owning, NoOrphanLock
<1> QED
  BY <1>1, InitTypes, TypeStep, InitAccounted, AccountedStep, PTL DEF Spec
=============================================================================
