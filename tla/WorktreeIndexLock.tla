------------------------- MODULE WorktreeIndexLock -------------------------
(***************************************************************************)
(* The index lock of a worktree (src/indexer/worktreeIndexLock.ts): the    *)
(* directory .vtrace/index.lock, whose file owner.json names the process   *)
(* and the worktree of the claim.  A claimant is one call of               *)
(* withWorktreeIndexLock; several claimants may run in one process (two    *)
(* MCP requests), so they share a pid.                                     *)
(*                                                                         *)
(* Every await of the source is a step boundary: mkdir, the creation of    *)
(* owner.json and the write of its text, the read of owner.json, the       *)
(* liveness probe that follows it, and the two system calls of a recursive *)
(* rm (unlink of owner.json, rmdir) are separate actions.                  *)
(***************************************************************************)
EXTENDS FiniteSets

CONSTANTS Claimants,   \* calls of withWorktreeIndexLock for one worktree
          Pids,        \* process ids of this machine
          PidOf,       \* the process a claimant runs in
          Planted,     \* stands for whoever left a claim before the first step
          NoFile       \* owner.json does not exist

Worktree == {"this", "other"}

(* The LockOwner record, with the claimant that created the file (its      *)
(* inode) and whether its text is whole: an empty or truncated file does   *)
(* not parse.                                                              *)
Claim == [by: Claimants \cup {Planted}, pid: Pids, worktree: Worktree, whole: BOOLEAN]

ASSUME ConstantsAssumption ==
  /\ PidOf \in [Claimants -> Pids]
  /\ Planted \notin Claimants
  /\ NoFile \notin Claim

VARIABLES dir,       \* does the directory index.lock exist?
          owner,     \* content of index.lock/owner.json
          pc,        \* where each claimant is
          expired,   \* Date.now() >= deadline, per claimant
          seen,      \* what readOwner returned to each claimant
          alive,     \* pids for which kill(pid, 0) succeeds
          broken     \* history: some claimant has begun to clear a lock

vars == <<dir, owner, pc, expired, seen, alive, broken>>

Steps == {"idle", "mkdir", "open", "write", "read", "classify",
          "recoverFile", "recoverDir", "inside", "releaseFile", "releaseDir",
          "refused", "failed", "crashed"}

\* The claimant holds, or believes it holds, the directory.
Owning == {"open", "write", "inside", "releaseFile", "releaseDir"}

\* The claimant is between the call and its return or refusal.
Attempting == {"mkdir", "open", "write", "read", "classify",
               "recoverFile", "recoverDir"}

TypeOK ==
  /\ dir \in BOOLEAN
  /\ owner \in Claim \cup {NoFile}
  /\ pc \in [Claimants -> Steps]
  /\ expired \in [Claimants -> BOOLEAN]
  /\ seen \in [Claimants -> Claim \cup {NoFile}]
  /\ alive \in SUBSET Pids
  /\ broken \in BOOLEAN

(***************************************************************************)
(* Initially no claimant runs.  The directory is absent, or somebody left  *)
(* it: a killed process, a copy of another checkout's .vtrace, a crash     *)
(* before owner.json was written or while it was.                          *)
(***************************************************************************)
LeftBehind == {c \in Claim : c.by = Planted}

Init ==
  /\ dir \in BOOLEAN
  /\ owner \in IF dir THEN LeftBehind \cup {NoFile} ELSE {NoFile}
  /\ pc = [c \in Claimants |-> "idle"]
  /\ expired = [c \in Claimants |-> FALSE]
  /\ seen = [c \in Claimants |-> NoFile]
  /\ alive \in {A \in SUBSET Pids : \A c \in Claimants : PidOf[c] \in A}
  /\ broken = FALSE

Goto(c, step) == pc' = [pc EXCEPT ![c] = step]

\* The locals of the call are gone once it has left the acquisition loop.
ForgetLocals(c) ==
  /\ expired' = [expired EXCEPT ![c] = FALSE]
  /\ seen' = [seen EXCEPT ![c] = NoFile]

----------------------------------------------------------------------------
(* withWorktreeIndexLock *)

\* The call: with waitMs absent or 0 the deadline has passed already.
Begin(c) ==
  /\ pc[c] \in {"idle", "refused"}
  /\ Goto(c, "mkdir")
  /\ \E e \in BOOLEAN : expired' = [expired EXCEPT ![c] = e]
  /\ UNCHANGED <<dir, owner, seen, alive, broken>>

DeadlinePasses(c) ==
  /\ pc[c] \in Attempting /\ ~expired[c]
  /\ expired' = [expired EXCEPT ![c] = TRUE]
  /\ UNCHANGED <<dir, owner, pc, seen, alive, broken>>

\* Mutant: mkdir with recursive: true never reports EEXIST.
Mkdir_Recursive(c) ==
  /\ pc[c] = "mkdir"
  /\ dir' = TRUE
  /\ Goto(c, "open")
  /\ UNCHANGED <<owner, expired, seen, alive, broken>>

\* mkdir(lockPath): the directory is created, or EEXIST.
Mkdir(c) ==
  /\ pc[c] = "mkdir"
  /\ dir' = TRUE
  /\ Goto(c, IF dir THEN "read" ELSE "open")
  /\ UNCHANGED <<owner, expired, seen, alive, broken>>

\* Mutant: the claim is made before the pid is known.
OpenOwner_NoPid(c) ==
  /\ pc[c] = "open" /\ dir /\ owner = NoFile
  /\ owner' = [by |-> c, pid |-> NoFile, worktree |-> "this", whole |-> FALSE]
  /\ Goto(c, "write")
  /\ UNCHANGED <<dir, expired, seen, alive, broken>>

\* writeFile(ownerPath, .., wx) creates the file.  ENOENT (the directory has
\* gone) makes the parent and retries; EEXIST is handled as the one of mkdir.
OpenOwner(c) ==
  /\ pc[c] = "open"
  /\ IF dir /\ owner = NoFile
     THEN /\ owner' = [by |-> c, pid |-> PidOf[c], worktree |-> "this", whole |-> FALSE]
          /\ Goto(c, "write")
     ELSE /\ Goto(c, IF dir THEN "read" ELSE "mkdir")
          /\ UNCHANGED owner
  /\ UNCHANGED <<dir, expired, seen, alive, broken>>

\* .. and writes its text, to an unlinked inode when the file was removed.
WriteOwner(c) ==
  /\ pc[c] = "write"
  /\ owner' = IF owner # NoFile /\ owner.by = c THEN [owner EXCEPT !.whole = TRUE] ELSE owner
  /\ Goto(c, "inside")
  /\ ForgetLocals(c)
  /\ UNCHANGED <<dir, alive, broken>>

\* Any other error (no space, no permission) is thrown; what was made stays.
WriteFails(c) ==
  /\ pc[c] \in {"mkdir", "open", "write"}
  /\ Goto(c, "failed")
  /\ ForgetLocals(c)
  /\ UNCHANGED <<dir, owner, alive, broken>>

\* readOwner
ReadOwner(c) ==
  /\ pc[c] = "read"
  /\ seen' = [seen EXCEPT ![c] = owner]
  /\ Goto(c, "classify")
  /\ UNCHANGED <<dir, owner, expired, alive, broken>>

\* Mutant: a dead owner keeps its claim.
StaleLockKind_NoProbe(claim) ==
  IF claim = NoFile THEN "unreadable_owner"
  ELSE IF ~claim.whole THEN "unreadable_owner"
  ELSE IF claim.worktree # "this" THEN "foreign_worktree"
  ELSE "none"

\* classifyRecoverableLock: why the lock may be cleared, "none" if it may not.
StaleLockKind(claim) ==
  IF claim = NoFile THEN "unreadable_owner"
  ELSE IF ~claim.whole THEN "unreadable_owner"
  ELSE IF claim.worktree # "this" THEN "foreign_worktree"
  ELSE IF claim.pid \notin alive THEN "dead_owner"
  ELSE "none"

Recoverable(claim) == StaleLockKind(claim) # "none"

ClassifyRecoverable(c) ==
  /\ pc[c] = "classify"
  /\ Recoverable(seen[c])
  /\ Goto(c, "recoverFile")
  /\ broken' = TRUE
  /\ seen' = [seen EXCEPT ![c] = NoFile]
  /\ UNCHANGED <<dir, owner, expired, alive>>

\* Mutants: at the deadline the claimant goes on waiting, or goes ahead.
Refuse_WaitsOn(c) ==
  /\ pc[c] = "classify"
  /\ ~Recoverable(seen[c]) /\ expired[c]
  /\ Goto(c, "mkdir")
  /\ seen' = [seen EXCEPT ![c] = NoFile]
  /\ UNCHANGED <<dir, owner, expired, alive, broken>>

Refuse_GoesAhead(c) ==
  /\ pc[c] = "classify"
  /\ ~Recoverable(seen[c]) /\ expired[c]
  /\ Goto(c, "inside")
  /\ ForgetLocals(c)
  /\ UNCHANGED <<dir, owner, alive, broken>>

\* index_in_progress or lock_timeout
Refuse(c) ==
  /\ pc[c] = "classify"
  /\ ~Recoverable(seen[c]) /\ expired[c]
  /\ Goto(c, "refused")
  /\ ForgetLocals(c)
  /\ UNCHANGED <<dir, owner, alive, broken>>

SleepAndRetry(c) ==
  /\ pc[c] = "classify"
  /\ ~Recoverable(seen[c]) /\ ~expired[c]
  /\ Goto(c, "mkdir")
  /\ seen' = [seen EXCEPT ![c] = NoFile]
  /\ UNCHANGED <<dir, owner, expired, alive, broken>>

\* rm(lockPath, {recursive, force}) unlinks owner.json, then removes the
\* directory; a file that appeared in between makes it unlink again.
RmFile(c, from, to) ==
  /\ pc[c] = from
  /\ owner' = NoFile
  /\ Goto(c, to)
  /\ UNCHANGED <<dir, expired, seen, alive, broken>>

RmDir(c, from, again, to) ==
  /\ pc[c] = from
  /\ IF owner = NoFile
     THEN dir' = FALSE /\ Goto(c, to)
     ELSE Goto(c, again) /\ UNCHANGED dir
  /\ UNCHANGED <<owner, expired, seen, alive, broken>>

RecoverFile(c) == RmFile(c, "recoverFile", "recoverDir")
RecoverDir(c)  == RmDir(c, "recoverDir", "recoverFile", "mkdir")

\* Mutant: no finally clause.
Finish_KeepsLock(c) ==
  /\ pc[c] = "inside"
  /\ Goto(c, "idle")
  /\ UNCHANGED <<dir, owner, expired, seen, alive, broken>>

\* input.operation() returns or throws; the finally clause removes the lock.
Finish(c) ==
  /\ pc[c] = "inside"
  /\ Goto(c, "releaseFile")
  /\ UNCHANGED <<dir, owner, expired, seen, alive, broken>>

ReleaseFile(c) == RmFile(c, "releaseFile", "releaseDir")
ReleaseDir(c)  == RmDir(c, "releaseDir", "releaseFile", "idle")

----------------------------------------------------------------------------
(* The machine *)

\* A process is killed: every claimant it runs stops where it is.
Crash(p) ==
  /\ p \in alive
  /\ alive' = alive \ {p}
  /\ pc' = [c \in Claimants |-> IF PidOf[c] = p THEN "crashed" ELSE pc[c]]
  /\ expired' = [c \in Claimants |-> PidOf[c] # p /\ expired[c]]
  /\ seen' = [c \in Claimants |-> IF PidOf[c] = p THEN NoFile ELSE seen[c]]
  /\ UNCHANGED <<dir, owner, broken>>

\* The system gives the number of a dead process to an unrelated one.
ReusePid(p) ==
  /\ p \notin alive
  /\ alive' = alive \cup {p}
  /\ UNCHANGED <<dir, owner, pc, expired, seen, broken>>

Advance(c) ==
  \/ Mkdir(c) \/ OpenOwner(c) \/ WriteOwner(c)
  \/ ReadOwner(c) \/ ClassifyRecoverable(c) \/ Refuse(c) \/ SleepAndRetry(c)
  \/ RecoverFile(c) \/ RecoverDir(c)
  \/ Finish(c) \/ ReleaseFile(c) \/ ReleaseDir(c)

Next ==
  \/ \E c \in Claimants : Begin(c) \/ DeadlinePasses(c) \/ WriteFails(c) \/ Advance(c)
  \/ \E p \in Pids : Crash(p) \/ ReusePid(p)

Spec == Init /\ [][Next]_vars

\* A live process runs its continuations, an operation ends, and time passes.
Fairness == \A c \in Claimants : WF_vars(Advance(c)) /\ WF_vars(DeadlinePasses(c))

FairSpec == Spec /\ Fairness

----------------------------------------------------------------------------
(* Properties *)

Holders == {c \in Claimants : pc[c] = "inside"}

(* At most one claimant at a time runs the operation under the lock: the   *)
(* purpose of withWorktreeIndexLock.  The code does not keep it (a finding *)
(* of the run lock_exclusion).                                             *)
MutualExclusion == \A c, d \in Holders : c = d

(* What does hold: two claimants are inside together only after some       *)
(* claimant judged a lock recoverable and began to clear it.  mkdir alone  *)
(* excludes; waiting, releasing, crashing and reusing pids never admit two.*)
OnlyRecoveryBreaksExclusion == ~broken => MutualExclusion

(* The inductive form: before the first recovery one claimant at most is   *)
(* between its mkdir and the end of its rm, and the directory is there for *)
(* it.                                                                     *)
OwnerHasDirectory ==
  ~broken =>
    /\ \A c \in Claimants : pc[c] \in Owning => dir
    /\ \A c, d \in Claimants : pc[c] \in Owning /\ pc[d] \in Owning => c = d
    /\ \A c \in Claimants : pc[c] \notin {"recoverFile", "recoverDir"}

(* The lock promises IndexMutex.                                           *)
Mutex == INSTANCE IndexMutex WITH holders <- Holders, broken <- broken

ImplementsIndexMutex == Mutex!Spec

(* The finally clause and the forced rm leave nothing behind: when every   *)
(* claimant has returned or was refused, none having died or failed to     *)
(* write its claim, a lock that is still there was there before the first  *)
(* of them, whoever cleared or released whose directory in between.        *)
NoOrphanLock ==
  (\A c \in Claimants : pc[c] \in {"idle", "refused"}) =>
    \/ ~dir
    \/ owner # NoFile /\ owner.by = Planted
    \/ owner = NoFile /\ ~broken

(* A claimant that no other disturbs is not kept waiting for ever: it gets *)
(* in or is refused, whatever lock it finds.                               *)
Undisturbed(c) ==
  \A d \in Claimants \ {c} : pc[d] \in {"idle", "refused", "failed", "crashed"}

AttemptEnds ==
  \A c \in Claimants :
    <>[]Undisturbed(c) => (pc[c] \in Attempting ~> pc[c] \notin Attempting)

(* A lock that a dead process, another worktree or a truncated write left  *)
(* behind does not wedge the index: as long as no live process of this     *)
(* worktree is named by the lock, an undisturbed claimant is refused       *)
(* finitely often, however many times it tries.                            *)
NamesNoLiveProcess ==
  owner # NoFile => owner.pid \notin alive \/ owner.worktree # "this" \/ ~owner.whole

RefuseStep(c) == pc[c] = "classify" /\ pc'[c] = "refused"

StaleLockDoesNotWedge ==
  \A c \in Claimants :
    <>[](Undisturbed(c) /\ (pc[c] # "inside" => NamesNoLiveProcess))
      => <>[][~RefuseStep(c)]_vars
============================================================================
