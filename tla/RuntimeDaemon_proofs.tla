------------------------- MODULE RuntimeDaemon_proofs -------------------------
(***************************************************************************)
(* Theorems about RuntimeDaemon, for every number of commands.             *)
(***************************************************************************)
EXTENDS RuntimeDaemon, TLAPS

USE FileAssumption

-----------------------------------------------------------------------------
(* The types.                                                              *)
LEMMA InitTypes == Init => TypeOK
BY DEF Init, TypeOK, RunnerState, Unwritten, Daemon

(* A runner that ends, however it does.                                    *)
LEMMA DieTypes ==
  ASSUME TypeOK, NEW r \in Command, Alive(r), Die(r),
         UNCHANGED <<kind, target, file, rushed>>,
         pc' = pc \/ \E c \in Command : pc[c] = "kill" /\ kind[c] = "stop" /\
                        pc' = [pc EXCEPT ![c] = "wait"]
  PROVE  TypeOK'
BY DEF TypeOK, Die, Alive, RunnerState, Unwritten, Daemon

LEMMA TypeStep == TypeOK /\ [Next]_vars => TypeOK'
<1> SUFFICES ASSUME TypeOK, [Next]_vars PROVE TypeOK'
  OBVIOUS
<1> USE DEF TypeOK, RunnerState, Unwritten, Daemon
<1>1. ASSUME NEW c \in Command, Begin(c) PROVE TypeOK'
  BY <1>1 DEF Begin
<1>2. ASSUME NEW c \in Command, StartStatus(c) \/ Spawn(c) \/ StartWait(c) PROVE TypeOK'
  <2>1. CASE StartStatus(c)
    BY <2>1 DEF StartStatus
  <2>2. CASE Spawn(c)
    BY <2>2 DEF Spawn
  <2>3. CASE StartWait(c)
    <3>1. rushed' \in BOOLEAN
      BY <2>3 DEF StartWait
    <3> QED
      BY <2>3, <3>1 DEF StartWait
  <2> QED
    BY <1>2, <2>1, <2>2, <2>3
<1>3. ASSUME NEW c \in Command, StopStatus(c) \/ StopWait(c) \/ StopRemove(c) PROVE TypeOK'
  <2>1. CASE StopStatus(c)
    BY <2>1 DEF StopStatus, Running
  <2>2. CASE StopWait(c)
    <3>1. rushed' \in BOOLEAN
      BY <2>2 DEF StopWait
    <3> QED
      BY <2>2, <3>1 DEF StopWait
  <2>3. CASE StopRemove(c)
    BY <2>3 DEF StopRemove, RemoveFile
  <2> QED
    BY <1>3, <2>1, <2>2, <2>3
<1>4. ASSUME NEW c \in Command, Kill(c) PROVE TypeOK'
  BY <1>4, DieTypes DEF Kill, Terminate
<1>5. ASSUME NEW r \in Command, SpawnServer(r) \/ OpenFile(r) \/ WriteFile(r) \/ Arm(r) PROVE TypeOK'
  BY <1>5 DEF SpawnServer, OpenFile, WriteFile, Arm
<1>6. ASSUME NEW r \in Command, MissExit(r) \/ Exit(r) \/ Crash(r) PROVE TypeOK'
  BY <1>6, DieTypes DEF MissExit, Exit, Crash, Alive
<1>7. ASSUME NEW r \in Command, ServerExit(r) \/ CleanUp(r) PROVE TypeOK'
  BY <1>7 DEF ServerExit, CleanUp, RemoveFile
<1>8. ASSUME NEW r \in Command, EndServer(r, {"up", "told"}) PROVE TypeOK'
  BY <1>8 DEF EndServer
<1>9. CASE UNCHANGED vars
  BY <1>9 DEF vars
<1> QED
  BY <1>1, <1>2, <1>3, <1>4, <1>5, <1>6, <1>7, <1>8, <1>9 DEF Next, CommandStep, RunnerStep

(* The variables have their types in every behaviour.                      *)
THEOREM TypeCorrect == Spec => []TypeOK
BY InitTypes, TypeStep, PTL DEF Spec

-----------------------------------------------------------------------------
(* Why there is one daemon.  As long as nothing was rushed: a start runs   *)
(* alone; there is one runner at work; runtime.json names it as soon as it *)
(* wrote it, and is its own torn file while it writes; its start waits for *)
(* that; and who is about to spawn a runner, to remove the file or to      *)
(* signal a process has no other runner to fear.                           *)
StartsAlone  == \A c, d \in InProgress : kind[c] = "start" => c = d
OneWorking   == \A r, s \in Working : r = s
FileNames    == \A r \in Command : run[r] \in Daemon => file = r
StartWaits   == \A r \in Command : run[r] \in Unwritten => kind[r] = "start" /\ pc[r] = "wait"
NamedIsOver  == file \in Command => run[file] \in Daemon \cup {"dead"}
OpenIsOwn    == \A r \in Command : run[r] = "open" => r \in linked /\ file = Torn
AboutToAct   ==
  \A c \in Command :
    /\ pc[c] \in {"spawn", "remove"} => Working = {}
    /\ pc[c] = "kill" => Working \subseteq {target[c]}

Calm ==
  ~rushed =>
    /\ StartsAlone /\ OneWorking /\ FileNames /\ StartWaits
    /\ NamedIsOver /\ OpenIsOwn /\ AboutToAct

(* Nothing is rushed that was rushed before.                               *)
LEMMA RushStays == [Next]_vars /\ ~rushed' => ~rushed
BY DEF Next, vars, Begin, CommandStep, StartStatus, Spawn, StartWait, StopStatus, Kill,
       StopWait, StopRemove, RunnerStep, SpawnServer, OpenFile, WriteFile, Arm, MissExit,
       ServerExit, CleanUp, Exit, EndServer, Crash

LEMMA CalmInit == Init => Calm
BY DEF Init, Calm, StartsAlone, OneWorking, FileNames, StartWaits, NamedIsOver, OpenIsOwn,
       AboutToAct, InProgress, Working, Unwritten, Daemon

(* A runner is a daemon that the file names, or it is about to be one.     *)
LEMMA NotRunning ==
  ASSUME TypeOK, FileNames, ~Running
  PROVE  \A r \in Working : run[r] \in Unwritten
BY DEF TypeOK, FileNames, Running, Alive, Working, Unwritten, Daemon

(* The commands in a step of a runner: they stay where they are, but for a *)
(* stop that has sent its signal.                                          *)
CommandsRest ==
  /\ UNCHANGED <<kind, target>>
  /\ \A c \in Command : pc'[c] = pc[c] \/ (pc[c] = "kill" /\ pc'[c] = "wait")

LEMMA RestingCommands ==
  ASSUME TypeOK, StartsAlone, AboutToAct, CommandsRest, Working' \subseteq Working
  PROVE  StartsAlone' /\ AboutToAct'
<1>1. InProgress' \subseteq InProgress
  BY DEF InProgress, CommandsRest
<1>2. StartsAlone'
  BY <1>1 DEF StartsAlone, CommandsRest
<1>3. AboutToAct'
  BY DEF AboutToAct, CommandsRest
<1> QED
  BY <1>2, <1>3

(* A runner that ends leaves everything as calm as it was.                 *)
LEMMA DeathIsCalm ==
  ASSUME TypeOK, ~rushed, Calm, CommandsRest, file' = file,
         NEW r \in Command, Die(r)
  PROVE  Calm'
<1> USE DEF Calm
<1>1. run' = [run EXCEPT ![r] = "dead"] /\ linked' = linked \ {r}
  BY DEF Die
<1>2. /\ \A s \in Command : s # r => run'[s] = run[s]
      /\ run'[r] = "dead"
  BY <1>1 DEF TypeOK
<1>3. Working' \subseteq Working
  BY <1>2 DEF Working, Unwritten, Daemon
<1>4. StartsAlone' /\ AboutToAct'
  BY <1>3, RestingCommands
<1>5. OneWorking'
  BY <1>3 DEF OneWorking
<1>6. FileNames' /\ NamedIsOver'
  BY <1>2 DEF FileNames, NamedIsOver, Daemon
<1>7. StartWaits'
  BY <1>2 DEF StartWaits, Unwritten, CommandsRest
<1>8. OpenIsOwn'
  BY <1>1, <1>2 DEF OpenIsOwn
<1> QED
  BY <1>4, <1>5, <1>6, <1>7, <1>8

(* So does one that goes from a state in which it is at work to another,   *)
(* if it is a daemon that the file names then.                             *)
LEMMA WorkIsCalm ==
  ASSUME TypeOK, ~rushed, Calm, CommandsRest,
         NEW r \in Working, NEW state \in Unwritten \cup Daemon,
         run' = [run EXCEPT ![r] = state],
         run[r] \in Daemon => state \in Daemon,
         state \in Daemon => file' = r,
         state = "open" => r \in linked' /\ file' = Torn,
         file' \in {file, Torn, r}, file' = r => state \in Daemon,
         file' = file \/ ~(run[r] \in Daemon)
  PROVE  Calm'
<1> USE DEF Calm
<1>0. r \in Command
  BY DEF Working
<1>1. /\ \A s \in Command : s # r => run'[s] = run[s]
      /\ run'[r] = state
  BY <1>0 DEF TypeOK
<1>2. Working' \subseteq Working
  BY <1>0, <1>1 DEF Working
<1>3. StartsAlone' /\ AboutToAct'
  BY <1>2, RestingCommands
<1>4. OneWorking'
  BY <1>2 DEF OneWorking
<1>5. \A s \in Command : s # r => run'[s] \notin Unwritten \cup Daemon
  BY <1>0, <1>1 DEF OneWorking, Working
<1>6. FileNames'
  BY <1>1, <1>5 DEF FileNames
<1>7. StartWaits'
  <2>1. state \in Unwritten => run[r] \in Unwritten
    BY DEF Working, Unwritten, Daemon
  <2> QED
    BY <1>0, <1>1, <1>5, <2>1 DEF StartWaits, CommandsRest, Unwritten
<1>8. NamedIsOver'
  BY <1>0, <1>1 DEF NamedIsOver, TypeOK
<1>9. OpenIsOwn'
  BY <1>1, <1>5 DEF OpenIsOwn, Unwritten
<1> QED
  BY <1>3, <1>4, <1>6, <1>7, <1>8, <1>9

(* A command that goes on keeps the calm if its runner, should it have one *)
(* that is not written yet, finds it waiting, and if what it is about to   *)
(* do is harmless.                                                         *)
LEMMA CommandIsCalm ==
  ASSUME TypeOK, ~rushed, Calm, UNCHANGED <<kind, run, file, linked>>,
         NEW c \in InProgress, NEW step, pc' = [pc EXCEPT ![c] = step],
         step # "new",
         run[c] \in Unwritten => step = "wait",
         step \in {"spawn", "remove"} => Working = {},
         step = "kill" => Working \subseteq {target'[c]},
         \A d \in Command : d # c => target'[d] = target[d]
  PROVE  Calm'
<1> USE DEF Calm
<1>0. c \in Command
  BY DEF InProgress
<1>1. /\ \A d \in Command : d # c => pc'[d] = pc[d]
      /\ pc'[c] = step
  BY <1>0 DEF TypeOK
<1>2. InProgress' \subseteq InProgress
  BY <1>1 DEF InProgress
<1>3. StartsAlone'
  BY <1>2 DEF StartsAlone
<1>4. Working' = Working
  BY DEF Working
<1>5. OneWorking' /\ FileNames' /\ NamedIsOver' /\ OpenIsOwn'
  BY <1>4 DEF OneWorking, FileNames, NamedIsOver, OpenIsOwn
<1>6. StartWaits'
  BY <1>1 DEF StartWaits
<1>7. AboutToAct'
  BY <1>1, <1>4 DEF AboutToAct
<1> QED
  BY <1>3, <1>5, <1>6, <1>7

(* While a stop, or another start, is in progress no runner is unwritten.  *)
LEMMA NoneUnwritten ==
  ASSUME TypeOK, StartsAlone, StartWaits, NEW c \in InProgress,
         kind[c] = "stop" \/ pc[c] # "wait"
  PROVE  \A r \in Command : run[r] \notin Unwritten
<1> SUFFICES ASSUME NEW r \in Command, run[r] \in Unwritten PROVE FALSE
  OBVIOUS
<1>1. kind[r] = "start" /\ pc[r] = "wait"
  BY DEF StartWaits
<1>2. r \in InProgress
  BY <1>1 DEF InProgress
<1> QED
  BY <1>1, <1>2 DEF StartsAlone

LEMMA CalmStep == TypeOK /\ Calm /\ [Next]_vars => Calm'
<1> SUFFICES ASSUME TypeOK, Calm, [Next]_vars, ~rushed' PROVE Calm'
  BY DEF Calm
<1>0. /\ ~rushed
      /\ StartsAlone /\ OneWorking /\ FileNames /\ StartWaits
      /\ NamedIsOver /\ OpenIsOwn /\ AboutToAct
  BY RushStays DEF Calm
<1>1. ASSUME NEW c \in Command, Begin(c) PROVE Calm'
  <2>1. \A d \in InProgress : kind[c] # "start" /\ kind[d] # "start"
    BY <1>1 DEF Begin
  <2>2. /\ pc[c] = "new" /\ pc' = [pc EXCEPT ![c] = "status"]
        /\ UNCHANGED <<kind, target, run, server, file, linked>>
    BY <1>1 DEF Begin
  <2>3. StartsAlone'
    BY <2>1, <2>2 DEF TypeOK, StartsAlone, InProgress
  <2>4. FileNames' /\ StartWaits'
    BY <1>0, <2>2 DEF TypeOK, FileNames, StartWaits
  <2>5. Working' = Working
    BY <2>2 DEF Working
  <2>6. OneWorking' /\ AboutToAct'
    BY <1>0, <2>2, <2>5 DEF TypeOK, OneWorking, AboutToAct
  <2>7. NamedIsOver' /\ OpenIsOwn'
    BY <1>0, <2>2 DEF NamedIsOver, OpenIsOwn
  <2> QED
    BY <2>3, <2>4, <2>6, <2>7 DEF Calm
<1>2. ASSUME NEW c \in Command, StartStatus(c) PROVE Calm'
  <2>1. /\ c \in InProgress /\ pc[c] = "status" /\ kind[c] = "start"
        /\ pc' = [pc EXCEPT ![c] = IF Running THEN "done" ELSE "spawn"]
        /\ UNCHANGED <<kind, target, run, file, linked>>
    BY <1>2 DEF StartStatus, InProgress
  <2>2. \A r \in Command : run[r] \notin Unwritten
    BY <1>0, <2>1, NoneUnwritten
  <2>3. ~Running => Working = {}
    BY <1>0, <2>2, NotRunning DEF Working
  <2> QED
    BY <1>0, <2>1, <2>2, <2>3, CommandIsCalm
<1>3. ASSUME NEW c \in Command, Spawn(c) PROVE Calm'
  <2>1. /\ pc[c] = "spawn" /\ c \in InProgress /\ kind[c] = "start" /\ Working = {}
        /\ pc' = [pc EXCEPT ![c] = "wait"] /\ run' = [run EXCEPT ![c] = "spawned"]
        /\ UNCHANGED <<kind, target, file, linked>>
    BY <1>0, <1>3 DEF TypeOK, Spawn, InProgress, AboutToAct
  <2>2. /\ \A d \in Command : d # c => pc'[d] = pc[d] /\ run'[d] = run[d]
        /\ pc'[c] = "wait" /\ run'[c] = "spawned"
    BY <2>1 DEF TypeOK
  <2>3. \A d \in Command : d # c => run'[d] \notin Unwritten \cup Daemon
    BY <2>1, <2>2 DEF Working
  <2>4. StartsAlone'
    <3>1. InProgress' \subseteq InProgress
      BY <2>1, <2>2 DEF InProgress
    <3> QED
      BY <1>0, <2>1, <3>1 DEF StartsAlone
  <2>5. OneWorking' /\ FileNames'
    BY <2>2, <2>3 DEF OneWorking, FileNames, Working, Unwritten, Daemon
  <2>6. StartWaits' /\ OpenIsOwn'
    BY <2>1, <2>2, <2>3 DEF StartWaits, OpenIsOwn, Unwritten
  <2>7. NamedIsOver'
    <3>1. run[c] = "unborn"
      BY <2>1 DEF TypeOK
    <3>2. file # c
      BY <1>0, <3>1 DEF NamedIsOver, Daemon
    <3> QED
      BY <1>0, <2>1, <2>2, <3>2 DEF NamedIsOver
  <2>8. AboutToAct'
    <3>1. ASSUME NEW d \in Command, pc'[d] \in {"spawn", "remove", "kill"} PROVE FALSE
      <4>1. d # c /\ d \in InProgress
        BY <2>2, <3>1 DEF InProgress
      <4> QED
        BY <1>0, <2>1, <4>1 DEF StartsAlone
    <3> QED
      BY <3>1 DEF AboutToAct
  <2> QED
    BY <2>4, <2>5, <2>6, <2>7, <2>8 DEF Calm
<1>4. ASSUME NEW c \in Command, StartWait(c) PROVE Calm'
  <2>1. /\ c \in InProgress /\ kind[c] = "start" /\ pc' = [pc EXCEPT ![c] = "done"]
        /\ UNCHANGED <<kind, target, run, file, linked>> /\ (Running \/ ~Alive(c))
    BY <1>4 DEF StartWait, InProgress
  <2>2. run[c] \notin Unwritten
    <3>1. CASE ~Alive(c)
      BY <3>1 DEF Alive, Unwritten
    <3>2. CASE Running
      <4>1. file \in Working /\ run[file] \in Daemon
        BY <1>0, <3>2 DEF Running, Alive, NamedIsOver, Working
      <4>2. c \in Working => c = file
        BY <1>0, <4>1 DEF OneWorking
      <4> QED
        BY <4>1, <4>2 DEF Working, Unwritten, Daemon
    <3> QED
      BY <2>1, <3>1, <3>2
  <2> QED
    BY <1>0, <2>1, <2>2, CommandIsCalm
<1>5. ASSUME NEW c \in Command, StopStatus(c) PROVE Calm'
  <2>1. /\ c \in InProgress /\ kind[c] = "stop" /\ UNCHANGED <<kind, run, file, linked>>
    BY <1>5 DEF StopStatus, InProgress
  <2>2. \A r \in Command : run[r] \notin Unwritten
    BY <1>0, <2>1, NoneUnwritten
  <2>3. CASE Running
    <3>1. /\ pc' = [pc EXCEPT ![c] = "kill"] /\ target' = [target EXCEPT ![c] = file]
      BY <1>5, <2>3 DEF StopStatus
    <3>2. target'[c] = file /\ \A d \in Command : d # c => target'[d] = target[d]
      BY <3>1 DEF TypeOK
    <3>3. Working \subseteq {file}
      BY <1>0, <2>2 DEF Working, FileNames
    <3> QED
      BY <1>0, <2>1, <2>2, <3>1, <3>2, <3>3, CommandIsCalm
  <2>4. CASE ~Running
    <3>1. pc' = [pc EXCEPT ![c] = "remove"] /\ target' = target
      BY <1>5, <2>4 DEF StopStatus
    <3>2. Working = {}
      BY <1>0, <2>2, <2>4, NotRunning DEF Working
    <3> QED
      BY <1>0, <2>1, <2>2, <3>1, <3>2, CommandIsCalm
  <2> QED
    BY <2>3, <2>4
<1>6. ASSUME NEW c \in Command, Kill(c) PROVE Calm'
  <2>1. pc[c] = "kill" /\ kind[c] = "stop" /\ c \in InProgress /\ target[c] \in Command
        /\ UNCHANGED <<kind, target, file>>
    BY <1>6 DEF Kill, TypeOK, InProgress
  <2>2. \A r \in Command : run[r] \notin Unwritten
    BY <1>0, <2>1, NoneUnwritten
  <2>3. CASE ~Alive(target[c])
    <3>1. pc' = [pc EXCEPT ![c] = "done"] /\ UNCHANGED <<run, linked>>
      BY <1>6, <2>3 DEF Kill
    <3> QED
      BY <1>0, <2>1, <2>2, <3>1, CommandIsCalm
  <2>4. CASE Alive(target[c])
    <3>1. pc' = [pc EXCEPT ![c] = "wait"] /\ Terminate(target[c])
      BY <1>6, <2>4 DEF Kill
    <3>2. CommandsRest
      BY <2>1, <3>1 DEF CommandsRest, TypeOK
    <3>3. CASE Die(target[c])
      BY <1>0, <2>1, <3>2, <3>3, DeathIsCalm
    <3>4. CASE ~Die(target[c])
      <4>1. /\ run' = [run EXCEPT ![target[c]] = IF @ = "armed" THEN "stopping" ELSE @]
            /\ linked' = linked
        BY <3>1, <3>4 DEF Terminate
      <4>2. CASE run[target[c]] = "armed"
        <5>1. run' = [run EXCEPT ![target[c]] = "stopping"]
          BY <4>1, <4>2
        <5>2. target[c] \in Working /\ file' = target[c]
          BY <1>0, <2>1, <4>2 DEF Working, Daemon, FileNames
        <5> QED
          BY <1>0, <2>1, <3>2, <4>1, <4>2, <5>1, <5>2, WorkIsCalm DEF Unwritten, Daemon
      <4>3. CASE run[target[c]] # "armed"
        <5>1. run' = run
          BY <4>1, <4>3 DEF TypeOK
        <5> QED
          BY <1>0, <2>1, <2>2, <3>1, <4>1, <5>1, CommandIsCalm
      <4> QED
        BY <4>2, <4>3
    <3> QED
      BY <3>3, <3>4
  <2> QED
    BY <2>3, <2>4
<1>7. ASSUME NEW c \in Command, StopWait(c) PROVE Calm'
  <2>1. /\ c \in InProgress /\ kind[c] = "stop" /\ pc' = [pc EXCEPT ![c] = "remove"]
        /\ UNCHANGED <<kind, target, run, file, linked>> /\ ~Running
    BY <1>7 DEF StopWait, InProgress
  <2>2. \A r \in Command : run[r] \notin Unwritten
    BY <1>0, <2>1, NoneUnwritten
  <2>3. Working = {}
    BY <1>0, <2>1, <2>2, NotRunning DEF Working
  <2> QED
    BY <1>0, <2>1, <2>2, <2>3, CommandIsCalm
<1>8. ASSUME NEW c \in Command, StopRemove(c) PROVE Calm'
  <2>1. /\ pc[c] = "remove" /\ Working = {} /\ pc' = [pc EXCEPT ![c] = "done"]
        /\ UNCHANGED <<kind, target, run>> /\ file' = NoFile
    BY <1>0, <1>8 DEF StopRemove, RemoveFile, AboutToAct
  <2>2. Working' = {}
    BY <2>1 DEF Working
  <2>3. \A r \in Command : run'[r] \notin Unwritten \cup Daemon
    BY <2>2 DEF Working
  <2>4. InProgress' \subseteq InProgress
    BY <2>1 DEF InProgress, TypeOK
  <2>5. StartsAlone'
    BY <1>0, <2>1, <2>4 DEF StartsAlone
  <2>6. OneWorking' /\ FileNames' /\ StartWaits' /\ AboutToAct'
    BY <2>2, <2>3 DEF OneWorking, FileNames, StartWaits, AboutToAct
  <2>7. NamedIsOver' /\ OpenIsOwn'
    BY <2>1, <2>3 DEF NamedIsOver, OpenIsOwn, Unwritten
  <2> QED
    BY <2>5, <2>6, <2>7 DEF Calm
<1>9. ASSUME NEW r \in Command, UNCHANGED <<pc, kind, target>> PROVE CommandsRest
  BY <1>9 DEF CommandsRest
<1>10. ASSUME NEW r \in Command, SpawnServer(r) \/ Arm(r) \/ ServerExit(r) PROVE Calm'
  <2>1. r \in Working /\ UNCHANGED <<pc, kind, target, file, linked>>
    BY <1>10 DEF SpawnServer, Arm, ServerExit, Working, Unwritten, Daemon
  <2>2. CASE SpawnServer(r)
    <3>1. run[r] = "spawned" /\ run' = [run EXCEPT ![r] = "serving"]
      BY <2>2 DEF SpawnServer
    <3>2. file' # r
      BY <1>0, <2>1, <3>1 DEF NamedIsOver, Daemon
    <3> QED
      BY <1>0, <1>9, <2>1, <3>1, <3>2, WorkIsCalm DEF Unwritten, Daemon
  <2>3. CASE Arm(r) \/ ServerExit(r)
    <3>1. PICK state \in {"armed", "cleaning"} :
            run[r] \in Daemon /\ run' = [run EXCEPT ![r] = state]
      BY <2>3 DEF Arm, ServerExit, Daemon
    <3>2. file' = r
      BY <1>0, <2>1, <3>1 DEF FileNames
    <3>3. state \in Daemon /\ state # "open"
      BY DEF Daemon
    <3> QED
      BY <1>0, <1>9, <2>1, <3>1, <3>2, <3>3, WorkIsCalm
  <2> QED
    BY <1>10, <2>2, <2>3
<1>11. ASSUME NEW r \in Command, OpenFile(r) PROVE Calm'
  <2>1. /\ run[r] = "serving" /\ r \in Working /\ UNCHANGED <<pc, kind, target>>
        /\ run' = [run EXCEPT ![r] = "open"] /\ file' = Torn /\ r \in linked'
    BY <1>11 DEF OpenFile, Working, Unwritten
  <2> QED
    BY <1>0, <1>9, <2>1, WorkIsCalm DEF Unwritten, Daemon
<1>12. ASSUME NEW r \in Command, WriteFile(r) PROVE Calm'
  <2>1. /\ run[r] = "open" /\ r \in Working /\ UNCHANGED <<pc, kind, target>>
        /\ run' = [run EXCEPT ![r] = "written"] /\ file' = r
    BY <1>0, <1>12 DEF WriteFile, Working, Unwritten, OpenIsOwn
  <2> QED
    BY <1>0, <1>9, <2>1, WorkIsCalm DEF Unwritten, Daemon
<1>13. ASSUME NEW r \in Command, MissExit(r) \/ Exit(r) \/ Crash(r) PROVE Calm'
  <2>1. UNCHANGED <<pc, kind, target, file>> /\ Die(r)
    BY <1>13 DEF MissExit, Exit, Crash
  <2> QED
    BY <1>0, <1>9, <2>1, DeathIsCalm
<1>14. ASSUME NEW r \in Command, CleanUp(r) PROVE Calm'
  <2>1. /\ run[r] = "cleaning" /\ r \in Working /\ UNCHANGED <<pc, kind, target>>
        /\ run' = [run EXCEPT ![r] = "removed"] /\ file' = NoFile
    BY <1>14 DEF CleanUp, RemoveFile, Working, Daemon
  <2>2. \A s \in Command : run'[s] \notin Unwritten \cup Daemon
    BY <1>0, <2>1 DEF OneWorking, Working, TypeOK, Unwritten, Daemon
  <2>3. Working' = {}
    BY <2>2 DEF Working
  <2>4. StartsAlone' /\ AboutToAct'
    BY <1>0, <1>9, <2>1, <2>3, RestingCommands
  <2>5. OneWorking' /\ FileNames' /\ StartWaits'
    BY <2>2, <2>3 DEF OneWorking, FileNames, StartWaits
  <2>6. NamedIsOver' /\ OpenIsOwn'
    BY <2>1, <2>2 DEF NamedIsOver, OpenIsOwn, Unwritten
  <2> QED
    BY <2>4, <2>5, <2>6 DEF Calm
<1>15. ASSUME UNCHANGED <<pc, kind, target, run, file, linked>> PROVE Calm'
  BY <1>0, <1>15 DEF Calm, StartsAlone, OneWorking, FileNames, StartWaits, NamedIsOver,
     OpenIsOwn, AboutToAct, InProgress, Working
<1>16. ASSUME NEW r \in Command, EndServer(r, {"up", "told"}) PROVE Calm'
  BY <1>15, <1>16 DEF EndServer
<1>17. CASE UNCHANGED vars
  BY <1>15, <1>17 DEF vars
<1> QED
  BY <1>1, <1>2, <1>3, <1>4, <1>5, <1>6, <1>7, <1>8, <1>10, <1>11, <1>12, <1>13, <1>14,
     <1>16, <1>17 DEF Next, CommandStep, RunnerStep

(* Starts that do not overlap another command leave one daemon at most,    *)
(* and runtime.json names it (startRuntimeDaemon, runRuntimeDaemonRunner). *)
THEOREM OneDaemonAtMost == Spec => []OneDaemon
<1>1. Calm => OneDaemon
  BY DEF Calm, OneDaemon, OneWorking, FileNames
<1> QED
  BY <1>1, CalmInit, CalmStep, TypeCorrect, PTL DEF Spec

(* And a stop that ends then leaves no daemon behind (stopRuntimeDaemon).  *)
LEMMA StopStep == TypeOK /\ Calm /\ [Next]_vars =>
  \A c \in Command :
    kind[c] = "stop" /\ pc[c] # "done" /\ pc'[c] = "done" /\ ~rushed => Working' = {}
<1> SUFFICES ASSUME TypeOK, Calm, [Next]_vars, ~rushed, NEW c \in Command,
                    kind[c] = "stop", pc[c] # "done", pc'[c] = "done"
             PROVE  Working' = {}
  OBVIOUS
<1>0. StartsAlone /\ FileNames /\ StartWaits /\ AboutToAct
  BY DEF Calm
<1>1. StopRemove(c) \/ Kill(c)
  BY DEF Next, vars, Begin, CommandStep, StartStatus, Spawn, StartWait, StopStatus, Kill,
         StopWait, StopRemove, RunnerStep, SpawnServer, OpenFile, WriteFile, Arm, MissExit,
         ServerExit, CleanUp, Exit, EndServer, Crash, TypeOK
<1>2. CASE StopRemove(c)
  BY <1>0, <1>2 DEF StopRemove, AboutToAct, Working
<1>3. CASE Kill(c)
  <2>1. ~Alive(target[c]) /\ UNCHANGED run /\ pc[c] = "kill"
    BY <1>3 DEF Kill, TypeOK
  <2>2. Working \subseteq {target[c]}
    BY <1>0, <2>1 DEF AboutToAct
  <2>3. target[c] \notin Working
    BY <2>1 DEF Alive, Working, Unwritten, Daemon
  <2> QED
    BY <2>1, <2>2, <2>3 DEF Working
<1> QED
  BY <1>1, <1>2, <1>3

THEOREM StopIsThorough == Spec => StopLeavesNothing
<1>1. Spec => [](TypeOK /\ Calm)
  BY CalmInit, CalmStep, TypeCorrect, PTL DEF Spec
<1> QED
  BY <1>1, StopStep, PTL DEF Spec, StopLeavesNothing
==============================================================================
