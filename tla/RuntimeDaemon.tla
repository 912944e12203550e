---------------------------- MODULE RuntimeDaemon ----------------------------
(***************************************************************************)
(* The background server of a repository (src/src/runtime/daemon.ts).      *)
(*                                                                         *)
(* `daemon start` spawns a runner process, the runner spawns the MCP       *)
(* server, writes runtime.json and waits for the server to end; `daemon    *)
(* stop` signals the process runtime.json names.  The file is all that     *)
(* ties them: it is read before it is acted on, truncated before it is     *)
(* written, and removed without a look at whom it names.  Every process    *)
(* may die at any time.                                                    *)
(*                                                                         *)
(* A command c runs once, as a start or a stop; the runner that a start    *)
(* spawns has the name of its command.  getRuntimeDaemonStatus is one step *)
(* (the process is probed right after the file is read), what follows from *)
(* it another.  A pid is not given to an unrelated process.                *)
(***************************************************************************)
EXTENDS Naturals

CONSTANTS
  Command,     \* the start and stop commands
  NoFile,      \* runtime.json does not exist
  Torn         \* runtime.json is empty or cut: no JSON

ASSUME FileAssumption == NoFile \notin Command /\ Torn \notin Command /\ NoFile # Torn

VARIABLES
  pc,          \* pc[c]: the next step of command c
  kind,        \* kind[c]: "start" or "stop"
  target,      \* target[c]: the runner a stop signals
  run,         \* run[c]: the state of the runner of c
  server,      \* server[c]: the MCP server of that runner
  file,        \* runtime.json: NoFile, Torn, or the runner it names
  linked,      \* the runners that hold the present file open for writing
  rushed       \* history: a start overlapped a command, or a wait gave up

vars == <<pc, kind, target, run, server, file, linked, rushed>>

\* Written and not yet past its clean-up, a runner is a daemon.
Unwritten == {"spawned", "serving", "open"}
Daemon    == {"written", "armed", "stopping", "cleaning"}
RunnerState == Unwritten \cup Daemon \cup {"unborn", "removed", "dead"}

Alive(r) == run[r] \notin {"unborn", "dead"}

Init ==
  /\ pc = [c \in Command |-> "new"]
  /\ kind \in [Command -> {"start", "stop"}]
  /\ target = [c \in Command |-> NoFile]
  /\ run = [c \in Command |-> "unborn"]
  /\ server = [c \in Command |-> "none"]
  /\ file = NoFile
  /\ linked = {}
  /\ rushed = FALSE

-----------------------------------------------------------------------------
(* getRuntimeDaemonStatus, and the unconditional removal of the file.      *)
Running == file \in Command /\ Alive(file)

RemoveFile == file' = NoFile /\ linked' = {}

InProgress == {c \in Command : pc[c] \notin {"new", "done"}}

Begin(c) ==
  /\ pc[c] = "new"
  /\ pc' = [pc EXCEPT ![c] = "status"]
  /\ rushed' = (rushed \/ \E d \in InProgress : "start" \in {kind[c], kind[d]})
  /\ UNCHANGED <<kind, target, run, server, file, linked>>

-----------------------------------------------------------------------------
(* startRuntimeDaemon.                                                     *)

\* Mutant: a daemon that already runs is not looked for.
StartStatus_Blind(c) ==
  /\ pc[c] = "status" /\ kind[c] = "start"
  /\ pc' = [pc EXCEPT ![c] = "spawn"]
  /\ UNCHANGED <<kind, target, run, server, file, linked, rushed>>

StartStatus(c) ==
  /\ pc[c] = "status" /\ kind[c] = "start"
  /\ pc' = [pc EXCEPT ![c] = IF Running THEN "done" ELSE "spawn"]
  /\ UNCHANGED <<kind, target, run, server, file, linked, rushed>>

Spawn(c) ==
  /\ pc[c] = "spawn"
  /\ pc' = [pc EXCEPT ![c] = "wait"]
  /\ run' = [run EXCEPT ![c] = "spawned"]
  /\ UNCHANGED <<kind, target, server, file, linked, rushed>>

\* The wait of a start ends when a daemon runs, or after a second and a half.
StartWait(c) ==
  /\ pc[c] = "wait" /\ kind[c] = "start"
  /\ pc' = [pc EXCEPT ![c] = "done"]
  /\ rushed' = (rushed \/ (~Running /\ Alive(c)))
  /\ UNCHANGED <<kind, target, run, server, file, linked>>

-----------------------------------------------------------------------------
(* stopRuntimeDaemon.                                                      *)

\* Mutant: a file that is no JSON is taken for a daemon that runs.
StopStatus_AnyFile(c) ==
  /\ pc[c] = "status" /\ kind[c] = "stop"
  /\ IF file # NoFile
     THEN pc' = [pc EXCEPT ![c] = "kill"] /\ target' = [target EXCEPT ![c] = file]
     ELSE pc' = [pc EXCEPT ![c] = "remove"] /\ UNCHANGED target
  /\ UNCHANGED <<kind, run, server, file, linked, rushed>>

StopStatus(c) ==
  /\ pc[c] = "status" /\ kind[c] = "stop"
  /\ IF Running
     THEN pc' = [pc EXCEPT ![c] = "kill"] /\ target' = [target EXCEPT ![c] = file]
     ELSE pc' = [pc EXCEPT ![c] = "remove"] /\ UNCHANGED target
  /\ UNCHANGED <<kind, run, server, file, linked, rushed>>

\* A process that dies closes the stdin of its server.
Die(r) ==
  /\ run' = [run EXCEPT ![r] = "dead"]
  /\ server' = [server EXCEPT ![r] = IF @ = "up" THEN "told" ELSE @]
  /\ linked' = linked \ {r}

\* Mutant: the handler ends neither the stdin of the server nor the server.
Terminate_KeepsServer(r) ==
  IF run[r] \in {"armed", "stopping", "cleaning", "removed"}
  THEN /\ run' = [run EXCEPT ![r] = IF @ = "armed" THEN "stopping" ELSE @]
       /\ UNCHANGED <<server, linked>>
  ELSE Die(r)

\* SIGTERM: before the runner has its handlers it ends the process at once.
Terminate(r) ==
  IF run[r] \in {"armed", "stopping", "cleaning", "removed"}
  THEN /\ run' = [run EXCEPT ![r] = IF @ = "armed" THEN "stopping" ELSE @]
       /\ server' = [server EXCEPT ![r] = IF @ = "up" THEN "told" ELSE @]
       /\ UNCHANGED linked
  ELSE Die(r)

\* process.kill throws when there is no such process any more.
Kill(c) ==
  /\ pc[c] = "kill"
  /\ IF Alive(target[c])
     THEN Terminate(target[c]) /\ pc' = [pc EXCEPT ![c] = "wait"]
     ELSE UNCHANGED <<run, server, linked>> /\ pc' = [pc EXCEPT ![c] = "done"]
  /\ UNCHANGED <<kind, target, file, rushed>>

\* Mutant: the file is removed without waiting for the daemon to end.
StopWait_Never(c) ==
  /\ pc[c] = "wait" /\ kind[c] = "stop"
  /\ pc' = [pc EXCEPT ![c] = "remove"]
  /\ UNCHANGED <<kind, target, run, server, file, linked, rushed>>

\* The wait of a stop ends when no daemon runs, or after a second and a half.
StopWait(c) ==
  /\ pc[c] = "wait" /\ kind[c] = "stop"
  /\ pc' = [pc EXCEPT ![c] = "remove"]
  /\ rushed' = (rushed \/ Running)
  /\ UNCHANGED <<kind, target, run, server, file, linked>>

StopRemove(c) ==
  /\ pc[c] = "remove"
  /\ pc' = [pc EXCEPT ![c] = "done"]
  /\ RemoveFile
  /\ UNCHANGED <<kind, target, run, server, rushed>>

-----------------------------------------------------------------------------
(* runRuntimeDaemonRunner.                                                 *)
SpawnServer(r) ==
  /\ run[r] = "spawned"
  /\ run' = [run EXCEPT ![r] = "serving"]
  /\ server' = [server EXCEPT ![r] = "up"]
  /\ UNCHANGED <<pc, kind, target, file, linked, rushed>>

OpenFile(r) ==
  /\ run[r] = "serving"
  /\ run' = [run EXCEPT ![r] = "open"]
  /\ file' = Torn
  /\ linked' = linked \cup {r}
  /\ UNCHANGED <<pc, kind, target, server, rushed>>

\* Over what another runner has written meanwhile, the text of r may be the
\* shorter one; into a file that was removed it is lost.
WriteFile(r) ==
  /\ run[r] = "open"
  /\ run' = [run EXCEPT ![r] = "written"]
  /\ file' \in IF r \notin linked THEN {file}
               ELSE IF file = Torn THEN {r} ELSE {r, Torn}
  /\ linked' = linked \ {r}
  /\ UNCHANGED <<pc, kind, target, server, rushed>>

\* The handlers are set after the write: an exit of the server before that is
\* missed, and nothing keeps the runner alive.
Arm(r) ==
  /\ run[r] = "written"
  /\ run' = [run EXCEPT ![r] = "armed"]
  /\ UNCHANGED <<pc, kind, target, server, file, linked, rushed>>

MissExit(r) ==
  /\ run[r] = "written" /\ server[r] = "down"
  /\ Die(r)
  /\ UNCHANGED <<pc, kind, target, file, rushed>>

ServerExit(r) ==
  /\ run[r] \in {"armed", "stopping"} /\ server[r] = "down"
  /\ run' = [run EXCEPT ![r] = "cleaning"]
  /\ UNCHANGED <<pc, kind, target, server, file, linked, rushed>>

CleanUp(r) ==
  /\ run[r] = "cleaning"
  /\ run' = [run EXCEPT ![r] = "removed"]
  /\ RemoveFile
  /\ UNCHANGED <<pc, kind, target, server, rushed>>

Exit(r) ==
  /\ run[r] = "removed"
  /\ Die(r)
  /\ UNCHANGED <<pc, kind, target, file, rushed>>

\* The server ends at the end of its stdin or on a signal, or it crashes.
EndServer(r, states) ==
  /\ server[r] \in states
  /\ server' = [server EXCEPT ![r] = "down"]
  /\ UNCHANGED <<pc, kind, target, run, file, linked, rushed>>

Crash(r) ==
  /\ Alive(r)
  /\ Die(r)
  /\ UNCHANGED <<pc, kind, target, file, rushed>>

CommandStep(c) ==
  \/ StartStatus(c) \/ Spawn(c) \/ StartWait(c)
  \/ StopStatus(c) \/ Kill(c) \/ StopWait(c) \/ StopRemove(c)

RunnerStep(r) ==
  \/ SpawnServer(r) \/ OpenFile(r) \/ WriteFile(r) \/ Arm(r) \/ MissExit(r)
  \/ ServerExit(r) \/ CleanUp(r) \/ Exit(r)

Next ==
  \E c \in Command :
    \/ Begin(c) \/ CommandStep(c) \/ RunnerStep(c)
    \/ EndServer(c, {"up", "told"}) \/ Crash(c)

Spec == Init /\ [][Next]_vars

\* Processes run, and a server ends once it is told to; none has to crash and
\* no command has to be given.
FairSpec ==
  /\ Spec
  /\ \A c \in Command :
       /\ WF_vars(CommandStep(c))
       /\ WF_vars(RunnerStep(c))
       /\ WF_vars(EndServer(c, {"told"}))

-----------------------------------------------------------------------------
\* Types; a stop has a target from its status to its end and a start a runner
\* from its spawn, a runner has a server from its second step, and only runners
\* that are about to write hold a file.
TypeOK ==
  /\ pc \in [Command -> {"new", "status", "spawn", "kill", "wait", "remove", "done"}]
  /\ kind \in [Command -> {"start", "stop"}]
  /\ target \in [Command -> Command \cup {NoFile}]
  /\ run \in [Command -> RunnerState]
  /\ server \in [Command -> {"none", "up", "told", "down"}]
  /\ file \in Command \cup {NoFile, Torn}
  /\ linked \subseteq {r \in Command : run[r] = "open"}
  /\ rushed \in BOOLEAN
  /\ \A c \in Command :
       /\ pc[c] = "spawn" => kind[c] = "start"
       /\ pc[c] \in {"kill", "remove"} => kind[c] = "stop"
       /\ pc[c] = "kill" => target[c] \in Command
       /\ run[c] \in {"unborn", "spawned"} => server[c] = "none"
       /\ kind[c] = "stop" \/ pc[c] \in {"new", "status", "spawn"} => run[c] = "unborn"

Working == {r \in Command : run[r] \in Unwritten \cup Daemon}

\* Starts that do not overlap another command, in a world where no wait runs
\* out of time, leave at most one daemon, and runtime.json names it: a crash
\* at any point, a signal before the handlers are set and an exit that was
\* missed are all survived.
OneDaemon ==
  ~rushed =>
    /\ \A r, s \in Working : r = s
    /\ \A r \in Command : run[r] \in Daemon => file = r

\* Then a stop, whatever it reports, leaves no daemon behind.
StopLeavesNothing ==
  [][\A c \in Command :
       kind[c] = "stop" /\ pc[c] # "done" /\ pc'[c] = "done" /\ ~rushed => Working' = {}]_vars

\* A daemon that is told to stop ends, and no runner leaves its server behind.
ServersEndWithRunners ==
  \A r \in Command :
    run[r] \in {"stopping", "dead"} ~> run[r] = "dead" /\ server[r] \in {"none", "down"}
==============================================================================
