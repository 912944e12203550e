---------------------------- MODULE FileWatcher ----------------------------
(***************************************************************************)
(* `vtrace watch` (src/runtime/fileWatcher.ts) next to an explicit         *)
(* `vtrace index`.  The watcher polls the sources, debounces what differs, *)
(* and records it as observed changes in .vtrace/state.json; with          *)
(* --auto-reindex a coordinator then runs the reindex.  Flushes, the       *)
(* coordinator and the explicit run each read state.json, compute and      *)
(* write it back with no lock between the two; writeFile truncates first.  *)
(* The index lock is never waited for: whoever finds it taken fails.       *)
(*                                                                         *)
(* A reindex is abstracted to what module IndexLifecycle shows of it: it   *)
(* scans, commits what it read, and captures the identity of the worktree  *)
(* in the manifest and its fingerprint in state.json afterwards.           *)
(***************************************************************************)
EXTENDS FiniteSets, Naturals

CONSTANTS Files,      \* source paths, numbers for their order
          MaxObserved,\* MAX_OBSERVED_CHANGED_FILES
          Flushes,    \* bound: onFlush calls that may be in progress at once
          Modes,      \* subset of BOOLEAN: is --auto-reindex given?
          Torn,       \* state.json truncated, or written by two at once
          MaxEvents   \* bound: edits, explicit runs, faults and restarts

ASSUME WatcherAssumption ==
  /\ Files \subseteq Nat /\ IsFiniteSet(Files)
  /\ MaxObserved \in Nat \ {0}
  /\ Modes \subseteq BOOLEAN
  /\ {"co", "cli"} \cap Flushes = {}
  /\ MaxEvents \in Nat

VARIABLES disk,      \* the sources: which edit left a file as it is, or 0
          edits,     \* how often they were edited: sizes and mtimes
          index,     \* the contents that the graph derives from
          identity,  \* of the worktree, in .vtrace/index-meta.json
          state,     \* .vtrace/state.json
          lock,      \* who holds the index lock
          auto,      \* the mode of the watcher
          alive,     \* does the watcher run?
          polled,    \* previousFiles, the result of the last poll
          pending,   \* changed paths whose debounce timer runs
          job,       \* what each task is at
          rerun,     \* rerunRequested of the coordinator
          events,    \* history
          budget     \* edits, explicit runs, faults and restarts so far

sources == <<disk, edits>>
watcher == <<auto, alive, polled, pending>>
stored  == <<index, identity, state, lock>>
history == <<events, budget>>
vars == <<sources, stored, watcher, job, rerun, history>>

Indexers == {"co", "cli"}   \* the coordinator's loop, an explicit `vtrace index`
Tasks    == Indexers \cup Flushes

Sources == [Files -> 0..MaxEvents]

State == [observed: SUBSET Files, reindex: {"idle", "pending_changes", "reindexing",
                                            "stale_after_failed_reindex"},
          error: BOOLEAN, fingerprint: 0..MaxEvents]

ASSUME TornAssumption == Torn \notin State

Fresh == [observed |-> {}, reindex |-> "idle", error |-> FALSE, fingerprint |-> 0]

Off == [at |-> "off", update |-> "none", copy |-> Torn, files |-> {}, scanned |-> Torn]

Job == [at: {"off", "read", "open", "write", "handle", "lock", "scan", "commit", "meta"},
        update: {"none", "observe", "started", "refresh", "succeeded", "failed"},
        copy: State \cup {Torn}, files: SUBSET Files, scanned: Sources \cup {Torn}]

Events == {"fault", "stopped", "tornRead", "tornWrite", "unseenByCli", "unseenByCo", "busy",
           "recurrence"}

\* Types; the lock is held by an indexer that is at work.
TypeOK ==
  /\ disk \in Sources /\ index \in Sources
  /\ identity \in Sources /\ polled \in Sources
  /\ edits \in 0..MaxEvents /\ budget \in 0..MaxEvents
  /\ state \in State \cup {Torn}
  /\ lock \in Indexers \cup {"free"}
  /\ auto \in Modes /\ {alive, rerun} \subseteq BOOLEAN
  /\ pending \subseteq Files
  /\ job \in [Tasks -> Job]
  /\ events \subseteq Events
  /\ lock # "free" => job[lock].at # "off"

Init ==
  /\ disk = [f \in Files |-> 0]
  /\ edits = 0
  /\ index = disk /\ identity = disk /\ polled = disk
  /\ state = Fresh /\ lock = "free"
  /\ auto \in Modes /\ alive = TRUE /\ pending = {}
  /\ job = [t \in Tasks |-> Off] /\ rerun = FALSE
  /\ events = {} /\ budget = 0

Spend == budget < MaxEvents /\ budget' = budget + 1

\* Task t goes on at step, for update; what it had read is of no more use.
Goto(t, step, update) == [job EXCEPT ![t] = [Off EXCEPT !.at = step, !.update = update]]

Running == job["co"].at # "off"

----------------------------------------------------------------------------
(* startRepoFileWatcher and createDebouncedFileChangeRecorder *)

\* The poll sees some of the changed files, those edited before it came to them.
Poll ==
  /\ alive
  /\ \E seen \in SUBSET {f \in Files : disk[f] # polled[f]} :
       /\ seen # {}
       /\ polled' = [f \in Files |-> IF f \in seen THEN disk[f] ELSE polled[f]]
       /\ pending' = pending \cup seen
  /\ UNCHANGED <<sources, stored, auto, alive, job, rerun, history>>

\* The timer fires; onFlush is not awaited, but the debounce delay is taken
\* to be longer than another flush takes to write state.json.  A call has no
\* name: which of the free ones it gets is all the same.
Flush(w) ==
  /\ alive /\ pending # {}
  /\ job[w].at = "off"
  /\ w = CHOOSE u \in Flushes : job[u].at = "off"
  /\ \A u \in Flushes : job[u].at \in {"off", "handle"}
  /\ job' = [job EXCEPT ![w] = [Off EXCEPT !.at = "read", !.update = "observe", !.files = pending]]
  /\ pending' = {}
  /\ UNCHANGED <<sources, stored, auto, alive, polled, rerun, history>>

\* Mutant: a call during a run is dropped.
Handle_NoRerun(w) ==
  /\ job[w].at = "handle"
  /\ job' = IF auto /\ ~Running
            THEN [job EXCEPT ![w] = Off, !["co"] = [Off EXCEPT !.at = "read", !.update = "started"]]
            ELSE [job EXCEPT ![w] = Off]
  /\ UNCHANGED <<sources, stored, watcher, rerun, history>>

\* handleObservedChanges of the coordinator
Handle(w) ==
  /\ job[w].at = "handle"
  /\ IF auto /\ ~Running
     THEN /\ job' = [job EXCEPT ![w] = Off, !["co"] = [Off EXCEPT !.at = "read", !.update = "started"]]
          /\ rerun' = FALSE
     ELSE /\ job' = [job EXCEPT ![w] = Off]
          /\ rerun' = (rerun \/ auto)
  /\ UNCHANGED <<sources, stored, watcher, history>>

----------------------------------------------------------------------------
(* Reading, computing and writing state.json: recordObservedFileChanges,   *)
(* updateWatcherState and refreshRepoLocalStateAfterIndex                  *)

\* The first paths of a set, as many as are listed.
First(S) == {f \in S : Cardinality({g \in S : g < f}) < MaxObserved}

\* Mutant: what was observed before is forgotten.
Observe_Replaces(s, files) ==
  [s EXCEPT !.observed = First(files),
            !.reindex = IF @ = "reindexing" THEN @ ELSE "pending_changes"]

\* recordObservedFileChanges: what does not fit into the list is counted and
\* not kept.  Nothing ever sets the reindex_failed it tests for.
Observe(s, files) ==
  [s EXCEPT !.observed = First(@ \cup files),
            !.reindex = IF @ = "reindexing" THEN @ ELSE "pending_changes"]

Updated(t) ==
  LET s == job[t].copy IN
  CASE job[t].update = "observe"   -> Observe(s, job[t].files)
    [] job[t].update = "started"   -> [s EXCEPT !.reindex = "reindexing", !.error = FALSE]
    [] job[t].update = "failed"    -> [s EXCEPT !.reindex = "stale_after_failed_reindex", !.error = TRUE]
    [] job[t].update = "succeeded" -> [Fresh EXCEPT !.fingerprint = s.fingerprint]
    [] job[t].update = "refresh"   -> [Fresh EXCEPT !.fingerprint = edits]

Read(t) ==
  /\ job[t].at = "read" /\ state # Torn
  /\ job' = [job EXCEPT ![t].at = "open", ![t].copy = state]
  /\ UNCHANGED <<sources, stored, watcher, rerun, history>>

(* A torn file does not parse.  safeReadRepoLocalState ignores that and    *)
(* markAutoReindexSucceeded has a catch.                                   *)
ReadTornCaught(t) ==
  /\ job[t].at = "read" /\ state = Torn
  /\ \/ job[t].update = "refresh" /\ job' = [job EXCEPT ![t].at = "open", ![t].copy = Fresh]
     \/ job[t].update = "succeeded" /\ job' = Goto(t, "read", "failed")
  /\ events' = events \cup {"tornRead"}
  /\ UNCHANGED <<sources, stored, watcher, rerun, budget>>

\* Mutant: the lock of the process that ended is never recovered.
Stopped_LeavesLock ==
  /\ alive' = FALSE /\ pending' = {} /\ rerun' = FALSE
  /\ job' = [t \in Tasks |-> IF t = "cli" THEN job[t] ELSE Off]
  /\ UNCHANGED <<auto, polled, lock>>

\* The next run recovers the lock of a dead process (WorktreeIndexLock).
Stopped ==
  /\ alive' = FALSE /\ pending' = {} /\ rerun' = FALSE
  /\ job' = [t \in Tasks |-> IF t = "cli" THEN job[t] ELSE Off]
  /\ lock' = IF lock = "co" THEN "free" ELSE lock
  /\ UNCHANGED <<auto, polled>>

\* Elsewhere the promise is rejected and nobody handles it: the call is
\* lost, or the runtime ends the process.
ReadTornThrows(t) ==
  /\ job[t].at = "read" /\ state = Torn
  /\ job[t].update \in {"observe", "started", "failed"}
  /\ events' = events \cup {"tornRead"}
  /\ \/ job' = [job EXCEPT ![t] = Off] /\ UNCHANGED <<watcher, lock, rerun>>
     \/ Stopped
  /\ UNCHANGED <<sources, index, identity, state, budget>>

Open(t) ==
  /\ job[t].at = "open"
  /\ job' = [job EXCEPT ![t].at = "write", ![t].copy = Updated(t), ![t].files = {}]
  /\ state' = Torn
  /\ UNCHANGED <<sources, index, identity, lock, watcher, rerun, history>>

AfterWrite(t) ==
  CASE job[t].update = "observe" -> job' = Goto(t, "handle", "none") /\ UNCHANGED <<lock, rerun>>
    [] job[t].update = "started" -> job' = Goto(t, "lock", "none") /\ UNCHANGED <<lock, rerun>>
    [] job[t].update = "refresh" ->
         /\ job' = IF t = "cli" THEN [job EXCEPT ![t] = Off] ELSE Goto(t, "read", "succeeded")
         /\ lock' = "free"
         /\ UNCHANGED rerun
    [] job[t].update = "succeeded" ->
         /\ job' = IF rerun THEN Goto(t, "read", "started") ELSE [job EXCEPT ![t] = Off]
         /\ rerun' = FALSE
         /\ UNCHANGED lock
    \* a request to run again is dropped
    [] job[t].update = "failed" ->
         job' = [job EXCEPT ![t] = Off] /\ rerun' = FALSE /\ UNCHANGED lock

\* Who writes into a file that another has written since the truncation
\* may leave the tail of the longer text.
Write(t) ==
  /\ job[t].at = "write"
  /\ state' \in IF state = Torn THEN {job[t].copy} ELSE {job[t].copy, Torn}
  /\ events' = IF state' = Torn THEN events \cup {"tornWrite"} ELSE events
  /\ AfterWrite(t)
  /\ UNCHANGED <<sources, index, identity, watcher, budget>>

----------------------------------------------------------------------------
(* reindexRepoAndRefreshState, called by the coordinator or by the user *)

BeginIndex ==
  /\ job["cli"].at = "off" /\ Spend
  /\ job' = Goto("cli", "lock", "none")
  /\ UNCHANGED <<sources, stored, watcher, rerun, events>>

Failed(t) == IF t = "cli" THEN [job EXCEPT ![t] = Off] ELSE Goto(t, "read", "failed")

AcquireLock(t) ==
  /\ job[t].at = "lock"
  /\ IF lock = "free"
     THEN lock' = t /\ job' = Goto(t, "scan", "none") /\ UNCHANGED events
     ELSE job' = Failed(t) /\ events' = events \cup {"busy"} /\ UNCHANGED lock
  /\ UNCHANGED <<sources, index, identity, state, watcher, rerun, budget>>

Scan(t) ==
  /\ job[t].at = "scan"
  /\ job' = [job EXCEPT ![t].at = "commit", ![t].scanned = disk]
  /\ UNCHANGED <<sources, stored, watcher, rerun, history>>

\* The scan comes to some files after their edit.
Commit(t) ==
  /\ job[t].at = "commit"
  /\ \E late \in SUBSET Files :
       index' = [f \in Files |-> IF f \in late THEN disk[f] ELSE job[t].scanned[f]]
  /\ job' = [job EXCEPT ![t].at = "meta", ![t].scanned = Torn]
  /\ UNCHANGED <<sources, identity, state, lock, watcher, rerun, history>>

WriteMeta(t) ==
  /\ job[t].at = "meta"
  /\ identity' = disk
  /\ job' = Goto(t, "read", "refresh")
  /\ UNCHANGED <<sources, index, state, lock, watcher, rerun, history>>

ReindexThrows(t) ==
  /\ job[t].at \in {"scan", "commit", "meta"} /\ Spend
  /\ job' = Failed(t)
  /\ lock' = "free"
  /\ events' = events \cup {"fault"}
  /\ UNCHANGED <<sources, index, identity, state, watcher, rerun>>

----------------------------------------------------------------------------
(* The world around *)

\* SIGINT, or a crash: what was observed and not yet written is gone.
Stop ==
  /\ alive /\ Spend
  /\ Stopped
  /\ events' = events \cup {"stopped"}
  /\ UNCHANGED <<sources, index, identity, state>>

Restart ==
  /\ ~alive /\ Spend
  /\ alive' = TRUE
  /\ polled' = disk
  /\ auto' \in Modes
  /\ UNCHANGED <<sources, stored, pending, job, rerun, events>>

Edit(f, c) ==
  /\ Spend
  /\ disk' = [disk EXCEPT ![f] = c]
  /\ edits' = edits + 1
  /\ UNCHANGED <<stored, watcher, job, rerun>>

\* Past the start of its scan a run may not see an edit.
Unseen == {IF t = "cli" THEN "unseenByCli" ELSE "unseenByCo" :
             t \in {u \in Indexers : lock = u /\ job[u].at # "scan"}}

Save(f) == Edit(f, edits + 1) /\ events' = events \cup Unseen

Revert(f) == disk[f] # 0 /\ Edit(f, 0) /\ events' = events \cup Unseen \cup {"recurrence"}

Step(t) ==
  \/ Read(t) \/ ReadTornCaught(t) \/ ReadTornThrows(t) \/ Open(t) \/ Write(t)

Reindex(t) == AcquireLock(t) \/ Scan(t) \/ Commit(t) \/ WriteMeta(t)

Work ==
  \/ \E t \in Tasks : Step(t)
  \/ \E t \in Indexers : Reindex(t)
  \/ \E w \in Flushes : Flush(w) \/ Handle(w)
  \/ Poll

World ==
  \/ BeginIndex \/ Stop \/ Restart
  \/ \E t \in Indexers : ReindexThrows(t)
  \/ \E f \in Files : Save(f) \/ Revert(f)

Next == Work \/ World

Spec == Init /\ [][Next]_vars

\* Timers fire, promises settle and a run goes on, unless something dies.
FairSpec == Spec /\ WF_vars(Work)

----------------------------------------------------------------------------
(* Properties *)

Quiet == polled = disk /\ pending = {} /\ \A t \in Tasks : job[t].at = "off"

Outdated == {f \in Files : index[f] # disk[f]}

(* inspectIndexFreshness says "fresh": nothing observed, the fingerprint   *)
(* of state.json is current, and so is the identity in the manifest.       *)
ClaimedFresh ==
  /\ state # Torn
  /\ state.observed = {} /\ state.fingerprint = edits
  /\ identity = disk

(* When everything has settled, an index that is called fresh is up to     *)
(* date, unless an explicit run did not see an edit, or a run of the       *)
(* coordinator did not see one and something kept it from running again:   *)
(* a failure, a busy lock, a torn state.json, the end of the watcher, or   *)
(* an earlier content that came back between two polls.                    *)
FreshIsUpToDate ==
  Quiet /\ ClaimedFresh =>
    \/ Outdated = {}
    \/ "unseenByCli" \in events
    \/ /\ "unseenByCo" \in events
       /\ events \cap {"fault", "busy", "tornRead", "tornWrite", "stopped", "recurrence"} # {}

(* With --auto-reindex an index is left behind only after a failure, and   *)
(* the failure is still on record: no request to run again gets lost       *)
(* without a trace, and no other write of state.json erases the error.     *)
OnlyAShownFailureStops ==
  Quiet /\ auto /\ Outdated # {} =>
    \/ state # Torn /\ state.error
    \/ events \cap {"unseenByCli", "tornRead", "tornWrite", "stopped", "recurrence"} # {}

(* Without it every outdated file is listed as changed, unless the list is *)
(* full, whatever explicit runs, polls and flushes read and wrote          *)
(* state.json in between, unless an explicit run did not see an edit.      *)
Lists(s, f) == f \in s.observed \/ Cardinality(s.observed) >= MaxObserved

OutdatedFilesAreListed ==
  Quiet /\ ~auto =>
    \/ state # Torn /\ \A f \in Outdated : Lists(state, f)
    \/ events \cap {"unseenByCli", "tornRead", "tornWrite", "stopped", "recurrence"} # {}

(* With --auto-reindex the index catches up with every edit, also one made *)
(* while the reindex for an earlier one is running.                        *)
CatchesUp ==
  \/ <>[](index = disk)
  \/ <>(~auto \/ ~(events \subseteq {"unseenByCli", "unseenByCo"}))

----------------------------------------------------------------------------
(* A statement of the documentation that the code does not keep *)

(* What the running watcher saw change is reported until it is indexed:    *)
(* an explicit run that scanned before the edit clears the report.         *)
ChangesStayReported ==
  alive /\ events \subseteq {"unseenByCli"} /\ Quiet /\ Outdated # {} => ~ClaimedFresh
=============================================================================
