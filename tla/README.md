# vtrace: TLA+ models, checks and proofs

vtrace indexes a source repository into SQLite and answers questions of coding
agents from that index. Parsing, ranking and rendering are pure functions over
text; what is hard to get right, and hard to test, is everything around the
index: who may write it, what a run that is interrupted or overtaken by an edit
leaves behind, and whether the program notices that what it would answer from
is no longer what the files say. That is what these modules model.

Paths below are relative to the repository; the program is under `src/`.

## The system

### Components

| Component | State it keeps | Operations | What makes it correct | Modelled |
|---|---|---|---|---|
| Worktree index lock, `indexer/worktreeIndexLock.ts` | `.vtrace/index.lock/owner.json` | claim, wait, recover a stale lock, release, refuse | one indexing operation per worktree; no lock outlives its owner's attempt; a stale lock does not block | `WorktreeIndexLock`, `IndexMutex` |
| Indexer, `indexer/`, `runtime/reindexRepo.ts`, `setup/initRepo.ts` | graph tables in `.vtrace/index.sqlite`; manifest `.vtrace/index-meta.json`; parse cache and snapshot registry under the git common directory, shared by the worktrees | `init`, `index` (automatic, full), plan, parse, commit, validate, retry | an index declared ready describes the files; shared stores stay trustworthy; a run ends, and reindexing repairs every state | `IndexLifecycle` |
| File watcher, auto-reindex, freshness, `runtime/fileWatcher.ts`, `runtime/indexFreshness.ts` | `.vtrace/state.json`; timers and flags in memory | poll, debounce, record, reindex, clear | a change that was seen is reported or indexed; the auto-reindex catches up | `FileWatcher` |
| Runtime daemon, `runtime/daemon.ts` | `.vtrace/runtime.json`, a detached process | start, stop, status | at most one daemon, and the one that runs is named by the file; a stop leaves none | `RuntimeDaemon` |
| Deferred references, `runPipeline/deferredVexpStore.ts`, `session/repositories/deferredVexpRefsRepository.ts` | an in-memory FIFO store; a table and its tombstones | publish, resolve, expire, clean up | a reference that was answered for stays resolved or expired, and does not become unknown; the table stays bounded | `DeferredRefs` |
| Session store, legacy migration, `session/` | `.vtrace/session.sqlite` | open, migrate old tables: copy, mark, drop | a crash between two steps neither loses nor revives a row | `LegacyMigration` |
| Observations and sessions, `observations/` | sessions, observations, links | record, consolidate, compress | no observation is forgotten; a compressed session has its summary; an idle one gets it | `SessionCompression` |
| Graph traversal, binding closure, `graph/`, `indexer/incrementalIndex.ts` | none | bounded breadth-first search | terminates, is complete within its bounds and says when it was cut | no: see "Not modelled" |
| Parsers, `parsers/` | none | extract symbols and edges of a file | a function of the content | no: text |
| Retrieval, intent, impact, capsules, run pipeline, logic flow, `retrieval/`, `intent/`, `impact/`, `capsule*/`, `runPipeline/`, `logicFlow/` | none (read the graph) | search, rank, render under a budget | quality of answers | no: pure, and mostly text |
| MCP server, `mcp/` | buffer, transport and drain flags of a session | receive, serve one by one, end | every request is answered once, in order, in the client's transport | `McpSession`, `RequestService`; the tools are left out |
| Command line, `cli/` | none of its own | parse arguments, dispatch | reaches the operations above | no: dispatch |
| Database layer, `db/` | SQLite | open, schema, transactions | transactions are atomic | assumed |
| Workspaces, worktree identity, `workspace/`, `access/`, `indexer/worktreeIdentity.ts` | workspace configuration | read-only federation | | no: configuration |
| Setup, diagnostics, `setup/`, `runtime/status.ts`, `runtime/setupFlow.ts` | configuration files, `state.json` | write once, report | | where they index |
| Documents, handoff, product context, rules, memory, metrics, adapters, validation, `benchmarks/`, `scripts/`, `slides/`, `fixtures/`, `vscode-extension/` | single rows or none | single calls | | no |

### How they interact

* `vtrace index`, the MCP tool that indexes and the watcher's auto-reindex all
  call `reindexRepoAndRefreshState`; `vtrace init` (and `vtrace setup`) call
  `initRepo`. All of them run under `withWorktreeIndexLock`. Only MCP requests
  may wait for it; the watcher and the command line are refused at once.
* A run reads the manifest of its worktree, or a snapshot that a *sibling*
  worktree registered, and plans from it; it takes parse results from a cache
  that all worktrees share; it commits the graph in one transaction and writes
  manifest, registry and `state.json` afterwards, one after the other.
* Readiness (may a tool answer from the index?) is judged from the manifest
  alone: its identity must be the one of the worktree now. Freshness (what
  `status` reports) also looks at `state.json`: observed changes and a
  fingerprint of the sources.
* The watcher, its auto-reindex and an explicit run all read, change and write
  `state.json`, and nothing orders them: the index lock covers only the last
  step of a run, not the watcher.
* An MCP session reads requests from stdin and awaits one tool call at a time.
  The runner of the daemon is the client of such a session: it holds the
  server's stdin open, and the server ends when that closes.
* `run_pipeline` publishes references in the store of its process and then in
  the database; `expand_vexp_ref`, in this or another process, asks both.
* The end of a reindex compresses idle sessions, the MCP tools go on capturing
  into them, and `compress-sessions` may be given at the same time.
* A reindex begins by draining the product tables of an old index into
  `session.sqlite`, which all indexes of a directory share; whatever goes wrong
  there is swallowed, and the next reindex drains again.

### What is hard

Edits fall between the scan, the read, the commit and the capture of the
identity. A process may die between any two of commit, manifest, registry and
`state.json`, or inside a write that truncates first. Snapshots and cache
entries of one worktree are used in another, over a graph they do not describe.
A lock is judged in one step and removed in a later one. Requests to reindex
arrive while a reindex runs, and requests of a client while a tool call is
awaited. The daemon and those who start and stop it have nothing in common but a
file that is truncated before it is written. Operations on `session.sqlite` are
several commits, between which other processes come. `PROJECT.json` lists each hazard at the line where
it bites, with the properties that would catch it going wrong.

## Modules

### `IndexMutex` and `WorktreeIndexLock`

`IndexMutex` is what the lock promises: one claimant at a time inside the
operation, until somebody begins to clear somebody's lock; from then on nothing
is promised. That is weaker than mutual exclusion on purpose; see "Findings".

`WorktreeIndexLock` has one *claimant* per call of `withWorktreeIndexLock`, and
several may share a process (two MCP requests) and so a pid. `dir` and `owner`
are the directory and the text of `owner.json`; `pc[c]` is the await at which
the call stands. Every system call is an action: `Mkdir`; `OpenOwner` and
`WriteOwner` (create, then fill `owner.json`: in between it does not parse);
`ReadOwner` and `ClassifyRecoverable`/`Refuse`/`SleepAndRetry` (read, then
probe the pid); `RecoverFile`, `RecoverDir` and `ReleaseFile`, `ReleaseDir`
(a recursive `rm` unlinks and then removes, and starts again when a file has
appeared). `Crash` stops every claimant of a process, `ReusePid` gives its
number to an unrelated one, `WriteFails` is any other error. `Init` allows any
lock that somebody may have left. Left out: errors of `rm`, and the
clock: the deadline passes at any moment.

### `IndexLifecycle`

One worktree and the stores it shares with a sibling. `disk` is the worktree,
`rows` the files of the graph with the hash they are stored under and the
content they *derive from*, which differ exactly when the program is deceived.
`meta`, `registry` and `cache` are the manifest, the registered snapshots and
the parse cache. A run (`pc`, `job`, `scanned`, `content`, `todo`, `outcome`)
goes through `BeginReindex` or `BeginInit`, `ScanFile` (file by file), `ReadFile`
or `ReadFails` (file by file, later), one of `PlanNoop`, `PlanFull`,
`PlanBodiesOnly`, `PlanBoundedClosure`, `PlanRebuild`, then `WriteParseCache`,
`Commit` (or `RetryFull`, `ValidationThrown` when the validation fails),
`WriteMeta` and `WriteRegistry`. `Crash`, `Save`, `Remove` and `DeleteVtrace`
may fall between any two.

Data is abstracted to what the plans compare. A content stands for its hash;
`Signatures[c]` and `Bindings[c]` are what the semantic and the binding context
hashes digest, so that the choice between the incremental plans is the code's;
a file is in `Lightweight` if its language is quick to parse, which makes a large
change a rebuild (`LargeChange`). Of the three things `validateGraph` looks for,
the number of files is compared as in the code. Edges and retrieval records
without their symbols come from two sources. The result of a file may be at fault by
itself (`Broken`): then no refresh can commit it. Or an edge may join a file that
is rewritten and one that is kept, whose rows derive from another content
than the results do (`MayDangle`): that is for a full refresh to undo. A query
of the validation may also fail (`Spend` in `ValidationFails`).
Not in the model: symbols and edges themselves (and with them the derivation of the
binding closure, which may here be *any* set of unmodified files, and whether an
edge that may dangle does); a repository outside git, where the identity of a
worktree has neither a HEAD nor a fingerprint of its contents; the
preference of the registry for records of the same HEAD; fingerprints of parser
and configuration, which are fixed, so that every snapshot is compatible;
languages without a parser; the legacy drain, anti-pattern detection, access
paths and session compression at the end of a run, which touch other tables.
The lock is taken to be exclusive here.

### `FileWatcher`

`vtrace watch` next to an explicit `vtrace index`. A file's content is the
number of the edit that made it (0 at first, and again after `Revert`). The
poll, the debounce timer and its flushes, the coordinator's loop (`"co"`) and
the explicit run (`"cli"`) are tasks with a program counter; what they do to
`state.json` is three steps, `Read`, `Open` (truncate) and `Write`, for one of
the five updates that `Updated` computes from the copy read. A reader that
finds the file truncated is `ReadTornCaught` or `ReadTornThrows`: with nobody
handling the rejected promise either the call or the process is lost. A reindex
is reduced to what `IndexLifecycle` shows of it: `Scan` and `Commit` (which may
see late content of any file), `WriteMeta` and the refresh of `state.json`, in
that order, under a lock that refuses at once.

Assumed: another flush is done with `state.json` before the debounce delay is over
(`Flush`), polls do not overlap, and the next run recovers the lock of a dead
process (`Stopped`), which is `StaleLockDoesNotWedge` of the lock. Left out:
anti-pattern detection, event times, and how many files the list had no room for.
The list itself is cut as in the code, the first `MaxObserved` files in
the order of their paths (`First`; `MAX_OBSERVED_CHANGED_FILES` is 20).

### `LegacyMigration`

The drain of an index made before product rows had a database of their own.
`tables[i]` says whether index `i` still has its legacy tables, `session` which
of their rows the session store has, `completed` and `source` are the two rows
of the marker. `BeginDrain`, `Copy`, `MarkCompleted`, `MarkSource`, `Drop` are
the four commits and the question before them. `Interrupted` ends a drain before
its next commit: a crash, or an error that `drainLegacySessionState` swallows.
`ProductDeletes` is any deletion from the session store, `ProductTakesKey` and
`ProductFreesKey` a newer observation under the dedupe key of a legacy one; they
come from other connections, at any time. A row stands for a legacy row with the
rows linked to it. `INSERT OR IGNORE` skips an observation whose key is taken
(`Ignored`): with links (`Linked`) the deferred foreign key fails the commit
(`CopyConflicts`), without any the drain goes on and the row is given up
(`GivenUp`). The worktree lock serialises the drains.

The other UNIQUE keys (the session of a summary, the repository and signature
of a rule) behave as a dedupe key without links does. Left out: columns that only
one of the two schemas has, rows that the product writes under the primary key of
a legacy row, and rows skipped for a NOT NULL or CHECK constraint.

### `RequestService` and `McpSession`

`RequestService` is what a client may count on: its messages are served one
after the other in the order they came, a message goes unserved only behind one
that cannot be read, and the service ends with nothing left to serve, unless it
fails.

`McpSession` is `serveMcpStdioSession`. A message is two pieces, of which the
first holds its header; chunks (`OnData`) bring any number of pieces, and the
buffer is what lies between `consumed` and `arrived`. `mode` is
`transportMode`, `draining` and `redrain` are the two flags, `microtask` the
drain that `finally` queues. There is room for several drains (`pc`, `cur`),
and it is a property that one at most is at work. `Read`, `ReadHeaderAsLine`,
`FramingError` and `RunDry` are the four ways through the loop of `drainBuffer`,
`CallEnds` and `CallThrows` the ends of the only await that lasts; `OnEnd` and
`OnError` are the listeners. Messages are plain requests, notifications, tool
calls, blank lines, bad JSON and bad frames. Contents are left out. Reading the
code for it shows that `redrainRequested` never matters inside the loop (the
loop looks at the buffer again anyway), and that a framed client whose *first*
frame is broken is answered in lines and may be misread for ever.

### `RuntimeDaemon`

Commands `daemon start` and `daemon stop`, each with the runner it may spawn and
the runner's server. `file` is `runtime.json`: absent, torn, or the runner it
names. Opening it (`OpenFile`) truncates, writing (`WriteFile`) fills, and
`linked` keeps who writes into the file that is there, as one that was removed
meanwhile swallows the text. `StartStatus`, `Spawn`, `StartWait`, `StopStatus`, `Kill`,
`StopWait`, `StopRemove` are the steps of a command; `SpawnServer` to `Exit` those of
the runner, whose handlers come after its write (`Arm`): before, a signal ends
it at once, and an exit of its server is missed (`MissExit`). `Crash` kills any
runner, `EndServer` any server. `rushed` is history: a start overlapped another
command, or a wait of a second and a half gave up. Probing the pid is one step
with reading the file, and a pid is not given to an unrelated process.

### `SessionCompression`

Sessions with their passive observations, numbered as they are captured: `raw`
are those in the store, `folded` those the consolidated observation counts.
`Begin` selects the sessions idle longest; a visit is `Look`, `Note`,
`Summarise`, `Group`, `Fold`, `Mark`, one commit each; `CutShort` ends a sweep
anywhere, and `Capture` comes in between. As in the code, storing *any*
observation makes a session active again (`Activate`), those of the sweep
included. What `Note` and `Fold` store links symbols of the session, and a reindex
replaces the symbols (`IndexAgain`, `gone`): one that is not found ends the sweep with
nothing stored (`SymbolNotFound`), at `Note` each time anew. The passive observations
of a session form one group (one signature).

### `DeferredRefs`

`entries` and `expired` are the store of a process, `row` and `tomb` the table
and its tombstones with their times. Every SQL statement of a persist is a
step: `Upsert`, `DeleteTombstone`, `SelectOverflow`, then `DeleteRow` and `Bury` for
each row over the limit, `TrimTombstones`. Any of them may fail with the process
alive (`Fails`: a busy database, a full disk), which ends that persist between
two statements as a crash does. `Resolution` is what
`expand_vexp_ref` answers. No caller passes `expiresAtMs`, so expiry by age is
left out. Rows of one millisecond are ordered by hash, as in the query; the
limits are those of the database, which all processes share.

## Runs

| Run | Shows | Instance |
|---|---|---|
| `lock` | `OnlyRecoveryBreaksExclusion`, `OwnerHasDirectory`, `NoOrphanLock`, `AttemptEnds`, `StaleLockDoesNotWedge`, and that the lock implements `IndexMutex` | three claimants, the first two in one process |
| `index_safety` | `ReadyIsHonest`, `ReportsOnlyMaterialized`, `CacheIsContentAddressed` | two files, three contents of which one does not parse, a sibling that was or was not indexed, three edits or faults |
| `index_liveness` | `OnlyBrokenResultsThrow`; `RunEnds`, `Converges` under fairness | two files, contents that differ in a body or in a binding, one whose result is broken, two edits or faults |
| `watcher` | `FreshIsUpToDate`, `OnlyAShownFailureStops`, `OutdatedFilesAreListed`, `CatchesUp` | three files, a list of two, one flush at a time, three edits, runs, faults or restarts, with and without auto-reindex |
| `migration` | `LostInTwoWays`, `RecordedIsFinal`, `DrainedUnlessKeysAreTaken` | three indexes in one directory, four rows, two of which have dedupe keys, and one of these links; nothing is bounded |
| `session` | `AnsweredInOrder`, `InTheClientsTransport`, `EveryRequestIsAnswered`, `EndOfInputEnds`, and that the session implements `RequestService` | four messages of any kinds, in either transport, cut anywhere |
| `daemon` | `OneDaemon`, `StopLeavesNothing`, `ServersEndWithRunners` | three commands, each a start or a stop |
| `compression` | `NothingForgotten`, `SummarisedIsCompressed`, `IdleIsSummarised` | two sessions, two sweeps at once, one of them with room for one session, one visit cut short, symbols of one session that go and come back |
| `deferred` | `RecordsAreBounded`, `UnknownOnlyInFiveWays` | three hashes, two processes, every capacity 1, two cuts (crashes or failed statements), two milliseconds |
| `lock_exclusion`, `migration_lost`, `idle_stuck` | the three findings | the instances of `lock`, `migration`, and one session with two sweeps |

Every passing run but `index_liveness` also checks the `TypeOK` of its module.

**Bounds.** `MaxEvents` bounds what the environment does (edits, faults,
deletions, explicit runs, restarts), never what the program does in answer: a
run is always played to its end, and reindexes are unbounded. The deceptions
excluded by the properties need two events at most (a crash and a content that
comes back), so three leave room for one more than the worst known. Two files
are what "one modified, one not" needs, which is what separates the
incremental plan from the full one; a third file for the watcher is one that its
list has no room for; three claimants are what a recovery needs to
remove the claim of a third. One flush at a time is what the
assumption on the debounce delay leaves: a second could start only between the
end of the first one's write and its call of the coordinator, which follow each
other at once (the theorems hold for any number of flushes).
Where a run declares symmetry it checks no liveness. Three indexes are one that
leaves a marker, one that meets it and one that takes it over. Four messages are
one in a tool call, one that arrives meanwhile, a broken frame and one behind
it. Three commands are two daemons and one who stops, or one and two who stop.
Two sessions and a sweep with room for one are what it takes for one session to
take the place of another; a session has enough observations for two
consolidations. With every capacity 1, three hashes are one that stays, one that
is evicted and one whose tombstone goes.

**Deadlock.** It is checked for the lock, the index and the deferred references:
a claimant, a run or a publication can always begin. It is not for the watcher,
the migration, the session, the daemon and the compression, which really stop:
once all is settled and the budget is spent, once every index is drained and
every row deleted, once the session has ended, once all commands are done, once no
observation is left to come and no session eligible.

**Fairness.** `lock`: weak fairness of each claimant's next step and of its
deadline: a live process runs its continuations, an indexing operation ends,
and the clock moves. `index_liveness`: weak fairness of the run that is going
on, none of beginning one; `Converges` assumes that reindexing goes on, and
holds whichever mode it is called with. It excepts a result that no refresh can
commit and that stays (`Refusable`): `Broken` contents are there, or the parse of one
is in the cache. `watcher`: weak fairness of its own
work taken together: timers fire and promises settle. `migration`: strong
fairness of each commit and of beginning a drain: every index is reindexed again
and again, and what interrupts a commit is transient, so that one attempted
for ever goes through. `session`: weak fairness of a drain at work, of a queued one
and of the end of a tool call; none of the client. `daemon`: weak fairness of the
steps of commands and of runners, and of a server's end once its stdin closed; no
command has to be given and nothing has to die. `compression`: weak fairness of
time passing, of the sweep of a reindex and of a sweep's next commit; nobody has to
give the command. Nothing is assumed of
users, crashes and faults.

**Why the promises have exceptions.** `ReadyIsHonest`, `FreshIsUpToDate`,
`OneDaemon`, `NothingForgotten` and their kind name, as history, exactly the
circumstances in which the code breaks them (each is the subject of a finding or
a hazard), and claim that there are no others: no torn manifest, no snapshot
of a sibling, no retry, no order of flushes and reindexes breaks them.

One exception of `ReadyIsHonest` was found by its proof and not by TLC, as it
needs three files and four events. A file that cannot be read is left out of the
rows. Run A, full, cannot read `g` and writes the manifest; run B, full, cannot
read `f`, commits, and dies before its manifest; run C starts from A's manifest,
with some third file edited, and is incremental. Now the rows have `g` and lack
`f`, the manifest has it the other way round, and of the files `validateGraph`
compares nothing but their number (`src/src/indexer/normalizedGraph.ts:67`): the
index is ready, and `f` is missing without a failure on record. The event
`"unread"` together with a crash or an `init` over an existing graph names the
case; an instance with three files shows it.

## Findings

With a run that shows them:

* `lock_exclusion`: a claim whose `owner.json` is not yet written is taken for
  an abandoned one, and what `rm` removes is whatever lock is there by then.
  Two calls run the operation together.
* `migration_lost`: a drain that ends between the two rows of its marker makes
  the drain of another index drop rows it never copied.
* `idle_stuck`: a session used again after its compression is active with its
  summary, is selected by every later sweep and compressed by none.

Known disagreements with the documentation that have a definition and no run of
their own (add the definition to the `cfg` named, and TLC finds the
counterexample):

* `NoSilentStaleness` of `IndexLifecycle` (`index_safety.cfg`): the identity that
  readiness is judged by is captured after the commit. An edit made during the
  run is declared indexed (`src/docs/VTRACE_INTERNALS.md:752`).
* `RowsFollowTheManifest` (`index_safety.cfg`): nothing ties the rows to the
  manifest. After a crash between commit and manifest, or an `init` over an
  existing graph, content that comes back makes the wrong rows ready.
* `InitNeverThrows` (`index_safety.cfg`): `init` in a new worktree whose sibling
  differs by a function body plans an incremental refresh of an empty graph and
  throws, where a reindex would retry
  (`src/src/indexer/materializationAuthority.test.ts:326`).
* `ChangesStayReported` of `FileWatcher` (`watcher.cfg`): the refresh of
  `state.json` at the end of an explicit run drops changes observed after its
  scan, and captures the fingerprint of that later moment
  (`src/docs/cli_usage.md:126`).

Weaknesses that are notes in `hazards`: the deadline
test that a recovery skips; a full refresh that trusts the parse cache; a file
that could not be read once and stays failed until it is edited; the request to
run again that a failed auto-reindex drops; rows that a retried drain brings
back after the product deleted them; a legacy index that is never drained
because a newer observation has the dedupe key of one of its own, and an observation
without links that the drain gives up for such a one, counted as already present;
a session that links a symbol the index has no longer (ids of symbols contain byte
offsets, so an edit above it is enough), which ends every sweep and keeps those behind it
from their summary; an edit during a full run that leaves a broken result in the parse cache,
under the hash of another content, from where each full refresh takes it; a framed client that is
read as lines after a broken first frame; two sweeps that visit one session and
forget observations; a reference evicted between the two statements with
which it is published again, or whose burial fails after its deletion. And one that is neither: `reindex_failed`, which
`recordObservedFileChanges` tests for and nothing sets.

## Proofs

The theorems hold for every value of the constants: any number of claimants,
processes, files, sessions and contents, and any `MaxEvents`. They rest on the
`ASSUME` of the module, which TLC evaluates in the runs: that bounds are natural
numbers, and that there are finitely many processes, sessions and hashes.
Every safety property of a passing run, invariant or action property, is stated
by one of them.

`WorktreeIndexLock_proofs`

* `TypeCorrect`: `Spec => []TypeOK`, by one step per action.
* `OwnersHaveTheDirectory`: before the first recovery at most one claimant is
  between its `mkdir` and the end of its `rm`, the directory exists for it, and
  nobody is clearing. Mutual exclusion alone is not inductive: a claimant
  still writing `owner.json` is not inside yet, so the invariant speaks of all
  who own the directory. The whole argument hangs on `Mkdir` succeeding only
  when there is none, and on the directory being removed only by its
  owner: whence `~broken`.
* `ExclusionUntilRecovery`: `Spec => []OnlyRecoveryBreaksExclusion`, from it.
* `NoneOrphaned`: `Spec => []NoOrphanLock`. A lock that is there is somebody's
  affair (`LockAccounted`): of a claimant that will yet remove it, of one that
  died or failed, or of whoever left it before. The step that needs an argument
  is a claimant that gives way because `owner.json` exists: the one that file
  names has removed nothing since it wrote it (`ClaimAccounted`).
* `LockImplementsMutex`: `Spec => ImplementsIndexMutex`: `WriteOwner` is
  `Enter`, `Finish` and `Crash` are `Leave`, `ClassifyRecoverable` is
  `BeginRecovery`, all else stutters.

`IndexLifecycle_proofs`

* `TypeCorrect`: `Spec => []TypeOK`, which includes that every snapshot has a
  context for just the files it calls indexed.
* `CacheTrusted`: `Spec => []CacheIsContentAddressed`. An entry is keyed by the
  hash of the scan but parsed from a later read, and a result may itself come from
  the cache under the hash of the *previous* snapshot. The inductive invariant
  `CacheInv` follows a content through the run: what was scanned is still so on
  disk while the run reads (`ScanInv`), what was read is what was scanned
  (`ReadInv`), each result derives from the content its hash names
  (`ResultsInv`), unless a file was edited in between. `PlansFaithful` shows it
  of every plan, for any choice of binding closure.
* `NoPhantomFiles`: `Spec => []ReportsOnlyMaterialized`, and `ReindexIsValid`:
  `Spec => OnlyBrokenResultsThrow`, both from `CommitInv`: what a run is about to
  commit replaces all rows or is counted before it is accepted, and what is
  rejected is planned again in the mode that replaces all. There the count is
  that of the results, no edge joins a file that is kept, and what is still rejected
  is a result that is broken by itself.
* `ReadyMeansHonest`: `Spec => []ReadyIsHonest`, for any number of files, on top
  of `IndexInv`. `Deceived` has several clauses, and there are two ways to be
  undeceived, each with an invariant of its own. *Orderly*: nothing has parted
  rows and manifest, so the rows are those of the manifest, or of the run that
  is about to write it. *Clean*: they may have parted, but no file was edited
  during a run, none came back to an earlier content and none was unreadable;
  then a row and a snapshot that agree with the disk agree with each other, and
  that no file is missing follows from the count that `validateGraph` makes.
  `HonestyInv` has one conjunct for each stage of a run (`Seen`, `Parsable`,
  `Planned`, `InOrder`, `Traced`, `Complete`). Without `"unread"` among the
  events of Clean exactly the step `ReadFails` cannot be proved.
* `RunsAreCurrent`: `Spec => []RunLeavesItCurrent`, from the same invariants. When a
  run is about to write the manifest, rows and disk agree, whether it committed
  or found the graph usable. This is what `FileWatcher` takes a run for.

`FileWatcher_proofs`

* `TypeCorrect`: `Spec => []TypeOK`, with the owner of the lock.
* `NoneForgotten`: `Spec => []OutdatedFilesAreListed`: every outdated file is listed
  or the list has no room. An outdated file is on
  its way to the list at any moment: between the disk and the last poll, in the
  debounce set, in the copy some flush has read, or in `state.json`. `LInv` says
  so (`Listed`, `Carried`), and keeps what would break it out: one task alone
  rewrites `state.json` unless there was a mixed write (`Alone`), a file that is
  truncated belongs to whoever is writing it (`TornByWriter`), an explicit run sees every
  content it will clear from the list (`RunSeesAll`), and edit numbers only grow
  (`Numbered`).
* `NoSilentStop`: `Spec => []OnlyAShownFailureStops`. With auto-reindex an
  outdated file is to be observed or asked for (`Coming`: any flush at work
  will do, since its handler starts a run or asks for one), or the coordinator
  has yet to look at it (`Ahead`), or it has failed, and says so (`Shown`). No other write of
  `state.json` erases the error: a flush that does is followed by its handler,
  and an explicit run has found nothing outdated by the time it writes.
* `FreshMeansCurrent`: `Spec => []FreshIsUpToDate`, from three invariants. While
  no run overlooks an edit, a fingerprint that is current was taken when nothing
  was outdated, in `state.json` and in every copy a task carries (`Current`).
  Otherwise the two theorems before apply, and an error on record comes from a
  run that failed (`Sound`).
* `RunsExclude`: `Spec => Mutex!Spec`, a refinement of `IndexMutex` with the runs between
  their scan and the end of their refresh as holders, and no recovery that
  breaks the promise. `LockImplementsMutex` shows that the lock keeps the same
  specification, so the two modules meet in it. The runs' places in
  the program and the variable `lock` tell the same (`LockTells`), which `Shaped` and
  the types give, and the lock never passes from one run to another in one step.

`LegacyMigration_proofs`

* `TypeCorrect`: `Spec => []TypeOK`, with the uniqueness of dedupe keys.
* `LossHasTwoCauses`: `Spec => []LostInTwoWays`. What the
  program does to the tables of one index depends on what the drain of another
  left behind, so the invariant `IInv` follows the marker: the index it names
  was copied (`Named`), so was the one being marked (`Copied`), a drain that
  copies was not recorded when it asked and still is not (`Asked`), and while
  the *first* marker is being completed nothing has been dropped on the word of an
  unnamed one (`Naming`). The last is what makes the invariant inductive: naming
  the marker ends the exception, so nothing may have been lost under it by then.
* `RecordedStaysFinal`: `Spec => RecordedIsFinal`, from `Asked`.

`McpSession_proofs`

* `TypeCorrect`, with the one drain that may be at work; `Ordered`:
  `Spec => []AnsweredInOrder`; `OwnTransport`: `Spec => []InTheClientsTransport`.
  Beside the order of the answers the invariant has to say that what was
  answered lies below `consumed`, except the message of the call at work, which
  comes after all of them.
* `Implements`: `Spec => ImplementsService`. `Read` of a request is `Serve` and
  of a tool call a stutter, its `CallEnds` being the `Serve`; a misread header, a
  broken frame and the rest of a message behind it are `Lose`.

`RuntimeDaemon_proofs`

* `TypeCorrect`; `OneDaemonAtMost`: `Spec => []OneDaemon`; `StopIsThorough`:
  `Spec => StopLeavesNothing`. The invariant `Calm` describes a world that was
  never rushed: at most one runner works, a start in progress is alone, a
  runner between its write and its clean-up is the one the file names, and a
  stop that has passed its wait has nobody left to hurt.

`SessionCompression_proofs`

* `SummaryMeansCompressed`: `Spec => []SummarisedIsCompressed`. A session that is
  active in spite of its summary was used again, or its visit ended half way, or
  a visit that has stored something of it goes on and will mark it (`Explained`);
  a visit that does not find a symbol for the summary has stored nothing.
* `ForgetsNothing`: `Spec => []NothingForgotten`: an observation is in the store or
  counted. A session that is not `shared` has one visitor (`Alone`), and it is consolidated once
  (`FoldedOnce`), since the summary comes before the consolidation and ends every later visit.
* `TypeCorrect`: `Spec => []TypeOK`. Two parts of it are not inductive. That a
  sweep has a session to visit, and that nothing is stored or counted
  that was not captured: the group of a sweep is read in one commit and
  consolidated in another, so `Sweeps` says of what it has read that the session
  had captured it. And that every session stands in line once (`Lined`), which needs
  `order` to be a sequence and lemmas about taking an element out of it and
  putting it at the end (`RemoveAtProperties`, `RemoveOnly`, `AppendFresh`).

`DeferredRefs_proofs`

* `TypeCorrect`: `Spec => []TypeOK`: the store of a process keeps to its capacity,
  no hash is there twice, and none is both an entry and expired.
* `FewRecords`: `Spec => []RecordsAreBounded`. The bound is not inductive: each
  process evicts what it selected at another time, and those selections overlap.
  `Swept` says that of any nonempty set `Q` of evicting processes there is one whose own
  deletions leave no more than `MaxRecords` rows, one for each process
  that persists outside of `Q`, and one for each persist that was cut off, by a crash
  or by a statement that failed. It is the one of them that selected
  last: every row put in after its selection belongs to a process that has still
  to select, to one outside of `Q`, or to one that was cut off. `OverflowProperties` is what it needs
  of `ORDER BY created_at_ms, hash LIMIT max(count(*) - ?, 0)`: no more than the
  limit is left when the selected rows are gone. It holds because the rank of
  a row in that order is a bijection (`RankIsBijective`).
* `ForgottenInFiveWays`: `Spec => UnknownOnlyInFiveWays`, one step per
  action. A process answers for a reference by its store, by the row, by the tombstone or by a
  burial that is due (`Traced`), and `OnlyLost` follows each action through
  all four, a burial whose statement fails included, for the process that takes it and for every other.

Out of the prover's reach, and left to TLC: liveness under fairness
(`AttemptEnds`, `StaleLockDoesNotWedge`, `RunEnds`, `Converges`, `CatchesUp`,
`DrainedUnlessKeysAreTaken`, `EveryRequestIsAnswered`, `EndOfInputEnds`,
`ServersEndWithRunners`, `IdleIsSummarised`) and anything that needs `ENABLED`.
What a recursive definition computes for every input cannot be proved either,
so none of these modules has one: what the code sorts or filters is defined by
the place of an element (`Place` and `FirstOf` in `SessionCompression`, `Rank`
and `Overflow` in `DeferredRefs`), not by a fold.

## Not modelled

Most of the repository's lines are parsers, retrieval, impact analysis,
capsules, the orchestration of `run_pipeline`, the formatting of MCP tools
(`mcp/tools.ts`, `mcp/responseEnvelope.ts`) and a validation harness. They are
functions of a committed graph or of a text, called once, synchronously, without
state, order or failure of their own: there is no interleaving, crash or retry
for a model checker to reach, what could be said of them is what their many
unit tests say, and a module would repeat their code line by line. For this
reason the modules cover a small part of the source by lines. It is the part
that keeps state between calls or shares it between processes.

Two parts in between are left out for other reasons. Graph traversal and the
binding closure (`graph/`, `indexer/incrementalIndex.ts`) are searches whose
result matters to the incremental refresh; they need symbols and edges, which
no module has, and `IndexLifecycle` takes the closure to be any set of files
instead, so that what is proved holds whatever they compute. The database layer
is assumed: a transaction is atomic and a statement commits by itself.

Within the modelled components, `PROJECT.json` says of each what is left out.

## Plan

Done: the lock, the index lifecycle, the watcher, the legacy drain, the
daemon, the MCP session, session compression, the deferred references. What is left:

1. Composition: the lifecycle under the lock as it is, instead of an exclusive
   one, to see which of the lifecycle's promises survive a recovery.
2. Symbols and edges, with the binding closure as a search over them, to say that
   an incremental refresh leaves no dangling target.

## Using it

    tlc -config lock.cfg MCWorktreeIndexLock
    tlapm IndexLifecycle_proofs.tla

`PROJECT.json` lists the runs with their modules and configurations, the
mutations of mapped definitions (operators named `Definition_Change`, each
beside the definition it changes) that make each property fail, and for every
definition that models code the lines it models.
