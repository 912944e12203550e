--------------------------- MODULE IndexLifecycle ---------------------------
(***************************************************************************)
(* The life of the index of one worktree: `vtrace index`                   *)
(* (src/runtime/reindexRepo.ts) and `vtrace init` (src/setup/initRepo.ts)  *)
(* drive src/indexer/indexProject.ts, which scans the sources, reads them, *)
(* plans a no-op, incremental or full refresh against an earlier snapshot, *)
(* parses or takes parse results from the shared parse cache, and commits  *)
(* the graph in one SQLite transaction.  The manifest .vtrace/index-meta,  *)
(* from which readiness is judged, is written afterwards, and then the     *)
(* snapshot registry that all worktrees of the repository share.           *)
(*                                                                         *)
(* One run at a time holds the index lock (module WorktreeIndexLock); the  *)
(* user edits files between any two steps, and a process may die there.    *)
(* A file's content stands for its hash.  Rows, snapshots and directory    *)
(* listings are functions whose domain is the set of files they hold.      *)
(***************************************************************************)
EXTENDS Functions, FiniteSets, Naturals

CONSTANTS Files,        \* source paths of the worktree
          Contents,     \* contents a file may have
          Unparsable,   \* those the parser rejects
          Broken,       \* those it gives a result that validateGraph rejects
          Signatures,   \* Signatures[c]: names and signatures a content declares
          Bindings,     \* Bindings[c]: what it publishes and imports
          NoSnapshot,   \* no manifest, no registry record
          Lightweight,  \* the files in TypeScript or JavaScript
          LargeRepo,    \* from as many files on, a large change of these rebuilds (20)
          Absent,       \* what a path holds that is no file
          Starts,       \* what this worktree may hold at first
          Siblings,     \* what the sibling was indexed with, or NoSnapshot
          MaxEvents     \* bound: edits, faults and deletions of .vtrace

ASSUME ConstantsAssumption ==
  /\ Unparsable \subseteq Contents
  /\ Broken \subseteq Contents \ Unparsable
  /\ LargeRepo \in Nat
  /\ Absent \notin Contents
  /\ IsFiniteSet(Files)
  /\ Starts \cup Siblings \subseteq (UNION {[D -> Contents] : D \in SUBSET Files}) \cup {NoSnapshot}
  /\ NoSnapshot \notin Starts
  /\ MaxEvents \in Nat

\* Before, the sibling was indexed.
ASSUME SiblingAssumption ==
  \A listing \in Siblings \ {NoSnapshot} : \A f \in DOMAIN listing : listing[f] \notin Broken

VARIABLES disk,      \* the files of the worktree and their contents
          rows,      \* table files: content_hash, and the content the rows derive from
          failures,  \* table file_index_failures
          meta,      \* .vtrace/index-meta.json
          cache,     \* the parse cache under the git common directory
          registry,  \* the reusable snapshots, by worktree
          pc,        \* the step of the run
          job,       \* which entry point runs, and how
          scanned,   \* hashes scanRepo returned
          content,   \* what readFile returned
          todo,      \* files still to scan or to read
          outcome,   \* what indexProject will commit and record
          past,      \* history: what each path has held, here or in the sibling
          events,    \* history: what has happened that may deceive the index
          budget     \* edits, faults and deletions so far

runVars == <<pc, job, scanned, content, todo, outcome>>
storeVars == <<rows, failures, meta, cache, registry>>
worldVars == <<disk, past, events, budget>>
vars == <<runVars, storeVars, worldVars>>

PartialFunctions(S, T) == UNION {[D -> T] : D \in SUBSET S}

Listing  == PartialFunctions(Files, Contents)
Row      == [hash: Contents, body: Contents]
Entry    == [hash: Contents, indexed: BOOLEAN]
Worktree == {"own", "sibling"}
Empty    == [f \in {} |-> f]

At(listing, f) == IF f \in DOMAIN listing THEN listing[f] ELSE Absent

(* An IndexedFileSnapshotSet: its files, and the context that the semantic *)
(* and the binding hashes digest.                                          *)
Context == PartialFunctions(Files, {<<Signatures[c], Bindings[c]>> : c \in Contents})

Indexed(snapshot) == {f \in DOMAIN snapshot.files : snapshot.files[f].indexed}

Snapshot == {s \in [files : PartialFunctions(Files, Entry), context : Context] : DOMAIN s.context = Indexed(s)}
Manifest == [snapshot : Snapshot, identity : Listing]

ASSUME NoSnapshotAssumption == NoSnapshot \notin Snapshot \cup Manifest

NoJob == [kind |-> "none", mode |-> "auto", previous |-> NoSnapshot]
NoOutcome == [results |-> Empty, scope |-> {}, snapshot |-> NoSnapshot]

Steps == {"idle", "scan", "read", "plan", "cache", "commit", "meta", "registry"}

TypeOK ==
  /\ disk \in Listing
  /\ rows \in PartialFunctions(Files, Row)
  /\ failures \subseteq Files
  /\ meta \in Manifest \cup {NoSnapshot}
  /\ cache \subseteq [file : Files, hash : Contents, context : Context, body : Contents]
  /\ registry \in [Worktree -> Snapshot \cup {NoSnapshot}]
  /\ pc \in Steps
  /\ job \in [kind : {"none", "reindex", "init"}, mode : {"auto", "full"},
              previous : Snapshot \cup {NoSnapshot}]
  /\ scanned \in Listing
  /\ content \in Listing /\ DOMAIN content \subseteq DOMAIN scanned
  /\ todo \subseteq Files
  /\ outcome \in [results : PartialFunctions(Files, Row), scope : SUBSET Files,
                  snapshot : Snapshot \cup {NoSnapshot}]
  /\ DOMAIN outcome.results \subseteq DOMAIN scanned
  /\ past \in [Files -> SUBSET (Contents \cup {Absent})]
  /\ events \subseteq {"midRunEdit", "recurrence", "unread", "crash", "reinit"}
  /\ budget \in 0..MaxEvents

----------------------------------------------------------------------------
(* Snapshots and the parser *)

Parses(c) == c \notin Unparsable

(* computeSemanticContextHash and computeBindingContextHash digest, for    *)
(* every result, the file, the signatures of its symbols and its binding   *)
(* surface: the context is what they digest.                               *)
ContextOf(results) ==
  [f \in DOMAIN results |-> <<Signatures[results[f].body], Bindings[results[f].body]>>]

\* Mutant: a file that failed is recorded as indexed.
SnapshotOf_NoFailures(listing, results) ==
  [files   |-> [f \in DOMAIN listing |-> [hash |-> listing[f], indexed |-> TRUE]],
   context |-> ContextOf(results)]

(* Every scanned file is in the snapshot, one without a result as failed.  *)
SnapshotOf(listing, results) ==
  [files   |-> [f \in DOMAIN listing |-> [hash |-> listing[f], indexed |-> f \in DOMAIN results]],
   context |-> ContextOf(results)]

\* What an index of an unchanging worktree yields.
ParsedListing(listing) ==
  [f \in {g \in DOMAIN listing : Parses(listing[g])} |-> [hash |-> listing[f], body |-> listing[f]]]

CacheEntry(f, result, context) ==
  [file |-> f, hash |-> result.hash, context |-> context, body |-> result.body]

Init ==
  /\ disk \in Starts
  /\ rows = Empty /\ failures = {} /\ meta = NoSnapshot
  \* A sibling worktree may have been indexed, which filled the shared stores.
  /\ \E listing \in Siblings :
       IF listing = NoSnapshot
       THEN /\ registry = [w \in Worktree |-> NoSnapshot]
            /\ cache = {}
            /\ past = [f \in Files |-> {At(disk, f)}]
       ELSE LET results == ParsedListing(listing) IN
            /\ registry = [w \in Worktree |-> IF w = "own" THEN NoSnapshot ELSE SnapshotOf(listing, results)]
            /\ cache = {CacheEntry(f, results[f], ContextOf(results)) : f \in DOMAIN results}
            /\ past = [f \in Files |-> {At(disk, f), At(listing, f)}]
  /\ pc = "idle" /\ job = NoJob
  /\ scanned = Empty /\ content = Empty /\ todo = {} /\ outcome = NoOutcome
  /\ events = {} /\ budget = 0

----------------------------------------------------------------------------
(* A run: reindexRepoAndRefreshState or initRepo, under the lock *)

Spend == budget < MaxEvents /\ budget' = budget + 1

ForgetRun ==
  /\ job' = NoJob
  /\ scanned' = Empty /\ content' = Empty /\ todo' = {} /\ outcome' = NoOutcome

\* selectReusableSnapshot prefers records of the same HEAD: with the heads
\* left out, any record of the registry.
Reusable(snapshot) ==
  IF \A w \in Worktree : registry[w] = NoSnapshot
  THEN snapshot = NoSnapshot
  ELSE snapshot # NoSnapshot /\ \E w \in Worktree : registry[w] = snapshot

Begin(kind, mode, previous) ==
  /\ pc = "idle"
  /\ pc' = "scan"
  /\ job' = [kind |-> kind, mode |-> mode, previous |-> previous]
  /\ todo' = Files
  /\ UNCHANGED <<scanned, content, outcome, storeVars, disk, past, budget>>

BeginReindex ==
  \E mode \in {"auto", "full"}, previous \in {NoSnapshot, registry["own"], registry["sibling"]} \cup
                                             (IF meta = NoSnapshot THEN {} ELSE {meta.snapshot}) :
    /\ IF meta = NoSnapshot THEN Reusable(previous) ELSE previous = meta.snapshot
    /\ Begin("reindex", mode, previous)
    /\ UNCHANGED events

BeginInit ==
  \E previous \in {NoSnapshot, registry["own"], registry["sibling"]} :
    /\ Reusable(previous)
    /\ Begin("init", "auto", previous)
    /\ events' = IF rows = Empty THEN events ELSE events \cup {"reinit"}

----------------------------------------------------------------------------
(* indexProject *)

\* scanRepo lists and hashes one file after the other.
ScanFile(f) ==
  /\ pc = "scan" /\ f \in todo
  /\ scanned' = IF f \in DOMAIN disk
                THEN [g \in DOMAIN scanned \cup {f} |-> IF g = f THEN disk[f] ELSE scanned[g]]
                ELSE scanned
  /\ IF todo = {f}
     THEN pc' = (IF scanned' = Empty THEN "plan" ELSE "read") /\ todo' = DOMAIN scanned'
     ELSE todo' = todo \ {f} /\ UNCHANGED pc
  /\ UNCHANGED <<job, content, outcome, storeVars, worldVars>>

AfterRead(f) ==
  /\ todo' = todo \ {f}
  /\ pc' = IF todo = {f} THEN "plan" ELSE "read"
  /\ UNCHANGED <<job, scanned, outcome, storeVars, disk, past>>

\* readFile: the content of this moment ..
ReadFile(f) ==
  /\ pc = "read" /\ f \in todo
  /\ f \in DOMAIN disk
  /\ content' = [g \in DOMAIN content \cup {f} |-> IF g = f THEN disk[f] ELSE content[g]]
  /\ AfterRead(f)
  /\ UNCHANGED <<budget, events>>

\* .. or an error, which is recorded: the file has gone, or cannot be read.
ReadFails(f) ==
  /\ pc = "read" /\ f \in todo
  /\ IF f \in DOMAIN disk THEN Spend /\ events' = events \cup {"unread"}
     ELSE UNCHANGED <<budget, events>>
  /\ AfterRead(f)
  /\ UNCHANGED content

\* Mutant: a deleted file does not invalidate the snapshot.
SameFiles_DeletionsIgnored ==
  job.previous # NoSnapshot /\ DOMAIN scanned \subseteq DOMAIN job.previous.files

SameFiles == job.previous # NoSnapshot /\ DOMAIN scanned = DOMAIN job.previous.files

\* Mutant: sizes are compared, not hashes.
Modified_BySize == {f \in DOMAIN scanned : f \notin DOMAIN job.previous.files}

Modified == {f \in DOMAIN scanned : scanned[f] # job.previous.files[f].hash}

(* One in five of the files, all in languages that are quick to parse.     *)
LargeChange ==
  /\ Modified \subseteq Lightweight
  /\ Cardinality(DOMAIN scanned) >= LargeRepo
  /\ 5 * Cardinality(Modified) >= Cardinality(DOMAIN scanned)

(* planIncrementalRefresh: additions, deletions and renames rebuild, and   *)
(* so does a change of every file or a large one.                          *)
PlannedMode ==
  IF job.mode = "full" \/ ~SameFiles THEN "full"
  ELSE IF Modified = {} THEN "noop"
  ELSE IF Modified = DOMAIN scanned \/ LargeChange THEN "full"
  ELSE "incremental"

\* Mutant: a no-op trusts the snapshot alone.
UsableGraph_Trusted == TRUE

(* evaluateMaterializedGraph: may a no-op rely on the rows?  init declares *)
(* that there is no graph.                                                 *)
UsableGraph ==
  /\ job.kind # "init"
  /\ \A f \in Indexed(job.previous) :
       f \in DOMAIN rows /\ rows[f].hash = job.previous.files[f].hash

\* Mutant: the key leaves the content hash out.
Cached_ByPath(f) == {e \in cache : e.file = f /\ e.context = job.previous.context}

\* readParseCacheEntry, by the key the previous snapshot gives the file
Cached(f) == {e \in cache : /\ e.file = f
                            /\ e.hash = job.previous.files[f].hash
                            /\ e.context = job.previous.context}

Parsed(S) ==
  [f \in {g \in S \cap DOMAIN content : Parses(content[g])} |->
     [hash |-> scanned[f], body |-> content[f]]]

(* The results of a parse that takes the files of reusable from the cache  *)
(* where it has them, and carries the failure of the files of carried.     *)
Results(reusable, carried) ==
  LET hits   == {f \in reusable \cap DOMAIN content : Cached(f) # {}}
      parsed == Parsed(Files \ (hits \cup carried))
  IN [f \in hits \cup DOMAIN parsed |->
        IF f \in hits
        THEN [hash |-> scanned[f], body |-> (CHOOSE e \in Cached(f) : TRUE).body]
        ELSE parsed[f]]

Proceed(results, scope) ==
  /\ outcome' = [results |-> results, scope |-> scope, snapshot |-> SnapshotOf(scanned, results)]
  /\ pc' = "cache"
  /\ UNCHANGED <<job, scanned, content, todo, storeVars, worldVars>>

PlanNoop ==
  /\ pc = "plan"
  /\ PlannedMode = "noop" /\ UsableGraph
  /\ outcome' = [NoOutcome EXCEPT !.snapshot = job.previous]
  /\ pc' = "meta"
  /\ UNCHANGED <<job, scanned, content, todo, storeVars, worldVars>>

\* canReuseFullParseCache: a full rebuild too takes the results from the
\* cache when no hash differs from the previous snapshot.
PlanFull ==
  /\ pc = "plan"
  /\ PlannedMode = "full"
  /\ LET reusable == IF SameFiles /\ Modified = {} THEN Indexed(job.previous) ELSE {}
     IN Proceed(Results(reusable, {}), Files)

(* The incremental plan, which a no-op without a usable graph also takes:  *)
(* only modified files are parsed, an unchanged failure is carried over.   *)
Incremental ==
  /\ pc = "plan"
  /\ PlannedMode = "incremental" \/ (PlannedMode = "noop" /\ ~UsableGraph)

Candidate == Results(Indexed(job.previous) \ Modified,
                     (DOMAIN scanned \ Modified) \ Indexed(job.previous))

\* resolvePersistenceScope
Scope == IF PlannedMode = "noop" THEN Files ELSE Modified

(* resolveBindingSurfaceChange, the confinement test: with the binding     *)
(* surfaces the graph holds of the modified files the context is the old.  *)
Confined ==
  [f \in DOMAIN Candidate |->
     <<Signatures[Candidate[f].body],
       IF f \in Modified /\ f \in DOMAIN rows THEN Bindings[rows[f].body]
       ELSE Bindings[Candidate[f].body]>>] = job.previous.context

PlanBodiesOnly ==
  /\ Incremental
  /\ ContextOf(Candidate) = job.previous.context
  /\ Proceed(Candidate, Scope)

\* deriveBindingClosure over-approximates the files to parse again.
PlanBoundedClosure ==
  /\ Incremental
  /\ ContextOf(Candidate) # job.previous.context
  /\ Confined
  /\ \E closure \in SUBSET (DOMAIN Candidate \ Modified) :
       LET again == Parsed(closure)
           kept  == DOMAIN Candidate \ closure
       IN Proceed([f \in kept \cup DOMAIN again |->
                     IF f \in kept THEN Candidate[f] ELSE again[f]],
                  Scope \cup closure)

\* .. or refuses, and everything is parsed.
PlanRebuild ==
  /\ Incremental
  /\ ContextOf(Candidate) # job.previous.context
  /\ Proceed(Parsed(Files), Files)

\* An existing entry is kept; a write that fails is ignored, and a process
\* that dies here has written some of the entries.
WriteParseCache ==
  /\ pc = "cache"
  /\ \E written \in SUBSET DOMAIN outcome.results :
       /\ IF written = DOMAIN outcome.results THEN UNCHANGED budget ELSE Spend
       /\ LET entries == {CacheEntry(f, outcome.results[f], outcome.snapshot.context) : f \in written}
              Known(e) == \E k \in cache : k.file = e.file /\ k.hash = e.hash /\ k.context = e.context
          IN cache' = cache \cup {e \in entries : ~Known(e)}
  /\ pc' = "commit"
  /\ UNCHANGED <<job, scanned, content, todo, outcome, rows, failures, meta, registry, disk, past, events>>

\* Mutant: only files with a new result are invalidated.
Persisted_ByResults ==
  [f \in DOMAIN rows \cup (DOMAIN outcome.results \cap outcome.scope) |->
     IF f \in outcome.scope \cap DOMAIN outcome.results THEN outcome.results[f] ELSE rows[f]]

(* The transaction deletes the rows of the scope and inserts its results.  *)
Persisted ==
  [f \in (DOMAIN rows \ outcome.scope) \cup (DOMAIN outcome.results \cap outcome.scope) |->
     IF f \in outcome.scope THEN outcome.results[f] ELSE rows[f]]

(* validateGraph: as many files as results, and no edge or retrieval       *)
(* record without its symbols.  A file's records, and the edges within it, *)
(* are written and deleted with its symbols: they dangle only if the       *)
(* parser's result does.                                                   *)
ValidGraph ==
  /\ Cardinality(DOMAIN Persisted) = Cardinality(DOMAIN outcome.results)
  /\ \A f \in DOMAIN Persisted : Persisted[f].body \notin Broken

(* The edges between files are derived from all results, also those of the *)
(* files kept, whose rows may derive from another content, with symbols of *)
(* other ids: an edge between such a file and one rewritten dangles.       *)
MayDangle ==
  /\ outcome.scope \cap DOMAIN outcome.results # {}
  /\ \E f \in DOMAIN outcome.results \ outcome.scope :
       f \in DOMAIN rows => rows[f].body # outcome.results[f].body

\* The graph is not valid, or a query of the validation fails.
ValidationFails ==
  \/ (~ValidGraph \/ MayDangle) /\ UNCHANGED budget
  \/ Spend

Commit ==
  /\ pc = "commit" /\ ValidGraph
  /\ rows' = Persisted
  /\ failures' = DOMAIN scanned \ DOMAIN outcome.results
  /\ pc' = "meta"
  /\ UNCHANGED <<job, scanned, content, todo, outcome, meta, cache, registry, worldVars>>

\* Mutant: the retry keeps the mode of the run.
RetryFull_SameMode ==
  /\ pc = "commit" /\ ValidationFails
  /\ job.kind = "reindex" /\ job.mode # "full"
  /\ pc' = "scan"
  /\ scanned' = Empty /\ content' = Empty /\ todo' = Files /\ outcome' = NoOutcome
  /\ UNCHANGED <<job, storeVars, disk, past, events>>

\* GraphValidationError: the transaction is rolled back.  A reindex starts
\* over with a full refresh; init, or a full refresh, throws.
RetryFull ==
  /\ pc = "commit" /\ ValidationFails
  /\ job.kind = "reindex" /\ job.mode # "full"
  /\ pc' = "scan"
  /\ job' = [job EXCEPT !.mode = "full"]
  /\ scanned' = Empty /\ content' = Empty /\ todo' = Files /\ outcome' = NoOutcome
  /\ UNCHANGED <<storeVars, disk, past, events>>

ValidationThrown ==
  /\ pc = "commit" /\ ValidationFails
  /\ job.kind = "init" \/ job.mode = "full"
  /\ pc' = "idle"
  /\ ForgetRun
  /\ UNCHANGED <<storeVars, disk, past, events>>

----------------------------------------------------------------------------
(* After indexProject *)

\* recordIndexMeta resolves the identity of the worktree, which digests the
\* contents of this moment, and writes the manifest.
WriteMeta ==
  /\ pc = "meta"
  /\ meta' = [snapshot |-> outcome.snapshot, identity |-> disk]
  /\ pc' = "registry"
  /\ UNCHANGED <<job, scanned, content, todo, outcome, rows, failures, cache, registry, worldVars>>

\* recordReusableSnapshot; an error is ignored.
WriteRegistry ==
  /\ pc = "registry"
  /\ \/ registry' = [registry EXCEPT !["own"] = outcome.snapshot] /\ UNCHANGED budget
     \/ Spend /\ UNCHANGED registry
  /\ pc' = "idle"
  /\ ForgetRun
  /\ UNCHANGED <<rows, failures, meta, cache, disk, past, events>>

----------------------------------------------------------------------------
(* The world around *)

\* The process dies; the manifest it was writing is truncated or whole.
Crash ==
  /\ pc # "idle" /\ Spend
  /\ meta' \in IF pc = "meta" THEN {meta, NoSnapshot} ELSE {meta}
  /\ pc' = "idle"
  /\ ForgetRun
  /\ events' = events \cup {"crash"}
  /\ UNCHANGED <<rows, failures, cache, registry, disk, past>>

\* An edit that the run which is going on will not see, or see in part.
Unseen(f) == pc \in {"read", "plan", "cache", "commit", "meta"} \/ (pc = "scan" /\ f \notin todo)

Edit(f, next) ==
  /\ disk # next /\ Spend
  /\ disk' = next
  /\ past' = [past EXCEPT ![f] = @ \cup {At(next, f)}]
  /\ events' = events \cup (IF Unseen(f) THEN {"midRunEdit"} ELSE {})
                      \cup (IF At(next, f) \in past[f] THEN {"recurrence"} ELSE {})
  /\ UNCHANGED <<runVars, storeVars>>

Save(f, c) == Edit(f, [g \in DOMAIN disk \cup {f} |-> IF g = f THEN c ELSE disk[g]])

Remove(f) == f \in DOMAIN disk /\ Edit(f, Restrict(disk, DOMAIN disk \ {f}))

DeleteVtrace ==
  /\ pc = "idle" /\ Spend
  /\ rows # Empty \/ meta # NoSnapshot
  /\ rows' = Empty /\ failures' = {} /\ meta' = NoSnapshot
  /\ UNCHANGED <<cache, registry, runVars, disk, past, events>>

Run ==
  \/ \E f \in Files : ScanFile(f) \/ ReadFile(f) \/ ReadFails(f)
  \/ PlanNoop \/ PlanFull \/ PlanBodiesOnly \/ PlanBoundedClosure \/ PlanRebuild
  \/ WriteParseCache \/ Commit \/ RetryFull \/ ValidationThrown
  \/ WriteMeta \/ WriteRegistry

World ==
  \/ Crash \/ DeleteVtrace
  \/ \E f \in Files : Remove(f) \/ \E c \in Contents : Save(f, c)

Next == BeginReindex \/ BeginInit \/ Run \/ World

Spec == Init /\ [][Next]_vars

\* A run goes on until it ends, unless its process dies.
FairSpec == Spec /\ WF_vars(Run)

----------------------------------------------------------------------------
(* Properties *)

(* evaluateIndexReadiness: the manifest is there and names the contents of *)
(* the worktree.                                                           *)
Ready == meta # NoSnapshot /\ meta.identity = disk

(* The graph tells the truth: the rows of every file derive from what the  *)
(* file contains; a file without rows is recorded as failed, in the table  *)
(* of failures or in the manifest.                                         *)
Honest ==
  /\ DOMAIN rows \subseteq DOMAIN disk
  /\ \A f \in DOMAIN disk : IF f \in DOMAIN rows THEN rows[f].body = disk[f]
                            ELSE f \in failures \/ ~meta.snapshot.files[f].indexed

(* An index that is declared ready is honest, unless a file was edited     *)
(* during a run, or a crash or an init over an existing graph left rows    *)
(* that no manifest describes, and content came back that a file, here or  *)
(* in the sibling, had before, or a file could not be read: validateGraph  *)
(* counts, and a row too many makes up for one that is missing.  Whatever  *)
(* else: deletions of .vtrace, torn manifests, snapshots of the sibling,   *)
(* retries, and any of these circumstances alone.                          *)
Deceived == \/ "midRunEdit" \in events
            \/ /\ events \cap {"recurrence", "unread"} # {}
               /\ events \cap {"crash", "reinit"} # {}

ReadyIsHonest == Ready /\ ~Deceived => Honest

(* A completed index reports no more indexed files than the graph holds,   *)
(* whichever plan produced it and whoever's snapshot it started from.      *)
ReportsOnlyMaterialized ==
  pc \in {"meta", "registry"} =>
    Cardinality(Indexed(outcome.snapshot)) <= Cardinality(DOMAIN rows)

(* An entry of the parse cache, which other worktrees and later runs trust *)
(* by its content hash, was parsed from that content, unless a file was    *)
(* edited between its hash and its read.                                   *)
CacheIsContentAddressed ==
  "midRunEdit" \notin events => \A e \in cache : e.body = e.hash

(* Whatever graph, manifest, registry and cache it finds, a reindex ends   *)
(* in a graph validation error only over a result that is itself broken:   *)
(* what a crash, a foreign snapshot or stale rows did to the graph, the    *)
(* full refresh it falls back to undoes.  (Or a query of the validation    *)
(* fails.)                                                                 *)
OnlyBrokenResultsThrow ==
  [][(job.kind = "reindex" /\ ValidationThrown /\ UNCHANGED budget) =>
       \E f \in DOMAIN outcome.results : outcome.results[f].body \in Broken]_vars

(* Every run ends: a validation failure is retried at most once.           *)
RunEnds == pc # "idle" ~> pc = "idle"

(* A result that no full refresh can commit is there to be taken: a file   *)
(* has such a content, or a run that a file was edited under has left it   *)
(* in the parse cache, under the hash of another content.                  *)
Refusable ==
  \/ \E f \in DOMAIN disk : disk[f] \in Broken
  \/ \E e \in cache : e.body \in Broken /\ e.hash # e.body

(* Edits and faults being finite, the index becomes ready and stays so if  *)
(* reindexing goes on: no state that a crash, a torn manifest or a foreign *)
(* snapshot leaves is one a reindex cannot get out of, unless a broken     *)
(* result stays.                                                           *)
Converges == []<>(job.kind = "reindex") => <>[]Ready \/ []<>Refusable

----------------------------------------------------------------------------
(* Statements of the documentation that the code does not keep *)

(* No silent staleness: what is declared ready is honest.  A run that saw  *)
(* one content and captured the identity of the next breaks it.            *)
NoSilentStaleness == Ready => Honest

(* The same in a worktree whose files nobody edits during a run.  Rows and *)
(* manifest part when a process dies between the commit and the write of   *)
(* the manifest, or when init, over an existing graph, plans against the   *)
(* registry; content that comes back then makes the wrong rows ready.      *)
RowsFollowTheManifest == "midRunEdit" \notin events => NoSilentStaleness

(* init is safe in a worktree whose sibling was indexed.                   *)
InitNeverThrows == [][job.kind = "init" /\ UNCHANGED budget => ~ValidationThrown]_vars
=============================================================================
