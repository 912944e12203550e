--------------------------- MODULE LegacyMigration ---------------------------
(***************************************************************************)
(* Draining the product rows of a pre-M152 mixed index into the session    *)
(* store (src/src/session/legacyMigration.ts), as a reindex runs it        *)
(* (drainLegacySessionState, src/src/runtime/reindexRepo.ts).              *)
(*                                                                         *)
(* The session store is the file session.sqlite in the DIRECTORY of the    *)
(* index, so the indexes a user makes in one directory with --db share it, *)
(* and its migration marker with them.  A drain is three commits to the    *)
(* session store (the rows, then two rows of session_meta) and one to the  *)
(* index (the drop): a crash or a busy database may end it between any     *)
(* two, the error is swallowed, and the next reindex starts over.  The     *)
(* worktree lock serialises drains; nothing serialises the product, which  *)
(* deletes rows of the session store at any time.                          *)
(*                                                                         *)
(* A row stands for one legacy row with the rows linked to it.  INSERT OR  *)
(* IGNORE skips a row the store already has, and also an observation whose *)
(* UNIQUE dedupe_key a newer observation has taken.  If the skipped one    *)
(* has links, they are inserted without it and the deferred foreign key    *)
(* fails the commit; if it has none, nothing notices.                      *)
(***************************************************************************)
EXTENDS FiniteSets

CONSTANTS
  Index,    \* index files of one directory, all made before M152
  Row,      \* the product rows they hold
  Home,     \* the index that holds each row
  Keyed,    \* the rows that are observations with a dedupe_key
  Linked,   \* those of them that other rows refer to
  None      \* an absent meta value, and the index of no drain

ASSUME HomeAssumption == Home \in [Row -> Index]
ASSUME KeyedAssumption == Linked \subseteq Keyed /\ Keyed \subseteq Row
ASSUME NoneAssumption == None \notin Index

VARIABLES
  tables,       \* tables[i]: index i still has its legacy session tables
  session,      \* the rows in the session store
  taken,        \* rows whose dedupe_key a newer observation there has
  completed,    \* legacy_migration_completed_at_ms is set
  source,       \* legacy_migration_source_index_path
  pc,           \* the next commit of the drain in progress
  cur,          \* the index being drained
  deleted,      \* history: rows the product deleted from the session store
  skipped       \* history: rows the last copy of their index did not insert

vars == <<tables, session, taken, completed, source, pc, cur, deleted, skipped>>

RowsOf(i) == {r \in Row : Home[r] = i}

TypeOK ==
  /\ tables \in [Index -> BOOLEAN]
  /\ session \subseteq Row
  /\ taken \subseteq Keyed
  /\ completed \in BOOLEAN
  /\ source \in Index \cup {None}
  /\ pc \in {"idle", "copy", "markCompleted", "markSource", "drop"}
  /\ cur \in Index \cup {None}
  /\ deleted \subseteq Row
  /\ skipped \subseteq Keyed
  /\ (cur = None) <=> (pc = "idle")
  /\ session \cap taken = {}             \* dedupe_key is UNIQUE

Init ==
  /\ tables = [i \in Index |-> TRUE]
  /\ session = {}
  /\ taken = {}
  /\ completed = FALSE
  /\ source = None
  /\ pc = "idle"
  /\ cur = None
  /\ deleted = {}
  /\ skipped = {}

-----------------------------------------------------------------------------
(* isMigrationRecorded: the marker is taken as this index's own when it    *)
(* names no index at all.                                                  *)
Recorded(i) == completed /\ source \in {None, i}

(* Mutant: the marker is written before the rows are copied.               *)
BeginDrain_MarksFirst(i) ==
  /\ pc = "idle"
  /\ tables[i]
  /\ cur' = i
  /\ pc' = IF Recorded(i) THEN "drop" ELSE "copy"
  /\ completed' = TRUE
  /\ source' = IF Recorded(i) THEN source ELSE i
  /\ UNCHANGED <<tables, session, taken, deleted, skipped>>

(* Mutant: an index already recorded is copied again.                      *)
BeginDrain_CopiesAlways(i) ==
  /\ pc = "idle"
  /\ tables[i]
  /\ cur' = i
  /\ pc' = "copy"
  /\ UNCHANGED <<tables, session, taken, completed, source, deleted, skipped>>

(* Mutant: an index already recorded is left as it is, tables and all.     *)
BeginDrain_KeepsTables(i) ==
  /\ pc = "idle"
  /\ tables[i]
  /\ ~Recorded(i)
  /\ cur' = i
  /\ pc' = "copy"
  /\ UNCHANGED <<tables, session, taken, completed, source, deleted, skipped>>

(* A reindex of i reaches the drain: no tables, nothing to do; recorded,   *)
(* only the drop is left; otherwise everything is.                         *)
BeginDrain(i) ==
  /\ pc = "idle"
  /\ tables[i]
  /\ cur' = i
  /\ pc' = IF Recorded(i) THEN "drop" ELSE "copy"
  /\ UNCHANGED <<tables, session, taken, completed, source, deleted, skipped>>

(* Mutant: a copied observation may share its dedupe_key with another.     *)
Copy_UnderTakenKey ==
  /\ pc = "copy"
  /\ session' = session \cup RowsOf(cur)
  /\ pc' = "markCompleted"
  /\ UNCHANGED <<tables, taken, completed, source, cur, deleted, skipped>>

(* The rows of an index that INSERT OR IGNORE skips for their dedupe_key.  *)
Ignored(i) == RowsOf(i) \cap taken

(* One session transaction copies every table of the index.                *)
Copy ==
  /\ pc = "copy"
  /\ Ignored(cur) \cap Linked = {}
  /\ session' = session \cup (RowsOf(cur) \ taken)
  /\ skipped' = (skipped \ RowsOf(cur)) \cup Ignored(cur)
  /\ pc' = "markCompleted"
  /\ UNCHANGED <<tables, taken, completed, source, cur, deleted>>

(* The commit finds links without their observation; all of it rolls back. *)
CopyConflicts ==
  /\ pc = "copy"
  /\ Ignored(cur) \cap Linked # {}
  /\ pc' = "idle"
  /\ cur' = None
  /\ UNCHANGED <<tables, session, taken, completed, source, deleted, skipped>>

MarkCompleted ==
  /\ pc = "markCompleted"
  /\ completed' = TRUE
  /\ pc' = "markSource"
  /\ UNCHANGED <<tables, session, taken, source, cur, deleted, skipped>>

MarkSource ==
  /\ pc = "markSource"
  /\ source' = cur
  /\ pc' = "drop"
  /\ UNCHANGED <<tables, session, taken, completed, cur, deleted, skipped>>

(* One index transaction drops the tables, and the drain is over.          *)
Drop ==
  /\ pc = "drop"
  /\ tables' = [tables EXCEPT ![cur] = FALSE]
  /\ pc' = "idle"
  /\ cur' = None
  /\ UNCHANGED <<session, taken, completed, source, deleted, skipped>>

(* The commit that comes next fails, or the process dies before it: the    *)
(* open transaction rolls back, the error is swallowed, the reindex goes   *)
(* on (or is gone) and a later one drains again.                           *)
Interrupted ==
  /\ pc # "idle"
  /\ pc' = "idle"
  /\ cur' = None
  /\ UNCHANGED <<tables, session, taken, completed, source, deleted, skipped>>

(* The product expires a deferred reference, prunes the tool calls of a    *)
(* session or consolidates its observations.                               *)
ProductDeletes(r) ==
  /\ r \in session
  /\ session' = session \ {r}
  /\ deleted' = deleted \cup {r}
  /\ UNCHANGED <<tables, taken, completed, source, pc, cur, skipped>>

(* persistObservation stores a newer observation under the dedupe_key of r,*)
(* which is not in the store to be found by it ...                         *)
ProductTakesKey(r) ==
  /\ r \in Keyed \ (session \cup taken)
  /\ taken' = taken \cup {r}
  /\ UNCHANGED <<tables, session, completed, source, pc, cur, deleted, skipped>>

(* ... and a later sweep deletes that one.                                 *)
ProductFreesKey(r) ==
  /\ r \in taken
  /\ taken' = taken \ {r}
  /\ UNCHANGED <<tables, session, completed, source, pc, cur, deleted, skipped>>

Next ==
  \/ \E i \in Index : BeginDrain(i)
  \/ Copy
  \/ CopyConflicts
  \/ MarkCompleted
  \/ MarkSource
  \/ Drop
  \/ Interrupted
  \/ \E r \in Row : ProductDeletes(r)
  \/ \E r \in Keyed : ProductTakesKey(r) \/ ProductFreesKey(r)

Spec == Init /\ [][Next]_vars

(* Interruptions are transient: an index that is reindexed again and again *)
(* is drained again and again, and a commit attempted forever goes through *)
(* some time.                                                              *)
Fairness ==
  /\ \A i \in Index : SF_vars(BeginDrain(i))
  /\ SF_vars(Copy)
  /\ WF_vars(CopyConflicts)
  /\ SF_vars(MarkCompleted)
  /\ SF_vars(MarkSource)
  /\ SF_vars(Drop)

FairSpec == Spec /\ Fairness

-----------------------------------------------------------------------------
(* A row is safe while its index still holds it, once the session store    *)
(* has it, and when the product has deleted it since.                      *)
Accounted(r) == tables[Home[r]] \/ r \in session \/ r \in deleted

(* An observation without links is given up for the newer one that has its *)
(* dedupe_key when its index is copied; nothing reports it.                *)
GivenUp(r) == r \in skipped \ Linked

(* What the module promises: "the tables are dropped only after a          *)
(* successful copy" (reindexRepo.ts:265) and a marker left by a different  *)
(* index does not suppress this one's migration.  It does NOT hold, even   *)
(* of the rows that no copy gave up: a drain cut between its two meta      *)
(* writes leaves a marker that names no index, the next drain of every     *)
(* other index in the directory believes it, and drops rows it never       *)
(* copied.                                                                 *)
NothingLost == \A r \in Row : Accounted(r) \/ GivenUp(r)

(* A row is lost in two ways only: under that marker, or because it was    *)
(* given up for another observation.  As long as no drain has been cut     *)
(* between its meta writes with no earlier one complete, every row that    *)
(* has links or a dedupe_key of its own is accounted for, whatever else is *)
(* interrupted, retried or deleted meanwhile.                              *)
LostInTwoWays == (completed /\ source = None) \/ NothingLost

(* Once an index is recorded as drained the session store answers for its  *)
(* rows: no later drain brings back one that the product deleted ("crash   *)
(* after marking: a retry only drops them").  Before that a retry does     *)
(* bring it back, and after another index's drain has taken the marker     *)
(* over it does again.                                                     *)
RecordedIsFinal ==
  [][\A i \in Index : Recorded(i) => session' \cap RowsOf(i) \subseteq session]_vars

(* Every index is drained in the end, also one whose run was cut between   *)
(* the mark and the drop, unless newer observations keep taking the        *)
(* dedupe_key of a row with links: then each retry fails as the last did.  *)
DrainedUnlessKeysAreTaken ==
  \A i \in Index : <>[](~tables[i]) \/ []<>(Ignored(i) \cap Linked # {})

=============================================================================
