----------------------------- MODULE DeferredRefs -----------------------------
(***************************************************************************)
(* The two stores of deferred V-REFs.  run_pipeline publishes a payload in *)
(* the store of its process (deferredVexpStore.ts) and then persists it in *)
(* the session database its repository's processes share                   *)
(* (deferredVexpRefsRepository.ts); expand_vexp_ref asks the first, then   *)
(* the second (expandDeferredVexpRef.ts).  Both have a capacity, and what  *)
(* is evicted leaves a mark by which it is answered "expired" and not      *)
(* "unknown_hash"; the marks of the database are capped too.               *)
(*                                                                         *)
(* Every SQL statement commits by itself and is one step: other processes  *)
(* come between the statements of a persist, and a crash or a statement    *)
(* that fails (SQLITE_BUSY, a full disk) may cut it off.                   *)
(* A hash is taken of the content, which therefore is no state.  No caller *)
(* passes expiresAtMs, so nothing expires by age.                          *)
(***************************************************************************)
EXTENDS Naturals, Sequences, SequencesExt, FiniteSets, FiniteSetsExt

CONSTANTS
  Proc,         \* processes of one repository: MCP servers, commands
  Hash,         \* hashes, numbers for the order of ties
  Capacity,     \* entries a process retains
  MaxRecords,   \* rows a persist leaves
  MaxTombs,     \* tombstones a persist leaves
  MaxClock,     \* bound: values of Date.now()
  MaxCuts       \* bound: statements that fail and processes that end

ASSUME ConstantsAssumption ==
  /\ IsFiniteSet(Proc)
  /\ Hash \subseteq Nat /\ IsFiniteSet(Hash)
  /\ Capacity \in Nat \ {0}
  /\ MaxRecords \in Nat \ {0}
  /\ MaxTombs \in Nat \ {0}
  /\ MaxClock \in Nat \ {0}
  /\ MaxCuts \in Nat

VARIABLES
  clock,
  row,      \* row[h]: created_at_ms in deferred_vexp_refs, 0 without a row
  tomb,     \* tomb[h]: expired_at_ms in the tombstones, 0 without one
  entries,  \* entries[p]: hashes of p's store, oldest first
  expired,  \* expired[p]: expiredHashes of p's store
  pc,       \* pc[p]: the next statement of p
  ref,      \* ref[p]: the hash p persists, and its created_at_ms
  doomed,   \* doomed[p]: overflowRows
  cuts      \* statements that failed and processes that ended

vars == <<clock, row, tomb, entries, expired, pc, ref, doomed, cuts>>

NoRef == [hash |-> 0, at |-> 0]
Kept(at) == {h \in Hash : at[h] # 0}

\* The oldest keys of a table over its limit: ORDER BY time ASC, hash ASC
\* LIMIT max(count(*) - limit, 0).
Older(at, g, h) == at[g] < at[h] \/ (at[g] = at[h] /\ g < h)
Rank(at, h) == Cardinality({g \in Kept(at) : Older(at, g, h)})
Excess(at, limit) ==
  IF Cardinality(Kept(at)) > limit THEN Cardinality(Kept(at)) - limit ELSE 0
Overflow(at, limit) ==
  [i \in 1..Excess(at, limit) |-> CHOOSE h \in Kept(at) : Rank(at, h) = i - 1]

\* A Map without one of its keys, in the order of insertion.
Without(queue, h) ==
  IF h \in ToSet(queue)
  THEN RemoveAt(queue, CHOOSE i \in DOMAIN queue : queue[i] = h)
  ELSE queue

Init ==
  /\ clock = 1
  /\ row = [h \in Hash |-> 0]
  /\ tomb = [h \in Hash |-> 0]
  /\ entries = [p \in Proc |-> <<>>]
  /\ expired = [p \in Proc |-> {}]
  /\ pc = [p \in Proc |-> "idle"]
  /\ ref = [p \in Proc |-> NoRef]
  /\ doomed = [p \in Proc |-> <<>>]
  /\ cuts = 0

Go(p, at) == pc' = [pc EXCEPT ![p] = at]

-----------------------------------------------------------------------------
(* publish and persistDeferredVexpRef.                                     *)

\* Mutant: a hash published again keeps its expired mark.
Publish_KeepsMark(p, h) ==
  LET queue == Append(Without(entries[p], h), h)
      over == Len(queue) > Capacity
  IN /\ pc[p] = "idle"
     /\ entries' = [entries EXCEPT ![p] = IF over THEN Tail(queue) ELSE queue]
     /\ expired' = [expired EXCEPT ![p] = IF over THEN @ \cup {Head(queue)} ELSE @]
     /\ ref' = [ref EXCEPT ![p] = [hash |-> h, at |-> clock]]
     /\ Go(p, "upsert")
     /\ UNCHANGED <<clock, row, tomb, doomed, cuts>>

Publish(p, h) ==
  LET queue == Append(Without(entries[p], h), h)
      over == Len(queue) > Capacity
  IN /\ pc[p] = "idle"
     /\ entries' = [entries EXCEPT ![p] = IF over THEN Tail(queue) ELSE queue]
     /\ expired' = [expired EXCEPT ![p] =
          (@ \ {h}) \cup IF over THEN {Head(queue)} ELSE {}]
     /\ ref' = [ref EXCEPT ![p] = [hash |-> h, at |-> clock]]
     /\ Go(p, "upsert")
     /\ UNCHANGED <<clock, row, tomb, doomed, cuts>>

Upsert(p) ==
  /\ pc[p] = "upsert"
  /\ row' = [row EXCEPT ![ref[p].hash] = ref[p].at]
  /\ Go(p, "untomb")
  /\ UNCHANGED <<clock, tomb, entries, expired, ref, doomed, cuts>>

DeleteTombstone(p) ==
  /\ pc[p] = "untomb"
  /\ tomb' = [tomb EXCEPT ![ref[p].hash] = 0]
  /\ ref' = [ref EXCEPT ![p] = NoRef]
  /\ Go(p, "select")
  /\ UNCHANGED <<clock, row, entries, expired, doomed, cuts>>

\* Mutant: one row too many is kept.
SelectOverflow_OneMore(p) ==
  /\ pc[p] = "select"
  /\ doomed' = [doomed EXCEPT ![p] = Overflow(row, MaxRecords + 1)]
  /\ Go(p, "evict")
  /\ UNCHANGED <<clock, row, tomb, entries, expired, ref, cuts>>

SelectOverflow(p) ==
  /\ pc[p] = "select"
  /\ doomed' = [doomed EXCEPT ![p] = Overflow(row, MaxRecords)]
  /\ Go(p, "evict")
  /\ UNCHANGED <<clock, row, tomb, entries, expired, ref, cuts>>

\* expirePersistentDeferredVexpRef of the next row: it is deleted, then
\* buried, whatever became of it since it was selected.
DeleteRow(p) ==
  /\ pc[p] = "evict"
  /\ doomed[p] # <<>>
  /\ row' = [row EXCEPT ![Head(doomed[p])] = 0]
  /\ Go(p, "bury")
  /\ UNCHANGED <<clock, tomb, entries, expired, ref, doomed, cuts>>

Bury(p) ==
  /\ pc[p] = "bury"
  /\ tomb' = [tomb EXCEPT ![Head(doomed[p])] = clock]
  /\ doomed' = [doomed EXCEPT ![p] = Tail(@)]
  /\ Go(p, "evict")
  /\ UNCHANGED <<clock, row, entries, expired, ref, cuts>>

\* The oldest tombstones over the limit go.  The ref that was persisted is
\* resolved once more, for a result nobody uses.
TrimTombstones(p) ==
  /\ pc[p] = "evict"
  /\ doomed[p] = <<>>
  /\ tomb' = [h \in Hash |->
       IF h \in ToSet(Overflow(tomb, MaxTombs)) THEN 0 ELSE tomb[h]]
  /\ Go(p, "idle")
  /\ UNCHANGED <<clock, row, entries, expired, ref, doomed, cuts>>

-----------------------------------------------------------------------------
(* resolveDeferredVexpRef: what expand_vexp_ref answers.  Nothing a model   *)
(* needs changes: last_accessed_at_ms is read by nobody.                   *)

\* Mutant: the database is not asked for an expired hash.
Resolution_ProcessMarks(p, h) ==
  IF h \in ToSet(entries[p]) \/ row[h] # 0 THEN "resolved"
  ELSE IF h \in expired[p] THEN "expired" ELSE "unknown_hash"

Resolution(p, h) ==
  IF h \in ToSet(entries[p]) \/ row[h] # 0 THEN "resolved"
  ELSE IF h \in expired[p] \/ tomb[h] # 0 THEN "expired" ELSE "unknown_hash"

-----------------------------------------------------------------------------
\* The persist of p, if it is at one, ends before its next statement.
CutOff(p) ==
  /\ cuts < MaxCuts
  /\ cuts' = cuts + 1
  /\ ref' = [ref EXCEPT ![p] = NoRef]
  /\ doomed' = [doomed EXCEPT ![p] = <<>>]
  /\ Go(p, "idle")
  /\ UNCHANGED <<clock, row, tomb>>

\* The statement fails: nothing is rolled back or tried again, the error ends
\* run_pipeline, and the process goes on with the store it published in.
Fails(p) ==
  /\ pc[p] # "idle"
  /\ CutOff(p)
  /\ UNCHANGED <<entries, expired>>

\* The process ends, and another one takes its place.
Crash(p) ==
  /\ CutOff(p)
  /\ entries' = [entries EXCEPT ![p] = <<>>]
  /\ expired' = [expired EXCEPT ![p] = {}]

Tick ==
  /\ clock < MaxClock
  /\ clock' = clock + 1
  /\ UNCHANGED <<row, tomb, entries, expired, pc, ref, doomed, cuts>>

ProcStep(p) ==
  \/ \E h \in Hash : Publish(p, h)
  \/ Upsert(p) \/ DeleteTombstone(p) \/ SelectOverflow(p)
  \/ DeleteRow(p) \/ Bury(p) \/ TrimTombstones(p)
  \/ Fails(p) \/ Crash(p)

Next == Tick \/ \E p \in Proc : ProcStep(p)

Spec == Init /\ [][Next]_vars

-----------------------------------------------------------------------------
(* Properties.                                                             *)

\* The values of the variables; no hash is both an entry and expired, and no
\* entry is there twice (publish).
TypeOK ==
  /\ clock \in 1..MaxClock
  /\ row \in [Hash -> 0..MaxClock]
  /\ tomb \in [Hash -> 0..MaxClock]
  /\ \A p \in Proc :
       /\ entries[p] \in Seq(Hash)
       /\ Len(entries[p]) =< Capacity
       /\ IsInjective(entries[p])
       /\ expired[p] \subseteq Hash \ ToSet(entries[p])
       /\ doomed[p] \in Seq(Hash)
  /\ pc \in [Proc -> {"idle", "upsert", "untomb", "select", "evict", "bury"}]
  /\ ref \in [Proc -> [hash : Hash \cup {0}, at : 0..MaxClock]]
  /\ cuts \in 0..MaxCuts

\* The table is over its limit by no more than the persists at work and those
\* a crash or a failed statement cut off: processes that sweep the same rows
\* neither evict too few nor count each other's (cleanupDeferredVexpRefs).
Sweeping == {p \in Proc : pc[p] \in {"untomb", "select", "evict", "bury"}}
RecordsAreBounded ==
  Cardinality(Kept(row)) =< MaxRecords + Cardinality(Sweeping) + cuts

\* The hash p whose row is gone and whose burial is the next statement.
Due(p) == IF pc[p] = "bury" THEN {Head(doomed[p])} ELSE {}
Answerable(p, h) ==
  \/ Resolution(p, h) # "unknown_hash"
  \/ \E q \in Proc : h \in Due(q)

\* A ref that p answers for, or will once a burial that is due is done, comes
\* to be answered "unknown_hash" only if p is a new process and the database
\* does not know it, or if p's own store does not know it and
\*   - its tombstone is over the limit, or
\*   - a crash comes between the deletion of its row and its burial, or
\*   - its burial fails, after its row was deleted, or
\*   - it was evicted, by a selection made before, between the two statements
\*     with which it is published again, the second of which deletes the new
\*     tombstone (persistDeferredVexpRef).
UnknownOnlyInFiveWays ==
  [][\A p \in Proc, h \in Hash :
       (Answerable(p, h) /\ ~Answerable(p, h)') =>
         \/ Crash(p) /\ row[h] = 0 /\ tomb[h] = 0
         \/ /\ h \notin ToSet(entries[p]) \cup expired[p]
            /\ \E q \in Proc :
                 \/ TrimTombstones(q) /\ h \in ToSet(Overflow(tomb, MaxTombs))
                 \/ Crash(q) /\ h \in Due(q)
                 \/ Fails(q) /\ h \in Due(q)
                 \/ DeleteTombstone(q) /\ ref[q].hash = h /\ row[h] = 0]_vars
=============================================================================
