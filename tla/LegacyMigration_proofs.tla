----------------------- MODULE LegacyMigration_proofs -----------------------
(***************************************************************************)
(* Proofs about LegacyMigration, for any indexes of a directory, any rows, *)
(* dedupe_keys and links, and any interruptions and deletions.             *)
(*                                                                         *)
(* What holds of the tables of one index rests on what the marker says of  *)
(* another, so the invariant follows the marker through the drain: Named   *)
(* (the index it names was copied), Copied (so was the one being marked),  *)
(* Asked (what the drain found when it asked whether it was recorded) and  *)
(* Naming (while the first marker is written, no index has been dropped on *)
(* the word of an unnamed one).                                            *)
(***************************************************************************)
EXTENDS LegacyMigration, TLAPS

(* The store answers for every row of the index, as far as its last copy   *)
(* inserted them.                                                          *)
Kept(i) == RowsOf(i) \subseteq session \cup deleted \cup skipped

DroppedAreKept == \A i \in Index : ~tables[i] => Kept(i)

Named == source # None => Kept(source)

Copied == pc \in {"markCompleted", "markSource"} => Kept(cur)

Asked ==
  /\ pc \in {"copy", "markCompleted"} => ~Recorded(cur)
  /\ pc = "markSource" => completed
  /\ pc = "drop" => Recorded(cur)

Naming == pc = "markSource" /\ source = None => DroppedAreKept

IInv ==
  /\ TypeOK
  /\ skipped \cap Linked = {}
  /\ Named
  /\ Copied
  /\ Asked
  /\ Naming
  /\ (completed /\ source = None) \/ DroppedAreKept


-----------------------------------------------------------------------------
(* No step takes a row away except a deletion, which accounts for it: what *)
(* is kept of an index stays kept.                                         *)
LEMMA KeptStays ==
  ASSUME [Next]_vars
  PROVE  session \cup deleted \cup skipped \subseteq session' \cup deleted' \cup skipped'
BY DEF Next, vars, BeginDrain, Copy, CopyConflicts, MarkCompleted, MarkSource, Drop,
       Interrupted, ProductDeletes, ProductTakesKey, ProductFreesKey, Ignored, RowsOf

(* Home is no variable: neither are the rows of an index.                  *)
LEMMA KeptAfter ==
  ASSUME [Next]_vars, NEW i, Kept(i)
  PROVE  RowsOf(i) \subseteq session' \cup deleted' \cup skipped'
BY KeptStays DEF Kept

LEMMA TypeStep ==
  ASSUME TypeOK, [Next]_vars
  PROVE  TypeOK'
<1> USE NoneAssumption, KeyedAssumption DEF TypeOK
<1>1. CASE \E i \in Index : BeginDrain(i)
  BY <1>1 DEF BeginDrain
<1>2. CASE Copy
  BY <1>2 DEF Copy, RowsOf, Ignored
<1>3. CASE CopyConflicts
  BY <1>3 DEF CopyConflicts
<1>4. CASE MarkCompleted
  BY <1>4 DEF MarkCompleted
<1>5. CASE MarkSource
  BY <1>5 DEF MarkSource
<1>6. CASE Drop
  BY <1>6 DEF Drop
<1>7. CASE Interrupted
  BY <1>7 DEF Interrupted
<1>8. CASE \E r \in Row : ProductDeletes(r)
  BY <1>8 DEF ProductDeletes
<1>9. CASE \E r \in Keyed : ProductTakesKey(r) \/ ProductFreesKey(r)
  BY <1>9 DEF ProductTakesKey, ProductFreesKey
<1>10. CASE UNCHANGED vars
  BY <1>10 DEF vars
<1> QED
  BY <1>1, <1>2, <1>3, <1>4, <1>5, <1>6, <1>7, <1>8, <1>9, <1>10 DEF Next

(* A step that leaves the tables, the marker and the drain alone disturbs  *)
(* nothing that only grows with what is kept.                              *)
LEMMA AsideStep ==
  ASSUME IInv, [Next]_vars, UNCHANGED <<tables, completed, source, pc, cur, skipped>>
  PROVE  IInv'
<1>1. TypeOK'
  BY TypeStep DEF IInv
<1>2. \A i : Kept(i) => Kept(i)'
  BY KeptAfter DEF Kept, RowsOf
<1> QED
  BY <1>1, <1>2 DEF IInv, Named, Copied, Asked, Naming, DroppedAreKept, Recorded

(* Ending a drain early leaves tables and marker alone.                    *)
LEMMA EndStep ==
  ASSUME IInv, [Next]_vars, pc' = "idle", UNCHANGED <<tables, completed, source, skipped>>
  PROVE  IInv'
<1>1. TypeOK'
  BY TypeStep DEF IInv
<1>2. \A i : Kept(i) => Kept(i)'
  BY KeptAfter DEF Kept, RowsOf
<1> QED
  BY <1>1, <1>2 DEF IInv, Named, Copied, Asked, Naming, DroppedAreKept, Recorded

(* IInv is inductive: one step per commit of the drain.                    *)
LEMMA Inductive ==
  ASSUME IInv, [Next]_vars
  PROVE  IInv'
<1>1. TypeOK'
  BY TypeStep DEF IInv
<1>2. \A i : Kept(i) => Kept(i)'
  BY KeptAfter DEF Kept, RowsOf
<1>3. ASSUME NEW i \in Index, BeginDrain(i)
      PROVE  IInv'
  BY <1>1, <1>2, <1>3
  DEF BeginDrain, IInv, Named, Copied, Asked, Naming, DroppedAreKept, Recorded
<1>4. CASE Copy
  <2>1. Kept(cur)'
    BY <1>4 DEF Copy, Kept, RowsOf, Ignored
  <2>2. skipped' \cap Linked = {}
    BY <1>4 DEF Copy, IInv
  <2> QED
    BY <1>1, <1>2, <1>4, <2>1, <2>2
    DEF Copy, IInv, Named, Copied, Asked, Naming, DroppedAreKept, Recorded
<1>5. CASE CopyConflicts
  BY <1>5, EndStep DEF CopyConflicts
<1>6. CASE MarkCompleted
  <2>1. source = None => DroppedAreKept
    BY <1>6 DEF MarkCompleted, IInv, Asked, Recorded
  <2> QED
    BY <1>1, <1>2, <1>6, <2>1
    DEF MarkCompleted, IInv, Named, Copied, Asked, Naming, DroppedAreKept, Recorded
<1>7. CASE MarkSource
  <2>1. cur \in Index
    BY <1>7 DEF MarkSource, IInv, TypeOK
  <2>2. DroppedAreKept
    BY <1>7 DEF MarkSource, IInv, Naming
  <2> QED
    BY <1>1, <1>2, <1>7, <2>1, <2>2
    DEF MarkSource, IInv, Named, Copied, Asked, Naming, DroppedAreKept, Recorded
<1>8. CASE Drop
  <2>1. (completed /\ source = None) \/ (Kept(cur) /\ DroppedAreKept)
    BY <1>8 DEF Drop, IInv, Named, Asked, Recorded
  <2>2. \A i \in Index : ~tables'[i] => i = cur \/ ~tables[i]
    BY <1>8 DEF Drop, IInv, TypeOK
  <2> QED
    BY <1>1, <1>2, <1>8, <2>1, <2>2
    DEF Drop, IInv, Named, Copied, Asked, Naming, DroppedAreKept, Recorded
<1>9. CASE Interrupted
  BY <1>9, EndStep DEF Interrupted
<1>10. CASE \E r \in Row : ProductDeletes(r)
  BY <1>10, AsideStep DEF ProductDeletes
<1>11. CASE \E r \in Keyed : ProductTakesKey(r) \/ ProductFreesKey(r)
  BY <1>11, AsideStep DEF ProductTakesKey, ProductFreesKey
<1>12. CASE UNCHANGED vars
  BY <1>12, AsideStep DEF vars
<1> QED
  BY <1>3, <1>4, <1>5, <1>6, <1>7, <1>8, <1>9, <1>10, <1>11, <1>12 DEF Next

LEMMA Initially == Init => IInv
<1> SUFFICES ASSUME Init PROVE IInv
  OBVIOUS
<1>1. TypeOK
  BY DEF Init, TypeOK
<1>2. \A i \in Index : tables[i]
  BY DEF Init
<1> QED
  BY <1>1, <1>2
  DEF Init, IInv, Named, Copied, Asked, Naming, DroppedAreKept, Recorded

LEMMA Invariant == Spec => []IInv
<1>1. Init => IInv
  BY Initially
<1>2. IInv /\ [Next]_vars => IInv'
  BY Inductive
<1> QED
  BY <1>1, <1>2, PTL DEF Spec

-----------------------------------------------------------------------------
(* The drain of a legacy index (migrateLegacySessionState) keeps its       *)
(* variables typed, and no observation has the dedupe_key of another.      *)
THEOREM TypeCorrect == Spec => []TypeOK
<1>1. IInv => TypeOK
  BY DEF IInv
<1> QED
  BY <1>1, Invariant, PTL

(* Unless the marker names no index, every row of every index of the       *)
(* directory is in its tables, in the session store, was deleted by the    *)
(* product, or is an observation without links that the copy of its index  *)
(* gave up for one with its dedupe_key, wherever drains were cut.          *)
THEOREM LossHasTwoCauses == Spec => []LostInTwoWays
<1>1. IInv => LostInTwoWays
  <2> SUFFICES ASSUME IInv, DroppedAreKept PROVE NothingLost
    BY DEF IInv, LostInTwoWays
  <2>1. ASSUME NEW r \in Row PROVE Accounted(r) \/ GivenUp(r)
    <3>1. Home[r] \in Index /\ r \in RowsOf(Home[r])
      BY HomeAssumption DEF RowsOf
    <3>2. r \in skipped => GivenUp(r)
      BY DEF IInv, GivenUp
    <3> QED
      BY <3>1, <3>2 DEF DroppedAreKept, Kept, Accounted
  <2> QED
    BY <2>1 DEF NothingLost
<1> QED
  BY <1>1, Invariant, PTL

(* A retry over an index that is recorded brings no deleted row back.      *)
THEOREM RecordedStaysFinal == Spec => RecordedIsFinal
<1> DEFINE Final == \A i \in Index : Recorded(i) => session' \cap RowsOf(i) \subseteq session
<1>1. IInv /\ [Next]_vars => [Final]_vars
  <2> SUFFICES ASSUME IInv, Next PROVE Final
    OBVIOUS
  <2>1. CASE Copy
    <3>1. ~Recorded(cur)
      BY <2>1 DEF Copy, IInv, Asked
    <3> QED
      BY <2>1, <3>1 DEF Copy, RowsOf
  <2>2. CASE ~Copy
    <3>1. session' \subseteq session
      BY <2>2 DEF Next, BeginDrain, CopyConflicts, MarkCompleted, MarkSource, Drop,
                  Interrupted, ProductDeletes, ProductTakesKey, ProductFreesKey
    <3> QED
      BY <3>1
  <2> QED
    BY <2>1, <2>2
<1> QED
  BY <1>1, Invariant, PTL DEF Spec, RecordedIsFinal

=============================================================================
