----------------------- MODULE IndexLifecycle_proofs -----------------------
(***************************************************************************)
(* Proofs about IndexLifecycle.  The parse cache is content addressed for  *)
(* every set of files, contents, parsers and digests, every history of the *)
(* sibling and however many runs, crashes, failed writes and edits: its    *)
(* entries are keyed by the hash that scanRepo took, but parsed from what  *)
(* readFile returned later, so the argument follows a content from scan to *)
(* cache.                                                                  *)
(***************************************************************************)
EXTENDS IndexLifecycle, FiniteSetTheorems, TLAPS

Untouched == "midRunEdit" \notin events

(* Between runs nothing is left of the last one.  While scanning, what is  *)
(* scanned is not still to be scanned; while reading, what is still to be  *)
(* read has been scanned; and it is as it was scanned.                     *)
ScanInv ==
  /\ pc = "idle" => scanned = Empty /\ content = Empty
  /\ pc = "scan" => content = Empty /\ \A f \in DOMAIN scanned : f \notin todo
  /\ pc = "read" => todo \subseteq DOMAIN scanned
  /\ pc \in {"scan", "read"} /\ Untouched =>
       \A f \in DOMAIN scanned : f \in DOMAIN disk /\ scanned[f] = disk[f]

(* What was read is what was scanned.                                      *)
ReadInv ==
  pc \in {"read", "plan"} =>
    /\ DOMAIN content \subseteq DOMAIN scanned
    /\ Untouched => \A f \in DOMAIN content : content[f] = scanned[f]

(* A result derives from the content whose hash it carries.                *)
Faithful(results) == \A f \in DOMAIN results : results[f].body = results[f].hash

ResultsInv == pc = "cache" /\ Untouched => Faithful(outcome.results)

CacheInv == ScanInv /\ ReadInv /\ ResultsInv /\ CacheIsContentAddressed

----------------------------------------------------------------------------
(* A parse of what was read is faithful.                                   *)
LEMMA ParsedFaithful ==
  ASSUME NEW S, ReadInv, Untouched, pc = "plan"
  PROVE  Faithful(Parsed(S))
BY DEF ReadInv, Faithful, Parsed

(* So is one that takes unmodified files from a content addressed cache.   *)
LEMMA ResultsFaithful ==
  ASSUME NEW R, NEW C, ReadInv, CacheIsContentAddressed, Untouched, pc = "plan",
         \A f \in R : f \in DOMAIN scanned => scanned[f] = job.previous.files[f].hash
  PROVE  Faithful(Results(R, C))
<1> DEFINE hits   == {f \in R \cap DOMAIN content : Cached(f) # {}}
           parsed == Parsed(Files \ (hits \cup C))
           all    == [f \in hits \cup DOMAIN parsed |->
                        IF f \in hits
                        THEN [hash |-> scanned[f], body |-> (CHOOSE e \in Cached(f) : TRUE).body]
                        ELSE parsed[f]]
<1>1. Results(R, C) = all
  BY DEF Results
<1>2. Faithful(parsed)
  BY ParsedFaithful
<1>3. ASSUME NEW f \in hits
      PROVE  (CHOOSE e \in Cached(f) : TRUE).body = scanned[f]
  <2> DEFINE entry == CHOOSE e \in Cached(f) : TRUE
  <2>1. entry \in Cached(f)
    OBVIOUS
  <2>2. entry \in cache /\ entry.hash = job.previous.files[f].hash
    BY <2>1 DEF Cached
  <2>3. entry.body = entry.hash
    BY <2>2 DEF CacheIsContentAddressed, Untouched
  <2>4. scanned[f] = job.previous.files[f].hash
    BY DEF ReadInv
  <2> QED
    BY <2>2, <2>3, <2>4
<1>4. ASSUME NEW f \in DOMAIN all
      PROVE  all[f].body = all[f].hash
  <2>1. CASE f \in hits
    BY <1>3, <2>1
  <2>2. CASE f \notin hits
    BY <1>2, <2>2 DEF Faithful
  <2> QED
    BY <2>1, <2>2
<1> HIDE DEF all
<1> QED
  BY <1>1, <1>4 DEF Faithful

(* Every plan commits to faithful results.                                 *)
LEMMA PlansFaithful ==
  ASSUME CacheInv, PlanFull \/ PlanBodiesOnly \/ PlanBoundedClosure \/ PlanRebuild, Untouched
  PROVE  Faithful(outcome'.results)
<1>0. ReadInv /\ CacheIsContentAddressed
  BY DEF CacheInv
<1>1. CASE PlanFull
  <2> DEFINE R == IF SameFiles /\ Modified = {} THEN Indexed(job.previous) ELSE {}
  <2>1. outcome'.results = Results(R, {}) /\ pc = "plan"
    BY <1>1 DEF PlanFull, Proceed
  <2>2. \A f \in R : f \in DOMAIN scanned => scanned[f] = job.previous.files[f].hash
    BY DEF Modified
  <2> HIDE DEF R
  <2> QED
    BY <2>1, <2>2, <1>0, ResultsFaithful
<1>2. ASSUME pc = "plan" PROVE Faithful(Candidate)
  <2> DEFINE R == Indexed(job.previous) \ Modified
             C == (DOMAIN scanned \ Modified) \ Indexed(job.previous)
  <2>1. \A f \in R : f \in DOMAIN scanned => scanned[f] = job.previous.files[f].hash
    BY DEF Modified
  <2>2. Candidate = Results(R, C)
    BY DEF Candidate
  <2> HIDE DEF R, C
  <2> QED
    BY <1>0, <1>2, <2>1, <2>2, ResultsFaithful
<1>3. CASE PlanBodiesOnly
  BY <1>2, <1>3 DEF PlanBodiesOnly, Incremental, Proceed
<1>4. CASE PlanBoundedClosure
  <2>1. pc = "plan"
    BY <1>4 DEF PlanBoundedClosure, Incremental
  <2>2. PICK closure \in SUBSET (DOMAIN Candidate \ Modified) :
          outcome'.results =
            [f \in (DOMAIN Candidate \ closure) \cup DOMAIN Parsed(closure) |->
               IF f \in DOMAIN Candidate \ closure THEN Candidate[f] ELSE Parsed(closure)[f]]
    BY <1>4 DEF PlanBoundedClosure, Proceed
  <2>3. Faithful(Candidate) /\ Faithful(Parsed(closure))
    BY <1>0, <1>2, <2>1, ParsedFaithful
  <2> QED
    BY <2>2, <2>3 DEF Faithful
<1>5. CASE PlanRebuild
  BY <1>0, <1>5, ParsedFaithful DEF PlanRebuild, Incremental, Proceed
<1> QED
  BY <1>1, <1>3, <1>4, <1>5

----------------------------------------------------------------------------
(* What the sibling left in the cache is content addressed.                *)
LEMMA CacheInit == Init => CacheInv
<1> SUFFICES ASSUME Init PROVE CacheInv
  OBVIOUS
<1>1. ScanInv /\ ReadInv /\ ResultsInv
  BY DEF Init, ScanInv, ReadInv, ResultsInv, Untouched
<1>2. \A e \in cache : e.body = e.hash
  <2>1. cache = {} \/ \E listing : cache = {CacheEntry(f, ParsedListing(listing)[f], ContextOf(ParsedListing(listing))) :
                                                f \in DOMAIN ParsedListing(listing)}
    BY DEF Init
  <2>2. \A listing : \A f \in DOMAIN ParsedListing(listing) :
          ParsedListing(listing)[f].body = ParsedListing(listing)[f].hash
    BY DEF ParsedListing
  <2> QED
    BY <2>1, <2>2 DEF CacheEntry
<1> QED
  BY <1>1, <1>2 DEF CacheInv, CacheIsContentAddressed

(* No step loses the invariant: an edit of a file that was scanned but not *)
(* read is one of the events that the invariant excludes.                  *)
LEMMA CacheStep == CacheInv /\ [Next]_vars => CacheInv'
<1> SUFFICES ASSUME CacheInv, [Next]_vars PROVE CacheInv'
  OBVIOUS
<1> USE DEF CacheInv
<1>1. CASE BeginReindex \/ BeginInit
  BY <1>1 DEF BeginReindex, BeginInit, Begin, ScanInv, ReadInv, ResultsInv, Untouched, Empty,
              CacheIsContentAddressed, storeVars
<1>2. ASSUME NEW f \in Files, ScanFile(f) PROVE CacheInv'
  <2>1. UNCHANGED <<job, content, outcome, cache, disk, events>> /\ pc = "scan" /\ f \in todo
    BY <1>2 DEF ScanFile, storeVars, worldVars
  <2>2. /\ content = Empty
        /\ \A g \in DOMAIN scanned' : g \in DOMAIN scanned \/ g = f
        /\ pc' = "scan" => todo' = todo \ {f}
        /\ pc' # "scan" => pc' \in {"plan", "read"} /\ todo' = DOMAIN scanned'
    BY <1>2 DEF ScanFile, ScanInv
  <2>3. Untouched => \A g \in DOMAIN scanned' : g \in DOMAIN disk /\ scanned'[g] = disk[g]
    BY <1>2, <2>1 DEF ScanFile, ScanInv
  <2>4. ScanInv'
    BY <2>1, <2>2, <2>3 DEF ScanInv, Untouched
  <2>5. ReadInv'
    BY <2>1, <2>2 DEF ReadInv, Empty
  <2> QED
    BY <2>1, <2>2, <2>4, <2>5 DEF ResultsInv, CacheIsContentAddressed
<1>3. ASSUME NEW f \in Files, ReadFile(f) \/ ReadFails(f) PROVE CacheInv'
  <2>1. /\ UNCHANGED <<job, scanned, outcome, cache, disk>>
        /\ pc = "read" /\ f \in todo /\ todo' \subseteq todo /\ pc' \in {"plan", "read"}
        /\ Untouched' => Untouched
    BY <1>3 DEF ReadFile, ReadFails, AfterRead, storeVars, Untouched
  <2>2. ScanInv'
    BY <2>1 DEF ScanInv, Untouched
  <2>3. DOMAIN content' \subseteq DOMAIN scanned
    BY <1>3, <2>1 DEF ReadFile, ReadFails, ReadInv, ScanInv
  <2>4. Untouched => \A g \in DOMAIN content' : content'[g] = scanned[g]
    BY <1>3, <2>1 DEF ReadFile, ReadFails, ReadInv, ScanInv
  <2> QED
    BY <2>1, <2>2, <2>3, <2>4 DEF ReadInv, ResultsInv, CacheIsContentAddressed, Untouched
<1>4. CASE PlanNoop
  BY <1>4 DEF PlanNoop, storeVars, worldVars, ScanInv, ReadInv, ResultsInv, CacheIsContentAddressed
<1>5. CASE PlanFull \/ PlanBodiesOnly \/ PlanBoundedClosure \/ PlanRebuild
  <2>1. pc' = "cache" /\ UNCHANGED <<cache, events>>
    BY <1>5 DEF PlanFull, PlanBodiesOnly, PlanBoundedClosure, PlanRebuild, Proceed, storeVars, worldVars
  <2>2. Untouched => Faithful(outcome'.results)
    BY <1>5, PlansFaithful
  <2> QED
    BY <2>1, <2>2 DEF ScanInv, ReadInv, ResultsInv, CacheIsContentAddressed, Untouched, Faithful
<1>6. CASE WriteParseCache
  <2>1. pc = "cache" /\ pc' = "commit" /\ UNCHANGED events
    BY <1>6 DEF WriteParseCache
  <2>2. \A e \in cache' : e \in cache \/ \E f \in DOMAIN outcome.results :
                                          e = CacheEntry(f, outcome.results[f], outcome.snapshot.context)
    BY <1>6 DEF WriteParseCache
  <2>3. Untouched => \A e \in cache' : e.body = e.hash
    BY <2>1, <2>2 DEF ResultsInv, Faithful, CacheEntry, CacheIsContentAddressed, Untouched
  <2> QED
    BY <2>1, <2>3 DEF ScanInv, ReadInv, ResultsInv, CacheIsContentAddressed, Untouched
<1>7. CASE Commit
  BY <1>7 DEF Commit, worldVars, ScanInv, ReadInv, ResultsInv, CacheIsContentAddressed
<1>8. CASE RetryFull
  BY <1>8 DEF RetryFull, storeVars, worldVars, ScanInv, ReadInv, ResultsInv, CacheIsContentAddressed, Empty
<1>9. CASE ValidationThrown
  BY <1>9 DEF ValidationThrown, ForgetRun, storeVars, worldVars, ScanInv, ReadInv, ResultsInv,
              CacheIsContentAddressed
<1>10. CASE WriteMeta
  BY <1>10 DEF WriteMeta, worldVars, ScanInv, ReadInv, ResultsInv, CacheIsContentAddressed
<1>11. CASE WriteRegistry
  BY <1>11 DEF WriteRegistry, ForgetRun, ScanInv, ReadInv, ResultsInv, CacheIsContentAddressed
<1>12. CASE Crash
  <2>1. pc' = "idle" /\ scanned' = Empty /\ content' = Empty /\ cache' = cache
    BY <1>12 DEF Crash, ForgetRun
  <2>2. "midRunEdit" \in events => "midRunEdit" \in events'
    BY <1>12 DEF Crash
  <2> QED
    BY <2>1, <2>2 DEF ScanInv, ReadInv, ResultsInv, CacheIsContentAddressed
<1>13. ASSUME NEW f \in Files, NEW next, Edit(f, next),
              \A g \in DOMAIN disk \ {f} : g \in DOMAIN next /\ next[g] = disk[g]
       PROVE  CacheInv'
  <2>1. UNCHANGED <<pc, job, scanned, content, todo, outcome, cache>> /\ disk' = next
    BY <1>13 DEF Edit, runVars, storeVars
  <2>2. Untouched' => Untouched /\ ~Unseen(f)
    BY <1>13 DEF Edit, Untouched
  <2>3. pc \in {"scan", "read"} /\ Untouched' => \A g \in DOMAIN scanned : g \in DOMAIN disk \ {f}
    BY <2>2 DEF ScanInv, Unseen
  <2>4. ScanInv'
    BY <1>13, <2>1, <2>2, <2>3 DEF ScanInv
  <2> QED
    BY <2>1, <2>2, <2>4 DEF ReadInv, ResultsInv, CacheIsContentAddressed, Untouched
<1>14. CASE DeleteVtrace
  BY <1>14 DEF DeleteVtrace, runVars, ScanInv, ReadInv, ResultsInv, CacheIsContentAddressed, Untouched
<1>15. ASSUME NEW f \in Files, NEW c \in Contents, Save(f, c) PROVE CacheInv'
  BY <1>13, <1>15 DEF Save
<1>16. ASSUME NEW f \in Files, Remove(f) PROVE CacheInv'
  BY <1>13, <1>16 DEF Remove, Restrict
<1>17. CASE UNCHANGED vars
  BY <1>17 DEF vars, runVars, storeVars, worldVars, ScanInv, ReadInv, ResultsInv,
               CacheIsContentAddressed, Untouched
<1> QED
  BY <1>1, <1>2, <1>3, <1>4, <1>5, <1>6, <1>7, <1>8, <1>9, <1>10, <1>11, <1>12, <1>14, <1>15,
     <1>16, <1>17 DEF Next, Run, World

(* The parse cache is content addressed: no entry holds a parse of another *)
(* content than its key says, unless a file was edited while a run that    *)
(* had hashed it was going on (readParseCacheEntry trusts the key alone).  *)
THEOREM CacheTrusted == Spec => []CacheIsContentAddressed
<1>1. CacheInv => CacheIsContentAddressed
  BY DEF CacheInv
<1> QED
  BY CacheInit, CacheStep, <1>1, PTL DEF Spec

----------------------------------------------------------------------------
(* Types: whatever plan, a result is a row of the files that were read.    *)
LEMMA PartialIntro ==
  ASSUME NEW S, NEW T, NEW D, D \subseteq S, NEW x, x \in [D -> T]
  PROVE  x \in PartialFunctions(S, T)
BY DEF PartialFunctions

LEMMA PartialElim ==
  ASSUME NEW S, NEW T, NEW x, x \in PartialFunctions(S, T)
  PROVE  DOMAIN x \subseteq S /\ x \in [DOMAIN x -> T] /\ \A f \in DOMAIN x : x[f] \in T
BY DEF PartialFunctions

LEMMA EmptyTyped == \A S, T : Empty \in PartialFunctions(S, T) /\ DOMAIN Empty = {}
<1> SUFFICES ASSUME NEW S, NEW T PROVE Empty \in PartialFunctions(S, T) /\ DOMAIN Empty = {}
  OBVIOUS
<1>1. Empty \in [{} -> T] /\ DOMAIN Empty = {}
  BY DEF Empty
<1> QED
  BY <1>1, PartialIntro

LEMMA ContextTyped ==
  ASSUME NEW results, results \in PartialFunctions(Files, Row)
  PROVE  ContextOf(results) \in Context /\ DOMAIN ContextOf(results) = DOMAIN results
<1> DEFINE Pair == {<<Signatures[c], Bindings[c]>> : c \in Contents}
<1>1. DOMAIN results \subseteq Files /\ \A f \in DOMAIN results : results[f] \in Row
  BY PartialElim
<1>2. \A f \in DOMAIN results : <<Signatures[results[f].body], Bindings[results[f].body]>> \in Pair
  BY <1>1 DEF Row
<1>3. /\ ContextOf(results) = [f \in DOMAIN results |-> <<Signatures[results[f].body], Bindings[results[f].body]>>]
      /\ Context = PartialFunctions(Files, Pair)
  BY DEF ContextOf, Context
<1> HIDE DEF Pair
<1>4. ContextOf(results) \in [DOMAIN results -> Pair] /\ DOMAIN ContextOf(results) = DOMAIN results
  BY <1>2, <1>3
<1> QED
  BY <1>1, <1>3, <1>4, PartialIntro

LEMMA SnapshotTyped ==
  ASSUME NEW listing, listing \in Listing, NEW results, results \in PartialFunctions(Files, Row),
         DOMAIN results \subseteq DOMAIN listing
  PROVE  /\ SnapshotOf(listing, results) \in Snapshot
         /\ DOMAIN SnapshotOf(listing, results).files = DOMAIN listing
         /\ \A f \in DOMAIN listing : SnapshotOf(listing, results).files[f].hash = listing[f]
         /\ Indexed(SnapshotOf(listing, results)) = DOMAIN results
<1> DEFINE files == [f \in DOMAIN listing |-> [hash |-> listing[f], indexed |-> f \in DOMAIN results]]
<1>1. DOMAIN listing \subseteq Files /\ \A f \in DOMAIN listing : listing[f] \in Contents
  BY PartialElim DEF Listing
<1>2. files \in [DOMAIN listing -> Entry]
  BY <1>1 DEF Entry
<1>3. files \in PartialFunctions(Files, Entry)
  BY <1>1, <1>2, PartialIntro
<1>4. SnapshotOf(listing, results) = [files |-> files, context |-> ContextOf(results)]
  BY DEF SnapshotOf
<1>5. /\ DOMAIN files = DOMAIN listing
      /\ \A f \in DOMAIN listing : files[f].hash = listing[f] /\ (files[f].indexed <=> f \in DOMAIN results)
  OBVIOUS
<1>6. ContextOf(results) \in Context /\ DOMAIN ContextOf(results) = DOMAIN results
  BY ContextTyped
<1> HIDE DEF files
<1>7. Indexed(SnapshotOf(listing, results)) = DOMAIN results
  BY <1>4, <1>5 DEF Indexed
<1>8. SnapshotOf(listing, results) \in Snapshot
  <2>1. SnapshotOf(listing, results) \in [files : PartialFunctions(Files, Entry), context : Context]
    BY <1>3, <1>4, <1>6
  <2>2. DOMAIN SnapshotOf(listing, results).context = Indexed(SnapshotOf(listing, results))
    BY <1>4, <1>6, <1>7
  <2> QED
    BY <2>1, <2>2 DEF Snapshot
<1> QED
  BY <1>4, <1>5, <1>7, <1>8

LEMMA SnapshotElim ==
  ASSUME NEW s, s \in Snapshot
  PROVE  /\ s.context \in Context
         /\ DOMAIN s.files \subseteq Files /\ \A f \in DOMAIN s.files : s.files[f] \in Entry
         /\ Indexed(s) \subseteq DOMAIN s.files
<1>1. s.files \in PartialFunctions(Files, Entry) /\ s.context \in Context
  BY DEF Snapshot
<1> QED
  BY <1>1, PartialElim DEF Indexed

(* A parse, with or without the cache, yields rows of files that were read.*)
LEMMA ParsedTyped ==
  ASSUME TypeOK, NEW S
  PROVE  /\ Parsed(S) \in PartialFunctions(Files, Row)
         /\ DOMAIN Parsed(S) = {g \in S \cap DOMAIN content : Parses(content[g])}
         /\ \A f \in DOMAIN Parsed(S) : Parsed(S)[f].hash = scanned[f] /\ Parsed(S)[f].body = content[f]
<1> DEFINE D == {g \in S \cap DOMAIN content : Parses(content[g])}
<1>1. /\ DOMAIN content \subseteq Files /\ DOMAIN content \subseteq DOMAIN scanned
      /\ \A f \in DOMAIN content : content[f] \in Contents
      /\ \A f \in DOMAIN scanned : scanned[f] \in Contents
  BY PartialElim DEF TypeOK, Listing
<1>2. Parsed(S) = [f \in D |-> [hash |-> scanned[f], body |-> content[f]]]
  BY DEF Parsed
<1>3. \A f \in D : [hash |-> scanned[f], body |-> content[f]] \in Row
  BY <1>1 DEF Row
<1>4. D \subseteq Files
  BY <1>1
<1> HIDE DEF D
<1>5. Parsed(S) \in [D -> Row] /\ DOMAIN Parsed(S) = D
  BY <1>2, <1>3
<1>6. \A f \in D : Parsed(S)[f].hash = scanned[f] /\ Parsed(S)[f].body = content[f]
  BY <1>2
<1> QED
  BY <1>4, <1>5, <1>6, PartialIntro DEF D

LEMMA ResultsTyped ==
  ASSUME TypeOK, NEW R, NEW C
  PROVE  /\ Results(R, C) \in PartialFunctions(Files, Row)
         /\ DOMAIN Results(R, C) \subseteq DOMAIN content
         /\ \A f \in DOMAIN Results(R, C) : Results(R, C)[f].hash = scanned[f]
         /\ \A f \in DOMAIN Results(R, C) : f \in R \/ f \notin C
         /\ \A f \in DOMAIN content \ C : Parses(content[f]) => f \in DOMAIN Results(R, C)
<1> DEFINE hits   == {f \in R \cap DOMAIN content : Cached(f) # {}}
           parsed == Parsed(Files \ (hits \cup C))
           all    == [f \in hits \cup DOMAIN parsed |->
                        IF f \in hits
                        THEN [hash |-> scanned[f], body |-> (CHOOSE e \in Cached(f) : TRUE).body]
                        ELSE parsed[f]]
<1>1. Results(R, C) = all
  BY DEF Results
<1>2. /\ parsed \in PartialFunctions(Files, Row)
      /\ DOMAIN parsed = {g \in (Files \ (hits \cup C)) \cap DOMAIN content : Parses(content[g])}
      /\ \A f \in DOMAIN parsed : parsed[f].hash = scanned[f]
  BY ParsedTyped
<1>3. \A f \in DOMAIN parsed : parsed[f] \in Row
  BY <1>2, PartialElim
<1>4. /\ DOMAIN content \subseteq Files /\ DOMAIN content \subseteq DOMAIN scanned
      /\ \A f \in DOMAIN scanned : scanned[f] \in Contents
  BY PartialElim DEF TypeOK, Listing
<1>5. \A f \in hits : (CHOOSE e \in Cached(f) : TRUE).body \in Contents
  <2> SUFFICES ASSUME NEW f \in hits PROVE (CHOOSE e \in Cached(f) : TRUE).body \in Contents
    OBVIOUS
  <2> DEFINE entry == CHOOSE e \in Cached(f) : TRUE
  <2>1. entry \in Cached(f)
    OBVIOUS
  <2>2. entry \in cache
    BY <2>1 DEF Cached
  <2> HIDE DEF entry
  <2>3. entry.body \in Contents
    BY <2>2 DEF TypeOK
  <2> QED
    BY <2>3 DEF entry
<1>6. hits \subseteq DOMAIN content /\ hits \subseteq R
  OBVIOUS
<1> HIDE DEF hits, parsed
<1>7. \A f \in hits \cup DOMAIN parsed : all[f] \in Row /\ all[f].hash = scanned[f]
  BY <1>2, <1>3, <1>4, <1>5, <1>6 DEF Row
<1>8. all \in [hits \cup DOMAIN parsed -> Row] /\ DOMAIN all = hits \cup DOMAIN parsed
  BY <1>7
<1> HIDE DEF all
<1>9. all \in PartialFunctions(Files, Row)
  BY <1>2, <1>4, <1>6, <1>8, PartialIntro
<1>10. \A f \in DOMAIN all : f \in R \/ f \notin C
  BY <1>2, <1>6, <1>8
<1>11. \A f \in DOMAIN content \ C : Parses(content[f]) => f \in DOMAIN all
  BY <1>2, <1>4, <1>8
<1> QED
  BY <1>1, <1>2, <1>6, <1>7, <1>8, <1>9, <1>10, <1>11

(* What every plan hands to the commit.  Outside its scope nothing has     *)
(* changed, and there is a result only where there was one.                *)
PlansIndex == PlanFull \/ PlanBodiesOnly \/ PlanBoundedClosure \/ PlanRebuild

LEMMA CandidateTyped ==
  ASSUME TypeOK
  PROVE  /\ Candidate \in PartialFunctions(Files, Row)
         /\ DOMAIN Candidate \subseteq DOMAIN content
         /\ \A f \in DOMAIN Candidate : Candidate[f].hash = scanned[f]
         /\ \A f \in DOMAIN Candidate \ Modified : f \in Indexed(job.previous)
<1> DEFINE R == Indexed(job.previous) \ Modified
           C == (DOMAIN scanned \ Modified) \ Indexed(job.previous)
<1>1. /\ R \subseteq Indexed(job.previous)
      /\ \A f \in DOMAIN scanned : f \in Modified \/ f \in Indexed(job.previous) \/ f \in C
  OBVIOUS
<1>2. Candidate = Results(R, C)
  BY DEF Candidate
<1>3. DOMAIN content \subseteq DOMAIN scanned
  BY DEF TypeOK
<1> HIDE DEF R, C
<1>4. /\ Results(R, C) \in PartialFunctions(Files, Row)
      /\ DOMAIN Results(R, C) \subseteq DOMAIN content
      /\ \A f \in DOMAIN Results(R, C) : Results(R, C)[f].hash = scanned[f]
      /\ \A f \in DOMAIN Results(R, C) : f \in R \/ f \notin C
  BY ResultsTyped
<1> QED
  BY <1>1, <1>2, <1>3, <1>4

LEMMA PlanShape ==
  ASSUME TypeOK, PlansIndex
  PROVE  /\ pc = "plan" /\ pc' = "cache"
         /\ UNCHANGED <<job, scanned, content, todo, storeVars, worldVars>>
         /\ outcome' = [results |-> outcome'.results, scope |-> outcome'.scope,
                        snapshot |-> SnapshotOf(scanned, outcome'.results)]
         /\ outcome'.results \in PartialFunctions(Files, Row)
         /\ DOMAIN outcome'.results \subseteq DOMAIN content
         /\ \A f \in DOMAIN outcome'.results : outcome'.results[f].hash = scanned[f]
         /\ outcome'.scope \subseteq Files
         /\ job.mode = "full" => outcome'.scope = Files
         /\ \A f \in Files \ outcome'.scope :
              /\ SameFiles /\ f \notin Modified
              /\ f \in DOMAIN outcome'.results => f \in Indexed(job.previous)
<1> DEFINE Shape(results, scope) ==
             /\ results \in PartialFunctions(Files, Row)
             /\ DOMAIN results \subseteq DOMAIN content
             /\ \A f \in DOMAIN results : results[f].hash = scanned[f]
             /\ scope \subseteq Files
             /\ job.mode = "full" => scope = Files
             /\ \A f \in Files \ scope :
                  /\ SameFiles /\ f \notin Modified
                  /\ f \in DOMAIN results => f \in Indexed(job.previous)
<1>1. SUFFICES ASSUME NEW results, NEW scope, Proceed(results, scope), pc = "plan", Shape(results, scope)
               PROVE  /\ pc = "plan" /\ pc' = "cache"
                      /\ UNCHANGED <<job, scanned, content, todo, storeVars, worldVars>>
                      /\ outcome' = [results |-> outcome'.results, scope |-> outcome'.scope,
                                     snapshot |-> SnapshotOf(scanned, outcome'.results)]
                      /\ Shape(outcome'.results, outcome'.scope)
  <2>0. DOMAIN scanned \subseteq Files
    BY PartialElim DEF TypeOK, Listing
  <2>1. Incremental => /\ Scope \subseteq Files /\ pc = "plan"
                       /\ job.mode # "full"
                       /\ SameFiles
                       /\ Modified \subseteq Scope
    BY <2>0 DEF Incremental, Scope, PlannedMode, Modified
  <2>2. CASE PlanFull
    <3> DEFINE R == IF SameFiles /\ Modified = {} THEN Indexed(job.previous) ELSE {}
    <3>1. Proceed(Results(R, {}), Files) /\ pc = "plan"
      BY <2>2 DEF PlanFull
    <3>2. Shape(Results(R, {}), Files)
      BY ResultsTyped
    <3> QED
      BY <3>1, <3>2, <1>1
  <2>3. CASE PlanBodiesOnly
    <3>1. Proceed(Candidate, Scope) /\ Incremental
      BY <2>3 DEF PlanBodiesOnly
    <3>2. Shape(Candidate, Scope)
      BY <2>1, <3>1, CandidateTyped
    <3> QED
      BY <2>1, <3>1, <3>2, <1>1
  <2>4. CASE PlanBoundedClosure
    <3>1. Incremental
      BY <2>4 DEF PlanBoundedClosure
    <3>2. PICK closure \in SUBSET (DOMAIN Candidate \ Modified) :
            LET again == Parsed(closure)
                kept  == DOMAIN Candidate \ closure
            IN Proceed([f \in kept \cup DOMAIN again |->
                          IF f \in kept THEN Candidate[f] ELSE again[f]],
                       Scope \cup closure)
      BY <2>4 DEF PlanBoundedClosure
    <3> DEFINE kept == DOMAIN Candidate \ closure
               results == [f \in kept \cup DOMAIN Parsed(closure) |->
                             IF f \in kept THEN Candidate[f] ELSE Parsed(closure)[f]]
    <3>3. Proceed(results, Scope \cup closure)
      BY <3>2
    <3>4. /\ Parsed(closure) \in PartialFunctions(Files, Row)
          /\ DOMAIN Parsed(closure) \subseteq closure \cap DOMAIN content
          /\ \A f \in DOMAIN Parsed(closure) : Parsed(closure)[f].hash = scanned[f]
          /\ \A f \in DOMAIN Parsed(closure) : Parsed(closure)[f] \in Row
      BY ParsedTyped, PartialElim
    <3>5. /\ DOMAIN Candidate \subseteq Files /\ \A f \in DOMAIN Candidate : Candidate[f] \in Row
          /\ DOMAIN Candidate \subseteq DOMAIN content
          /\ \A f \in DOMAIN Candidate : Candidate[f].hash = scanned[f]
          /\ \A f \in DOMAIN Candidate \ Modified : f \in Indexed(job.previous)
      BY CandidateTyped, PartialElim
    <3>6. DOMAIN results = kept \cup DOMAIN Parsed(closure) /\ DOMAIN results \subseteq DOMAIN Candidate
      BY <3>4
    <3>7. \A f \in DOMAIN results : results[f] \in Row /\ results[f].hash = scanned[f]
      BY <3>4, <3>5, <3>6
    <3> HIDE DEF results
    <3>8. results \in PartialFunctions(Files, Row)
      <4>1. results \in [DOMAIN results -> Row]
        BY <3>3, <3>6, <3>7 DEF results
      <4>2. DOMAIN results \subseteq Files
        BY <3>5, <3>6
      <4> QED
        BY <4>1, <4>2, PartialIntro
    <3>9. Shape(results, Scope \cup closure)
      BY <2>1, <3>1, <3>5, <3>6, <3>7, <3>8
    <3> QED
      BY <2>1, <3>1, <3>3, <3>9, <1>1
  <2>5. CASE PlanRebuild
    <3>1. Proceed(Parsed(Files), Files) /\ Incremental
      BY <2>5 DEF PlanRebuild
    <3>2. Shape(Parsed(Files), Files)
      BY ParsedTyped
    <3> QED
      BY <2>1, <3>1, <3>2, <1>1
  <2> QED
    BY <2>2, <2>3, <2>4, <2>5 DEF PlansIndex
<1>2. /\ outcome' = [results |-> results, scope |-> scope, snapshot |-> SnapshotOf(scanned, results)]
      /\ pc' = "cache"
      /\ UNCHANGED <<job, scanned, content, todo, storeVars, worldVars>>
  BY <1>1 DEF Proceed
<1>3. outcome'.results = results /\ outcome'.scope = scope
  BY <1>2
<1> HIDE DEF Shape
<1> QED
  BY <1>1, <1>2, <1>3

----------------------------------------------------------------------------
(* The type invariant, by what a step may change: run, stores or world.    *)
StoreOK ==
  /\ rows \in PartialFunctions(Files, Row)
  /\ failures \subseteq Files
  /\ meta \in Manifest \cup {NoSnapshot}
  /\ cache \subseteq [file : Files, hash : Contents, context : Context, body : Contents]
  /\ registry \in [Worktree -> Snapshot \cup {NoSnapshot}]

RunOK ==
  /\ pc \in Steps
  /\ job \in [kind : {"none", "reindex", "init"}, mode : {"auto", "full"},
              previous : Snapshot \cup {NoSnapshot}]
  /\ scanned \in Listing
  /\ content \in Listing /\ DOMAIN content \subseteq DOMAIN scanned
  /\ todo \subseteq Files
  /\ outcome \in [results : PartialFunctions(Files, Row), scope : SUBSET Files,
                  snapshot : Snapshot \cup {NoSnapshot}]
  /\ DOMAIN outcome.results \subseteq DOMAIN scanned

WorldOK ==
  /\ disk \in Listing
  /\ past \in [Files -> SUBSET (Contents \cup {Absent})]
  /\ events \subseteq {"midRunEdit", "recurrence", "unread", "crash", "reinit"}
  /\ budget \in 0..MaxEvents

(* From its plan on a run has a snapshot to record.                        *)
HasOutcome == pc \in {"cache", "commit", "meta", "registry"} => outcome.snapshot \in Snapshot

LEMMA TypeParts == TypeOK <=> StoreOK /\ RunOK /\ WorldOK
BY DEF TypeOK, StoreOK, RunOK, WorldOK

LEMMA TypeNext == ASSUME StoreOK', RunOK', WorldOK' PROVE TypeOK'
BY DEF TypeOK, StoreOK, RunOK, WorldOK

LEMMA StoreStays == ASSUME StoreOK, UNCHANGED storeVars PROVE StoreOK'
BY DEF StoreOK, storeVars

LEMMA WorldStays == ASSUME WorldOK, UNCHANGED worldVars PROVE WorldOK'
BY DEF WorldOK, worldVars

LEMMA NoRunTyped ==
  /\ NoJob \in [kind : {"none", "reindex", "init"}, mode : {"auto", "full"},
                previous : Snapshot \cup {NoSnapshot}]
  /\ NoOutcome \in [results : PartialFunctions(Files, Row), scope : SUBSET Files,
                    snapshot : Snapshot \cup {NoSnapshot}]
  /\ DOMAIN NoOutcome.results = {}
  /\ Empty \in Listing /\ DOMAIN Empty = {}
<1>1. \A S, T : Empty \in PartialFunctions(S, T) /\ DOMAIN Empty = {}
  BY EmptyTyped
<1> QED
  BY <1>1 DEF NoJob, NoOutcome, Listing

LEMMA ForgetTyped == ASSUME ForgetRun, pc' = "idle" PROVE RunOK'
<1>1. /\ job' = NoJob /\ scanned' = Empty /\ content' = Empty /\ todo' = {} /\ outcome' = NoOutcome
  BY DEF ForgetRun
<1> QED
  BY <1>1, NoRunTyped DEF RunOK, Steps

LEMMA SpendTyped == ASSUME WorldOK, Spend PROVE budget' \in 0..MaxEvents
BY ConstantsAssumption DEF WorldOK, Spend

(* An index of an unchanging worktree is well typed.                       *)
LEMMA SiblingTyped ==
  ASSUME NEW listing, listing \in Listing
  PROVE  /\ ParsedListing(listing) \in PartialFunctions(Files, Row)
         /\ DOMAIN ParsedListing(listing) = {g \in DOMAIN listing : Parses(listing[g])}
         /\ \A f \in DOMAIN ParsedListing(listing) :
              ParsedListing(listing)[f].hash = listing[f] /\ ParsedListing(listing)[f].body = listing[f]
<1> DEFINE D == {g \in DOMAIN listing : Parses(listing[g])}
<1>1. DOMAIN listing \subseteq Files /\ \A f \in DOMAIN listing : listing[f] \in Contents
  BY PartialElim DEF Listing
<1>2. ParsedListing(listing) = [f \in D |-> [hash |-> listing[f], body |-> listing[f]]]
  BY DEF ParsedListing
<1>3. \A f \in D : [hash |-> listing[f], body |-> listing[f]] \in Row
  BY <1>1 DEF Row
<1>4. D \subseteq Files
  BY <1>1
<1> HIDE DEF D
<1>5. ParsedListing(listing) \in [D -> Row] /\ DOMAIN ParsedListing(listing) = D
  BY <1>2, <1>3
<1>6. \A f \in D : ParsedListing(listing)[f].hash = listing[f] /\ ParsedListing(listing)[f].body = listing[f]
  BY <1>2
<1> QED
  BY <1>4, <1>5, <1>6, PartialIntro DEF D

LEMMA AtTyped == \A listing, f : listing \in Listing => At(listing, f) \in Contents \cup {Absent}
BY PartialElim DEF At, Listing

LEMMA StartsTyped == Starts \subseteq Listing /\ Siblings \subseteq Listing \cup {NoSnapshot}
<1>1. Starts \cup Siblings \subseteq Listing \cup {NoSnapshot} /\ NoSnapshot \notin Starts
  <2>1. Listing = UNION {[D -> Contents] : D \in SUBSET Files}
    BY DEF Listing, PartialFunctions
  <2> QED
    BY <2>1, ConstantsAssumption
<1> QED
  BY <1>1

LEMMA TypeInit == Init => TypeOK
<1> SUFFICES ASSUME Init PROVE TypeOK
  OBVIOUS
<1>1. disk \in Listing
  BY StartsTyped DEF Init
<1>2. RunOK
  BY NoRunTyped DEF Init, RunOK, Steps
<1>3. events = {} /\ budget \in 0..MaxEvents
  BY ConstantsAssumption DEF Init
<1>4. rows \in PartialFunctions(Files, Row) /\ failures = {} /\ meta = NoSnapshot
  BY EmptyTyped DEF Init
<1>5. PICK listing \in Siblings :
        IF listing = NoSnapshot
        THEN /\ registry = [w \in Worktree |-> NoSnapshot]
             /\ cache = {}
             /\ past = [f \in Files |-> {At(disk, f)}]
        ELSE LET results == ParsedListing(listing) IN
             /\ registry = [w \in Worktree |-> IF w = "own" THEN NoSnapshot ELSE SnapshotOf(listing, results)]
             /\ cache = {CacheEntry(f, results[f], ContextOf(results)) : f \in DOMAIN results}
             /\ past = [f \in Files |-> {At(disk, f), At(listing, f)}]
  BY DEF Init
<1>6. CASE listing = NoSnapshot
  <2>1. past \in [Files -> SUBSET (Contents \cup {Absent})]
    BY <1>1, <1>5, <1>6, AtTyped
  <2>2. registry \in [Worktree -> Snapshot \cup {NoSnapshot}] /\ cache = {}
    BY <1>5, <1>6
  <2> QED
    BY <1>1, <1>2, <1>3, <1>4, <2>1, <2>2, TypeParts DEF StoreOK, WorldOK
<1>7. CASE listing # NoSnapshot
  <2> DEFINE results == ParsedListing(listing)
  <2>1. listing \in Listing
    BY <1>7, StartsTyped
  <2>2. /\ results \in PartialFunctions(Files, Row)
        /\ DOMAIN results \subseteq DOMAIN listing
    BY <2>1, SiblingTyped
  <2>3. /\ registry = [w \in Worktree |-> IF w = "own" THEN NoSnapshot ELSE SnapshotOf(listing, results)]
        /\ cache = {CacheEntry(f, results[f], ContextOf(results)) : f \in DOMAIN results}
        /\ past = [f \in Files |-> {At(disk, f), At(listing, f)}]
    BY <1>5, <1>7
  <2> HIDE DEF results
  <2>4. SnapshotOf(listing, results) \in Snapshot /\ ContextOf(results) \in Context
    BY <2>1, <2>2, SnapshotTyped, ContextTyped
  <2>5. registry \in [Worktree -> Snapshot \cup {NoSnapshot}]
    BY <2>3, <2>4
  <2>6. DOMAIN results \subseteq Files /\ \A f \in DOMAIN results : results[f] \in Row
    BY <2>2, PartialElim
  <2>7. cache \subseteq [file : Files, hash : Contents, context : Context, body : Contents]
    BY <2>3, <2>4, <2>6 DEF CacheEntry, Row
  <2>8. past \in [Files -> SUBSET (Contents \cup {Absent})]
    BY <1>1, <2>1, <2>3, AtTyped
  <2> QED
    BY <1>1, <1>2, <1>3, <1>4, <2>5, <2>7, <2>8, TypeParts DEF StoreOK, WorldOK
<1> QED
  BY <1>6, <1>7

(* Beginning, scanning and reading.                                        *)
LEMMA TypeBegin ==
  ASSUME TypeOK, BeginReindex \/ BeginInit
  PROVE  TypeOK'
<1>0. StoreOK /\ RunOK /\ WorldOK
  BY TypeParts
<1>1. registry["own"] \in Snapshot \cup {NoSnapshot} /\ registry["sibling"] \in Snapshot \cup {NoSnapshot}
  BY <1>0 DEF StoreOK, Worktree
<1>2. meta # NoSnapshot => meta.snapshot \in Snapshot
  BY <1>0 DEF StoreOK, Manifest
<1>3. PICK kind \in {"reindex", "init"}, mode \in {"auto", "full"}, previous \in Snapshot \cup {NoSnapshot} :
        Begin(kind, mode, previous)
  BY <1>1, <1>2 DEF BeginReindex, BeginInit
<1>4. RunOK'
  BY <1>0, <1>3 DEF Begin, RunOK, Steps
<1>5. StoreOK'
  BY <1>0, <1>3, StoreStays DEF Begin
<1>6. events' \subseteq {"midRunEdit", "recurrence", "unread", "crash", "reinit"}
  BY <1>0 DEF BeginReindex, BeginInit, WorldOK
<1>7. WorldOK'
  BY <1>0, <1>3, <1>6 DEF Begin, WorldOK
<1> QED
  BY <1>4, <1>5, <1>7, TypeNext

LEMMA TypeScan ==
  ASSUME TypeOK, NEW f \in Files, ScanFile(f)
  PROVE  TypeOK'
<1>0. StoreOK /\ RunOK /\ WorldOK
  BY TypeParts
<1>1. /\ UNCHANGED <<job, content, outcome, storeVars, worldVars>>
      /\ scanned' = IF f \in DOMAIN disk
                    THEN [g \in DOMAIN scanned \cup {f} |-> IF g = f THEN disk[f] ELSE scanned[g]]
                    ELSE scanned
  BY DEF ScanFile
<1>2. scanned' \in Listing /\ DOMAIN scanned \subseteq DOMAIN scanned'
  <2>1. CASE f \in DOMAIN disk
    <3>1. /\ DOMAIN scanned \subseteq Files /\ \A g \in DOMAIN scanned : scanned[g] \in Contents
          /\ disk[f] \in Contents
      BY <1>0, <2>1, PartialElim DEF RunOK, WorldOK, Listing
    <3>2. scanned' \in [DOMAIN scanned \cup {f} -> Contents]
      BY <1>1, <2>1, <3>1
    <3>3. DOMAIN scanned \cup {f} \subseteq Files
      BY <3>1
    <3> QED
      BY <3>2, <3>3, PartialIntro DEF Listing
  <2>2. CASE f \notin DOMAIN disk
    BY <1>0, <1>1, <2>2 DEF RunOK
  <2> QED
    BY <2>1, <2>2
<1>3. pc' \in Steps /\ todo' \subseteq Files
  <2>1. DOMAIN scanned' \subseteq Files
    BY <1>2, PartialElim DEF Listing
  <2> QED
    BY <1>0, <2>1 DEF ScanFile, RunOK, Steps
<1>4. RunOK'
  BY <1>0, <1>1, <1>2, <1>3 DEF RunOK
<1> QED
  BY <1>0, <1>1, <1>4, StoreStays, WorldStays, TypeNext

LEMMA TypeRead ==
  ASSUME TypeOK, ScanInv, NEW f \in Files, ReadFile(f) \/ ReadFails(f)
  PROVE  TypeOK'
<1>0. StoreOK /\ RunOK /\ WorldOK
  BY TypeParts
<1>1. /\ UNCHANGED <<job, scanned, outcome, storeVars, disk, past>>
      /\ todo' = todo \ {f} /\ pc' \in {"plan", "read"} /\ f \in DOMAIN scanned
  BY DEF ReadFile, ReadFails, AfterRead, ScanInv
<1>2. content' \in Listing /\ DOMAIN content' \subseteq DOMAIN scanned
  <2>1. CASE ReadFile(f)
    <3>1. /\ content' = [g \in DOMAIN content \cup {f} |-> IF g = f THEN disk[f] ELSE content[g]]
          /\ f \in DOMAIN disk
      BY <2>1 DEF ReadFile
    <3>2. /\ DOMAIN content \subseteq Files /\ \A g \in DOMAIN content : content[g] \in Contents
          /\ disk[f] \in Contents
      BY <1>0, <3>1, PartialElim DEF RunOK, WorldOK, Listing
    <3>3. content' \in [DOMAIN content \cup {f} -> Contents]
      BY <3>1, <3>2
    <3>4. DOMAIN content \cup {f} \subseteq Files /\ DOMAIN content \cup {f} \subseteq DOMAIN scanned
      BY <1>0, <1>1, <3>2 DEF RunOK
    <3> QED
      BY <3>3, <3>4, PartialIntro DEF Listing
  <2>2. CASE ReadFails(f)
    BY <1>0, <2>2 DEF ReadFails, RunOK
  <2> QED
    BY <2>1, <2>2
<1>3. RunOK'
  BY <1>0, <1>1, <1>2 DEF RunOK, Steps
<1>4. WorldOK'
  <2>1. Spend => budget' \in 0..MaxEvents
    BY <1>0, SpendTyped
  <2> QED
    BY <1>0, <1>1, <2>1 DEF ReadFile, ReadFails, WorldOK
<1> QED
  BY <1>0, <1>1, <1>3, <1>4, StoreStays, TypeNext

(* Planning, the parse cache and the commit.                               *)
LEMMA TypePlan ==
  ASSUME TypeOK, PlanNoop \/ PlansIndex
  PROVE  TypeOK'
<1>0. StoreOK /\ RunOK /\ WorldOK
  BY TypeParts
<1>1. CASE PlanNoop
  <2>1. /\ outcome' = [NoOutcome EXCEPT !.snapshot = job.previous] /\ pc' = "meta"
        /\ UNCHANGED <<job, scanned, content, todo, storeVars, worldVars>>
    BY <1>1 DEF PlanNoop
  <2>2. outcome' = [results |-> Empty, scope |-> {}, snapshot |-> job.previous]
    BY <2>1 DEF NoOutcome
  <2>3. Empty \in PartialFunctions(Files, Row) /\ DOMAIN Empty = {}
    BY EmptyTyped
  <2>4. job.previous \in Snapshot \cup {NoSnapshot}
    BY <1>0 DEF RunOK
  <2>5. outcome' \in [results : PartialFunctions(Files, Row), scope : SUBSET Files,
                      snapshot : Snapshot \cup {NoSnapshot}]
    BY <2>2, <2>3, <2>4
  <2>6. DOMAIN outcome'.results \subseteq DOMAIN scanned
    BY <2>2, <2>3
  <2>7. RunOK'
    BY <1>0, <2>1, <2>5, <2>6 DEF RunOK, Steps
  <2> QED
    BY <1>0, <2>1, <2>7, StoreStays, WorldStays, TypeNext
<1>2. CASE PlansIndex
  <2>1. /\ pc' = "cache"
        /\ UNCHANGED <<job, scanned, content, todo, storeVars, worldVars>>
        /\ outcome' = [results |-> outcome'.results, scope |-> outcome'.scope,
                       snapshot |-> SnapshotOf(scanned, outcome'.results)]
        /\ outcome'.results \in PartialFunctions(Files, Row)
        /\ DOMAIN outcome'.results \subseteq DOMAIN content
        /\ outcome'.scope \subseteq Files
    BY <1>2, PlanShape
  <2>2. DOMAIN outcome'.results \subseteq DOMAIN scanned
    BY <1>0, <2>1 DEF RunOK
  <2>3. SnapshotOf(scanned, outcome'.results) \in Snapshot
    BY <1>0, <2>1, <2>2, SnapshotTyped DEF RunOK
  <2>4. outcome' \in [results : PartialFunctions(Files, Row), scope : SUBSET Files,
                      snapshot : Snapshot \cup {NoSnapshot}]
    BY <2>1, <2>3
  <2>5. RunOK'
    BY <1>0, <2>1, <2>2, <2>4 DEF RunOK, Steps
  <2> QED
    BY <1>0, <2>1, <2>5, StoreStays, WorldStays, TypeNext
<1> QED
  BY <1>1, <1>2

LEMMA TypeCacheWrite ==
  ASSUME TypeOK, HasOutcome, WriteParseCache
  PROVE  TypeOK'
<1>0. StoreOK /\ RunOK /\ WorldOK
  BY TypeParts
<1>1. /\ UNCHANGED <<job, scanned, content, todo, outcome, rows, failures, meta, registry, disk, past, events>>
      /\ pc' = "commit" /\ pc = "cache"
  BY DEF WriteParseCache
<1>2. PICK written \in SUBSET DOMAIN outcome.results :
        /\ IF written = DOMAIN outcome.results THEN UNCHANGED budget ELSE Spend
        /\ cache' \subseteq cache \cup {CacheEntry(f, outcome.results[f], outcome.snapshot.context) : f \in written}
  BY DEF WriteParseCache
<1>3. /\ DOMAIN outcome.results \subseteq Files
      /\ \A f \in DOMAIN outcome.results : outcome.results[f] \in Row
  BY <1>0, PartialElim DEF RunOK
<1>4. outcome.snapshot.context \in Context
  BY <1>1, SnapshotElim DEF HasOutcome
<1>5. cache' \subseteq [file : Files, hash : Contents, context : Context, body : Contents]
  BY <1>0, <1>2, <1>3, <1>4 DEF StoreOK, CacheEntry, Row
<1>6. StoreOK'
  BY <1>0, <1>1, <1>5 DEF StoreOK
<1>7. RunOK'
  BY <1>0, <1>1 DEF RunOK, Steps
<1>8. WorldOK'
  BY <1>0, <1>1, <1>2, SpendTyped DEF WorldOK
<1> QED
  BY <1>6, <1>7, <1>8, TypeNext

LEMMA PersistedTyped ==
  ASSUME TypeOK
  PROVE  /\ Persisted \in PartialFunctions(Files, Row)
         /\ DOMAIN Persisted = (DOMAIN rows \ outcome.scope) \cup (DOMAIN outcome.results \cap outcome.scope)
         /\ \A f \in DOMAIN Persisted :
              IF f \in outcome.scope THEN Persisted[f] = outcome.results[f] ELSE Persisted[f] = rows[f]
<1> DEFINE D == (DOMAIN rows \ outcome.scope) \cup (DOMAIN outcome.results \cap outcome.scope)
<1>1. /\ DOMAIN outcome.results \subseteq Files /\ DOMAIN rows \subseteq Files
      /\ \A f \in DOMAIN outcome.results : outcome.results[f] \in Row
      /\ \A f \in DOMAIN rows : rows[f] \in Row
  BY PartialElim DEF TypeOK
<1>2. Persisted = [f \in D |-> IF f \in outcome.scope THEN outcome.results[f] ELSE rows[f]]
  BY DEF Persisted
<1>3. \A f \in D : (IF f \in outcome.scope THEN outcome.results[f] ELSE rows[f]) \in Row
  BY <1>1
<1>4. D \subseteq Files
  BY <1>1
<1>5. \A f : f \in D /\ f \notin outcome.scope => f \in DOMAIN rows
  OBVIOUS
<1> HIDE DEF D
<1>6. Persisted \in [D -> Row] /\ DOMAIN Persisted = D
  BY <1>2, <1>3
<1>7. \A f \in D : IF f \in outcome.scope THEN Persisted[f] = outcome.results[f] ELSE Persisted[f] = rows[f]
  BY <1>2
<1> QED
  BY <1>4, <1>6, <1>7, PartialIntro DEF D

LEMMA TypeCommit ==
  ASSUME TypeOK, Commit \/ RetryFull \/ ValidationThrown
  PROVE  TypeOK'
<1>0. StoreOK /\ RunOK /\ WorldOK
  BY TypeParts
<1>1. CASE Commit
  <2>1. /\ rows' = Persisted /\ failures' = DOMAIN scanned \ DOMAIN outcome.results /\ pc' = "meta"
        /\ UNCHANGED <<job, scanned, content, todo, outcome, meta, cache, registry, worldVars>>
    BY <1>1 DEF Commit
  <2>2. DOMAIN scanned \subseteq Files
    BY <1>0, PartialElim DEF RunOK, Listing
  <2>3. StoreOK'
    BY <1>0, <2>1, <2>2, PersistedTyped DEF StoreOK
  <2>4. RunOK'
    BY <1>0, <2>1 DEF RunOK, Steps
  <2> QED
    BY <1>0, <2>1, <2>3, <2>4, WorldStays, TypeNext
<1>2. CASE RetryFull
  <2>1. /\ job' = [job EXCEPT !.mode = "full"] /\ pc' = "scan"
        /\ scanned' = Empty /\ content' = Empty /\ todo' = Files /\ outcome' = NoOutcome
        /\ UNCHANGED storeVars
    BY <1>2 DEF RetryFull
  <2>2. job' \in [kind : {"none", "reindex", "init"}, mode : {"auto", "full"},
                  previous : Snapshot \cup {NoSnapshot}]
    BY <1>0, <2>1 DEF RunOK
  <2>3. RunOK'
    BY <2>1, <2>2, NoRunTyped DEF RunOK, Steps
  <2>4. WorldOK'
    BY <1>0, <1>2, ConstantsAssumption DEF RetryFull, ValidationFails, Spend, WorldOK
  <2> QED
    BY <1>0, <2>1, <2>3, <2>4, StoreStays, TypeNext
<1>3. CASE ValidationThrown
  <2>1. ForgetRun /\ pc' = "idle" /\ UNCHANGED storeVars
    BY <1>3 DEF ValidationThrown
  <2>2. WorldOK'
    BY <1>0, <1>3, ConstantsAssumption DEF ValidationThrown, ValidationFails, Spend, WorldOK
  <2> QED
    BY <1>0, <2>1, <2>2, ForgetTyped, StoreStays, TypeNext
<1> QED
  BY <1>1, <1>2, <1>3

(* Manifest and registry.                                                  *)
LEMMA TypeRecord ==
  ASSUME TypeOK, HasOutcome, WriteMeta \/ WriteRegistry
  PROVE  TypeOK'
<1>0. StoreOK /\ RunOK /\ WorldOK
  BY TypeParts
<1>1. outcome.snapshot \in Snapshot
  BY DEF HasOutcome, WriteMeta, WriteRegistry
<1>2. CASE WriteMeta
  <2>1. /\ meta' = [snapshot |-> outcome.snapshot, identity |-> disk] /\ pc' = "registry"
        /\ UNCHANGED <<job, scanned, content, todo, outcome, rows, failures, cache, registry, worldVars>>
    BY <1>2 DEF WriteMeta
  <2>2. meta' \in Manifest
    BY <1>0, <1>1, <2>1 DEF Manifest, WorldOK
  <2>3. StoreOK'
    BY <1>0, <2>1, <2>2 DEF StoreOK
  <2>4. RunOK'
    BY <1>0, <2>1 DEF RunOK, Steps
  <2> QED
    BY <1>0, <2>1, <2>3, <2>4, WorldStays, TypeNext
<1>3. CASE WriteRegistry
  <2>1. /\ ForgetRun /\ pc' = "idle" /\ UNCHANGED <<rows, failures, meta, cache, disk, past, events>>
        /\ registry' = [registry EXCEPT !["own"] = outcome.snapshot] \/ registry' = registry
        /\ UNCHANGED budget \/ Spend
    BY <1>3 DEF WriteRegistry
  <2>2. StoreOK'
    BY <1>0, <1>1, <2>1 DEF StoreOK
  <2>3. WorldOK'
    BY <1>0, <2>1, SpendTyped DEF WorldOK
  <2> QED
    BY <2>1, <2>2, <2>3, ForgetTyped, TypeNext
<1> QED
  BY <1>2, <1>3

(* The world.                                                              *)
LEMMA TypeWorld ==
  ASSUME TypeOK, World
  PROVE  TypeOK'
<1>0. StoreOK /\ RunOK /\ WorldOK
  BY TypeParts
<1>1. CASE Crash
  <2>1. /\ ForgetRun /\ pc' = "idle" /\ UNCHANGED <<rows, failures, cache, registry, disk, past>>
        /\ meta' \in {meta, NoSnapshot} /\ Spend /\ events' = events \cup {"crash"}
    BY <1>1 DEF Crash
  <2>2. StoreOK'
    BY <1>0, <2>1 DEF StoreOK
  <2>3. WorldOK'
    BY <1>0, <2>1, SpendTyped DEF WorldOK
  <2> QED
    BY <2>1, <2>2, <2>3, ForgetTyped, TypeNext
<1>2. CASE DeleteVtrace
  <2>1. /\ rows' = Empty /\ failures' = {} /\ meta' = NoSnapshot /\ Spend
        /\ UNCHANGED <<cache, registry, runVars, disk, past, events>>
    BY <1>2 DEF DeleteVtrace
  <2>2. StoreOK'
    BY <1>0, <2>1, EmptyTyped DEF StoreOK
  <2>3. RunOK'
    BY <1>0, <2>1 DEF RunOK, runVars
  <2>4. WorldOK'
    BY <1>0, <2>1, SpendTyped DEF WorldOK
  <2> QED
    BY <2>2, <2>3, <2>4, TypeNext
<1>3. ASSUME NEW f \in Files, NEW next, next \in Listing, Edit(f, next)
      PROVE  TypeOK'
  <2>1. /\ disk' = next /\ Spend /\ UNCHANGED <<runVars, storeVars>>
        /\ past' = [past EXCEPT ![f] = @ \cup {At(next, f)}]
        /\ events' \subseteq events \cup {"midRunEdit", "recurrence"}
    BY <1>3 DEF Edit
  <2>2. past' \in [Files -> SUBSET (Contents \cup {Absent})]
    BY <1>0, <1>3, <2>1, AtTyped DEF WorldOK
  <2>3. WorldOK'
    BY <1>0, <1>3, <2>1, <2>2, SpendTyped DEF WorldOK
  <2>4. RunOK'
    BY <1>0, <2>1 DEF RunOK, runVars
  <2> QED
    BY <1>0, <2>1, <2>3, <2>4, StoreStays, TypeNext
<1>4. /\ DOMAIN disk \subseteq Files /\ \A g \in DOMAIN disk : disk[g] \in Contents
  BY <1>0, PartialElim DEF WorldOK, Listing
<1>5. ASSUME NEW f \in Files, NEW c \in Contents, Save(f, c) PROVE TypeOK'
  <2> DEFINE next == [g \in DOMAIN disk \cup {f} |-> IF g = f THEN c ELSE disk[g]]
  <2>1. next \in [DOMAIN disk \cup {f} -> Contents] /\ DOMAIN disk \cup {f} \subseteq Files
    BY <1>4
  <2>2. Edit(f, next)
    BY <1>5 DEF Save
  <2> HIDE DEF next
  <2>3. next \in Listing
    BY <2>1, PartialIntro DEF Listing
  <2> QED
    BY <1>3, <2>2, <2>3
<1>6. ASSUME NEW f \in Files, Remove(f) PROVE TypeOK'
  <2> DEFINE next == Restrict(disk, DOMAIN disk \ {f})
  <2>1. next \in [DOMAIN disk \ {f} -> Contents] /\ DOMAIN disk \ {f} \subseteq Files
    BY <1>4 DEF Restrict
  <2>2. Edit(f, next)
    BY <1>6 DEF Remove
  <2> HIDE DEF next
  <2>3. next \in Listing
    BY <2>1, PartialIntro DEF Listing
  <2> QED
    BY <1>3, <2>2, <2>3
<1> QED
  BY <1>1, <1>2, <1>5, <1>6 DEF World

LEMMA TypeStep == TypeOK /\ HasOutcome /\ CacheInv /\ [Next]_vars => TypeOK' /\ HasOutcome'
<1> SUFFICES ASSUME TypeOK, HasOutcome, CacheInv, [Next]_vars PROVE TypeOK' /\ HasOutcome'
  OBVIOUS
<1>1. TypeOK'
  <2>1. CASE UNCHANGED vars
    BY <2>1 DEF vars, runVars, storeVars, worldVars, TypeOK
  <2>2. CASE Next
    BY <2>2, TypeBegin, TypeScan, TypeRead, TypePlan, TypeCacheWrite, TypeCommit, TypeRecord, TypeWorld
       DEF Next, Run, CacheInv, PlansIndex
  <2> QED
    BY <2>1, <2>2
<1>2. HasOutcome'
  <2>1. CASE PlanNoop
    BY <2>1 DEF PlanNoop, PlannedMode, SameFiles, NoOutcome, HasOutcome, TypeOK
  <2>2. CASE PlansIndex
    <3>1. /\ outcome' = [results |-> outcome'.results, scope |-> outcome'.scope,
                         snapshot |-> SnapshotOf(scanned, outcome'.results)]
          /\ outcome'.results \in PartialFunctions(Files, Row)
          /\ DOMAIN outcome'.results \subseteq DOMAIN content
      BY <2>2, PlanShape
    <3>2. SnapshotOf(scanned, outcome'.results) \in Snapshot
      BY <3>1, SnapshotTyped DEF TypeOK
    <3>3. outcome'.snapshot \in Snapshot
      BY <3>1, <3>2
    <3> QED
      BY <3>3 DEF HasOutcome
  <2>3. CASE WriteParseCache \/ Commit \/ WriteMeta
    BY <2>3 DEF WriteParseCache, Commit, WriteMeta, HasOutcome
  <2>4. pc' \notin {"cache", "commit", "meta", "registry"} => HasOutcome'
    BY DEF HasOutcome
  <2>5. UNCHANGED <<pc, outcome>> => HasOutcome'
    BY DEF HasOutcome
  <2>6. CASE BeginReindex \/ BeginInit
    BY <2>4, <2>6 DEF BeginReindex, BeginInit, Begin
  <2>7. CASE \E f \in Files : ScanFile(f) \/ ReadFile(f) \/ ReadFails(f)
    BY <2>4, <2>7 DEF ScanFile, ReadFile, ReadFails, AfterRead
  <2>8. CASE RetryFull \/ ValidationThrown \/ WriteRegistry
    BY <2>4, <2>8 DEF RetryFull, ValidationThrown, WriteRegistry
  <2>9. CASE World
    BY <2>4, <2>5, <2>9 DEF World, Crash, DeleteVtrace, Remove, Save, Edit, runVars
  <2>10. CASE UNCHANGED vars
    BY <2>5, <2>10 DEF vars, runVars
  <2> QED
    BY <2>1, <2>2, <2>3, <2>6, <2>7, <2>8, <2>9, <2>10 DEF Next, Run, PlansIndex
<1> QED
  BY <1>1, <1>2

(* Every snapshot that a run, a crash or a sibling leaves behind is one    *)
(* that the next run can plan from: it has a context for just the files    *)
(* that it calls indexed.                                                  *)
THEOREM TypeCorrect == Spec => []TypeOK
<1>1. Init => HasOutcome
  BY DEF Init, HasOutcome
<1> QED
  BY <1>1, TypeInit, TypeStep, CacheInit, CacheStep, PTL DEF Spec

----------------------------------------------------------------------------
(* What is about to be committed: the snapshot tells which files have      *)
(* results, and a full refresh replaces every row.                         *)
CommitInv ==
  pc \in {"cache", "commit"} =>
    /\ outcome.snapshot = SnapshotOf(scanned, outcome.results)
    /\ \A f \in DOMAIN outcome.results : outcome.results[f].hash = scanned[f]
    /\ job.mode = "full" => outcome.scope = Files

IndexInv == TypeOK /\ HasOutcome /\ CacheInv /\ CommitInv /\ ReportsOnlyMaterialized

LEMMA FilesFinite == \A S : S \subseteq Files => IsFiniteSet(S) /\ Cardinality(S) \in Nat
BY ConstantsAssumption, FS_Subset, FS_CardinalityType

LEMMA CommitInvStep == TypeOK /\ CommitInv /\ [Next]_vars => CommitInv'
<1> SUFFICES ASSUME TypeOK, CommitInv, [Next]_vars PROVE CommitInv'
  OBVIOUS
<1>1. pc' \notin {"cache", "commit"} => CommitInv'
  BY DEF CommitInv
<1>2. pc \in {"cache", "commit"} /\ UNCHANGED <<job, scanned, outcome>> => CommitInv'
  BY DEF CommitInv
<1>3. CASE BeginReindex \/ BeginInit
  BY <1>1, <1>3 DEF BeginReindex, BeginInit, Begin
<1>4. CASE \E f \in Files : ScanFile(f) \/ ReadFile(f) \/ ReadFails(f)
  BY <1>1, <1>4 DEF ScanFile, ReadFile, ReadFails, AfterRead
<1>5. CASE PlansIndex
  <2>1. /\ outcome'.snapshot = SnapshotOf(scanned, outcome'.results)
        /\ UNCHANGED <<job, scanned>>
        /\ \A f \in DOMAIN outcome'.results : outcome'.results[f].hash = scanned[f]
        /\ job.mode = "full" => outcome'.scope = Files
    <3>1. /\ UNCHANGED <<job, scanned>>
          /\ outcome' = [results |-> outcome'.results, scope |-> outcome'.scope,
                         snapshot |-> SnapshotOf(scanned, outcome'.results)]
          /\ \A f \in DOMAIN outcome'.results : outcome'.results[f].hash = scanned[f]
          /\ job.mode = "full" => outcome'.scope = Files
      BY <1>5, PlanShape
    <3> QED
      BY <3>1
  <2> QED
    BY <2>1 DEF CommitInv, SnapshotOf, ContextOf
<1>6. CASE WriteParseCache
  BY <1>2, <1>6 DEF WriteParseCache
<1>7. CASE PlanNoop \/ Commit \/ RetryFull \/ ValidationThrown \/ WriteMeta \/ WriteRegistry
  BY <1>1, <1>7 DEF PlanNoop, Commit, RetryFull, ValidationThrown, WriteMeta, WriteRegistry
<1>8. CASE World
  <2>1. CASE Crash \/ DeleteVtrace
    BY <1>1, <2>1 DEF Crash, DeleteVtrace, runVars
  <2>2. CASE \E f \in Files : Remove(f) \/ \E c \in Contents : Save(f, c)
    BY <1>1, <1>2, <2>2 DEF Remove, Save, Edit, runVars
  <2> QED
    BY <1>8, <2>1, <2>2 DEF World
<1>9. CASE UNCHANGED vars
  BY <1>1, <1>2, <1>9 DEF vars, runVars
<1> QED
  BY <1>3, <1>4, <1>5, <1>6, <1>7, <1>8, <1>9 DEF Next, Run, PlansIndex

(* The rows after a commit are as many as the results (validateGraph), and *)
(* a no-op finds a row for every file that it goes on calling indexed.     *)
LEMMA ReportStep ==
  ASSUME TypeOK, CommitInv, ReportsOnlyMaterialized, [Next]_vars
  PROVE  ReportsOnlyMaterialized'
<1>1. pc' \notin {"meta", "registry"} => ReportsOnlyMaterialized'
  BY DEF ReportsOnlyMaterialized
<1>2. pc \in {"meta", "registry"} /\ UNCHANGED <<rows, outcome>> => ReportsOnlyMaterialized'
  BY DEF ReportsOnlyMaterialized
<1>3. CASE BeginReindex \/ BeginInit
  BY <1>1, <1>3 DEF BeginReindex, BeginInit, Begin
<1>4. CASE \E f \in Files : ScanFile(f) \/ ReadFile(f) \/ ReadFails(f)
  BY <1>1, <1>4 DEF ScanFile, ReadFile, ReadFails, AfterRead
<1>5. CASE PlanNoop
  <2>1. /\ outcome' = [NoOutcome EXCEPT !.snapshot = job.previous] /\ UNCHANGED storeVars
        /\ Indexed(job.previous) \subseteq DOMAIN rows
    BY <1>5 DEF PlanNoop, UsableGraph
  <2>2. DOMAIN rows \subseteq Files
    BY PartialElim DEF TypeOK
  <2>3. /\ Cardinality(Indexed(job.previous)) <= Cardinality(DOMAIN rows)
    BY <2>1, <2>2, FilesFinite, FS_Subset
  <2>4. outcome'.snapshot = job.previous /\ rows' = rows
    BY <2>1 DEF NoOutcome, storeVars
  <2> QED
    BY <2>3, <2>4 DEF ReportsOnlyMaterialized, Indexed
<1>6. CASE Commit
  <2>1. /\ rows' = Persisted /\ outcome' = outcome
        /\ outcome.snapshot = SnapshotOf(scanned, outcome.results)
        /\ Cardinality(DOMAIN Persisted) = Cardinality(DOMAIN outcome.results)
    BY <1>6 DEF Commit, ValidGraph, CommitInv
  <2>2. /\ scanned \in Listing /\ outcome.results \in PartialFunctions(Files, Row)
        /\ DOMAIN outcome.results \subseteq DOMAIN scanned
    BY DEF TypeOK
  <2>3. Indexed(outcome.snapshot) = DOMAIN outcome.results
    BY <2>1, <2>2, SnapshotTyped
  <2>4. Cardinality(DOMAIN outcome.results) \in Nat
    BY <2>2, PartialElim, FilesFinite
  <2>5. Cardinality(Indexed(outcome.snapshot)) <= Cardinality(DOMAIN rows')
    BY <2>1, <2>3, <2>4
  <2> QED
    BY <2>1, <2>5 DEF ReportsOnlyMaterialized, Indexed
<1>7. CASE WriteMeta
  BY <1>2, <1>7 DEF WriteMeta
<1>8. CASE PlansIndex \/ WriteParseCache
  BY <1>1, <1>8 DEF PlansIndex, PlanFull, PlanBodiesOnly, PlanBoundedClosure, PlanRebuild, Proceed, WriteParseCache
<1>9. CASE RetryFull \/ ValidationThrown \/ WriteRegistry
  BY <1>1, <1>9 DEF RetryFull, ValidationThrown, WriteRegistry
<1>10. CASE World
  <2>1. CASE Crash \/ DeleteVtrace
    BY <1>1, <2>1 DEF Crash, DeleteVtrace, runVars
  <2>2. CASE \E f \in Files : Remove(f) \/ \E c \in Contents : Save(f, c)
    BY <1>1, <1>2, <2>2 DEF Remove, Save, Edit, runVars, storeVars
  <2> QED
    BY <1>10, <2>1, <2>2 DEF World
<1>11. CASE UNCHANGED vars
  BY <1>1, <1>2, <1>11 DEF vars, runVars, storeVars
<1> QED
  BY <1>3, <1>4, <1>5, <1>6, <1>7, <1>8, <1>9, <1>10, <1>11 DEF Next, Run, PlansIndex

LEMMA IndexInit == Init => IndexInv
<1> SUFFICES ASSUME Init PROVE IndexInv
  OBVIOUS
<1>1. pc = "idle"
  BY DEF Init
<1> QED
  BY <1>1, TypeInit, CacheInit DEF IndexInv, HasOutcome, CommitInv, ReportsOnlyMaterialized

LEMMA IndexStep == IndexInv /\ [Next]_vars => IndexInv'
<1> SUFFICES ASSUME IndexInv, [Next]_vars PROVE IndexInv'
  OBVIOUS
<1>1. TypeOK /\ HasOutcome /\ CacheInv /\ CommitInv /\ ReportsOnlyMaterialized
  BY DEF IndexInv
<1>2. TypeOK' /\ HasOutcome'
  BY <1>1, TypeStep
<1>3. CacheInv'
  BY <1>1, CacheStep
<1>4. CommitInv'
  BY <1>1, CommitInvStep
<1>5. ReportsOnlyMaterialized'
  BY <1>1, ReportStep
<1> QED
  BY <1>2, <1>3, <1>4, <1>5 DEF IndexInv

(* A completed index reports no more indexed files than the graph holds,   *)
(* however many files, whatever snapshot it was planned against, and       *)
(* whether it committed or found that it need not.                         *)
THEOREM NoPhantomFiles == Spec => []ReportsOnlyMaterialized
<1>1. IndexInv => ReportsOnlyMaterialized
  BY DEF IndexInv
<1> QED
  BY IndexInit, IndexStep, <1>1, PTL DEF Spec

(* A reindex ends in a graph validation error only over a broken result,   *)
(* or because a query of the validation failed: the only refresh that is   *)
(* not retried replaces every row, so that nothing kept can make the count *)
(* differ or an edge dangle.                                               *)
THEOREM ReindexIsValid == Spec => OnlyBrokenResultsThrow
<1> DEFINE Throws == job.kind = "reindex" /\ ValidationThrown /\ UNCHANGED budget
           Broke  == \E f \in DOMAIN outcome.results : outcome.results[f].body \in Broken
<1>1. ASSUME IndexInv, Throws PROVE Broke
  <2>1. pc = "commit" /\ job.mode = "full" /\ (~ValidGraph \/ MayDangle)
    BY <1>1, ConstantsAssumption DEF ValidationThrown, ValidationFails, Spend, IndexInv, TypeOK
  <2>2. outcome.scope = Files
    BY <1>1, <2>1 DEF IndexInv, CommitInv
  <2>3. DOMAIN outcome.results \subseteq Files /\ DOMAIN rows \subseteq Files
    BY <1>1, PartialElim DEF IndexInv, TypeOK
  <2>4. /\ DOMAIN Persisted = DOMAIN outcome.results
        /\ \A f \in DOMAIN Persisted : Persisted[f] = outcome.results[f]
    BY <2>2, <2>3 DEF Persisted
  <2>5. ~MayDangle
    BY <2>2, <2>3 DEF MayDangle
  <2> QED
    BY <2>1, <2>4, <2>5 DEF ValidGraph
<1>2. IndexInv => [Throws => Broke]_vars
  BY <1>1
<1> QED
  BY IndexInit, IndexStep, <1>2, PTL DEF Spec, OnlyBrokenResultsThrow
-----------------------------------------------------------------------------
(***************************************************************************)
(* An index which is declared ready tells the truth, for any number of     *)
(* files, contents, runs and events.  The argument has two regimes, one    *)
(* for each way in which the rows may be trusted:                          *)
(*  - nothing ever left rows that no manifest describes (Orderly): then    *)
(*    the rows are those of the manifest;                                  *)
(*  - no content came back and every file could be read (Clean): then      *)
(*    whatever snapshot agrees with the worktree on a file agrees with its *)
(*    row, since a wrong row derives from a content that never returns.    *)
(***************************************************************************)

Orderly == "crash" \notin events /\ "reinit" \notin events
Clean   == "recurrence" \notin events /\ "unread" \notin events

HashIn(snapshot, f) == IF f \in DOMAIN snapshot.files THEN snapshot.files[f].hash ELSE Absent

Describes(snapshot, listing) ==
  /\ DOMAIN snapshot.files = DOMAIN listing
  /\ \A f \in DOMAIN listing : snapshot.files[f].hash = listing[f]

Matches(snapshot, graph) ==
  /\ DOMAIN graph = Indexed(snapshot)
  /\ \A f \in DOMAIN graph : graph[f].hash = snapshot.files[f].hash

(* A snapshot that a clean history produced: it indexed what parses, its   *)
(* hashes are some that the paths had, and where it agrees with a listing  *)
(* the graph does.                                                         *)
Trusty(snapshot, listing, graph, history) ==
  /\ Indexed(snapshot) = {f \in DOMAIN snapshot.files : Parses(snapshot.files[f].hash)}
  /\ \A f \in Files : HashIn(snapshot, f) \in history[f]
  /\ \A f \in DOMAIN graph :
       HashIn(snapshot, f) = At(listing, f) => graph[f].hash = At(listing, f)

Present(snapshot, listing, graph) ==
  \A f \in DOMAIN listing :
    HashIn(snapshot, f) = listing[f] /\ Parses(listing[f]) => f \in DOMAIN graph

(* What a run saw is what is there.                                        *)
Seen ==
  Untouched =>
    /\ pc = "scan" => \A f \in Files \ todo : At(scanned, f) = At(disk, f)
    /\ pc \in {"read", "plan", "cache", "commit"} => scanned = disk
    /\ pc = "meta" => Describes(outcome.snapshot, disk)
    /\ meta # NoSnapshot => Describes(meta.snapshot, meta.identity)
    /\ pc = "registry" => meta # NoSnapshot /\ meta.snapshot = outcome.snapshot

(* Rows, results and cache entries derive from contents that parse.        *)
Parsable ==
  Untouched =>
    /\ \A e \in cache : Parses(e.body)
    /\ \A f \in DOMAIN rows : rows[f].body = rows[f].hash /\ Parses(rows[f].hash)
    /\ pc \in {"cache", "commit"} =>
         \A f \in DOMAIN outcome.results :
           outcome.results[f].body = outcome.results[f].hash /\ Parses(outcome.results[f].hash)

(* Outside its scope a plan relies on a snapshot that describes the files. *)
Planned ==
  Untouched /\ pc \in {"cache", "commit"} =>
    \A f \in Files \ outcome.scope :
      /\ job.previous # NoSnapshot
      /\ HashIn(job.previous, f) = At(disk, f)
      /\ f \in DOMAIN outcome.results => f \in Indexed(job.previous)

InOrder ==
  Untouched /\ Orderly =>
    /\ pc # "meta" /\ meta = NoSnapshot => DOMAIN rows = {}
    /\ pc # "meta" /\ meta # NoSnapshot => Matches(meta.snapshot, rows)
    /\ pc = "meta" =>
         /\ Matches(outcome.snapshot, rows)
         /\ \A f \in DOMAIN disk \ DOMAIN rows :
              f \in failures \/ meta = NoSnapshot \/ f \notin Indexed(meta.snapshot)
    /\ pc \in {"scan", "read", "plan", "cache", "commit"} =>
         /\ DOMAIN rows = {} \/ (meta # NoSnapshot /\ job.previous = meta.snapshot)
         /\ job.kind = "init" => DOMAIN rows = {}

Traced ==
  Untouched /\ Clean =>
    /\ \A f \in Files : At(disk, f) \in past[f]
    /\ \A w \in Worktree : registry[w] # NoSnapshot => Trusty(registry[w], disk, rows, past)
    /\ job.previous # NoSnapshot => Trusty(job.previous, disk, rows, past)
    /\ meta # NoSnapshot => /\ Trusty(meta.snapshot, disk, rows, past)
                            /\ Present(meta.snapshot, disk, rows)
    /\ pc = "meta" => /\ Trusty(outcome.snapshot, disk, rows, past)
                      /\ Present(outcome.snapshot, disk, rows)

(* In a clean history every file that was scanned is read, and has a       *)
(* result just if it parses.                                               *)
Complete ==
  Untouched /\ Clean =>
    /\ pc = "read" => DOMAIN scanned \ todo \subseteq DOMAIN content
    /\ pc = "plan" => DOMAIN scanned \subseteq DOMAIN content
    /\ pc \in {"cache", "commit"} =>
         DOMAIN outcome.results = {f \in DOMAIN scanned : Parses(scanned[f])}

HonestyInv == Seen /\ Parsable /\ Planned /\ InOrder /\ Traced /\ Complete

----------------------------------------------------------------------------
(* Listings and events *)

LEMMA ListingElim ==
  ASSUME NEW listing, listing \in Listing
  PROVE  DOMAIN listing \subseteq Files /\ \A f \in DOMAIN listing : listing[f] \in Contents /\ listing[f] # Absent
BY PartialElim, ConstantsAssumption DEF Listing

LEMMA ListingsEqual ==
  ASSUME NEW a, a \in Listing, NEW b, b \in Listing, \A f \in Files : At(a, f) = At(b, f)
  PROVE  a = b
<1>1. a \in [DOMAIN a -> Contents] /\ b \in [DOMAIN b -> Contents]
  BY PartialElim DEF Listing
<1>2. \A f \in Files : f \in DOMAIN a <=> f \in DOMAIN b
  BY ListingElim DEF At
<1>3. DOMAIN a = DOMAIN b
  BY <1>2, ListingElim
<1>4. \A f \in DOMAIN a : a[f] = b[f]
  BY <1>3, ListingElim DEF At
<1> QED
  BY <1>1, <1>3, <1>4

(* What has happened is never undone.                                      *)
LEMMA EventsGrow ==
  ASSUME [Next]_vars
  PROVE  events \subseteq events'
<1>1. CASE BeginReindex \/ BeginInit
  BY <1>1 DEF BeginReindex, BeginInit
<1>2. CASE \E f \in Files : ScanFile(f) \/ ReadFile(f) \/ ReadFails(f)
  BY <1>2 DEF ScanFile, ReadFile, ReadFails, worldVars
<1>3. CASE PlanNoop \/ PlansIndex
  BY <1>3 DEF PlanNoop, PlansIndex, PlanFull, PlanBodiesOnly, PlanBoundedClosure, PlanRebuild, Proceed, worldVars
<1>4. CASE WriteParseCache \/ Commit \/ RetryFull \/ ValidationThrown \/ WriteMeta \/ WriteRegistry
  BY <1>4 DEF WriteParseCache, Commit, RetryFull, ValidationThrown, WriteMeta, WriteRegistry, worldVars
<1>5. CASE Crash \/ DeleteVtrace
  BY <1>5 DEF Crash, DeleteVtrace
<1>6. CASE \E f \in Files : Remove(f) \/ \E c \in Contents : Save(f, c)
  BY <1>6 DEF Remove, Save, Edit
<1>7. CASE UNCHANGED vars
  BY <1>7 DEF vars, worldVars
<1> QED
  BY <1>1, <1>2, <1>3, <1>4, <1>5, <1>6, <1>7 DEF Next, Run, World, PlansIndex

LEMMA Monotone ==
  ASSUME [Next]_vars
  PROVE  (Untouched' => Untouched) /\ (Clean' => Clean) /\ (Orderly' => Orderly)
BY EventsGrow DEF Untouched, Clean, Orderly

(* An edit that spoils nothing: the run will see it, and no path takes a   *)
(* content that it had.                                                    *)
LEMMA EditShape ==
  ASSUME TypeOK, \E f \in Files : Remove(f) \/ \E c \in Contents : Save(f, c)
  PROVE  \E f \in Files :
           /\ UNCHANGED <<runVars, storeVars>>
           /\ \A g \in Files \ {f} : At(disk', g) = At(disk, g)
           /\ past' = [past EXCEPT ![f] = @ \cup {At(disk', f)}]
           /\ Untouched' => ~Unseen(f)
           /\ Clean' => At(disk', f) \notin past[f]
<1>1. ASSUME NEW f \in Files, NEW next, Edit(f, next), \A g \in Files \ {f} : At(next, g) = At(disk, g)
      PROVE  /\ UNCHANGED <<runVars, storeVars>>
             /\ \A g \in Files \ {f} : At(disk', g) = At(disk, g)
             /\ past' = [past EXCEPT ![f] = @ \cup {At(disk', f)}]
             /\ Untouched' => ~Unseen(f)
             /\ Clean' => At(disk', f) \notin past[f]
  BY <1>1 DEF Edit, Untouched, Clean
<1>2. ASSUME NEW f \in Files, NEW c \in Contents, Save(f, c)
      PROVE  \E next : Edit(f, next) /\ \A g \in Files \ {f} : At(next, g) = At(disk, g)
  <2> DEFINE next == [g \in DOMAIN disk \cup {f} |-> IF g = f THEN c ELSE disk[g]]
  <2>1. Edit(f, next)
    BY <1>2 DEF Save
  <2>2. \A g \in Files \ {f} : At(next, g) = At(disk, g)
    BY DEF At
  <2> QED
    BY <2>1, <2>2
<1>3. ASSUME NEW f \in Files, Remove(f)
      PROVE  \E next : Edit(f, next) /\ \A g \in Files \ {f} : At(next, g) = At(disk, g)
  <2>1. Edit(f, Restrict(disk, DOMAIN disk \ {f}))
    BY <1>3 DEF Remove
  <2>2. \A g \in Files \ {f} : At(Restrict(disk, DOMAIN disk \ {f}), g) = At(disk, g)
    BY DEF At, Restrict
  <2> QED
    BY <2>1, <2>2
<1> QED
  BY <1>1, <1>2, <1>3

----------------------------------------------------------------------------
(* What a run saw *)

LEMMA SeenStep ==
  ASSUME IndexInv, IndexInv', Seen, [Next]_vars
  PROVE  Seen'
<1> SUFFICES ASSUME Untouched'
             PROVE  /\ pc' = "scan" => \A f \in Files \ todo' : At(scanned', f) = At(disk', f)
                    /\ pc' \in {"read", "plan", "cache", "commit"} => scanned' = disk'
                    /\ pc' = "meta" => Describes(outcome'.snapshot, disk')
                    /\ meta' # NoSnapshot => Describes(meta'.snapshot, meta'.identity)
                    /\ pc' = "registry" => meta' # NoSnapshot /\ meta'.snapshot = outcome'.snapshot
  BY DEF Seen
<1>0. TypeOK /\ TypeOK' /\ CommitInv /\ HasOutcome
  BY DEF IndexInv
<1>1. /\ pc = "scan" => \A f \in Files \ todo : At(scanned, f) = At(disk, f)
      /\ pc \in {"read", "plan", "cache", "commit"} => scanned = disk
      /\ pc = "meta" => Describes(outcome.snapshot, disk)
      /\ meta # NoSnapshot => Describes(meta.snapshot, meta.identity)
      /\ pc = "registry" => meta # NoSnapshot /\ meta.snapshot = outcome.snapshot
  BY Monotone DEF Seen
<1>2. CASE BeginReindex \/ BeginInit
  BY <1>1, <1>2 DEF BeginReindex, BeginInit, Begin, storeVars
<1>3. ASSUME NEW f \in Files, ScanFile(f)
      PROVE  /\ pc' = "scan" => \A g \in Files \ todo' : At(scanned', g) = At(disk', g)
             /\ pc' \in {"read", "plan"} => scanned' = disk'
             /\ pc' \in {"scan", "read", "plan"} /\ UNCHANGED meta
  <2>1. /\ UNCHANGED <<disk, meta>> /\ pc = "scan" /\ f \in todo
        /\ \A g : At(scanned', g) = IF g = f /\ f \in DOMAIN disk THEN disk[f] ELSE At(scanned, g)
    BY <1>3 DEF ScanFile, storeVars, worldVars, At
  <2>2. f \notin DOMAIN disk => At(scanned, f) = Absent
    BY <2>1 DEF IndexInv, CacheInv, ScanInv, At
  <2>3. \A g \in Files \ (todo \ {f}) : At(scanned', g) = At(disk, g)
    BY <1>1, <2>1, <2>2 DEF At
  <2>4. todo = {f} => scanned' = disk'
    <3>1. scanned' \in Listing /\ disk' \in Listing
      BY <1>0 DEF TypeOK
    <3> QED
      BY <2>1, <2>3, <3>1, ListingsEqual
  <2>5. IF todo = {f} THEN pc' \in {"read", "plan"} ELSE pc' = "scan" /\ todo' = todo \ {f}
    BY <1>3, <2>1 DEF ScanFile
  <2> QED
    BY <2>1, <2>3, <2>4, <2>5
<1>4. CASE \E f \in Files : ReadFile(f) \/ ReadFails(f)
  BY <1>1, <1>4 DEF ReadFile, ReadFails, AfterRead, storeVars
<1>5. CASE PlanNoop
  <2>1. /\ pc' = "meta" /\ UNCHANGED <<storeVars, worldVars>>
        /\ outcome' = [NoOutcome EXCEPT !.snapshot = job.previous]
        /\ SameFiles /\ Modified = {} /\ scanned = disk
    BY <1>1, <1>5 DEF PlanNoop, PlannedMode
  <2>2. outcome'.snapshot = job.previous
    BY <2>1 DEF NoOutcome
  <2>3. Describes(job.previous, disk)
    BY <2>1 DEF SameFiles, Modified, Describes
  <2> QED
    BY <1>1, <2>1, <2>2, <2>3 DEF storeVars, worldVars
<1>6. CASE PlansIndex
  BY <1>0, <1>1, <1>6, PlanShape DEF storeVars, worldVars
<1>7. CASE WriteParseCache \/ RetryFull \/ ValidationThrown
  <2>1. /\ UNCHANGED <<meta, disk>> /\ (pc' = "scan" => todo' = Files)
        /\ pc' \in {"commit", "scan", "idle"} /\ (pc' = "commit" => pc = "cache" /\ scanned' = scanned)
    BY <1>7 DEF WriteParseCache, RetryFull, ValidationThrown, storeVars, worldVars
  <2> QED
    BY <1>1, <2>1
<1>8. CASE Commit
  <2>1. /\ pc' = "meta" /\ UNCHANGED <<outcome, meta, worldVars>>
        /\ outcome.snapshot = SnapshotOf(scanned, outcome.results) /\ scanned = disk
    BY <1>0, <1>1, <1>8 DEF Commit, CommitInv
  <2>2. Describes(outcome.snapshot, disk)
    BY <1>0, <2>1, SnapshotTyped DEF TypeOK, Describes
  <2> QED
    BY <1>1, <2>1, <2>2 DEF worldVars
<1>9. CASE WriteMeta
  <2>1. /\ meta' = [snapshot |-> outcome.snapshot, identity |-> disk]
        /\ pc = "meta" /\ pc' = "registry" /\ UNCHANGED outcome
        /\ outcome.snapshot \in Snapshot /\ disk \in Listing
    BY <1>0, <1>9 DEF WriteMeta, HasOutcome, TypeOK
  <2>2. meta' \in Manifest
    BY <2>1 DEF Manifest
  <2> QED
    BY <1>1, <2>1, <2>2, NoSnapshotAssumption
<1>10. CASE WriteRegistry \/ Crash \/ DeleteVtrace
  BY <1>1, <1>10 DEF WriteRegistry, Crash, DeleteVtrace, runVars
<1>11. CASE \E f \in Files : Remove(f) \/ \E c \in Contents : Save(f, c)
  <2>1. PICK f \in Files :
          /\ UNCHANGED <<runVars, storeVars>>
          /\ \A g \in Files \ {f} : At(disk', g) = At(disk, g)
          /\ ~Unseen(f)
    BY <1>0, <1>11, EditShape
  <2>2. pc \in {"idle", "scan", "registry"} /\ (pc = "scan" => f \in todo)
    BY <1>0, <2>1 DEF Unseen, TypeOK, Steps
  <2> QED
    BY <1>1, <2>1, <2>2 DEF runVars, storeVars
<1>12. CASE UNCHANGED vars
  BY <1>1, <1>12 DEF vars, runVars, storeVars, worldVars
<1> QED
  BY <1>1, <1>2, <1>3, <1>4, <1>5, <1>6, <1>7, <1>8, <1>9, <1>10, <1>11, <1>12 DEF Next, Run, World, PlansIndex

----------------------------------------------------------------------------
(* What is parsed *)

LEMMA ResultsParse ==
  ASSUME IndexInv, Parsable, Untouched, pc = "plan", NEW R, NEW C,
         \A f \in R : f \in DOMAIN scanned => scanned[f] = job.previous.files[f].hash
  PROVE  \A f \in DOMAIN Results(R, C) : Parses(scanned[f])
<1> DEFINE hits   == {f \in R \cap DOMAIN content : Cached(f) # {}}
           parsed == Parsed(Files \ (hits \cup C))
<1>1. DOMAIN Results(R, C) = hits \cup DOMAIN parsed
  BY DEF Results
<1>2. ReadInv /\ CacheIsContentAddressed /\ \A e \in cache : Parses(e.body)
  BY DEF IndexInv, CacheInv, Parsable
<1>3. \A f \in DOMAIN parsed : Parses(scanned[f])
  BY <1>2 DEF Parsed, ReadInv
<1>4. ASSUME NEW f \in hits PROVE Parses(scanned[f])
  <2>1. PICK e \in Cached(f) : TRUE
    OBVIOUS
  <2>2. e \in cache /\ e.hash = job.previous.files[f].hash
    BY <2>1 DEF Cached
  <2>3. e.body = e.hash
    BY <1>2, <2>2 DEF CacheIsContentAddressed, Untouched
  <2>4. scanned[f] = job.previous.files[f].hash
    BY <1>2 DEF ReadInv
  <2> QED
    BY <1>2, <2>2, <2>3, <2>4
<1> QED
  BY <1>1, <1>3, <1>4

LEMMA CandidateParses ==
  ASSUME IndexInv, Parsable, Untouched, pc = "plan"
  PROVE  \A f \in DOMAIN Candidate : Parses(scanned[f])
<1> DEFINE R == Indexed(job.previous) \ Modified
           C == (DOMAIN scanned \ Modified) \ Indexed(job.previous)
<1>1. \A f \in R : f \in DOMAIN scanned => scanned[f] = job.previous.files[f].hash
  BY DEF Modified
<1>2. Candidate = Results(R, C)
  BY DEF Candidate
<1> HIDE DEF R, C
<1> QED
  BY <1>1, <1>2, ResultsParse

LEMMA PlansParse ==
  ASSUME IndexInv, Parsable, Untouched, PlansIndex
  PROVE  \A f \in DOMAIN outcome'.results : Parses(scanned[f])
<1>1. pc = "plan" /\ ReadInv
  BY PlanShape DEF IndexInv, CacheInv
<1>2. \A S : \A f \in DOMAIN Parsed(S) : Parses(scanned[f])
  BY <1>1 DEF Parsed, ReadInv
<1>3. CASE PlanFull
  <2> DEFINE R == IF SameFiles /\ Modified = {} THEN Indexed(job.previous) ELSE {}
  <2>1. outcome'.results = Results(R, {})
    BY <1>3 DEF PlanFull, Proceed
  <2>2. \A f \in R : f \in DOMAIN scanned => scanned[f] = job.previous.files[f].hash
    BY DEF Modified
  <2> HIDE DEF R
  <2> QED
    BY <1>1, <2>1, <2>2, ResultsParse
<1>4. CASE PlanBodiesOnly
  BY <1>1, <1>4, CandidateParses DEF PlanBodiesOnly, Proceed
<1>5. CASE PlanBoundedClosure
  <2>1. PICK closure \in SUBSET (DOMAIN Candidate \ Modified) :
          outcome'.results =
            [f \in (DOMAIN Candidate \ closure) \cup DOMAIN Parsed(closure) |->
               IF f \in DOMAIN Candidate \ closure THEN Candidate[f] ELSE Parsed(closure)[f]]
    BY <1>5 DEF PlanBoundedClosure, Proceed
  <2>2. \A f \in DOMAIN outcome'.results : f \in DOMAIN Candidate \/ f \in DOMAIN Parsed(closure)
    BY <2>1
  <2> QED
    BY <1>1, <1>2, <2>2, CandidateParses
<1>6. CASE PlanRebuild
  BY <1>2, <1>6 DEF PlanRebuild, Proceed
<1> QED
  BY <1>3, <1>4, <1>5, <1>6 DEF PlansIndex

(* When every file was read, and the snapshot planned against calls        *)
(* indexed what parses, no plan leaves out a file that parses.             *)
LEMMA PlansComplete ==
  ASSUME IndexInv, Untouched, PlansIndex, DOMAIN scanned \subseteq DOMAIN content,
         job.previous # NoSnapshot =>
           Indexed(job.previous) = {f \in DOMAIN job.previous.files : Parses(job.previous.files[f].hash)}
  PROVE  \A f \in DOMAIN scanned : Parses(scanned[f]) => f \in DOMAIN outcome'.results
<1>1. pc = "plan" /\ ReadInv /\ TypeOK
  BY PlanShape DEF IndexInv, CacheInv
<1>2. /\ DOMAIN scanned \subseteq Files
      /\ \A f \in DOMAIN scanned : f \in DOMAIN content /\ content[f] = scanned[f]
  BY <1>1, ListingElim DEF ReadInv, TypeOK
<1>3. \A S : \A f \in S \cap DOMAIN scanned : Parses(scanned[f]) => f \in DOMAIN Parsed(S)
  BY <1>2 DEF Parsed
<1>4. \A R, C : \A f \in DOMAIN scanned \ C : Parses(scanned[f]) => f \in DOMAIN Results(R, C)
  <2> SUFFICES ASSUME NEW R, NEW C
               PROVE  \A f \in DOMAIN scanned \ C : Parses(scanned[f]) => f \in DOMAIN Results(R, C)
    OBVIOUS
  <2>1. \A f \in DOMAIN content \ C : Parses(content[f]) => f \in DOMAIN Results(R, C)
    BY <1>1, ResultsTyped
  <2> QED
    BY <1>2, <2>1
<1>5. ASSUME Incremental
      PROVE  \A f \in DOMAIN scanned : Parses(scanned[f]) => f \in DOMAIN Candidate
  <2> DEFINE R == Indexed(job.previous) \ Modified
             C == (DOMAIN scanned \ Modified) \ Indexed(job.previous)
  <2>1. SameFiles /\ job.previous # NoSnapshot
    BY <1>5 DEF Incremental, PlannedMode, SameFiles
  <2>2. \A f \in C : f \in DOMAIN job.previous.files /\ scanned[f] = job.previous.files[f].hash
    BY <2>1 DEF SameFiles, Modified
  <2>3. \A f \in C : f \in DOMAIN scanned /\ f \notin Indexed(job.previous)
    OBVIOUS
  <2>4. Candidate = Results(R, C)
    BY DEF Candidate
  <2> HIDE DEF R, C
  <2>5. \A f \in C : ~Parses(scanned[f])
    BY <2>1, <2>2, <2>3
  <2> QED
    BY <1>4, <2>4, <2>5
<1>6. CASE PlanFull
  BY <1>4, <1>6 DEF PlanFull, Proceed
<1>7. CASE PlanBodiesOnly
  BY <1>5, <1>7 DEF PlanBodiesOnly, Proceed
<1>8. CASE PlanBoundedClosure
  <2>1. PICK closure \in SUBSET (DOMAIN Candidate \ Modified) :
          outcome'.results =
            [f \in (DOMAIN Candidate \ closure) \cup DOMAIN Parsed(closure) |->
               IF f \in DOMAIN Candidate \ closure THEN Candidate[f] ELSE Parsed(closure)[f]]
    BY <1>8 DEF PlanBoundedClosure, Proceed
  <2>2. DOMAIN outcome'.results = (DOMAIN Candidate \ closure) \cup DOMAIN Parsed(closure)
    BY <2>1
  <2>3. \A f \in closure \cap DOMAIN scanned : Parses(scanned[f]) => f \in DOMAIN Parsed(closure)
    BY <1>3
  <2> QED
    BY <1>5, <1>8, <2>2, <2>3 DEF PlanBoundedClosure
<1>9. CASE PlanRebuild
  BY <1>2, <1>3, <1>9 DEF PlanRebuild, Proceed
<1> QED
  BY <1>6, <1>7, <1>8, <1>9 DEF PlansIndex

LEMMA ParsableStep ==
  ASSUME IndexInv, IndexInv', Parsable, [Next]_vars
  PROVE  Parsable'
<1> SUFFICES ASSUME Untouched'
             PROVE  /\ \A e \in cache' : Parses(e.body)
                    /\ \A f \in DOMAIN rows' : rows'[f].body = rows'[f].hash /\ Parses(rows'[f].hash)
                    /\ pc' \in {"cache", "commit"} =>
                         \A f \in DOMAIN outcome'.results :
                           /\ outcome'.results[f].body = outcome'.results[f].hash
                           /\ Parses(outcome'.results[f].hash)
  BY DEF Parsable, Parses
<1>0. TypeOK /\ CacheInv
  BY DEF IndexInv
<1>1. /\ Untouched
      /\ \A e \in cache : Parses(e.body)
      /\ \A f \in DOMAIN rows : rows[f].body = rows[f].hash /\ Parses(rows[f].hash)
      /\ pc \in {"cache", "commit"} =>
           \A f \in DOMAIN outcome.results :
             outcome.results[f].body = outcome.results[f].hash /\ Parses(outcome.results[f].hash)
  BY Monotone DEF Parsable
<1>2. CASE BeginReindex \/ BeginInit
  BY <1>1, <1>2 DEF BeginReindex, BeginInit, Begin, storeVars
<1>3. CASE \E f \in Files : ScanFile(f) \/ ReadFile(f) \/ ReadFails(f)
  BY <1>1, <1>3 DEF ScanFile, ReadFile, ReadFails, AfterRead, storeVars
<1>4. CASE PlanNoop
  BY <1>1, <1>4 DEF PlanNoop, storeVars
<1>5. CASE PlansIndex
  <2>1. /\ UNCHANGED storeVars
        /\ \A f \in DOMAIN outcome'.results : outcome'.results[f].hash = scanned[f]
    BY <1>0, <1>5, PlanShape
  <2>2. \A f \in DOMAIN outcome'.results : outcome'.results[f].body = outcome'.results[f].hash
    BY <1>0, <1>1, <1>5, PlansFaithful DEF PlansIndex, Faithful
  <2>3. \A f \in DOMAIN outcome'.results : Parses(scanned[f])
    BY <1>1, <1>5, PlansParse
  <2> QED
    BY <1>1, <2>1, <2>2, <2>3 DEF storeVars
<1>6. CASE WriteParseCache
  <2>1. pc = "cache" /\ UNCHANGED <<outcome, rows>>
    BY <1>6 DEF WriteParseCache
  <2>2. \A e \in cache' : e \in cache \/ \E f \in DOMAIN outcome.results :
                                          e = CacheEntry(f, outcome.results[f], outcome.snapshot.context)
    BY <1>6 DEF WriteParseCache
  <2> QED
    BY <1>1, <2>1, <2>2 DEF CacheEntry
<1>7. CASE Commit
  <2>1. rows' = Persisted /\ UNCHANGED cache /\ pc = "commit" /\ pc' = "meta"
    BY <1>7 DEF Commit
  <2>2. /\ \A f \in DOMAIN Persisted :
             IF f \in outcome.scope THEN Persisted[f] = outcome.results[f] ELSE Persisted[f] = rows[f]
        /\ DOMAIN Persisted = (DOMAIN rows \ outcome.scope) \cup (DOMAIN outcome.results \cap outcome.scope)
    BY <1>0, PersistedTyped
  <2> QED
    BY <1>1, <2>1, <2>2
<1>8. CASE RetryFull \/ ValidationThrown \/ WriteMeta \/ WriteRegistry
  BY <1>1, <1>8 DEF RetryFull, ValidationThrown, WriteMeta, WriteRegistry, storeVars
<1>9. CASE Crash
  BY <1>1, <1>9 DEF Crash
<1>10. CASE DeleteVtrace
  BY <1>1, <1>10 DEF DeleteVtrace, runVars, Empty
<1>11. CASE \E f \in Files : Remove(f) \/ \E c \in Contents : Save(f, c)
  BY <1>1, <1>11 DEF Remove, Save, Edit, runVars, storeVars
<1>12. CASE UNCHANGED vars
  BY <1>1, <1>12 DEF vars, runVars, storeVars
<1> QED
  BY <1>2, <1>3, <1>4, <1>5, <1>6, <1>7, <1>8, <1>9, <1>10, <1>11, <1>12
     DEF Next, Run, World, PlansIndex

----------------------------------------------------------------------------
(* What a plan relies on *)

LEMMA PlannedStep ==
  ASSUME IndexInv, IndexInv', Seen, Planned, [Next]_vars
  PROVE  Planned'
<1> SUFFICES ASSUME Untouched', pc' \in {"cache", "commit"}
             PROVE  \A f \in Files \ outcome'.scope :
                      /\ job'.previous # NoSnapshot
                      /\ HashIn(job'.previous, f) = At(disk', f)
                      /\ f \in DOMAIN outcome'.results => f \in Indexed(job'.previous)
  BY DEF Planned, HashIn, At, Indexed
<1>0. TypeOK
  BY DEF IndexInv
<1>1. /\ Untouched
      /\ pc \in {"cache", "commit"} =>
           \A f \in Files \ outcome.scope :
             /\ job.previous # NoSnapshot
             /\ HashIn(job.previous, f) = At(disk, f)
             /\ f \in DOMAIN outcome.results => f \in Indexed(job.previous)
  BY Monotone DEF Planned
<1>2. CASE PlansIndex
  <2>1. /\ UNCHANGED <<job, disk>> /\ pc = "plan"
        /\ \A f \in Files \ outcome'.scope :
             /\ SameFiles /\ f \notin Modified
             /\ f \in DOMAIN outcome'.results => f \in Indexed(job.previous)
    BY <1>0, <1>2, PlanShape DEF worldVars
  <2>2. scanned = disk
    BY <1>1, <2>1 DEF Seen
  <2>3. \A f \in Files \ outcome'.scope :
          job.previous # NoSnapshot /\ HashIn(job.previous, f) = At(disk, f)
    BY <2>1, <2>2 DEF SameFiles, Modified, HashIn, At
  <2> QED
    BY <2>1, <2>3
<1>3. CASE WriteParseCache
  BY <1>1, <1>3 DEF WriteParseCache
<1>4. CASE \E f \in Files : Remove(f) \/ \E c \in Contents : Save(f, c)
  <2>1. pc' = pc /\ pc \notin {"cache", "commit"}
    BY <1>0, <1>4, EditShape DEF Unseen, runVars
  <2> QED
    BY <2>1
<1>5. CASE UNCHANGED vars
  BY <1>1, <1>5 DEF vars, runVars, worldVars
<1>6. CASE BeginReindex \/ BeginInit \/ \E f \in Files : ScanFile(f) \/ ReadFile(f) \/ ReadFails(f)
  BY <1>6 DEF BeginReindex, BeginInit, Begin, ScanFile, ReadFile, ReadFails, AfterRead
<1>7. CASE PlanNoop \/ Commit \/ RetryFull \/ ValidationThrown \/ WriteMeta \/ WriteRegistry \/ Crash \/ DeleteVtrace
  BY <1>7 DEF PlanNoop, Commit, RetryFull, ValidationThrown, WriteMeta, WriteRegistry, Crash, DeleteVtrace, runVars
<1> QED
  BY <1>2, <1>3, <1>4, <1>5, <1>6, <1>7 DEF Next, Run, World, PlansIndex

LEMMA CompleteStep ==
  ASSUME IndexInv, IndexInv', Seen, Parsable, Traced, Complete, [Next]_vars
  PROVE  Complete'
<1> SUFFICES ASSUME Untouched', Clean'
             PROVE  /\ pc' = "read" => DOMAIN scanned' \ todo' \subseteq DOMAIN content'
                    /\ pc' = "plan" => DOMAIN scanned' \subseteq DOMAIN content'
                    /\ pc' \in {"cache", "commit"} =>
                         DOMAIN outcome'.results = {f \in DOMAIN scanned' : Parses(scanned'[f])}
  BY DEF Complete, Parses
<1>0. TypeOK /\ ScanInv
  BY DEF IndexInv, CacheInv
<1>1. /\ Untouched /\ Clean
      /\ pc = "read" => DOMAIN scanned \ todo \subseteq DOMAIN content
      /\ pc = "plan" => DOMAIN scanned \subseteq DOMAIN content
      /\ pc \in {"cache", "commit"} =>
           DOMAIN outcome.results = {f \in DOMAIN scanned : Parses(scanned[f])}
  BY Monotone DEF Complete
<1>2. CASE \E f \in Files : ScanFile(f)
  BY <1>2 DEF ScanFile, Empty
<1>3. CASE \E f \in Files : ReadFile(f)
  BY <1>1, <1>3 DEF ReadFile, AfterRead
<1>4. ASSUME NEW f \in Files, ReadFails(f) PROVE FALSE
  <2>1. pc = "read" /\ f \in todo
    BY <1>4 DEF ReadFails
  <2>2. f \in DOMAIN disk
    BY <1>0, <1>1, <2>1 DEF ScanInv, Seen
  <2> QED
    BY <1>4, <2>2 DEF ReadFails, Clean
<1>5. CASE PlansIndex
  <2>1. /\ UNCHANGED scanned /\ pc = "plan" /\ pc' = "cache"
        /\ DOMAIN outcome'.results \subseteq DOMAIN content
    BY <1>0, <1>5, PlanShape
  <2>2. \A f \in DOMAIN outcome'.results : Parses(scanned[f])
    BY <1>1, <1>5, PlansParse
  <2>3. job.previous # NoSnapshot =>
          Indexed(job.previous) = {f \in DOMAIN job.previous.files : Parses(job.previous.files[f].hash)}
    BY <1>1 DEF Traced, Trusty
  <2>4. \A f \in DOMAIN scanned : Parses(scanned[f]) => f \in DOMAIN outcome'.results
    BY <1>1, <1>5, <2>1, <2>3, PlansComplete
  <2>5. DOMAIN content \subseteq DOMAIN scanned
    BY <1>0 DEF TypeOK
  <2> QED
    BY <2>1, <2>2, <2>4, <2>5
<1>6. CASE WriteParseCache
  BY <1>1, <1>6 DEF WriteParseCache
<1>7. CASE BeginReindex \/ BeginInit
  BY <1>7 DEF BeginReindex, BeginInit, Begin
<1>8. CASE PlanNoop \/ Commit \/ RetryFull \/ ValidationThrown \/ WriteMeta \/ WriteRegistry \/ Crash \/ DeleteVtrace
  BY <1>8 DEF PlanNoop, Commit, RetryFull, ValidationThrown, WriteMeta, WriteRegistry, Crash, DeleteVtrace, runVars
<1>9. CASE (\E f \in Files : Remove(f) \/ \E c \in Contents : Save(f, c)) \/ UNCHANGED vars
  BY <1>1, <1>9 DEF Remove, Save, Edit, vars, runVars
<1> QED
  BY <1>2, <1>3, <1>4, <1>5, <1>6, <1>7, <1>8, <1>9 DEF Next, Run, World, PlansIndex

----------------------------------------------------------------------------
(* The two regimes *)

(* An orderly commit makes the rows those of the snapshot: where it leaves *)
(* rows alone they are the previous snapshot's, and as many as validate.   *)
LEMMA OrderlyCommit ==
  ASSUME IndexInv, Seen, Planned, InOrder, Untouched, Orderly, Commit
  PROVE  /\ Matches(outcome.snapshot, Persisted)
         /\ DOMAIN Persisted = DOMAIN outcome.results
<1>0. TypeOK /\ CommitInv
  BY DEF IndexInv
<1>1. /\ pc = "commit" /\ scanned = disk
      /\ Cardinality(DOMAIN Persisted) = Cardinality(DOMAIN outcome.results)
  BY DEF Commit, ValidGraph, Seen
<1>2. /\ DOMAIN Persisted = (DOMAIN rows \ outcome.scope) \cup (DOMAIN outcome.results \cap outcome.scope)
      /\ \A f \in DOMAIN Persisted :
           IF f \in outcome.scope THEN Persisted[f] = outcome.results[f] ELSE Persisted[f] = rows[f]
  BY <1>0, PersistedTyped
<1>3. DOMAIN rows \subseteq Files /\ DOMAIN outcome.results \subseteq Files
  BY <1>0, PartialElim DEF TypeOK
<1>4. \A f \in Files \ outcome.scope :
        /\ HashIn(job.previous, f) = At(disk, f)
        /\ f \in DOMAIN outcome.results => f \in Indexed(job.previous)
  BY <1>1 DEF Planned
<1>5. DOMAIN rows = {} \/ Matches(job.previous, rows)
  BY <1>1 DEF InOrder
<1>6. /\ \A f \in DOMAIN outcome.results : outcome.results[f].hash = scanned[f]
      /\ DOMAIN outcome.results \subseteq DOMAIN scanned
      /\ outcome.snapshot = SnapshotOf(scanned, outcome.results)
  BY <1>0, <1>1 DEF CommitInv, TypeOK
<1>7. /\ Indexed(outcome.snapshot) = DOMAIN outcome.results
      /\ \A f \in DOMAIN scanned : outcome.snapshot.files[f].hash = scanned[f]
  BY <1>0, <1>6, SnapshotTyped DEF TypeOK
<1>8. DOMAIN Persisted = DOMAIN outcome.results
  <2>1. DOMAIN Persisted \subseteq Files
    BY <1>2, <1>3
  <2>2. CASE DOMAIN rows = {}
    <3>1. DOMAIN Persisted \subseteq DOMAIN outcome.results
      BY <1>2, <2>2
    <3> QED
      BY <1>1, <1>3, <3>1, FilesFinite, FS_Subset
  <2>3. CASE Matches(job.previous, rows)
    <3>1. DOMAIN outcome.results \subseteq DOMAIN Persisted
      BY <1>2, <1>3, <1>4, <2>3 DEF Matches
    <3> QED
      BY <1>1, <2>1, <3>1, FilesFinite, FS_Subset
  <2> QED
    BY <1>5, <2>2, <2>3
<1>9. ASSUME NEW f \in DOMAIN Persisted PROVE Persisted[f].hash = outcome.snapshot.files[f].hash
  <2>1. f \in DOMAIN scanned /\ f \in Files
    BY <1>3, <1>6, <1>8
  <2>2. CASE f \in outcome.scope
    BY <1>2, <1>6, <1>7, <1>8, <2>1, <2>2
  <2>3. CASE f \notin outcome.scope
    <3>1. f \in DOMAIN rows /\ Persisted[f] = rows[f]
      BY <1>2, <2>3
    <3>2. Matches(job.previous, rows)
      BY <1>5, <3>1
    <3>3. rows[f].hash = HashIn(job.previous, f)
      BY <3>1, <3>2 DEF Matches, HashIn, Indexed
    <3>4. At(disk, f) = scanned[f]
      BY <1>1, <2>1 DEF At
    <3> QED
      BY <1>4, <1>7, <2>1, <2>3, <3>1, <3>3, <3>4
  <2> QED
    BY <2>2, <2>3
<1> QED
  BY <1>7, <1>8, <1>9 DEF Matches

LEMMA InOrderStep ==
  ASSUME IndexInv, IndexInv', Seen, Planned, InOrder, [Next]_vars
  PROVE  InOrder'
<1> DEFINE Busy == {"scan", "read", "plan", "cache", "commit"}
<1> SUFFICES ASSUME Untouched', Orderly'
             PROVE  /\ pc' # "meta" /\ meta' = NoSnapshot => DOMAIN rows' = {}
                    /\ pc' # "meta" /\ meta' # NoSnapshot => Matches(meta'.snapshot, rows')
                    /\ pc' = "meta" =>
                         /\ Matches(outcome'.snapshot, rows')
                         /\ \A f \in DOMAIN disk' \ DOMAIN rows' :
                              f \in failures' \/ meta' = NoSnapshot \/ f \notin Indexed(meta'.snapshot)
                    /\ pc' \in Busy =>
                         /\ DOMAIN rows' = {} \/ (meta' # NoSnapshot /\ job'.previous = meta'.snapshot)
                         /\ job'.kind = "init" => DOMAIN rows' = {}
  BY DEF InOrder, Matches, Indexed
<1>0. TypeOK /\ TypeOK' /\ CommitInv /\ HasOutcome
  BY DEF IndexInv
<1>1. /\ Untouched /\ Orderly
      /\ pc # "meta" /\ meta = NoSnapshot => DOMAIN rows = {}
      /\ pc # "meta" /\ meta # NoSnapshot => Matches(meta.snapshot, rows)
      /\ pc = "meta" =>
           /\ Matches(outcome.snapshot, rows)
           /\ \A f \in DOMAIN disk \ DOMAIN rows :
                f \in failures \/ meta = NoSnapshot \/ f \notin Indexed(meta.snapshot)
      /\ pc \in Busy =>
           /\ DOMAIN rows = {} \/ (meta # NoSnapshot /\ job.previous = meta.snapshot)
           /\ job.kind = "init" => DOMAIN rows = {}
  BY Monotone DEF InOrder
<1>2. CASE BeginReindex
  <2>1. /\ pc = "idle" /\ pc' = "scan" /\ UNCHANGED storeVars /\ job'.kind = "reindex"
        /\ meta = NoSnapshot \/ job'.previous = meta.snapshot
    BY <1>2 DEF BeginReindex, Begin
  <2> QED
    BY <1>1, <2>1 DEF storeVars
<1>3. CASE BeginInit
  <2>1. pc = "idle" /\ pc' = "scan" /\ UNCHANGED storeVars /\ rows = Empty
    BY <1>3 DEF BeginInit, Begin, Orderly
  <2>2. DOMAIN rows = {}
    BY <2>1, EmptyTyped
  <2> QED
    BY <1>1, <2>1, <2>2 DEF storeVars
<1>4. ASSUME pc \in Busy, pc' \in Busy \cup {"idle"}, UNCHANGED <<rows, meta>>,
             (job'.previous = job.previous /\ job'.kind = job.kind) \/ pc' = "idle"
      PROVE  /\ pc' # "meta" /\ meta' = NoSnapshot => DOMAIN rows' = {}
             /\ pc' # "meta" /\ meta' # NoSnapshot => Matches(meta'.snapshot, rows')
             /\ pc' # "meta"
             /\ pc' \in Busy =>
                  /\ DOMAIN rows' = {} \/ (meta' # NoSnapshot /\ job'.previous = meta'.snapshot)
                  /\ job'.kind = "init" => DOMAIN rows' = {}
  BY <1>1, <1>4
<1>5. CASE \E f \in Files : ScanFile(f) \/ ReadFile(f) \/ ReadFails(f)
  BY <1>4, <1>5 DEF ScanFile, ReadFile, ReadFails, AfterRead, storeVars
<1>6. CASE PlansIndex \/ WriteParseCache \/ ValidationThrown
  <2>1. pc \in Busy /\ pc' \in Busy \cup {"idle"} /\ UNCHANGED <<rows, meta>> /\ (job' = job \/ pc' = "idle")
    BY <1>6 DEF PlansIndex, PlanFull, PlanBodiesOnly, PlanBoundedClosure, PlanRebuild, Incremental, Proceed,
                WriteParseCache, ValidationThrown, storeVars
  <2> QED
    BY <1>4, <2>1
<1>7. CASE RetryFull
  <2>1. pc = "commit" /\ pc' = "scan" /\ UNCHANGED <<rows, meta>> /\ job' = [job EXCEPT !.mode = "full"]
    BY <1>7 DEF RetryFull, storeVars
  <2>2. job'.previous = job.previous /\ job'.kind = job.kind
    BY <1>0, <2>1 DEF TypeOK
  <2> QED
    BY <1>4, <2>1, <2>2
<1>8. CASE PlanNoop
  <2>1. /\ pc = "plan" /\ pc' = "meta" /\ UNCHANGED <<storeVars, worldVars>>
        /\ outcome' = [NoOutcome EXCEPT !.snapshot = job.previous]
        /\ job.kind # "init" /\ Indexed(job.previous) \subseteq DOMAIN rows
    BY <1>8 DEF PlanNoop, UsableGraph
  <2>2. outcome'.snapshot = job.previous
    BY <2>1 DEF NoOutcome
  <2>3. Matches(job.previous, rows)
    <3>1. CASE DOMAIN rows = {}
      BY <2>1, <3>1 DEF Matches
    <3>2. CASE meta # NoSnapshot /\ job.previous = meta.snapshot
      BY <1>1, <2>1, <3>2
    <3> QED
      BY <1>1, <2>1, <3>1, <3>2
  <2>4. \A f \in DOMAIN disk \ DOMAIN rows : meta = NoSnapshot \/ f \notin Indexed(meta.snapshot)
    BY <1>1, <2>1 DEF Matches
  <2> QED
    BY <2>1, <2>2, <2>3, <2>4 DEF storeVars, worldVars
<1>9. CASE Commit
  <2>1. /\ pc = "commit" /\ pc' = "meta" /\ UNCHANGED <<outcome, meta, disk>>
        /\ rows' = Persisted /\ failures' = DOMAIN scanned \ DOMAIN outcome.results
    BY <1>9 DEF Commit, worldVars
  <2>2. Matches(outcome.snapshot, Persisted) /\ DOMAIN Persisted = DOMAIN outcome.results
    BY <1>1, <1>9, OrderlyCommit
  <2>3. scanned = disk
    BY <1>1, <2>1 DEF Seen
  <2> QED
    BY <2>1, <2>2, <2>3
<1>10. CASE WriteMeta
  <2>1. /\ pc = "meta" /\ pc' = "registry" /\ UNCHANGED rows
        /\ meta' = [snapshot |-> outcome.snapshot, identity |-> disk]
        /\ outcome.snapshot \in Snapshot /\ disk \in Listing
    BY <1>0, <1>10 DEF WriteMeta, HasOutcome, TypeOK
  <2>2. meta' \in Manifest
    BY <2>1 DEF Manifest
  <2> QED
    BY <1>1, <2>1, <2>2, NoSnapshotAssumption
<1>11. CASE WriteRegistry
  BY <1>1, <1>11 DEF WriteRegistry
<1>12. CASE Crash
  BY <1>12 DEF Crash, Orderly
<1>13. CASE DeleteVtrace
  <2>1. rows' = Empty /\ meta' = NoSnapshot /\ pc' = "idle"
    BY <1>13 DEF DeleteVtrace, runVars
  <2> QED
    BY <2>1, EmptyTyped
<1>14. CASE \E f \in Files : Remove(f) \/ \E c \in Contents : Save(f, c)
  <2>1. UNCHANGED <<runVars, storeVars>> /\ pc # "meta"
    BY <1>0, <1>14, EditShape DEF Unseen
  <2> QED
    BY <1>1, <2>1 DEF runVars, storeVars
<1>15. CASE UNCHANGED vars
  BY <1>1, <1>15 DEF vars, runVars, storeVars, worldVars
<1> QED
  BY <1>2, <1>3, <1>5, <1>6, <1>7, <1>8, <1>9, <1>10, <1>11, <1>12, <1>13, <1>14, <1>15
     DEF Next, Run, World, PlansIndex

(* A clean commit makes the rows those of the files that parse: the rows   *)
(* it leaves alone are right, because the previous snapshot agrees on them *)
(* with the worktree, and there are too few of them unless all are there.  *)
LEMMA CleanCommit ==
  ASSUME IndexInv, Seen, Parsable, Planned, Traced, Complete, Untouched, Clean, Commit
  PROVE  /\ DOMAIN Persisted = DOMAIN outcome.results
         /\ \A f \in DOMAIN Persisted : f \in DOMAIN disk /\ Persisted[f].hash = disk[f]
<1>0. TypeOK /\ CommitInv
  BY DEF IndexInv
<1>1. /\ pc = "commit" /\ scanned = disk
      /\ Cardinality(DOMAIN Persisted) = Cardinality(DOMAIN outcome.results)
      /\ DOMAIN outcome.results = {f \in DOMAIN scanned : Parses(scanned[f])}
  BY DEF Commit, ValidGraph, Seen, Complete
<1>2. /\ DOMAIN Persisted = (DOMAIN rows \ outcome.scope) \cup (DOMAIN outcome.results \cap outcome.scope)
      /\ \A f \in DOMAIN Persisted :
           IF f \in outcome.scope THEN Persisted[f] = outcome.results[f] ELSE Persisted[f] = rows[f]
  BY <1>0, PersistedTyped
<1>3. /\ DOMAIN rows \subseteq Files /\ DOMAIN outcome.results \subseteq Files
      /\ \A f \in DOMAIN rows : rows[f].hash \in Contents
  <2>1. rows \in PartialFunctions(Files, Row) /\ outcome.results \in PartialFunctions(Files, Row)
    BY <1>0 DEF TypeOK
  <2>2. /\ DOMAIN rows \subseteq Files /\ DOMAIN outcome.results \subseteq Files
        /\ \A f \in DOMAIN rows : rows[f] \in Row
    BY <2>1, PartialElim
  <2> QED
    BY <2>2 DEF Row
<1>4. \A f \in DOMAIN outcome.results : f \in DOMAIN disk /\ outcome.results[f].hash = disk[f]
  BY <1>0, <1>1 DEF CommitInv
<1>5. \A f \in DOMAIN rows : Parses(rows[f].hash)
  BY DEF Parsable
<1>6. ASSUME NEW f \in DOMAIN rows, f \notin outcome.scope
      PROVE  f \in DOMAIN disk /\ rows[f].hash = disk[f]
  <2>1. job.previous # NoSnapshot /\ HashIn(job.previous, f) = At(disk, f)
    BY <1>1, <1>3, <1>6 DEF Planned
  <2>2. rows[f].hash = At(disk, f)
    BY <2>1 DEF Traced, Trusty
  <2>3. rows[f].hash # Absent
    BY <1>3, ConstantsAssumption
  <2> QED
    BY <2>2, <2>3 DEF At
<1>7. \A f \in DOMAIN Persisted : f \in DOMAIN disk /\ Persisted[f].hash = disk[f]
  BY <1>2, <1>4, <1>6
<1>8. DOMAIN Persisted \subseteq DOMAIN outcome.results
  BY <1>1, <1>2, <1>5, <1>6
<1> QED
  BY <1>1, <1>3, <1>7, <1>8, FilesFinite, FS_Subset

(* An edit to a content the path never had parts it from every snapshot.   *)
LEMMA TrustyAfterEdit ==
  ASSUME NEW s, NEW d, NEW d2, NEW r, NEW h, NEW h2, NEW f \in Files,
         DOMAIN r \subseteq Files,
         Trusty(s, d, r, h),
         \A g \in Files \ {f} : At(d2, g) = At(d, g),
         At(d2, f) \notin h[f],
         \A g \in Files : h[g] \subseteq h2[g]
  PROVE  Trusty(s, d2, r, h2)
<1>1. \A g \in Files : HashIn(s, g) \in h[g]
  BY DEF Trusty
<1>2. Indexed(s) = {g \in DOMAIN s.files : Parses(s.files[g].hash)}
  BY DEF Trusty
<1>3. \A g \in DOMAIN r : HashIn(s, g) = At(d2, g) => r[g].hash = At(d2, g)
  BY <1>1 DEF Trusty
<1> QED
  BY <1>1, <1>2, <1>3 DEF Trusty

LEMMA PresentAfterEdit ==
  ASSUME NEW s, NEW d, d \in Listing, NEW d2, d2 \in Listing, NEW r, NEW h, NEW f \in Files,
         \A g \in Files : HashIn(s, g) \in h[g],
         Present(s, d, r),
         \A g \in Files \ {f} : At(d2, g) = At(d, g),
         At(d2, f) \notin h[f]
  PROVE  Present(s, d2, r)
<1> SUFFICES ASSUME NEW g \in DOMAIN d2, HashIn(s, g) = d2[g], Parses(d2[g])
             PROVE  g \in DOMAIN r
  BY DEF Present
<1>1. g \in Files /\ d2[g] # Absent /\ At(d2, g) = d2[g]
  BY ListingElim DEF At
<1>2. g # f
  BY <1>1
<1>3. g \in DOMAIN d /\ d[g] = d2[g]
  BY <1>1, <1>2 DEF At
<1> QED
  BY <1>3 DEF Present

LEMMA TracedStep ==
  ASSUME IndexInv, IndexInv', Seen, Parsable, Planned, Traced, Complete, [Next]_vars
  PROVE  Traced'
<1> SUFFICES ASSUME Untouched', Clean'
             PROVE  /\ \A f \in Files : At(disk', f) \in past'[f]
                    /\ \A w \in Worktree : registry'[w] # NoSnapshot => Trusty(registry'[w], disk', rows', past')
                    /\ job'.previous # NoSnapshot => Trusty(job'.previous, disk', rows', past')
                    /\ meta' # NoSnapshot => /\ Trusty(meta'.snapshot, disk', rows', past')
                                             /\ Present(meta'.snapshot, disk', rows')
                    /\ pc' = "meta" => /\ Trusty(outcome'.snapshot, disk', rows', past')
                                       /\ Present(outcome'.snapshot, disk', rows')
  BY DEF Traced, Trusty, Present, HashIn, At, Indexed, Parses
<1>0. TypeOK /\ TypeOK' /\ CommitInv /\ HasOutcome
  BY DEF IndexInv
<1>1. /\ Untouched /\ Clean
      /\ \A f \in Files : At(disk, f) \in past[f]
      /\ \A w \in Worktree : registry[w] # NoSnapshot => Trusty(registry[w], disk, rows, past)
      /\ job.previous # NoSnapshot => Trusty(job.previous, disk, rows, past)
      /\ meta # NoSnapshot => /\ Trusty(meta.snapshot, disk, rows, past)
                              /\ Present(meta.snapshot, disk, rows)
      /\ pc = "meta" => /\ Trusty(outcome.snapshot, disk, rows, past)
                        /\ Present(outcome.snapshot, disk, rows)
  BY Monotone DEF Traced
<1>2. CASE BeginReindex \/ BeginInit
  <2>1. /\ pc' = "scan" /\ UNCHANGED <<storeVars, disk, past>>
        /\ \/ job'.previous = NoSnapshot
           \/ \E w \in Worktree : job'.previous = registry[w]
           \/ meta # NoSnapshot /\ job'.previous = meta.snapshot
    BY <1>2 DEF BeginReindex, BeginInit, Begin, Worktree
  <2> QED
    BY <1>1, <2>1 DEF storeVars
<1>3. ASSUME UNCHANGED <<disk, rows, past, registry, meta>>, pc' # "meta",
             job'.previous = job.previous \/ job'.previous = NoSnapshot
      PROVE  /\ \A f \in Files : At(disk', f) \in past'[f]
             /\ \A w \in Worktree : registry'[w] # NoSnapshot => Trusty(registry'[w], disk', rows', past')
             /\ job'.previous # NoSnapshot => Trusty(job'.previous, disk', rows', past')
             /\ meta' # NoSnapshot => /\ Trusty(meta'.snapshot, disk', rows', past')
                                      /\ Present(meta'.snapshot, disk', rows')
             /\ pc' # "meta"
  BY <1>1, <1>3
<1>4. CASE \E f \in Files : ScanFile(f) \/ ReadFile(f) \/ ReadFails(f)
  BY <1>3, <1>4 DEF ScanFile, ReadFile, ReadFails, AfterRead, storeVars, worldVars
<1>5. CASE PlansIndex \/ WriteParseCache
  <2>1. pc' # "meta" /\ UNCHANGED <<disk, rows, past, registry, meta, job>>
    BY <1>5 DEF PlansIndex, PlanFull, PlanBodiesOnly, PlanBoundedClosure, PlanRebuild, Proceed,
                WriteParseCache, storeVars, worldVars
  <2> QED
    BY <1>3, <2>1
<1>6. CASE RetryFull \/ ValidationThrown
  <2>1. /\ pc' # "meta" /\ UNCHANGED <<disk, rows, past, registry, meta>>
        /\ job' = [job EXCEPT !.mode = "full"] \/ job' = NoJob
    BY <1>6 DEF RetryFull, ValidationThrown, ForgetRun, storeVars, worldVars
  <2>2. job'.previous = job.previous \/ job'.previous = NoSnapshot
    BY <1>0, <2>1 DEF TypeOK, NoJob
  <2> QED
    BY <1>3, <2>1, <2>2
<1>7. CASE PlanNoop
  <2>1. /\ pc = "plan" /\ UNCHANGED <<job, storeVars, worldVars>>
        /\ outcome' = [NoOutcome EXCEPT !.snapshot = job.previous]
        /\ SameFiles /\ Modified = {} /\ Indexed(job.previous) \subseteq DOMAIN rows
    BY <1>7 DEF PlanNoop, PlannedMode, UsableGraph
  <2>2. outcome'.snapshot = job.previous /\ job.previous # NoSnapshot
    BY <2>1 DEF NoOutcome, SameFiles
  <2>3. Trusty(job.previous, disk, rows, past)
    BY <1>1, <2>2
  <2>4. scanned = disk
    BY <1>1, <2>1 DEF Seen
  <2>5. Present(job.previous, disk, rows)
    BY <2>1, <2>3, <2>4 DEF Present, Trusty, SameFiles, Modified
  <2> QED
    BY <1>1, <2>1, <2>2, <2>3, <2>5 DEF storeVars, worldVars
<1>8. CASE Commit
  <2>1. /\ pc = "commit" /\ rows' = Persisted /\ UNCHANGED <<job, outcome, meta, registry, disk, past>>
        /\ scanned = disk
    BY <1>1, <1>8 DEF Commit, worldVars, Seen
  <2>2. /\ DOMAIN Persisted = DOMAIN outcome.results
        /\ \A f \in DOMAIN Persisted : f \in DOMAIN disk /\ Persisted[f].hash = disk[f]
    BY <1>1, <1>8, CleanCommit
  <2>3. DOMAIN outcome.results = {f \in DOMAIN disk : Parses(disk[f])}
    BY <1>1, <2>1 DEF Complete
  <2>4. ASSUME NEW s, Trusty(s, disk, rows, past) PROVE Trusty(s, disk, Persisted, past)
    BY <2>2, <2>4 DEF Trusty, At
  <2>5. ASSUME NEW s PROVE Present(s, disk, Persisted)
    BY <2>2, <2>3 DEF Present
  <2>6. Trusty(outcome.snapshot, disk, Persisted, past)
    <3>1. outcome.snapshot = SnapshotOf(disk, outcome.results)
      BY <1>0, <2>1 DEF CommitInv
    <3>2. /\ disk \in Listing /\ outcome.results \in PartialFunctions(Files, Row)
          /\ DOMAIN outcome.results \subseteq DOMAIN disk
      BY <1>0, <2>1 DEF TypeOK
    <3>3. /\ DOMAIN outcome.snapshot.files = DOMAIN disk
          /\ \A f \in DOMAIN disk : outcome.snapshot.files[f].hash = disk[f]
          /\ Indexed(outcome.snapshot) = DOMAIN outcome.results
      BY <3>1, <3>2, SnapshotTyped
    <3>4. \A f \in Files : HashIn(outcome.snapshot, f) = At(disk, f)
      BY <3>3 DEF HashIn, At
    <3>5. Indexed(outcome.snapshot) =
            {f \in DOMAIN outcome.snapshot.files : Parses(outcome.snapshot.files[f].hash)}
      BY <2>3, <3>3
    <3>6. \A f \in DOMAIN Persisted : Persisted[f].hash = At(disk, f)
      BY <2>2 DEF At
    <3> QED
      BY <1>1, <3>4, <3>5, <3>6 DEF Trusty
  <2> QED
    BY <1>1, <2>1, <2>4, <2>5, <2>6
<1>9. CASE WriteMeta
  <2>1. /\ pc = "meta" /\ pc' = "registry" /\ UNCHANGED <<job, rows, registry, disk, past>>
        /\ meta' = [snapshot |-> outcome.snapshot, identity |-> disk]
    BY <1>9 DEF WriteMeta, worldVars
  <2>2. meta'.snapshot = outcome.snapshot
    BY <2>1
  <2> QED
    BY <1>1, <2>1, <2>2
<1>10. CASE WriteRegistry
  <2>1. /\ pc = "registry" /\ pc' = "idle" /\ UNCHANGED <<rows, meta, disk, past>> /\ job' = NoJob
        /\ registry' = [registry EXCEPT !["own"] = outcome.snapshot] \/ registry' = registry
    BY <1>10 DEF WriteRegistry, ForgetRun
  <2>2. meta # NoSnapshot /\ meta.snapshot = outcome.snapshot
    BY <1>1, <2>1 DEF Seen
  <2>3. \A w \in Worktree : registry'[w] = registry[w] \/ registry'[w] = meta.snapshot
    BY <1>0, <2>1, <2>2 DEF TypeOK
  <2> QED
    BY <1>1, <2>1, <2>2, <2>3 DEF NoJob
<1>11. CASE Crash
  <2>1. /\ pc' = "idle" /\ UNCHANGED <<rows, registry, disk, past>> /\ job' = NoJob
        /\ meta' \in {meta, NoSnapshot}
    BY <1>11 DEF Crash, ForgetRun
  <2> QED
    BY <1>1, <2>1 DEF NoJob
<1>12. CASE DeleteVtrace
  <2>1. /\ pc' = "idle" /\ UNCHANGED <<registry, disk, past, job>> /\ rows' = Empty /\ meta' = NoSnapshot
    BY <1>12 DEF DeleteVtrace, runVars
  <2>2. ASSUME NEW s, Trusty(s, disk, rows, past) PROVE Trusty(s, disk, Empty, past)
    BY <2>2, EmptyTyped DEF Trusty
  <2> QED
    BY <1>1, <2>1, <2>2
<1>13. CASE \E f \in Files : Remove(f) \/ \E c \in Contents : Save(f, c)
  <2>1. PICK f \in Files :
          /\ UNCHANGED <<runVars, storeVars>>
          /\ \A g \in Files \ {f} : At(disk', g) = At(disk, g)
          /\ past' = [past EXCEPT ![f] = @ \cup {At(disk', f)}]
          /\ ~Unseen(f)
          /\ At(disk', f) \notin past[f]
    BY <1>0, <1>13, EditShape
  <2>2. pc' = pc /\ pc # "meta" /\ UNCHANGED <<job, outcome, rows, registry, meta>>
    BY <2>1 DEF Unseen, runVars, storeVars
  <2>3. /\ DOMAIN rows \subseteq Files /\ past \in [Files -> SUBSET (Contents \cup {Absent})]
        /\ disk \in Listing /\ disk' \in Listing
    BY <1>0, PartialElim DEF TypeOK
  <2>4. ASSUME NEW s, Trusty(s, disk, rows, past) PROVE Trusty(s, disk', rows, past')
    <3>1. \A g \in Files : past[g] \subseteq past'[g]
      BY <2>1, <2>3
    <3>2. /\ DOMAIN rows \subseteq Files
          /\ \A g \in Files \ {f} : At(disk', g) = At(disk, g)
          /\ At(disk', f) \notin past[f]
      BY <2>1, <2>3
    <3> QED
      BY ONLY <2>4, <3>1, <3>2, TrustyAfterEdit
  <2>5. ASSUME NEW s, Trusty(s, disk, rows, past), Present(s, disk, rows) PROVE Present(s, disk', rows)
    <3>1. \A g \in Files : HashIn(s, g) \in past[g]
      BY <2>5 DEF Trusty
    <3> QED
      BY <2>1, <2>3, <2>5, <3>1, PresentAfterEdit
  <2>6. \A g \in Files : At(disk', g) \in past'[g]
    BY <1>1, <2>1, <2>3
  <2> QED
    BY <1>1, <2>2, <2>4, <2>5, <2>6
<1>14. CASE UNCHANGED vars
  BY <1>1, <1>14 DEF vars, runVars, storeVars, worldVars
<1> QED
  BY <1>2, <1>4, <1>5, <1>6, <1>7, <1>8, <1>9, <1>10, <1>11, <1>12, <1>13, <1>14
     DEF Next, Run, World, PlansIndex

----------------------------------------------------------------------------
(* What the sibling left is trusted: this worktree has no rows yet.        *)
LEMMA HonestyInit == Init => HonestyInv
<1> SUFFICES ASSUME Init PROVE HonestyInv
  OBVIOUS
<1>1. /\ pc = "idle" /\ meta = NoSnapshot /\ job = NoJob /\ rows = Empty /\ DOMAIN rows = {}
      /\ disk \in Listing
  BY EmptyTyped, StartsTyped DEF Init
<1>2. PICK listing \in Siblings :
        IF listing = NoSnapshot
        THEN /\ registry = [w \in Worktree |-> NoSnapshot]
             /\ cache = {}
             /\ past = [f \in Files |-> {At(disk, f)}]
        ELSE LET results == ParsedListing(listing) IN
             /\ registry = [w \in Worktree |-> IF w = "own" THEN NoSnapshot ELSE SnapshotOf(listing, results)]
             /\ cache = {CacheEntry(f, results[f], ContextOf(results)) : f \in DOMAIN results}
             /\ past = [f \in Files |-> {At(disk, f), At(listing, f)}]
  BY DEF Init
<1>3. \A f \in Files : At(disk, f) \in past[f]
  BY <1>2
<1>4. CASE listing = NoSnapshot
  <2>1. cache = {} /\ \A w \in Worktree : registry[w] = NoSnapshot
    BY <1>2, <1>4
  <2> QED
    BY <1>1, <1>3, <2>1 DEF HonestyInv, Seen, Parsable, Planned, InOrder, Traced, Complete, NoJob
<1>5. CASE listing # NoSnapshot
  <2> DEFINE results == ParsedListing(listing)
             snapshot == SnapshotOf(listing, results)
  <2>1. listing \in Listing
    BY <1>5, StartsTyped
  <2>2. /\ results \in PartialFunctions(Files, Row)
        /\ DOMAIN results = {g \in DOMAIN listing : Parses(listing[g])}
        /\ \A f \in DOMAIN results : results[f].body = listing[f]
    BY <2>1, SiblingTyped
  <2>3. /\ registry = [w \in Worktree |-> IF w = "own" THEN NoSnapshot ELSE snapshot]
        /\ cache = {CacheEntry(f, results[f], ContextOf(results)) : f \in DOMAIN results}
        /\ past = [f \in Files |-> {At(disk, f), At(listing, f)}]
    BY <1>2, <1>5
  <2> HIDE DEF results
  <2>4. /\ DOMAIN snapshot.files = DOMAIN listing
        /\ \A f \in DOMAIN listing : snapshot.files[f].hash = listing[f]
        /\ Indexed(snapshot) = DOMAIN results
    BY <2>1, <2>2, SnapshotTyped
  <2> HIDE DEF snapshot
  <2>5. \A f \in Files : HashIn(snapshot, f) \in past[f]
    BY <2>3, <2>4 DEF HashIn, At
  <2>6. Indexed(snapshot) = {f \in DOMAIN snapshot.files : Parses(snapshot.files[f].hash)}
    BY <2>2, <2>4
  <2>7. Trusty(snapshot, disk, rows, past)
    BY <1>1, <2>5, <2>6 DEF Trusty
  <2>8. \A e \in cache : Parses(e.body)
    BY <2>2, <2>3 DEF CacheEntry
  <2>9. \A w \in Worktree : registry[w] # NoSnapshot => Trusty(registry[w], disk, rows, past)
    BY <2>3, <2>7
  <2> QED
    BY <1>1, <1>3, <2>8, <2>9 DEF HonestyInv, Seen, Parsable, Planned, InOrder, Traced, Complete, NoJob
<1> QED
  BY <1>4, <1>5

LEMMA HonestyStep == IndexInv /\ IndexInv' /\ HonestyInv /\ [Next]_vars => HonestyInv'
<1> SUFFICES ASSUME IndexInv, IndexInv', HonestyInv, [Next]_vars PROVE HonestyInv'
  OBVIOUS
<1>1. Seen /\ Parsable /\ Planned /\ InOrder /\ Traced /\ Complete
  BY DEF HonestyInv
<1>2. Seen'
  BY <1>1, SeenStep
<1>3. Parsable'
  BY <1>1, ParsableStep
<1>4. Planned'
  BY <1>1, PlannedStep
<1>5. InOrder'
  BY <1>1, InOrderStep
<1>6. Traced'
  BY <1>1, TracedStep
<1>7. Complete'
  BY <1>1, CompleteStep
<1> QED
  BY <1>2, <1>3, <1>4, <1>5, <1>6, <1>7 DEF HonestyInv

LEMMA InvariantsSuffice ==
  ASSUME IndexInv, HonestyInv
  PROVE  ReadyIsHonest
<1> SUFFICES ASSUME Ready, ~Deceived PROVE Honest
  BY DEF ReadyIsHonest
<1>1. TypeOK /\ Seen /\ Parsable /\ InOrder /\ Traced
  BY DEF IndexInv, HonestyInv
<1>2. Untouched /\ (Clean \/ Orderly)
  BY DEF Deceived, Untouched, Clean, Orderly
<1>3. meta # NoSnapshot /\ meta.identity = disk
  BY DEF Ready
<1>4. Describes(meta.snapshot, disk)
  BY <1>1, <1>2, <1>3 DEF Seen
<1>5. \A f \in DOMAIN rows : rows[f].body = rows[f].hash /\ rows[f].hash \in Contents /\ f \in Files
  <2>1. DOMAIN rows \subseteq Files /\ \A f \in DOMAIN rows : rows[f] \in Row
    BY <1>1, PartialElim DEF TypeOK
  <2> QED
    BY <1>1, <1>2, <2>1 DEF Parsable, Row
<1>6. CASE Clean
  <2>1. Trusty(meta.snapshot, disk, rows, past) /\ Present(meta.snapshot, disk, rows)
    BY <1>1, <1>2, <1>3, <1>6 DEF Traced
  <2>2. ASSUME NEW f \in DOMAIN rows PROVE f \in DOMAIN disk /\ rows[f].body = disk[f]
    <3>1. HashIn(meta.snapshot, f) = At(disk, f)
      BY <1>4 DEF Describes, HashIn, At
    <3>2. rows[f].hash = At(disk, f)
      BY <2>1, <3>1 DEF Trusty
    <3> QED
      BY <1>5, <3>2, ConstantsAssumption DEF At
  <2>3. ASSUME NEW f \in DOMAIN disk, f \notin DOMAIN rows PROVE ~meta.snapshot.files[f].indexed
    <3>1. HashIn(meta.snapshot, f) = disk[f] /\ f \in DOMAIN meta.snapshot.files
      BY <1>4 DEF Describes, HashIn
    <3>2. ~Parses(meta.snapshot.files[f].hash)
      BY <2>1, <2>3, <3>1 DEF Present, HashIn
    <3>3. f \notin Indexed(meta.snapshot)
      BY <2>1, <3>2 DEF Trusty
    <3> QED
      BY <3>1, <3>3 DEF Indexed
  <2> QED
    BY <2>2, <2>3 DEF Honest
<1>7. CASE Orderly
  <2>1. CASE pc # "meta"
    <3>1. Matches(meta.snapshot, rows)
      BY <1>1, <1>2, <1>3, <1>7, <2>1 DEF InOrder
    <3>2. ASSUME NEW f \in DOMAIN rows PROVE f \in DOMAIN disk /\ rows[f].body = disk[f]
      BY <1>4, <1>5, <3>1 DEF Matches, Describes, Indexed
    <3>3. ASSUME NEW f \in DOMAIN disk, f \notin DOMAIN rows PROVE ~meta.snapshot.files[f].indexed
      BY <1>4, <3>1, <3>3 DEF Matches, Describes, Indexed
    <3> QED
      BY <3>2, <3>3 DEF Honest
  <2>2. CASE pc = "meta"
    <3>1. /\ Matches(outcome.snapshot, rows)
          /\ \A f \in DOMAIN disk \ DOMAIN rows :
               f \in failures \/ meta = NoSnapshot \/ f \notin Indexed(meta.snapshot)
          /\ Describes(outcome.snapshot, disk)
      BY <1>1, <1>2, <1>7, <2>2 DEF InOrder, Seen
    <3>2. ASSUME NEW f \in DOMAIN rows PROVE f \in DOMAIN disk /\ rows[f].body = disk[f]
      BY <1>5, <3>1 DEF Matches, Describes, Indexed
    <3>3. ASSUME NEW f \in DOMAIN disk, f \notin DOMAIN rows
          PROVE  f \in failures \/ ~meta.snapshot.files[f].indexed
      BY <1>3, <1>4, <3>1, <3>3 DEF Describes, Indexed
    <3> QED
      BY <3>2, <3>3 DEF Honest
  <2> QED
    BY <2>1, <2>2
<1> QED
  BY <1>2, <1>6, <1>7

(* An index that is declared ready is honest, for every worktree, parser   *)
(* and history: what evaluateIndexReadiness accepts, the graph answers     *)
(* truthfully, outside the circumstances that Deceived names.              *)
THEOREM ReadyMeansHonest == Spec => []ReadyIsHonest
<1>1. IndexInv /\ HonestyInv => ReadyIsHonest
  BY InvariantsSuffice
<1> QED
  BY IndexInit, IndexStep, HonestyInit, HonestyStep, <1>1, PTL DEF Spec

-----------------------------------------------------------------------------
(* What a run that ends without an error leaves, before the manifest says  *)
(* so: the graph of the files as they are, whether the run committed it or *)
(* found it usable, by whichever plan.  FileWatcher takes a run for this.  *)
RunLeavesItCurrent ==
  pc = "meta" /\ ~Deceived =>
    /\ DOMAIN rows \subseteq DOMAIN disk
    /\ \A f \in DOMAIN disk :
         IF f \in DOMAIN rows THEN rows[f].body = disk[f] ELSE f \notin Indexed(outcome.snapshot)

LEMMA OutcomeSuffices ==
  ASSUME IndexInv, HonestyInv
  PROVE  RunLeavesItCurrent
<1> SUFFICES ASSUME pc = "meta", ~Deceived
             PROVE  /\ \A f \in DOMAIN rows : f \in DOMAIN disk /\ rows[f].body = disk[f]
                    /\ \A f \in DOMAIN disk \ DOMAIN rows : f \notin Indexed(outcome.snapshot)
  BY DEF RunLeavesItCurrent
<1>1. TypeOK /\ Seen /\ Parsable /\ InOrder /\ Traced
  BY DEF IndexInv, HonestyInv
<1>2. Untouched /\ (Clean \/ Orderly)
  BY DEF Deceived, Untouched, Clean, Orderly
<1>3. Describes(outcome.snapshot, disk)
  BY <1>1, <1>2 DEF Seen
<1>4. \A f \in DOMAIN rows : rows[f].body = rows[f].hash /\ rows[f].hash \in Contents /\ f \in Files
  <2>1. DOMAIN rows \subseteq Files /\ \A f \in DOMAIN rows : rows[f] \in Row
    BY <1>1, PartialElim DEF TypeOK
  <2> QED
    BY <1>1, <1>2, <2>1 DEF Parsable, Row
<1>5. CASE Clean
  <2>1. Trusty(outcome.snapshot, disk, rows, past) /\ Present(outcome.snapshot, disk, rows)
    BY <1>1, <1>2, <1>5 DEF Traced
  <2>2. ASSUME NEW f \in DOMAIN rows PROVE f \in DOMAIN disk /\ rows[f].body = disk[f]
    <3>1. HashIn(outcome.snapshot, f) = At(disk, f)
      BY <1>3 DEF Describes, HashIn, At
    <3>2. rows[f].hash = At(disk, f)
      BY <2>1, <3>1 DEF Trusty
    <3> QED
      BY <1>4, <3>2, ConstantsAssumption DEF At
  <2>3. ASSUME NEW f \in DOMAIN disk, f \notin DOMAIN rows PROVE f \notin Indexed(outcome.snapshot)
    <3>1. HashIn(outcome.snapshot, f) = disk[f] /\ f \in DOMAIN outcome.snapshot.files
      BY <1>3 DEF Describes, HashIn
    <3>2. ~Parses(outcome.snapshot.files[f].hash)
      BY <2>1, <2>3, <3>1 DEF Present, HashIn
    <3> QED
      BY <2>1, <3>2 DEF Trusty
  <2> QED
    BY <2>2, <2>3
<1>6. CASE Orderly
  <2>1. Matches(outcome.snapshot, rows)
    BY <1>1, <1>2, <1>6 DEF InOrder
  <2>2. ASSUME NEW f \in DOMAIN rows PROVE f \in DOMAIN disk /\ rows[f].body = disk[f]
    BY <1>3, <1>4, <2>1 DEF Matches, Describes, Indexed
  <2> QED
    BY <2>1, <2>2 DEF Matches
<1> QED
  BY <1>2, <1>5, <1>6

(* When a run is about to write the manifest, the rows of every file derive *)
(* from what the file contains and a file without rows is not among those  *)
(* it will call indexed, unless Deceived: for any plan, any snapshot it    *)
(* started from, and any number of retries and torn manifests before.      *)
THEOREM RunsAreCurrent == Spec => []RunLeavesItCurrent
<1>1. IndexInv /\ HonestyInv => RunLeavesItCurrent
  BY OutcomeSuffices
<1> QED
  BY IndexInit, IndexStep, HonestyInit, HonestyStep, <1>1, PTL DEF Spec
=============================================================================
