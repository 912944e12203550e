-------------------------- MODULE SessionCompression --------------------------
(***************************************************************************)
(* Compression of inactive agent sessions                                  *)
(* (src/src/observations/sessionLifecycle.ts): a sweep takes the sessions  *)
(* that were idle longest and, for each, stores an observation that sums   *)
(* it up, a summary, one observation for its repeated passive ones, and at *)
(* last marks it compressed.                                               *)
(*                                                                         *)
(* Every one of these is a commit of its own to the session store.  The    *)
(* MCP server goes on capturing, the sweep of a reindex and the command    *)
(* compress-sessions may run together, and a sweep may end anywhere.       *)
(* Storing any observation of a session makes the session active again     *)
(* (upsertSession), the observations of the sweep itself included.         *)
(*                                                                         *)
(* What the sweep stores links the symbols of the session's observations,  *)
(* and a symbol that the index no longer has makes storing it fail.        *)
(*                                                                         *)
(* The passive observations of a session are one group (one signature),    *)
(* numbered as they are captured.                                          *)
(***************************************************************************)
EXTENDS Naturals, FiniteSets, SequencesExt

CONSTANTS
  Session,
  Sweeper,      \* processes that compress
  Reindex,      \* the one of them that sweeps after a reindex, under its lock
  Linked,       \* sessions whose observations link symbols
  Captures,     \* Captures[s]: bound on the passive observations of s
  Threshold,    \* observations that make a group
  Limit,        \* sessions that one sweep of a reindex visits
  MaxCuts       \* bound on the sweeps cut short

ASSUME SetsAssumption == IsFiniteSet(Session) /\ Session # {}
ASSUME ReindexAssumption == Reindex \in Sweeper
ASSUME LinkedAssumption == Linked \subseteq Session
ASSUME CapturesAssumption == Captures \in [Session -> Nat]
ASSUME NumbersAssumption == Threshold \in Nat /\ Threshold >= 2 /\ Limit \in Nat \ {0} /\ MaxCuts \in Nat

VARIABLES
  captured,     \* history: how many passive observations s has had
  raw,          \* those in the store
  folded,       \* those its consolidated observation stands for
  status,       \* sessions.status
  summary,      \* s has a row in session_compression_summaries
  order,        \* the sessions by last_activity_at_ms
  fresh,        \* sessions active within the threshold
  gone,         \* sessions with a linked symbol that is not in the index
  pc,           \* the next commit of a sweep
  todo,         \* todo[w]: the sessions w has selected and not yet visited
  seen,         \* seen[w]: the group w has read
  unsettled,    \* history: sessions used again after their summary, and those
                \* whose visit ended between its first commit and its last
  shared,       \* history: sessions visited by two sweeps at once
  cuts

vars == <<captured, raw, folded, status, summary, order, fresh, gone, pc, todo, seen,
          unsettled, shared, cuts>>

Init ==
  /\ captured = [s \in Session |-> 0]
  /\ raw = [s \in Session |-> {}]
  /\ folded = [s \in Session |-> {}]
  /\ status = [s \in Session |-> "active"]
  /\ summary = {}
  /\ order \in SetToSeqs(Session)
  /\ fresh = {} /\ gone = {}
  /\ pc = [w \in Sweeper |-> "idle"]
  /\ todo = [w \in Sweeper |-> <<>>]
  /\ seen = [w \in Sweeper |-> {}]
  /\ unsettled = {} /\ shared = {}
  /\ cuts = 0

-----------------------------------------------------------------------------
(* upsertSession with an activity of now.                                  *)
Place(s) == CHOOSE i \in DOMAIN order : order[i] = s

Activate(s) ==
  /\ status' = [status EXCEPT ![s] = "active"]
  /\ order' = Append(RemoveAt(order, Place(s)), s)
  /\ fresh' = fresh \cup {s}

\* A tool call (n = 1) or an observation that is kept as it is (n = 0).
Capture(s, n) ==
  /\ captured[s] + n <= Captures[s]
  /\ captured' = [captured EXCEPT ![s] = @ + n]
  /\ raw' = [raw EXCEPT ![s] = @ \cup (captured[s] + 1 .. captured[s] + n)]
  /\ Activate(s)
  /\ unsettled' = IF s \in summary THEN unsettled \cup {s} ELSE unsettled
  /\ UNCHANGED <<folded, summary, gone, pc, todo, seen, shared, cuts>>

\* The session idle longest of the fresh ones passes the threshold.
GrowIdle ==
  /\ \E s \in fresh :
       /\ \A t \in fresh : Place(s) =< Place(t)
       /\ fresh' = fresh \ {s}
  /\ UNCHANGED <<captured, raw, folded, status, summary, order, gone, pc, todo, seen,
                 unsettled, shared, cuts>>

\* A reindex replaces the symbols: some are gone, and some are back.
IndexAgain ==
  /\ gone' \in SUBSET Linked
  /\ UNCHANGED <<captured, raw, folded, status, summary, order, fresh, pc, todo, seen,
                 unsettled, shared, cuts>>

-----------------------------------------------------------------------------
(* compressInactiveSessions: the reindex sweep visits Limit sessions, the  *)
(* command as many as it is told to, all by default.                       *)

\* Mutant: sessions that are compressed already take places of the sweep.
Eligible_AnyStatus == {s \in Session : s \notin fresh}

Eligible == {s \in Session : status[s] = "active" /\ s \notin fresh}

\* The first k of the sessions, or all of them, those idle longest first.
FirstOf(k, sessions) ==
  LET n == IF k < Cardinality(sessions) THEN k ELSE Cardinality(sessions)
  IN  {q \in [1..n -> sessions] : \A i \in 1..n : \A s \in sessions :
         Place(s) < Place(q[i]) <=> \E j \in 1 .. i - 1 : q[j] = s}

Reach(w) == IF w = Reindex THEN Limit ELSE Cardinality(Session)

Begin(w) ==
  /\ pc[w] = "idle"
  /\ Eligible # {}
  /\ pc' = [pc EXCEPT ![w] = "visit"]
  /\ \E q \in FirstOf(Reach(w), Eligible) : todo' = [todo EXCEPT ![w] = q]
  /\ UNCHANGED <<captured, raw, folded, status, summary, order, fresh, gone, seen, unsettled, shared, cuts>>

\* w is between the first and the last step of a visit to s.
Visiting(w, s) == pc[w] \in {"note", "summarise", "group", "fold", "mark"} /\ Head(todo[w]) = s

\* What w has stored of its visit is not all.
Committed == {"summarise", "group", "fold", "mark"}

\* Mutant: the next session is summed up without looking at it first.
NextSession_Blind(w) ==
  /\ pc' = [pc EXCEPT ![w] = "note"]
  /\ todo' = [todo EXCEPT ![w] = Tail(@)]

\* The sweep goes on to the next session, and ends after the last.
NextSession(w) ==
  /\ pc' = [pc EXCEPT ![w] = IF Len(todo[w]) = 1 THEN "idle" ELSE "visit"]
  /\ todo' = [todo EXCEPT ![w] = Tail(@)]

\* Mutant: a session that has its summary is compressed once more.
Look_Again(w) ==
  /\ pc[w] = "visit"
  /\ LET s == Head(todo[w]) IN
       /\ IF status[s] = "compressed"
          THEN NextSession(w) /\ UNCHANGED shared
          ELSE /\ pc' = [pc EXCEPT ![w] = "note"]
               /\ shared' = IF \E v \in Sweeper : Visiting(v, s) THEN shared \cup {s} ELSE shared
               /\ UNCHANGED todo
  /\ UNCHANGED <<captured, raw, folded, status, summary, order, fresh, gone, seen, unsettled, cuts>>

(* compressSession: a session with a summary is done with, whatever its    *)
(* status; that it is still idle is not asked again.                       *)
Look(w) ==
  /\ pc[w] = "visit"
  /\ LET s == Head(todo[w]) IN
       /\ IF s \in summary \/ status[s] = "compressed"
          THEN NextSession(w) /\ UNCHANGED shared
          ELSE /\ pc' = [pc EXCEPT ![w] = "note"]
               /\ shared' = IF \E v \in Sweeper : Visiting(v, s) THEN shared \cup {s} ELSE shared
               /\ UNCHANGED todo
  /\ UNCHANGED <<captured, raw, folded, status, summary, order, fresh, gone, seen, unsettled, cuts>>

\* persistObservation of the summary text; its dedupe key makes it one.
Note(w) ==
  /\ pc[w] = "note" /\ Head(todo[w]) \notin gone
  /\ pc' = [pc EXCEPT ![w] = "summarise"]
  /\ Activate(Head(todo[w]))
  /\ UNCHANGED <<captured, raw, folded, summary, gone, todo, seen, unsettled, shared, cuts>>

\* persistSessionCompressionSummary leaves a summary that is there alone.
Summarise(w) ==
  /\ pc[w] = "summarise"
  /\ pc' = [pc EXCEPT ![w] = "group"]
  /\ summary' = summary \cup {Head(todo[w])}
  /\ UNCHANGED <<captured, raw, folded, status, order, fresh, gone, todo, seen, unsettled, shared, cuts>>

\* The groups are read before the transaction that consolidates them.
Group(w) ==
  /\ pc[w] = "group"
  /\ LET found == raw[Head(todo[w])] IN
       IF Cardinality(found) >= Threshold
       THEN pc' = [pc EXCEPT ![w] = "fold"] /\ seen' = [seen EXCEPT ![w] = found]
       ELSE pc' = [pc EXCEPT ![w] = "mark"] /\ UNCHANGED seen
  /\ UNCHANGED <<captured, raw, folded, status, summary, order, fresh, gone, todo, unsettled, shared, cuts>>

\* One transaction; the dedupe key of the group keeps the first consolidated
\* observation, with the numbers it was written with.
Fold(w) ==
  /\ pc[w] = "fold" /\ Head(todo[w]) \notin gone
  /\ LET s == Head(todo[w]) IN
       /\ folded' = [folded EXCEPT ![s] = IF @ = {} THEN seen[w] ELSE @]
       /\ raw' = [raw EXCEPT ![s] = @ \ seen[w]]
       /\ Activate(s)
  /\ pc' = [pc EXCEPT ![w] = "mark"]
  /\ seen' = [seen EXCEPT ![w] = {}]
  /\ UNCHANGED <<captured, summary, gone, todo, unsettled, shared, cuts>>

\* Mutant: a session that is not idle any more is not marked.
Mark_OnlyIdle(w) ==
  /\ pc[w] = "mark"
  /\ LET s == Head(todo[w]) IN
       /\ status' = [status EXCEPT ![s] = IF s \in fresh THEN @ ELSE "compressed"]
       /\ fresh' = fresh \ {s}
  /\ NextSession(w)
  /\ UNCHANGED <<captured, raw, folded, summary, order, gone, seen, unsettled, shared, cuts>>

\* markSessionCompressed puts the old time of activity back, too.
Mark(w) ==
  /\ pc[w] = "mark"
  /\ LET s == Head(todo[w]) IN
       /\ status' = [status EXCEPT ![s] = "compressed"]
       /\ fresh' = fresh \ {s}
  /\ NextSession(w)
  /\ UNCHANGED <<captured, raw, folded, summary, order, gone, seen, unsettled, shared, cuts>>

\* The process dies, or the store is busy: the rest of the sweep is left out.
CutShort(w) ==
  /\ pc[w] # "idle" /\ cuts < MaxCuts
  /\ cuts' = cuts + 1
  /\ unsettled' = IF pc[w] \in Committed THEN unsettled \cup {Head(todo[w])} ELSE unsettled
  /\ pc' = [pc EXCEPT ![w] = "idle"]
  /\ todo' = [todo EXCEPT ![w] = <<>>]
  /\ seen' = [seen EXCEPT ![w] = {}]
  /\ UNCHANGED <<captured, raw, folded, status, summary, order, fresh, gone, shared>>

(* resolveLinkedSymbols: a symbol is not found, nothing of the observation *)
(* is stored, and nobody catches it before the sweep has ended.  A symbol  *)
(* of the group that the summary had no room for (MAX_SUMMARY_LINKS) fails *)
(* the second observation as one does that went between the two.           *)
SymbolNotFound(w) ==
  /\ pc[w] \in {"note", "fold"} /\ Head(todo[w]) \in gone
  /\ unsettled' = IF pc[w] = "fold" THEN unsettled \cup {Head(todo[w])} ELSE unsettled
  /\ pc' = [pc EXCEPT ![w] = "idle"]
  /\ todo' = [todo EXCEPT ![w] = <<>>]
  /\ seen' = [seen EXCEPT ![w] = {}]
  /\ UNCHANGED <<captured, raw, folded, status, summary, order, fresh, gone, shared, cuts>>

Work(w) == Look(w) \/ Note(w) \/ Summarise(w) \/ Group(w) \/ Fold(w) \/ Mark(w) \/ SymbolNotFound(w)

Next ==
  \/ \E s \in Session : \E n \in {0, 1} : Capture(s, n)
  \/ GrowIdle
  \/ IndexAgain
  \/ \E w \in Sweeper : Begin(w) \/ Work(w) \/ CutShort(w)

Spec == Init /\ [][Next]_vars

\* Time passes, the repository is indexed again and again, and a sweep goes
\* on; nobody has to give the command.
FairSpec ==
  /\ Spec
  /\ WF_vars(GrowIdle)
  /\ WF_vars(Begin(Reindex))
  /\ \A w \in Sweeper : WF_vars(Work(w))

-----------------------------------------------------------------------------
\* Types; a sweep has a session to visit.
TypeOK ==
  /\ captured \in [Session -> Nat]
  /\ \A s \in Session : raw[s] \cup folded[s] \subseteq 1..captured[s]
  /\ status \in [Session -> {"active", "compressed"}]
  /\ {summary, fresh, unsettled, shared} \subseteq SUBSET Session /\ gone \subseteq Linked
  /\ IsInjective(order) /\ ToSet(order) = Session
  /\ pc \in [Sweeper -> {"idle", "visit", "note", "summarise", "group", "fold", "mark"}]
  /\ \A w \in Sweeper :
       /\ todo[w] \in Seq(Session)
       /\ pc[w] # "idle" => todo[w] # <<>>
       /\ seen[w] \subseteq Nat
  /\ cuts \in 0..MaxCuts

Stuck ==
  {s \in Session : s \in summary /\ status[s] = "active" /\ \A w \in Sweeper : ~Visiting(w, s)}

\* Every passive observation is in the store or accounted for by the
\* consolidated one, whatever is captured meanwhile, unless two sweeps
\* visited the session together.
NothingForgotten ==
  \A s \in Session \ shared : 1..captured[s] \subseteq raw[s] \cup folded[s]

\* A session is compressed only with its summary, and a summarised one is
\* active only because it was resumed or its visit ended half way (the process
\* died, the store was busy, a symbol of the group was not found): what the
\* visit stores makes the session active, and the mark comes after all of it.
SummarisedIsCompressed ==
  /\ \A s \in Session : status[s] = "compressed" => s \in summary
  /\ Stuck \subseteq unsettled

\* Sessions that a sweep of a reindex may come to before s, or s itself, and
\* that end it, each time: their summary cannot be stored.
Blocking(s) == {t \in (Eligible \cap gone) \ summary : Place(t) <= Place(s)}

\* An idle session gets its summary, or is used again, unless as many
\* sessions as a sweep visits are stuck (summarised and active, they stay
\* the ones idle longest) or a symbol is missing that it links or a session
\* idle longer: that one ends every sweep, and those behind it wait.
IdleIsSummarised ==
  \A s \in Session :
    s \notin fresh \cup summary ~>
      \/ s \in fresh \cup summary
      \/ Cardinality(Stuck) >= Limit
      \/ Blocking(s) # {}

\* What the documentation says of the command and the sweep: every session
\* that is idle is compressed.
IdleIsCompressed ==
  \A s \in Session :
    s \notin fresh /\ status[s] = "active" ~> s \in fresh \/ status[s] = "compressed"
===============================================================================
