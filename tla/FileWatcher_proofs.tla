-------------------------- MODULE FileWatcher_proofs --------------------------
(***************************************************************************)
(* Theorems about FileWatcher, for any files, flushes, modes and bounds.   *)
(***************************************************************************)
EXTENDS FileWatcher, FiniteSetTheorems, TLAPS

USE WatcherAssumption

-----------------------------------------------------------------------------
(* The types, with what each step of a task needs of its record.           *)
StepsOK ==
  \A t \in Tasks :
    /\ job[t].at \in {"read", "open", "write"} => job[t].update # "none"
    /\ job[t].at \in {"open", "write"} => job[t].copy \in State
    /\ job[t].at = "commit" => job[t].scanned \in Sources
    /\ lock = t /\ t \in Indexers =>
         \/ job[t].at \in {"scan", "commit", "meta"}
         \/ job[t].at \in {"read", "open", "write"} /\ job[t].update = "refresh"

TInv == TypeOK /\ StepsOK /\ edits <= budget

LEMMA FreshTyped == Fresh \in State
BY DEF Fresh, State

LEMMA TasksDiffer ==
  /\ "co" \in Tasks /\ "cli" \in Tasks /\ "co" # "cli"
  /\ \A w \in Flushes : w \in Tasks /\ w # "co" /\ w # "cli"
  /\ Indexers \subseteq Tasks
BY DEF Tasks, Indexers

LEMMA OffTyped ==
  /\ Off \in Job
  /\ Off.at = "off"
  /\ \A files \in SUBSET Files : [Off EXCEPT !.at = "read", !.update = "observe", !.files = files] \in Job
  /\ [Off EXCEPT !.at = "read", !.update = "started"] \in Job
BY DEF Off, Job

LEMMA OffAgain ==
  ASSUME job \in [Tasks -> Job], NEW t \in Tasks, job' = [job EXCEPT ![t] = Off]
  PROVE  /\ job' \in [Tasks -> Job] /\ job'[t].at = "off"
         /\ \A u \in Tasks : u # t => job'[u] = job[u]
BY OffTyped

LEMMA InitTInv == Init => TInv
<1> SUFFICES ASSUME Init PROVE TInv
  OBVIOUS
<1>1. disk \in Sources /\ index \in Sources /\ identity \in Sources /\ polled \in Sources
  BY DEF Init, Sources
<1>2. job \in [Tasks -> Job] /\ \A t \in Tasks : job[t].at = "off"
  BY OffTyped DEF Init
<1>3. /\ edits \in 0..MaxEvents /\ budget \in 0..MaxEvents /\ edits <= budget
      /\ state \in State
      /\ lock = "free"
      /\ auto \in Modes /\ alive \in BOOLEAN /\ rerun \in BOOLEAN
      /\ pending = {} /\ events = {}
  <2>1. MaxEvents \in Nat /\ Fresh \in State
    BY FreshTyped
  <2>2. edits = 0 /\ budget = 0 /\ state = Fresh /\ alive = TRUE /\ rerun = FALSE
    BY DEF Init
  <2>3. lock = "free" /\ auto \in Modes /\ pending = {} /\ events = {}
    BY DEF Init
  <2>4. alive \in BOOLEAN /\ rerun \in BOOLEAN
    BY <2>2, Zenon
  <2>5. edits \in 0..MaxEvents /\ budget \in 0..MaxEvents /\ edits <= budget
    BY <2>1, <2>2
  <2> QED
    BY <2>1, <2>2, <2>3, <2>4, <2>5, Zenon
<1>4. TypeOK
  BY <1>1, <1>2, <1>3 DEF TypeOK
<1>5. StepsOK
  BY <1>2, <1>3 DEF StepsOK, Indexers
<1> QED
  BY <1>3, <1>4, <1>5 DEF TInv

(* A task that goes on forgets what it has read.                           *)
LEMMA GotoTyped ==
  ASSUME job \in [Tasks -> Job], NEW t \in Tasks, NEW step, NEW update,
         step \in {"off", "read", "open", "write", "handle", "lock", "scan", "commit", "meta"},
         update \in {"none", "observe", "started", "refresh", "succeeded", "failed"},
         job' = Goto(t, step, update)
  PROVE  /\ job' \in [Tasks -> Job]
         /\ job'[t].at = step /\ job'[t].update = update
         /\ \A u \in Tasks : u # t => job'[u] = job[u]
<1> DEFINE next == [Off EXCEPT !.at = step, !.update = update]
<1>1. next \in Job /\ next.at = step /\ next.update = update
  BY DEF Off, Job
<1>2. job' = [job EXCEPT ![t] = next]
  BY DEF Goto
<1> HIDE DEF next
<1> QED
  BY <1>1, <1>2

LEMMA FailedTyped ==
  ASSUME job \in [Tasks -> Job], NEW t \in Tasks, job' = Failed(t)
  PROVE  /\ job' \in [Tasks -> Job]
         /\ job'[t].at = "off" \/ (job'[t].at = "read" /\ job'[t].update = "failed")
         /\ \A u \in Tasks : u # t => job'[u] = job[u]
<1>1. CASE job' = [job EXCEPT ![t] = Off]
  BY <1>1, OffAgain
<1>2. CASE job' = Goto(t, "read", "failed")
  BY <1>2, GotoTyped
<1> QED
  BY <1>1, <1>2 DEF Failed

(* Of some paths one is the smallest: the number of smaller ones tells     *)
(* them apart, so that it takes every value below their number, also 0.    *)
LEMMA LeastPath ==
  ASSUME NEW S \in SUBSET Files, S # {}
  PROVE  \E f \in S : \A g \in S : f <= g
<1> DEFINE N == Cardinality(S)
           Below(f) == {g \in S : g < f}
           rank == [f \in S |-> Cardinality(Below(f))]
<1>1. S \subseteq Nat /\ IsFiniteSet(S)
  BY WatcherAssumption, FS_Subset
<1>2. N \in Nat /\ N # 0
  BY <1>1, FS_CardinalityType, FS_EmptySet
<1>3. \A f \in S : IsFiniteSet(Below(f)) /\ Cardinality(Below(f)) \in Nat
  <2> SUFFICES ASSUME NEW f \in S
               PROVE  IsFiniteSet(Below(f)) /\ Cardinality(Below(f)) \in Nat
    OBVIOUS
  <2>1. Below(f) \in SUBSET S
    OBVIOUS
  <2> HIDE DEF Below
  <2> QED
    BY <1>1, <2>1, FS_Subset, FS_CardinalityType
<1>4. \A f \in S : rank[f] \in 0 .. N - 1
  <2> SUFFICES ASSUME NEW f \in S PROVE Cardinality(Below(f)) \in 0 .. N - 1
    OBVIOUS
  <2>1. Below(f) \in SUBSET S /\ Below(f) # S
    BY <1>1
  <2>2. Cardinality(Below(f)) <= N /\ Cardinality(Below(f)) # N
    BY <1>1, <2>1, FS_Subset
  <2>3. Cardinality(Below(f)) \in Nat
    BY <1>3
  <2> HIDE DEF Below, N
  <2> QED
    BY <1>2, <2>2, <2>3
<1>5. \A f, g \in S : g < f => rank[g] < rank[f]
  <2> SUFFICES ASSUME NEW f \in S, NEW g \in S, g < f
               PROVE  Cardinality(Below(g)) < Cardinality(Below(f))
    OBVIOUS
  <2>1. Below(g) \in SUBSET Below(f) /\ Below(g) # Below(f)
    <3>1. \A h \in S : h < g => h < f
      BY <1>1
    <3>2. g \in Below(f) /\ g \notin Below(g)
      BY <1>1
    <3> QED
      BY <3>1, <3>2
  <2>2. IsFiniteSet(Below(f)) /\ Cardinality(Below(f)) \in Nat /\ Cardinality(Below(g)) \in Nat
    BY <1>3
  <2> HIDE DEF Below
  <2> QED
    BY <2>1, <2>2, FS_Subset
<1>6. rank \in Injection(S, 0 .. N - 1)
  <2>1. \A f, g \in S : rank[f] = rank[g] => f = g
    <3> HIDE DEF rank, N
    <3> QED
      BY <1>1, <1>2, <1>4, <1>5
  <2> QED
    BY <1>4, <2>1 DEF Injection, IsInjective
<1>7. IsFiniteSet(0 .. N - 1) /\ Cardinality(0 .. N - 1) = N
  BY <1>2, FS_Interval
<1>8. rank \in Surjection(S, 0 .. N - 1)
  <2> HIDE DEF rank
  <2> QED
    BY <1>1, <1>6, <1>7, FS_Injection
<1>9. PICK f \in S : rank[f] = 0
  <2>1. 0 \in 0 .. N - 1
    BY <1>2
  <2> HIDE DEF rank, N
  <2> QED
    BY <1>8, <2>1 DEF Surjection
<1>10. Below(f) = {}
  <2>1. Cardinality(Below(f)) = 0 /\ IsFiniteSet(Below(f))
    BY <1>3, <1>9
  <2> HIDE DEF Below
  <2> QED
    BY <2>1, FS_EmptySet
<1> QED
  BY <1>1, <1>10

(* The list that is kept of a set of paths: all of it, or it is full.  The *)
(* smallest path that is left out has all that is kept before it.          *)
LEMMA FirstProperties ==
  ASSUME NEW S \in SUBSET Files
  PROVE  /\ First(S) \subseteq S
         /\ First(S) = S \/ Cardinality(First(S)) >= MaxObserved
<1> DEFINE Before(f) == {g \in S : g < f}
<1>1. S \subseteq Nat /\ IsFiniteSet(S) /\ MaxObserved \in Nat
  BY WatcherAssumption, FS_Subset
<1>2. First(S) \subseteq S /\ IsFiniteSet(First(S)) /\ Cardinality(First(S)) \in Nat
  <2>1. First(S) \subseteq S
    BY DEF First
  <2> QED
    BY <1>1, <2>1, FS_Subset, FS_CardinalityType
<1>3. ASSUME First(S) # S PROVE Cardinality(First(S)) >= MaxObserved
  <2>1. PICK f \in S \ First(S) : \A g \in S \ First(S) : f <= g
    <3>1. S \ First(S) \in SUBSET Files /\ S \ First(S) # {}
      BY <1>2, <1>3
    <3> QED
      BY <3>1, LeastPath
  <2>2. Before(f) \subseteq First(S)
    <3> SUFFICES ASSUME NEW g \in S, g < f, g \notin First(S) PROVE FALSE
      OBVIOUS
    <3>1. f \in Nat /\ g \in Nat /\ f <= g
      BY <1>1, <2>1
    <3> QED
      BY <3>1
  <2>3. Cardinality(Before(f)) <= Cardinality(First(S)) /\ Cardinality(Before(f)) \in Nat
    BY <1>2, <2>2, FS_Subset, FS_CardinalityType
  <2>4. ~(Cardinality(Before(f)) < MaxObserved)
    BY <2>1 DEF First
  <2> QED
    BY <1>1, <1>2, <2>3, <2>4
<1> QED
  BY <1>2, <1>3

(* Once a path is listed, or the list is full, it stays so.                *)
LEMMA ObserveLists ==
  ASSUME NEW s \in State, NEW files \in SUBSET Files, NEW f \in Files,
         Lists(s, f) \/ f \in files
  PROVE  Lists(Observe(s, files), f)
<1> DEFINE all == s.observed \cup files
<1>1. all \in SUBSET Files /\ Observe(s, files).observed = First(all)
  BY DEF State, Observe
<1>2. CASE First(all) = all /\ f \in all
  BY <1>1, <1>2 DEF Lists
<1>3. CASE First(all) = all /\ f \notin all
  <2>1. Cardinality(s.observed) >= MaxObserved
    BY <1>3 DEF Lists
  <2>2. IsFiniteSet(all)
    BY <1>1, WatcherAssumption, FS_Subset
  <2>3. /\ Cardinality(s.observed) <= Cardinality(all)
        /\ Cardinality(s.observed) \in Nat /\ Cardinality(all) \in Nat
    BY <2>2, FS_Subset, FS_CardinalityType
  <2>4. Cardinality(all) >= MaxObserved
    BY <2>1, <2>3, WatcherAssumption
  <2> QED
    BY <1>1, <1>3, <2>4 DEF Lists
<1>4. CASE First(all) # all
  BY <1>1, <1>4, FirstProperties DEF Lists
<1> QED
  BY <1>2, <1>3, <1>4

(* Every update of state.json computes a state.                            *)
LEMMA UpdatedTyped ==
  ASSUME TInv, NEW t \in Tasks, job[t].at = "open"
  PROVE  Updated(t) \in State
<1>1. /\ job[t].copy \in State
      /\ job[t].update \in {"observe", "started", "refresh", "succeeded", "failed"}
      /\ job[t].files \subseteq Files
  BY DEF TInv, StepsOK, TypeOK, Job
<1>2. edits \in 0..MaxEvents
  BY DEF TInv, TypeOK
<1>3. First(job[t].copy.observed \cup job[t].files) \subseteq Files
  BY <1>1, FirstProperties DEF State
<1> QED
  BY <1>1, <1>2, <1>3 DEF Updated, Observe, State, Fresh

-----------------------------------------------------------------------------
(* The steps of a task, and the poll, keep them.                           *)
LEMMA FlushStep ==
  ASSUME TInv, Poll \/ \E w \in Flushes : Flush(w) \/ Handle(w)
  PROVE  TInv'
<1> USE TasksDiffer
<1>1. CASE Poll
  <2>1. polled' \in Sources /\ pending' \subseteq Files
    BY <1>1 DEF Poll, TInv, TypeOK, Sources
  <2> QED
    BY <1>1, <2>1 DEF Poll, TInv, TypeOK, StepsOK, sources, stored, history
<1>2. ASSUME NEW w \in Flushes, Flush(w) PROVE TInv'
  <2>1. /\ job' = [job EXCEPT ![w] = [Off EXCEPT !.at = "read", !.update = "observe", !.files = pending]]
        /\ pending' = {}
        /\ UNCHANGED <<sources, stored, auto, alive, polled, rerun, history>>
    BY <1>2 DEF Flush
  <2>2. /\ job' \in [Tasks -> Job]
        /\ job'[w].at = "read" /\ job'[w].update = "observe"
        /\ \A u \in Tasks : u # w => job'[u] = job[u]
    BY <2>1, OffTyped DEF TInv, TypeOK, Off, Job
  <2>3. w \notin Indexers /\ lock \in Indexers \cup {"free"}
    BY DEF TInv, TypeOK, Indexers
  <2>4. StepsOK'
    BY <2>1, <2>2, <2>3 DEF TInv, StepsOK, stored
  <2> QED
    BY <2>1, <2>2, <2>3, <2>4 DEF TInv, TypeOK, sources, stored, history
<1>3. ASSUME NEW w \in Flushes, Handle(w) PROVE TInv'
  <2>1. /\ UNCHANGED <<sources, stored, watcher, history>>
        /\ rerun' \in BOOLEAN
    BY <1>3 DEF Handle, TInv, TypeOK
  <2>2. /\ job' \in [Tasks -> Job]
        /\ job'[w].at = "off"
        /\ \/ job'["co"] = job["co"]
           \/ job["co"].at = "off" /\ job'["co"].at = "read" /\ job'["co"].update = "started"
        /\ \A u \in Tasks : u # w /\ u # "co" => job'[u] = job[u]
    <3> DEFINE started == [Off EXCEPT !.at = "read", !.update = "started"]
    <3>1. started \in Job /\ started.at = "read" /\ started.update = "started"
      BY DEF Off, Job
    <3>2. job \in [Tasks -> Job]
      BY DEF TInv, TypeOK
    <3>3. \/ job["co"].at = "off" /\ job' = [job EXCEPT ![w] = Off, !["co"] = started]
          \/ job' = [job EXCEPT ![w] = Off]
      BY <1>3 DEF Handle, Running
    <3>4. Off \in Job /\ Off.at = "off"
      BY OffTyped
    <3> HIDE DEF started
    <3>5. CASE job["co"].at = "off" /\ job' = [job EXCEPT ![w] = Off, !["co"] = started]
      <4> DEFINE one == [job EXCEPT ![w] = Off]
      <4>1. one \in [Tasks -> Job] /\ one[w] = Off /\ \A u \in Tasks : u # w => one[u] = job[u]
        BY <3>2, <3>4
      <4>2. job' = [one EXCEPT !["co"] = started]
        BY <3>5
      <4> HIDE DEF one
      <4>3. job' \in [Tasks -> Job] /\ job'["co"] = started /\ \A u \in Tasks : u # "co" => job'[u] = one[u]
        BY <4>1, <4>2, <3>1
      <4> QED
        BY <3>1, <3>4, <3>5, <4>1, <4>3
    <3>6. CASE job' = [job EXCEPT ![w] = Off]
      <4>1. job' \in [Tasks -> Job] /\ job'[w] = Off /\ \A u \in Tasks : u # w => job'[u] = job[u]
        BY <3>2, <3>4, <3>6
      <4>2. "co" \in Tasks /\ "co" # w
        OBVIOUS
      <4> QED
        BY <3>4, <4>1, <4>2
    <3> QED
      BY <3>3, <3>5, <3>6
  <2>3. w \notin Indexers /\ lock \in Indexers \cup {"free"}
    BY DEF TInv, TypeOK, Indexers
  <2>4. StepsOK'
    BY <2>1, <2>2, <2>3 DEF TInv, StepsOK, stored
  <2> QED
    BY <2>1, <2>2, <2>3, <2>4 DEF TInv, TypeOK, sources, stored, history, watcher
<1> QED
  BY <1>1, <1>2, <1>3

(* What is left to show of a step of task t that leaves the sources alone  *)
(* concerns its record, state.json and the lock.                           *)
Effect(t) ==
  /\ UNCHANGED <<sources, auto, polled, budget>>
  /\ index' \in Sources /\ identity' \in Sources
  /\ job' \in [Tasks -> Job]
  /\ \A u \in Tasks : u # t => job'[u] = job[u]
  /\ job'[t].at \in {"read", "open", "write"} => job'[t].update # "none"
  /\ job'[t].at \in {"open", "write"} => job'[t].copy \in State
  /\ job'[t].at = "commit" => job'[t].scanned \in Sources
  /\ state' \in State \cup {Torn}
  /\ lock' \in {lock, "free"} \/ (lock' = t /\ t \in Indexers)
  /\ lock' = t /\ t \in Indexers =>
       \/ job'[t].at \in {"scan", "commit", "meta"}
       \/ job'[t].at \in {"read", "open", "write"} /\ job'[t].update = "refresh"
  /\ alive' \in BOOLEAN /\ rerun' \in BOOLEAN /\ pending' \subseteq Files
  /\ events' \subseteq Events

LEMMA TaskStep ==
  ASSUME TInv, NEW t \in Tasks, Effect(t)
  PROVE  TInv'
<1> USE TasksDiffer
<1>1. StepsOK'
  BY DEF TInv, StepsOK, TypeOK, Effect, Indexers
<1>2. lock' \in Indexers \cup {"free"}
  BY DEF TInv, TypeOK, Effect
<1>3. lock' # "free" => job'[lock'].at # "off"
  BY <1>1, <1>2 DEF StepsOK
<1> QED
  BY <1>1, <1>2, <1>3 DEF TInv, TypeOK, Effect, sources

(* When the watcher ends, its tasks end and its lock is recovered.          *)
LEMMA StoppedStep ==
  ASSUME TInv, Stopped, UNCHANGED <<sources, index, identity, state>>,
         budget' \in 0..MaxEvents, budget <= budget',
         events' \subseteq Events
  PROVE  TInv'
<1> USE TasksDiffer
<1>1. /\ job' \in [Tasks -> Job]
      /\ job'["cli"] = job["cli"]
      /\ \A t \in Tasks : t # "cli" => job'[t].at = "off"
  BY OffTyped DEF Stopped, TInv, TypeOK
<1>2. /\ lock' \in {"cli", "free"} /\ (lock' = "cli" => lock = "cli")
      /\ alive' = FALSE /\ pending' = {} /\ rerun' = FALSE /\ UNCHANGED <<auto, polled>>
  BY DEF Stopped, TInv, TypeOK, Indexers
<1>3. StepsOK'
  BY <1>1, <1>2 DEF TInv, StepsOK, Indexers
<1>4. edits \in 0..MaxEvents /\ edits <= budget /\ budget \in 0..MaxEvents
  BY DEF TInv, TypeOK
<1>5. edits' \in 0..MaxEvents /\ edits' <= budget'
  BY <1>4 DEF sources
<1>6. lock' # "free" => job'[lock'].at # "off"
  BY <1>1, <1>2, TInv DEF TInv, TypeOK
<1>7. alive' \in BOOLEAN /\ rerun' \in BOOLEAN
  BY <1>2, Zenon
<1> QED
  BY <1>1, <1>2, <1>3, <1>5, <1>6, <1>7 DEF TInv, TypeOK, sources, Indexers

LEMMA StepStep ==
  ASSUME TInv, NEW t \in Tasks, Step(t)
  PROVE  TInv'
<1> USE TasksDiffer
<1> SUFFICES Effect(t) \/ TInv'
  BY TaskStep
<1>0. /\ job \in [Tasks -> Job] /\ job[t] \in Job
      /\ index \in Sources /\ identity \in Sources
      /\ state \in State \cup {Torn} /\ lock \in Indexers \cup {"free"}
      /\ pending \subseteq Files
      /\ events \subseteq Events /\ budget \in 0..MaxEvents
  BY DEF TInv, TypeOK
<1>b. alive \in BOOLEAN /\ rerun \in BOOLEAN
  BY DEF TInv, TypeOK
<1>1. CASE Read(t)
  <2>1. /\ job' \in [Tasks -> Job]
        /\ job'[t].at = "open" /\ job'[t].copy = state /\ job'[t].update = job[t].update
        /\ \A u \in Tasks : u # t => job'[u] = job[u]
        /\ state \in State /\ job[t].at = "read"
        /\ UNCHANGED <<sources, stored, watcher, rerun, history>>
    BY <1>0, <1>1 DEF Read, Job
  <2>2. /\ job[t].update # "none"
        /\ t \in Indexers /\ lock = t => job[t].update = "refresh"
    BY <2>1 DEF TInv, StepsOK
  <2>3. alive' \in BOOLEAN /\ rerun' \in BOOLEAN
    BY <1>b, <2>1, Zenon DEF watcher
  <2> QED
    BY <1>0, <2>1, <2>2, <2>3 DEF Effect, sources, stored, watcher, history
<1>2. CASE ReadTornCaught(t)
  <2>1. /\ job' \in [Tasks -> Job]
        /\ \/ job'[t].at = "open" /\ job'[t].copy = Fresh /\ job'[t].update = job[t].update
           \/ job[t].update = "succeeded" /\ job'[t].at = "read" /\ job'[t].update = "failed"
        /\ \A u \in Tasks : u # t => job'[u] = job[u]
        /\ job[t].at = "read"
        /\ UNCHANGED <<sources, stored, watcher, rerun, budget>>
        /\ events' = events \cup {"tornRead"}
    <3>1. CASE job[t].update = "refresh" /\ job' = [job EXCEPT ![t].at = "open", ![t].copy = Fresh]
      BY <1>0, <1>2, <3>1, FreshTyped DEF ReadTornCaught, Job
    <3>2. CASE job[t].update = "succeeded" /\ job' = Goto(t, "read", "failed")
      BY <1>0, <1>2, <3>2, GotoTyped DEF ReadTornCaught
    <3> QED
      BY <1>2, <3>1, <3>2 DEF ReadTornCaught
  <2>2. /\ job[t].update # "none"
        /\ t \in Indexers /\ lock = t => job[t].update = "refresh"
    BY <2>1 DEF TInv, StepsOK
  <2>3. alive' \in BOOLEAN /\ rerun' \in BOOLEAN
    BY <1>b, <2>1, Zenon DEF watcher
  <2> QED
    BY <1>0, <2>1, <2>2, <2>3, FreshTyped DEF Effect, Events, sources, stored, watcher, history
<1>3. CASE ReadTornThrows(t)
  <2>1. /\ UNCHANGED <<sources, index, identity, state, auto, polled, budget>>
        /\ events' = events \cup {"tornRead"}
        /\ job[t].at = "read" /\ job[t].update # "refresh"
        /\ \/ job' = [job EXCEPT ![t] = Off] /\ UNCHANGED <<watcher, lock, rerun>>
           \/ Stopped
    BY <1>3 DEF ReadTornThrows, Stopped, watcher
  <2>2. t \in Indexers => lock # t
    BY <2>1 DEF TInv, StepsOK
  <2>3. CASE job' = [job EXCEPT ![t] = Off] /\ UNCHANGED <<watcher, lock, rerun>>
    <3>0. alive' \in BOOLEAN /\ rerun' \in BOOLEAN
      BY <1>b, <2>3, Zenon DEF watcher
    <3>1. /\ job' \in [Tasks -> Job] /\ job'[t].at = "off"
          /\ \A u \in Tasks : u # t => job'[u] = job[u]
      BY <1>0, <2>3, OffAgain
    <3> QED
      BY <1>0, <2>1, <2>2, <2>3, <3>0, <3>1 DEF Effect, Events, sources, watcher
  <2>4. CASE Stopped
    <3>1. events' \subseteq Events /\ UNCHANGED <<sources, index, identity, state>> /\ budget' = budget
      BY <1>0, <2>1 DEF Events
    <3> QED
      BY <1>0, <2>4, <3>1, StoppedStep
  <2> QED
    BY <2>1, <2>3, <2>4
<1>4. CASE Open(t)
  <2>0. job[t].at = "open" /\ Updated(t) \in State
    BY <1>4, UpdatedTyped DEF Open
  <2>1. /\ job' \in [Tasks -> Job]
        /\ job'[t].at = "write" /\ job'[t].copy = Updated(t) /\ job'[t].update = job[t].update
        /\ \A u \in Tasks : u # t => job'[u] = job[u]
        /\ state' = Torn
        /\ UNCHANGED <<sources, index, identity, lock, watcher, rerun, history>>
    BY <1>0, <1>4, <2>0 DEF Open, Job
  <2>2. /\ job[t].update # "none"
        /\ t \in Indexers /\ lock = t => job[t].update = "refresh"
    BY <2>0 DEF TInv, StepsOK
  <2>3. alive' \in BOOLEAN /\ rerun' \in BOOLEAN
    BY <1>b, <2>1, Zenon DEF watcher
  <2> QED
    BY <1>0, <2>0, <2>1, <2>2, <2>3 DEF Effect, sources, watcher, history
<1>5. CASE Write(t)
  <2>1. /\ job[t].at = "write" /\ job[t].copy \in State /\ job[t].update # "none"
        /\ t \in Indexers /\ lock = t => job[t].update = "refresh"
    BY <1>5 DEF Write, TInv, StepsOK
  <2>2. /\ state' \in State \cup {Torn}
        /\ events' \subseteq Events
        /\ UNCHANGED <<sources, index, identity, watcher, budget>>
        /\ AfterWrite(t)
    BY <1>0, <1>5, <2>1 DEF Write, Events
  <2>3. /\ job' \in [Tasks -> Job]
        /\ \A u \in Tasks : u # t => job'[u] = job[u]
        /\ lock' \in {lock, "free"}
        /\ \/ job'[t].at \in {"off", "handle", "lock"}
           \/ job'[t].at = "read" /\ job'[t].update # "none"
        /\ t \in Indexers => lock' # t
    <3>0. job[t].update \in {"observe", "started", "refresh", "succeeded", "failed"}
      BY <1>0, <2>1 DEF Job
    <3>1. CASE job[t].update = "observe"
      <4>1. job' = Goto(t, "handle", "none") /\ UNCHANGED <<lock, rerun>>
        BY <2>2, <3>1 DEF AfterWrite
      <4>2. t \in Indexers => lock' # t
        BY <2>1, <3>1, <4>1
      <4> QED
        BY <1>0, <4>1, <4>2, GotoTyped
    <3>2. CASE job[t].update = "started"
      <4>1. job' = Goto(t, "lock", "none") /\ UNCHANGED <<lock, rerun>>
        BY <2>2, <3>2 DEF AfterWrite
      <4>2. t \in Indexers => lock' # t
        BY <2>1, <3>2, <4>1
      <4> QED
        BY <1>0, <4>1, <4>2, GotoTyped
    <3>3. CASE job[t].update = "refresh"
      <4>1. /\ job' = [job EXCEPT ![t] = Off] \/ job' = Goto(t, "read", "succeeded")
            /\ lock' = "free" /\ UNCHANGED rerun
        BY <2>2, <3>3 DEF AfterWrite
      <4>2. "free" \notin Indexers
        BY DEF Indexers
      <4>3. CASE job' = [job EXCEPT ![t] = Off]
        BY <1>0, <4>1, <4>2, <4>3, OffAgain
      <4>4. CASE job' = Goto(t, "read", "succeeded")
        BY <1>0, <4>1, <4>2, <4>4, GotoTyped
      <4> QED
        BY <4>1, <4>3, <4>4
    <3>4. CASE job[t].update = "succeeded"
      <4>1. /\ job' = Goto(t, "read", "started") \/ job' = [job EXCEPT ![t] = Off]
            /\ rerun' = FALSE /\ UNCHANGED lock
        BY <2>2, <3>4 DEF AfterWrite
      <4>2. t \in Indexers => lock' # t
        BY <2>1, <3>4, <4>1
      <4>3. CASE job' = [job EXCEPT ![t] = Off]
        BY <1>0, <4>1, <4>2, <4>3, OffAgain
      <4>4. CASE job' = Goto(t, "read", "started")
        BY <1>0, <4>1, <4>2, <4>4, GotoTyped
      <4> QED
        BY <4>1, <4>3, <4>4
    <3>5. CASE job[t].update = "failed"
      <4>1. job' = [job EXCEPT ![t] = Off] /\ rerun' = FALSE /\ UNCHANGED lock
        BY <2>2, <3>5 DEF AfterWrite
      <4>2. t \in Indexers => lock' # t
        BY <2>1, <3>5, <4>1
      <4>3. job' \in [Tasks -> Job] /\ job'[t].at = "off" /\ \A u \in Tasks : u # t => job'[u] = job[u]
        BY <1>0, <4>1, OffAgain
      <4> QED
        BY <4>1, <4>2, <4>3
    <3> QED
      BY <3>0, <3>1, <3>2, <3>3, <3>4, <3>5
  <2>4. alive' \in BOOLEAN /\ rerun' \in BOOLEAN
    <3>1. job[t].update \in {"observe", "started", "refresh", "succeeded", "failed"}
      BY <1>0, <2>1 DEF Job
    <3>2. UNCHANGED rerun \/ rerun' = FALSE
      BY <2>2, <3>1 DEF AfterWrite
    <3> QED
      BY <1>b, <2>2, <3>2, Zenon DEF watcher
  <2> QED
    BY <1>0, <2>1, <2>2, <2>3, <2>4 DEF Effect, sources, watcher
<1> QED
  BY <1>1, <1>2, <1>3, <1>4, <1>5 DEF Step

(* The steps of a reindex keep them too.                                   *)
LEMMA ReindexStep ==
  ASSUME TInv, NEW t \in Indexers, Reindex(t)
  PROVE  TInv'
<1> USE TasksDiffer
<1> SUFFICES Effect(t) \/ TInv'
  BY TaskStep
<1>0. /\ t \in Tasks
      /\ job \in [Tasks -> Job] /\ job[t] \in Job
      /\ index \in Sources /\ identity \in Sources
      /\ state \in State \cup {Torn} /\ lock \in Indexers \cup {"free"}
      /\ pending \subseteq Files
      /\ events \subseteq Events /\ budget \in 0..MaxEvents
  BY DEF TInv, TypeOK
<1>b. alive \in BOOLEAN /\ rerun \in BOOLEAN
  BY DEF TInv, TypeOK
<1>1. CASE AcquireLock(t)
  <2>1. /\ UNCHANGED <<sources, index, identity, state, watcher, rerun, budget>>
        /\ events' \subseteq Events
        /\ job[t].at = "lock"
        /\ \/ lock' = t /\ job' = Goto(t, "scan", "none")
           \/ lock' = lock /\ job' = Failed(t)
    BY <1>0, <1>1 DEF AcquireLock, Events
  <2>2. lock # t
    BY <1>0, <2>1 DEF TInv, StepsOK
  <2>3. alive' \in BOOLEAN /\ rerun' \in BOOLEAN
    BY <1>b, <2>1, Zenon DEF watcher
  <2>4. CASE lock' = t /\ job' = Goto(t, "scan", "none")
    <3>1. /\ job' \in [Tasks -> Job] /\ job'[t].at = "scan"
          /\ \A u \in Tasks : u # t => job'[u] = job[u]
      BY <1>0, <2>4, GotoTyped
    <3> QED
      BY <1>0, <2>1, <2>3, <2>4, <3>1 DEF Effect, sources, watcher
  <2>5. CASE lock' = lock /\ job' = Failed(t)
    <3>1. /\ job' \in [Tasks -> Job]
          /\ job'[t].at = "off" \/ (job'[t].at = "read" /\ job'[t].update = "failed")
          /\ \A u \in Tasks : u # t => job'[u] = job[u]
      BY <1>0, <2>5, FailedTyped
    <3> QED
      BY <1>0, <2>1, <2>2, <2>3, <2>5, <3>1 DEF Effect, sources, watcher
  <2> QED
    BY <2>1, <2>4, <2>5
<1>2. CASE Scan(t)
  <2>1. /\ job' \in [Tasks -> Job]
        /\ job'[t].at = "commit" /\ job'[t].scanned = disk /\ disk \in Sources
        /\ \A u \in Tasks : u # t => job'[u] = job[u]
        /\ UNCHANGED <<sources, stored, watcher, rerun, history>>
    BY <1>0, <1>2 DEF Scan, Job, TInv, TypeOK
  <2>2. alive' \in BOOLEAN /\ rerun' \in BOOLEAN
    BY <1>b, <2>1, Zenon DEF watcher
  <2> QED
    BY <1>0, <2>1, <2>2 DEF Effect, sources, stored, watcher, history
<1>3. CASE Commit(t)
  <2>1. /\ job' \in [Tasks -> Job] /\ job'[t].at = "meta"
        /\ \A u \in Tasks : u # t => job'[u] = job[u]
        /\ job[t].at = "commit"
        /\ UNCHANGED <<sources, identity, state, lock, watcher, rerun, history>>
    BY <1>0, <1>3 DEF Commit, Job
  <2>2. index' \in Sources
    <3>1. job[t].scanned \in [Files -> 0..MaxEvents] /\ disk \in [Files -> 0..MaxEvents]
      BY <1>0, <2>1 DEF TInv, StepsOK, TypeOK, Sources
    <3>2. PICK late \in SUBSET Files :
            index' = [f \in Files |-> IF f \in late THEN disk[f] ELSE job[t].scanned[f]]
      BY <1>3 DEF Commit
    <3> QED
      BY <3>1, <3>2 DEF Sources
  <2>3. alive' \in BOOLEAN /\ rerun' \in BOOLEAN
    BY <1>b, <2>1, Zenon DEF watcher
  <2> QED
    BY <1>0, <2>1, <2>2, <2>3 DEF Effect, sources, watcher, history
<1>4. CASE WriteMeta(t)
  <2>1. /\ UNCHANGED <<sources, index, state, lock, watcher, rerun, history>>
        /\ identity' = disk /\ identity' \in Sources
        /\ job' = Goto(t, "read", "refresh")
    BY <1>4 DEF WriteMeta, TInv, TypeOK
  <2>2. /\ job' \in [Tasks -> Job] /\ job'[t].at = "read" /\ job'[t].update = "refresh"
        /\ \A u \in Tasks : u # t => job'[u] = job[u]
    BY <1>0, <2>1, GotoTyped
  <2>3. alive' \in BOOLEAN /\ rerun' \in BOOLEAN
    BY <1>b, <2>1, Zenon DEF watcher
  <2> QED
    BY <1>0, <2>1, <2>2, <2>3 DEF Effect, sources, watcher, history
<1> QED
  BY <1>1, <1>2, <1>3, <1>4 DEF Reindex

(* So does the world around the program.                                   *)
LEMMA WorldStep == TInv /\ World => TInv'
<1> SUFFICES ASSUME TInv, World PROVE TInv'
  OBVIOUS
<1> USE TasksDiffer
<1>0. /\ job \in [Tasks -> Job]
      /\ lock \in Indexers \cup {"free"}
      /\ pending \subseteq Files
      /\ events \subseteq Events /\ budget \in 0..MaxEvents
  BY DEF TInv, TypeOK
<1>b. alive \in BOOLEAN /\ rerun \in BOOLEAN
  BY DEF TInv, TypeOK
<1>s. Spend => budget' \in 0..MaxEvents /\ budget' = budget + 1
  BY <1>0 DEF Spend
<1>1. CASE BeginIndex
  <2>1. /\ job["cli"].at = "off"
        /\ job' = Goto("cli", "lock", "none")
        /\ budget' \in 0..MaxEvents /\ budget' = budget + 1
        /\ UNCHANGED <<sources, stored, watcher, rerun, events>>
    BY <1>1, <1>s DEF BeginIndex
  <2>2. /\ job' \in [Tasks -> Job] /\ job'["cli"].at = "lock"
        /\ \A u \in Tasks : u # "cli" => job'[u] = job[u]
    BY <1>0, <2>1, GotoTyped
  <2>3. lock # "cli"
    BY <2>1 DEF TInv, TypeOK
  <2>4. alive' \in BOOLEAN /\ rerun' \in BOOLEAN
    BY <1>b, <2>1, Zenon DEF watcher
  <2>5. StepsOK'
    BY <2>1, <2>2, <2>3 DEF TInv, StepsOK, stored
  <2>6. lock' \in Indexers \cup {"free"} /\ (lock' # "free" => job'[lock'].at # "off")
    BY <1>0, <2>1, <2>2, <2>3 DEF TInv, TypeOK, stored
  <2> QED
    BY <1>0, <2>1, <2>2, <2>4, <2>5, <2>6 DEF TInv, TypeOK, sources, stored, watcher
<1>2. CASE Stop
  BY <1>2, <1>0, <1>s, StoppedStep DEF Stop, Events
<1>3. CASE Restart
  <2>1. /\ polled' = disk /\ auto' \in Modes
        /\ budget' \in 0..MaxEvents /\ budget' = budget + 1
        /\ UNCHANGED <<sources, stored, pending, job, rerun, events>>
    BY <1>3, <1>s DEF Restart
  <2>2. alive' \in BOOLEAN /\ rerun' \in BOOLEAN
    BY <1>3, <1>b, <2>1, Zenon DEF Restart
  <2> QED
    BY <2>1, <2>2 DEF TInv, TypeOK, StepsOK, sources, stored
<1>4. ASSUME NEW t \in Indexers, ReindexThrows(t) PROVE TInv'
  <2>1. /\ job' = Failed(t) /\ lock' = "free" /\ events' \subseteq Events
        /\ budget' \in 0..MaxEvents /\ budget' = budget + 1
        /\ UNCHANGED <<sources, index, identity, state, watcher, rerun>>
    BY <1>0, <1>4, <1>s DEF ReindexThrows, Events
  <2>2. /\ job' \in [Tasks -> Job]
        /\ job'[t].at = "off" \/ (job'[t].at = "read" /\ job'[t].update = "failed")
        /\ \A u \in Tasks : u # t => job'[u] = job[u]
    BY <1>0, <2>1, FailedTyped
  <2>3. alive' \in BOOLEAN /\ rerun' \in BOOLEAN
    BY <1>b, <2>1, Zenon DEF watcher
  <2>4. StepsOK'
    BY <2>1, <2>2 DEF TInv, StepsOK, Indexers
  <2> QED
    BY <1>0, <2>1, <2>2, <2>3, <2>4 DEF TInv, TypeOK, sources, watcher
<1>5. ASSUME NEW f \in Files, Save(f) \/ Revert(f) PROVE TInv'
  <2>0. edits \in 0..MaxEvents /\ edits <= budget /\ disk \in Sources
    BY DEF TInv, TypeOK
  <2>1. PICK c : Edit(f, c) /\ c \in {0, edits + 1}
    BY <1>5 DEF Save, Revert
  <2>2. /\ edits' = edits + 1 /\ budget' = budget + 1 /\ budget' \in 0..MaxEvents
        /\ disk' = [disk EXCEPT ![f] = c]
        /\ UNCHANGED <<stored, watcher, job, rerun>>
    BY <2>1, <1>s DEF Edit
  <2>3. edits' \in 0..MaxEvents /\ edits' <= budget' /\ disk' \in Sources
    BY <1>0, <2>0, <2>1, <2>2 DEF Sources
  <2>4. events' \subseteq Events
    BY <1>0, <1>5 DEF Save, Revert, Unseen, Events
  <2>5. alive' \in BOOLEAN /\ rerun' \in BOOLEAN
    BY <1>b, <2>2, Zenon DEF watcher
  <2> QED
    BY <2>2, <2>3, <2>4, <2>5 DEF TInv, TypeOK, StepsOK, stored, watcher
<1> QED
  BY <1>1, <1>2, <1>3, <1>4, <1>5 DEF World

LEMMA Inductive == TInv /\ [Next]_vars => TInv'
<1> SUFFICES ASSUME TInv, [Next]_vars PROVE TInv'
  OBVIOUS
<1>1. CASE Work
  BY <1>1, FlushStep, StepStep, ReindexStep DEF Work
<1>2. CASE World
  BY <1>2, WorldStep
<1>3. CASE UNCHANGED vars
  BY <1>3 DEF vars, sources, stored, watcher, history, TInv, TypeOK, StepsOK
<1> QED
  BY <1>1, <1>2, <1>3 DEF Next

-----------------------------------------------------------------------------
(* Whatever is written, torn or lost, state.json holds a state or nothing  *)
(* that parses, and whoever holds the index lock is at work: no path of a  *)
(* run, failed or not, ends with the lock taken.                           *)
THEOREM TypeCorrect == Spec => []TypeOK
<1>1. TInv => TypeOK
  BY DEF TInv
<1> QED
  BY <1>1, InitTInv, Inductive, PTL DEF Spec

-----------------------------------------------------------------------------
(* Without --auto-reindex, and while nothing in Lost happens, an outdated  *)
(* file is always somewhere on its way to state.json: not yet polled, in   *)
(* the debounce timer, with the one flush that is writing, or recorded.    *)
(* From its commit on, a run has found no file outdated, so that it may    *)
(* clear the record, and whatever a flush writes back is only too much.    *)
Lost == {"unseenByCli", "tornRead", "tornWrite", "stopped", "recurrence"}

Busy(t) == job[t].at \in {"read", "open", "write"}

Alone ==
  /\ job["co"].at = "off" /\ lock # "co"
  /\ \A w \in Flushes :
       /\ job[w].at \in {"off", "read", "open", "write", "handle"}
       /\ Busy(w) => job[w].update = "observe" /\ \A u \in Flushes : Busy(u) => u = w

RunSeesAll ==
  /\ job["cli"].at \in {"scan", "commit", "meta", "read", "open", "write"} => lock = "cli"
  /\ Busy("cli") => job["cli"].update = "refresh"
  /\ job["cli"].at = "commit" => job["cli"].scanned = disk
  /\ job["cli"].at \in {"meta", "read", "open", "write"} => index = disk

Numbered == \A f \in Files : polled[f] <= edits /\ disk[f] <= edits

TornByWriter == state = Torn => \E t \in Tasks : job[t].at = "write"

Carried(f) ==
  \/ polled[f] # disk[f]
  \/ f \in pending
  \/ \E w \in Flushes :
       \/ job[w].at \in {"read", "open"} /\ f \in job[w].files
       \/ job[w].at \in {"open", "write"} /\ Lists(job[w].copy, f)
  \/ /\ \A w \in Flushes : job[w].at \notin {"open", "write"}
     /\ state # Torn /\ Lists(state, f)

Listed == Alone /\ RunSeesAll /\ Numbered /\ TornByWriter /\ \A f \in Outdated : Carried(f)

LInv == events \cap Lost = {} => alive /\ (~auto => Listed)

LEMMA InitLInv == Init => LInv
<1> SUFFICES ASSUME Init PROVE alive /\ Listed
  BY DEF LInv
<1>1. /\ \A t \in Tasks : job[t].at = "off"
      /\ state = Fresh /\ lock = "free" /\ edits = 0 /\ alive
      /\ disk = [f \in Files |-> 0] /\ polled = disk /\ index = disk
  BY OffTyped DEF Init
<1>2. Alone /\ RunSeesAll
  BY <1>1, TasksDiffer DEF Alone, RunSeesAll, Busy
<1>3. Numbered /\ Outdated = {}
  BY <1>1 DEF Numbered, Outdated
<1>4. TornByWriter
  BY <1>1, FreshTyped, TornAssumption DEF TornByWriter
<1> QED
  BY <1>1, <1>2, <1>3, <1>4 DEF Listed

(* Events are never forgotten, and nothing else ends the watcher.          *)
LEMMA EventsStay ==
  ASSUME Next
  PROVE  /\ events \subseteq events'
         /\ events' \cap Lost = {} => \/ alive' = alive /\ auto' = auto
                                      \/ ~alive
<1>1. CASE Poll \/ \E w \in Flushes : Flush(w) \/ Handle(w)
  BY <1>1 DEF Poll, Flush, Handle, history, watcher
<1>2. ASSUME NEW t \in Tasks, Step(t)
      PROVE  /\ events \subseteq events'
             /\ events' \cap Lost = {} => alive' = alive /\ auto' = auto
  <2>1. CASE Read(t) \/ Open(t) \/ Write(t)
    BY <2>1 DEF Read, Open, Write, history, watcher
  <2>2. CASE ReadTornCaught(t) \/ ReadTornThrows(t)
    BY <2>2 DEF ReadTornCaught, ReadTornThrows, Lost
  <2> QED
    BY <1>2, <2>1, <2>2 DEF Step
<1>3. ASSUME NEW t \in Indexers, Reindex(t)
      PROVE  events \subseteq events' /\ alive' = alive /\ auto' = auto
  BY <1>3 DEF Reindex, AcquireLock, Scan, Commit, WriteMeta, history, watcher
<1>4. CASE BeginIndex \/ \E t \in Indexers : ReindexThrows(t)
  BY <1>4 DEF BeginIndex, ReindexThrows, watcher
<1>5. CASE Stop
  BY <1>5 DEF Stop, Lost
<1>6. CASE Restart
  BY <1>6 DEF Restart
<1>7. ASSUME NEW f \in Files, Save(f) \/ Revert(f)
      PROVE  events \subseteq events' /\ alive' = alive /\ auto' = auto
  BY <1>7 DEF Save, Revert, Edit, watcher
<1> QED
  BY <1>1, <1>2, <1>3, <1>4, <1>5, <1>6, <1>7 DEF Next, Work, World

(* A step of the explicit run that neither edits nor writes state.json.    *)
LEMMA RunStep ==
  ASSUME TInv, Listed,
         UNCHANGED <<sources, state, polled, pending>>,
         \A t \in Tasks : t # "cli" => job'[t] = job[t],
         job["cli"].at # "write" \/ state # Torn,
         index' = index \/ index' = disk,
         lock' # "co",
         RunSeesAll'
  PROVE  Listed'
<1> USE TasksDiffer
<1>1. Alone'
  BY DEF Listed, Alone, Busy
<1>2. Numbered'
  BY DEF Listed, Numbered, sources
<1>3. TornByWriter'
  BY DEF Listed, TornByWriter, TInv, TypeOK
<1>4. ASSUME NEW f \in Outdated' PROVE Carried(f)'
  <2>1. f \in Outdated /\ f \in Files
    BY <1>4 DEF Outdated, sources
  <2>2. Carried(f)
    BY <2>1 DEF Listed
  <2>3. \A w \in Flushes : job'[w] = job[w]
    OBVIOUS
  <2> QED
    BY <2>2, <2>3 DEF Carried, sources
<1> QED
  BY <1>1, <1>2, <1>3, <1>4 DEF Listed

(* What the explicit run does.                                             *)
LEMMA RunListed ==
  ASSUME TInv, Listed, lock' # "co",
         Reindex("cli") \/ BeginIndex \/ ReindexThrows("cli")
  PROVE  Listed'
<1> USE TasksDiffer
<1>0. /\ "cli" \in Indexers /\ job \in [Tasks -> Job] /\ disk \in Sources /\ index \in Sources
      /\ lock \in Indexers \cup {"free"}
  BY DEF TInv, TypeOK, Indexers
<1>1. CASE AcquireLock("cli")
  <2>1. /\ UNCHANGED <<sources, index, identity, state, watcher, rerun, budget>>
        /\ job["cli"].at = "lock"
        /\ (job' = Goto("cli", "scan", "none") /\ lock' = "cli") \/ job' = [job EXCEPT !["cli"] = Off]
    BY <1>1 DEF AcquireLock, Failed
  <2>2. /\ job'["cli"].at = "off" \/ (job'["cli"].at = "scan" /\ lock' = "cli")
        /\ \A t \in Tasks : t # "cli" => job'[t] = job[t]
    <3>1. CASE job' = Goto("cli", "scan", "none") /\ lock' = "cli"
      BY <1>0, <3>1, GotoTyped
    <3>2. CASE job' = [job EXCEPT !["cli"] = Off]
      BY <1>0, <3>2, OffAgain
    <3> QED
      BY <2>1, <3>1, <3>2
  <2>3. RunSeesAll'
    BY <2>2 DEF RunSeesAll, Busy
  <2> QED
    BY <2>1, <2>2, <2>3, RunStep DEF watcher
<1>2. CASE Scan("cli")
  <2>1. /\ UNCHANGED <<sources, stored, watcher, rerun, history>>
        /\ job["cli"].at = "scan" /\ job'["cli"].at = "commit" /\ job'["cli"].scanned = disk
        /\ \A t \in Tasks : t # "cli" => job'[t] = job[t]
    BY <1>0, <1>2 DEF Scan, Job
  <2>2. RunSeesAll'
    BY <1>2, <2>1 DEF RunSeesAll, Busy, Listed, sources, stored
  <2> QED
    BY <2>1, <2>2, RunStep DEF watcher, stored
<1>3. CASE Commit("cli")
  <2>1. /\ UNCHANGED <<sources, identity, state, lock, watcher, rerun, history>>
        /\ job["cli"].at = "commit" /\ job'["cli"].at = "meta"
        /\ \A t \in Tasks : t # "cli" => job'[t] = job[t]
    BY <1>0, <1>3 DEF Commit, Job
  <2>2. index' = disk
    <3>1. job["cli"].scanned = disk
      BY <2>1 DEF Listed, RunSeesAll
    <3>2. PICK late \in SUBSET Files :
            index' = [f \in Files |-> IF f \in late THEN disk[f] ELSE disk[f]]
      BY <1>3, <3>1 DEF Commit
    <3> QED
      BY <1>0, <3>2 DEF Sources
  <2>3. RunSeesAll'
    BY <2>1, <2>2 DEF Listed, RunSeesAll, Busy, sources
  <2> QED
    BY <2>1, <2>2, <2>3, RunStep DEF watcher
<1>4. CASE WriteMeta("cli")
  <2>1. /\ UNCHANGED <<sources, index, state, lock, watcher, rerun, history>>
        /\ job["cli"].at = "meta" /\ job' = Goto("cli", "read", "refresh")
    BY <1>4 DEF WriteMeta
  <2>2. /\ job'["cli"].at = "read" /\ job'["cli"].update = "refresh"
        /\ \A t \in Tasks : t # "cli" => job'[t] = job[t]
    BY <1>0, <2>1, GotoTyped
  <2>3. RunSeesAll'
    BY <2>1, <2>2 DEF Listed, RunSeesAll, Busy, sources
  <2> QED
    BY <2>1, <2>2, <2>3, RunStep DEF watcher
<1>5. CASE BeginIndex
  <2>1. /\ UNCHANGED <<sources, stored, watcher, rerun, events>>
        /\ job["cli"].at = "off" /\ job' = Goto("cli", "lock", "none")
    BY <1>5 DEF BeginIndex
  <2>2. /\ job'["cli"].at = "lock"
        /\ \A t \in Tasks : t # "cli" => job'[t] = job[t]
    BY <1>0, <2>1, GotoTyped
  <2>3. RunSeesAll'
    BY <2>2 DEF RunSeesAll, Busy
  <2> QED
    BY <2>1, <2>2, <2>3, RunStep DEF watcher, stored
<1>6. CASE ReindexThrows("cli")
  <2>1. /\ UNCHANGED <<sources, index, identity, state, watcher, rerun>>
        /\ job["cli"].at \in {"scan", "commit", "meta"} /\ job' = [job EXCEPT !["cli"] = Off]
    BY <1>6 DEF ReindexThrows, Failed
  <2>2. /\ job'["cli"].at = "off"
        /\ \A t \in Tasks : t # "cli" => job'[t] = job[t]
    BY <1>0, <2>1, OffAgain
  <2>3. RunSeesAll'
    BY <2>2 DEF RunSeesAll, Busy
  <2> QED
    BY <2>1, <2>2, <2>3, RunStep DEF watcher
<1> QED
  BY <1>1, <1>2, <1>3, <1>4, <1>5, <1>6 DEF Reindex

(* What the poll, the debounce and an edit do.                             *)
LEMMA PollListed ==
  ASSUME TInv, Listed, Poll
  PROVE  Listed'
<1>1. /\ UNCHANGED <<sources, stored, job>>
      /\ \A f \in Files : polled'[f] = polled[f] \/ (polled'[f] = disk[f] /\ f \in pending')
      /\ pending \subseteq pending'
  BY DEF Poll, TInv, TypeOK, Sources
<1>2. Alone' /\ RunSeesAll' /\ TornByWriter'
  BY <1>1 DEF Listed, Alone, RunSeesAll, TornByWriter, Busy, sources, stored
<1>3. Numbered'
  BY <1>1 DEF Listed, Numbered, sources
<1>4. ASSUME NEW f \in Outdated' PROVE Carried(f)'
  <2>1. f \in Outdated /\ f \in Files
    BY <1>1, <1>4 DEF Outdated, sources, stored
  <2>2. Carried(f)
    BY <2>1 DEF Listed
  <2> QED
    BY <1>1, <2>1, <2>2 DEF Carried, sources, stored
<1> QED
  BY <1>2, <1>3, <1>4 DEF Listed

LEMMA FlushListed ==
  ASSUME TInv, Listed, NEW w \in Flushes, Flush(w)
  PROVE  Listed'
<1> USE TasksDiffer
<1>1. /\ UNCHANGED <<sources, stored, auto, alive, polled, rerun, history>>
      /\ pending' = {}
      /\ job[w].at = "off"
      /\ \A u \in Flushes : job[u].at \in {"off", "handle"}
  BY DEF Flush
<1>2. /\ job'[w].at = "read" /\ job'[w].update = "observe" /\ job'[w].files = pending
      /\ \A t \in Tasks : t # w => job'[t] = job[t]
  BY DEF Flush, TInv, TypeOK, Off
<1>3. Alone'
  BY <1>1, <1>2 DEF Listed, Alone, Busy, stored
<1>4. RunSeesAll' /\ Numbered'
  BY <1>1, <1>2 DEF Listed, RunSeesAll, Numbered, Busy, sources, stored
<1>5. TornByWriter'
  BY <1>1, <1>2 DEF Listed, TornByWriter, stored
<1>6. ASSUME NEW f \in Outdated' PROVE Carried(f)'
  <2>1. f \in Outdated /\ Carried(f)
    BY <1>1, <1>6 DEF Listed, Outdated, sources, stored
  <2>2. \A u \in Flushes : job'[u].at \notin {"open", "write"}
    BY <1>1, <1>2
  <2>3. \/ polled[f] # disk[f]
        \/ f \in pending
        \/ state # Torn /\ Lists(state, f)
    BY <1>1, <2>1 DEF Carried
  <2> QED
    BY <1>1, <1>2, <2>2, <2>3 DEF Carried, sources, stored
<1> QED
  BY <1>3, <1>4, <1>5, <1>6 DEF Listed

LEMMA HandleListed ==
  ASSUME TInv, Listed, ~auto, NEW w \in Flushes, Handle(w)
  PROVE  Listed'
<1> USE TasksDiffer
<1>1. /\ UNCHANGED <<sources, stored, watcher, history>>
      /\ job[w].at = "handle" /\ job' = [job EXCEPT ![w] = Off]
  BY DEF Handle
<1>2. /\ job'[w].at = "off"
      /\ \A t \in Tasks : t # w => job'[t] = job[t]
  BY <1>1, OffAgain DEF TInv, TypeOK
<1>3. Alone'
  BY <1>1, <1>2 DEF Listed, Alone, Busy, stored
<1>4. RunSeesAll' /\ Numbered'
  BY <1>1, <1>2 DEF Listed, RunSeesAll, Numbered, Busy, sources, stored, watcher
<1>5. TornByWriter'
  BY <1>1, <1>2 DEF Listed, TornByWriter, stored
<1>6. ASSUME NEW f \in Outdated' PROVE Carried(f)'
  <2>1. f \in Outdated /\ Carried(f)
    BY <1>1, <1>6 DEF Listed, Outdated, sources, stored
  <2>2. \A u \in Flushes : job'[u] = job[u] \/ (u = w /\ job'[u].at = "off")
    BY <1>2
  <2> QED
    BY <1>1, <1>2, <2>1, <2>2 DEF Carried, sources, stored, watcher
<1> QED
  BY <1>3, <1>4, <1>5, <1>6 DEF Listed

(* An edit that no explicit run overlooks is one that the poll will see.   *)
LEMMA SaveListed ==
  ASSUME TInv, Listed, NEW f \in Files, Save(f), "unseenByCli" \notin events'
  PROVE  Listed'
<1> USE TasksDiffer
<1>1. /\ UNCHANGED <<stored, watcher, job, rerun>>
      /\ disk' = [disk EXCEPT ![f] = edits + 1] /\ edits' = edits + 1
      /\ disk \in Sources /\ polled \in Sources /\ edits \in Nat
  BY DEF Save, Edit, TInv, TypeOK
<1>2. lock = "cli" => job["cli"].at = "scan"
  BY DEF Save, Unseen, Indexers
<1>3. Alone' /\ TornByWriter'
  BY <1>1 DEF Listed, Alone, TornByWriter, Busy, stored
<1>4. job["cli"].at \notin {"commit", "meta", "read", "open", "write"}
  BY <1>2 DEF Listed, RunSeesAll
<1>5. RunSeesAll'
  BY <1>1, <1>4 DEF Listed, RunSeesAll, Busy, stored
<1>6. Numbered'
  BY <1>1 DEF Listed, Numbered, watcher, Sources
<1>7. ASSUME NEW g \in Outdated' PROVE Carried(g)'
  <2>1. CASE g = f
    <3>1. polled'[f] # disk'[f]
      BY <1>1 DEF Listed, Numbered, watcher, Sources
    <3> QED
      BY <2>1, <3>1 DEF Carried
  <2>2. CASE g # f
    <3>1. g \in Files /\ disk'[g] = disk[g] /\ g \in Outdated
      BY <1>1, <1>7, <2>2 DEF Outdated, Sources, stored
    <3>2. Carried(g)
      BY <3>1 DEF Listed
    <3> QED
      BY <1>1, <3>1, <3>2 DEF Carried, stored, watcher
  <2> QED
    BY <2>1, <2>2
<1> QED
  BY <1>3, <1>5, <1>6, <1>7 DEF Listed

-----------------------------------------------------------------------------
(* What reading and writing state.json does.                               *)
LEMMA ReadListed ==
  ASSUME TInv, Listed, NEW t \in Tasks, Read(t)
  PROVE  Listed'
<1> USE TasksDiffer
<1>1. /\ UNCHANGED <<sources, stored, watcher, rerun, history>>
      /\ job[t].at = "read" /\ state # Torn
      /\ job' = [job EXCEPT ![t].at = "open", ![t].copy = state]
      /\ job \in [Tasks -> Job]
  BY DEF Read, TInv, TypeOK
<1>2. /\ job'[t].at = "open" /\ job'[t].copy = state /\ job'[t].update = job[t].update
      /\ job'[t].files = job[t].files
      /\ \A u \in Tasks : u # t => job'[u] = job[u]
  BY <1>1 DEF Job
<1>3. Alone'
  BY <1>1, <1>2 DEF Listed, Alone, Busy, stored
<1>4. RunSeesAll' /\ Numbered'
  BY <1>1, <1>2 DEF Listed, RunSeesAll, Numbered, Busy, sources, stored, watcher
<1>5. TornByWriter'
  BY <1>1 DEF TornByWriter, stored
<1>6. ASSUME NEW f \in Outdated' PROVE Carried(f)'
  <2>1. f \in Outdated /\ Carried(f)
    BY <1>1, <1>6 DEF Listed, Outdated, sources, stored
  <2>2. t # "cli"
    BY <1>1, <2>1 DEF Listed, RunSeesAll, Outdated
  <2>3. t \in Flushes /\ \A w \in Flushes : w # t => ~Busy(w)
    BY <1>1, <2>2 DEF Listed, Alone, Busy, Tasks, Indexers
  <2> QED
    BY <1>1, <1>2, <2>1, <2>3 DEF Carried, Busy, sources, stored, watcher
<1> QED
  BY <1>3, <1>4, <1>5, <1>6 DEF Listed

LEMMA OpenListed ==
  ASSUME TInv, Listed, NEW t \in Tasks, Open(t)
  PROVE  Listed'
<1> USE TasksDiffer
<1>1. /\ UNCHANGED <<sources, index, identity, lock, watcher, rerun, history>>
      /\ job[t].at = "open" /\ state' = Torn
      /\ job' = [job EXCEPT ![t].at = "write", ![t].copy = Updated(t), ![t].files = {}]
      /\ job \in [Tasks -> Job]
  BY DEF Open, TInv, TypeOK
<1>2. /\ job'[t].at = "write" /\ job'[t].copy = Updated(t) /\ job'[t].update = job[t].update
      /\ \A u \in Tasks : u # t => job'[u] = job[u]
  BY <1>1 DEF Job
<1>3. Alone'
  BY <1>1, <1>2 DEF Listed, Alone, Busy
<1>4. RunSeesAll' /\ Numbered'
  BY <1>1, <1>2 DEF Listed, RunSeesAll, Numbered, Busy, sources, watcher
<1>5. TornByWriter'
  BY <1>2 DEF TornByWriter
<1>6. ASSUME NEW f \in Outdated' PROVE Carried(f)'
  <2>1. f \in Outdated /\ Carried(f)
    BY <1>1, <1>6 DEF Listed, Outdated, sources
  <2>2. t # "cli"
    BY <1>1, <2>1 DEF Listed, RunSeesAll, Outdated
  <2>3. t \in Flushes /\ job[t].update = "observe" /\ \A w \in Flushes : w # t => ~Busy(w)
    BY <1>1, <2>2 DEF Listed, Alone, Busy, Tasks, Indexers
  <2>4. f \in job[t].files \/ Lists(job[t].copy, f) => Lists(job'[t].copy, f)
    <3>1. job[t].copy \in State /\ job[t].files \in SUBSET Files /\ f \in Files
      BY <1>1, <2>1 DEF TInv, StepsOK, Job, Outdated
    <3>2. job'[t].copy = Observe(job[t].copy, job[t].files)
      BY <1>2, <2>3 DEF Updated
    <3> QED
      BY <3>1, <3>2, ObserveLists
  <2> QED
    BY <1>1, <1>2, <2>1, <2>3, <2>4 DEF Carried, Busy, sources, watcher
<1> QED
  BY <1>3, <1>4, <1>5, <1>6 DEF Listed

LEMMA WriteListed ==
  ASSUME TInv, Listed, NEW t \in Tasks, Write(t), "tornWrite" \notin events'
  PROVE  Listed'
<1> USE TasksDiffer
<1>1. /\ UNCHANGED <<sources, index, identity, watcher, budget>>
      /\ job[t].at = "write" /\ state' = job[t].copy /\ state' # Torn
      /\ AfterWrite(t)
      /\ job \in [Tasks -> Job]
  BY DEF Write, TInv, TypeOK
<1>2. t # "co"
  BY <1>1 DEF Listed, Alone
<1>3. /\ job'[t].at \in {"off", "handle"}
      /\ \A u \in Tasks : u # t => job'[u] = job[u]
      /\ lock' # "co" /\ (lock' = lock \/ t = "cli")
  <2>1. CASE t = "cli"
    <3>1. job' = [job EXCEPT ![t] = Off] /\ lock' = "free"
      BY <1>1, <2>1 DEF Listed, RunSeesAll, Busy, AfterWrite
    <3> QED
      BY <1>1, <2>1, <3>1, OffAgain
  <2>2. CASE t \in Flushes
    <3>1. job' = Goto(t, "handle", "none") /\ lock' = lock
      BY <1>1, <2>2 DEF Listed, Alone, Busy, AfterWrite
    <3> QED
      BY <1>1, <3>1, GotoTyped DEF Listed, Alone
  <2> QED
    BY <1>2, <2>1, <2>2 DEF Tasks, Indexers
<1>4. Alone'
  BY <1>2, <1>3 DEF Listed, Alone, Busy
<1>5. RunSeesAll' /\ Numbered'
  BY <1>1, <1>3 DEF Listed, RunSeesAll, Numbered, Busy, sources, watcher
<1>6. TornByWriter'
  BY <1>1 DEF TornByWriter
<1>7. ASSUME NEW f \in Outdated' PROVE Carried(f)'
  <2>1. f \in Outdated /\ Carried(f)
    BY <1>1, <1>7 DEF Listed, Outdated, sources
  <2>2. t # "cli"
    BY <1>1, <2>1 DEF Listed, RunSeesAll, Outdated
  <2>3. t \in Flushes /\ \A w \in Flushes : w # t => ~Busy(w)
    BY <1>1, <1>2, <2>2 DEF Listed, Alone, Busy, Tasks, Indexers
  <2> QED
    BY <1>1, <1>3, <2>1, <2>3 DEF Carried, Busy, sources, watcher
<1> QED
  BY <1>4, <1>5, <1>6, <1>7 DEF Listed

LEMMA LInvInductive == TInv /\ LInv /\ [Next]_vars => LInv'
<1> SUFFICES ASSUME TInv, LInv, [Next]_vars, (events \cap Lost = {})'
             PROVE  alive' /\ (~auto' => Listed')
  BY DEF LInv
<1>1. CASE UNCHANGED vars
  <2>1. /\ UNCHANGED <<disk, edits, index, state, lock, polled, pending, job, auto, alive, events>>
    BY <1>1 DEF vars, sources, stored, watcher, history
  <2>2. Listed => Listed'
    BY <2>1 DEF Listed, Alone, RunSeesAll, Numbered, TornByWriter, Outdated, Carried, Busy
  <2> QED
    BY <2>1, <2>2 DEF LInv
<1>2. CASE Next
  <2>1. alive /\ alive' = alive /\ auto' = auto /\ (~auto => Listed)
    BY <1>2, EventsStay DEF LInv
  <2>2. SUFFICES ASSUME ~auto PROVE Listed'
    BY <2>1
  <2>3. Listed /\ job["co"].at = "off" /\ lock # "co"
    BY <2>1, <2>2 DEF Listed, Alone
  <2>4. CASE Poll
    BY <2>3, <2>4, PollListed
  <2>5. ASSUME NEW w \in Flushes, Flush(w) \/ Handle(w) PROVE Listed'
    BY <2>2, <2>3, <2>5, FlushListed, HandleListed
  <2>6. ASSUME NEW t \in Tasks, Step(t) PROVE Listed'
    <3>1. ~ReadTornCaught(t) /\ ~ReadTornThrows(t) /\ "tornWrite" \notin events'
      BY DEF ReadTornCaught, ReadTornThrows, Lost
    <3> QED
      BY <2>3, <2>6, <3>1, ReadListed, OpenListed, WriteListed DEF Step
  <2>7. ASSUME NEW t \in Indexers, Reindex(t) \/ ReindexThrows(t) PROVE Listed'
    <3>1. t = "cli"
      BY <2>3, <2>7 DEF Indexers, Reindex, AcquireLock, Scan, Commit, WriteMeta, ReindexThrows
    <3>2. lock' # "co"
      BY <2>3, <2>7, <3>1 DEF Reindex, AcquireLock, Scan, Commit, WriteMeta, ReindexThrows, stored
    <3> QED
      BY <2>3, <2>7, <3>1, <3>2, RunListed
  <2>8. CASE BeginIndex
    <3>1. lock' # "co"
      BY <2>3, <2>8 DEF BeginIndex, stored
    <3> QED
      BY <2>3, <2>8, <3>1, RunListed
  <2>9. ~Stop /\ ~Restart
    BY <2>1 DEF Stop, Restart, Lost
  <2>10. ASSUME NEW f \in Files, Save(f) \/ Revert(f) PROVE Listed'
    <3>1. ~Revert(f) /\ "unseenByCli" \notin events'
      BY DEF Revert, Lost
    <3> QED
      BY <2>3, <2>10, <3>1, SaveListed
  <2> QED
    BY <1>2, <2>4, <2>5, <2>6, <2>7, <2>8, <2>9, <2>10 DEF Next, Work, World
<1> QED
  BY <1>1, <1>2

(* Without --auto-reindex an outdated file is left out of the list only    *)
(* when the list is full, whatever polls, flushes and explicit runs read   *)
(* and write in state.json in any order.                                   *)
THEOREM NoneForgotten == Spec => []OutdatedFilesAreListed
<1>1. TInv /\ LInv => OutdatedFilesAreListed
  <2> SUFFICES ASSUME TInv, LInv, Quiet, ~auto, events \cap Lost = {}
               PROVE  state # Torn /\ \A f \in Outdated : Lists(state, f)
    BY DEF OutdatedFilesAreListed, Lost
  <2>1. Listed /\ \A t \in Tasks : job[t].at = "off"
    BY DEF LInv, Quiet
  <2>2. state # Torn
    BY <2>1 DEF Listed, TornByWriter
  <2>3. \A f \in Outdated : Lists(state, f)
    BY <2>1, TasksDiffer DEF Listed, Carried, Quiet
  <2> QED
    BY <2>2, <2>3
<1> QED
  BY <1>1, InitTInv, Inductive, InitLInv, LInvInductive, PTL DEF Spec
-----------------------------------------------------------------------------
(* The steps a task goes through, whatever happens; a run holds the lock   *)
(* from its scan to the end of its refresh.                                *)
Holds(t) ==
  \/ job[t].at \in {"scan", "commit", "meta"}
  \/ Busy(t) /\ job[t].update = "refresh"

Shaped ==
  /\ \A t \in Indexers : job[t].at # "handle" /\ (Holds(t) => lock = t)
  /\ Busy("cli") => job["cli"].update = "refresh"
  /\ Busy("co") => job["co"].update \in {"started", "refresh", "succeeded", "failed"}
  /\ \A w \in Flushes :
       /\ job[w].at \in {"off", "read", "open", "write", "handle"}
       /\ Busy(w) => job[w].update = "observe"

(* Each step, by what it does to the record of its task.                   *)
LEMMA HandleFacts ==
  ASSUME TInv, NEW w \in Flushes, Handle(w)
  PROVE  /\ UNCHANGED <<sources, stored, watcher, history>>
         /\ job[w].at = "handle" /\ job'[w].at = "off"
         /\ \/ /\ auto /\ job["co"].at = "off"
               /\ job'["co"].at = "read" /\ job'["co"].update = "started"
            \/ /\ job'["co"] = job["co"]
               /\ auto => Running /\ rerun'
         /\ \A u \in Tasks : u # w /\ u # "co" => job'[u] = job[u]
<1> USE TasksDiffer
<1> DEFINE started == [Off EXCEPT !.at = "read", !.update = "started"]
<1>1. started \in Job /\ started.at = "read" /\ started.update = "started"
  BY DEF Off, Job
<1>2. job \in [Tasks -> Job] /\ job[w].at = "handle"
  BY DEF TInv, TypeOK, Handle
<1>3. \/ auto /\ ~Running /\ job' = [job EXCEPT ![w] = Off, !["co"] = started]
      \/ (auto => Running /\ rerun') /\ job' = [job EXCEPT ![w] = Off]
  BY Zenon DEF Handle
<1>4. Off \in Job /\ Off.at = "off"
  BY OffTyped
<1> HIDE DEF started
<1>5. CASE auto /\ ~Running /\ job' = [job EXCEPT ![w] = Off, !["co"] = started]
  <2> DEFINE one == [job EXCEPT ![w] = Off]
  <2>1. one \in [Tasks -> Job] /\ one[w] = Off /\ \A u \in Tasks : u # w => one[u] = job[u]
    BY <1>2, <1>4
  <2>2. job' = [one EXCEPT !["co"] = started]
    BY <1>5
  <2> HIDE DEF one
  <2>3. job'["co"] = started /\ \A u \in Tasks : u # "co" => job'[u] = one[u]
    BY <1>1, <2>1, <2>2
  <2>4. job["co"].at = "off"
    BY <1>5 DEF Running
  <2>5. /\ job'[w].at = "off" /\ job'["co"].at = "read" /\ job'["co"].update = "started"
        /\ \A u \in Tasks : u # w /\ u # "co" => job'[u] = job[u]
    BY <1>1, <1>4, <2>1, <2>3
  <2> QED
    BY <1>2, <1>5, <2>4, <2>5 DEF Handle
<1>6. CASE (auto => Running /\ rerun') /\ job' = [job EXCEPT ![w] = Off]
  <2>1. job'[w] = Off /\ \A u \in Tasks : u # w => job'[u] = job[u]
    BY <1>2, <1>4, <1>6
  <2>2. "co" \in Tasks /\ "co" # w
    OBVIOUS
  <2> QED
    BY <1>2, <1>4, <1>6, <2>1, <2>2 DEF Handle
<1> QED
  BY <1>3, <1>5, <1>6

LEMMA ReadFacts ==
  ASSUME TInv, NEW t \in Tasks, Read(t)
  PROVE  /\ UNCHANGED <<sources, stored, watcher, rerun, history>>
         /\ job[t].at = "read" /\ state # Torn
         /\ job'[t].at = "open" /\ job'[t].copy = state
         /\ job'[t].update = job[t].update /\ job'[t].files = job[t].files
         /\ \A u \in Tasks : u # t => job'[u] = job[u]
<1>1. job \in [Tasks -> Job]
  BY DEF TInv, TypeOK
<1> QED
  BY <1>1 DEF Read, Job

LEMMA OpenFacts ==
  ASSUME TInv, NEW t \in Tasks, Open(t)
  PROVE  /\ UNCHANGED <<sources, index, identity, lock, watcher, rerun, history>>
         /\ job[t].at = "open" /\ job[t].copy \in State /\ state' = Torn
         /\ job'[t].at = "write" /\ job'[t].copy = Updated(t)
         /\ job'[t].update = job[t].update
         /\ \A u \in Tasks : u # t => job'[u] = job[u]
<1>1. job \in [Tasks -> Job] /\ StepsOK
  BY DEF TInv, TypeOK
<1> QED
  BY <1>1 DEF Open, Job, StepsOK

LEMMA WriteFacts ==
  ASSUME TInv, Shaped, NEW t \in Tasks, Write(t)
  PROVE  /\ UNCHANGED <<sources, index, identity, watcher, budget>>
         /\ job[t].at = "write" /\ job[t].copy \in State
         /\ \/ state' = job[t].copy /\ events' = events
            \/ state' = Torn /\ events' = events \cup {"tornWrite"}
         /\ \A u \in Tasks : u # t => job'[u] = job[u]
         /\ \/ t \in Flushes /\ job'[t].at = "handle" /\ UNCHANGED <<lock, rerun>>
            \/ t = "cli" /\ job'[t].at = "off" /\ lock' = "free" /\ UNCHANGED rerun
            \/ /\ t = "co" /\ job[t].update = "started" /\ job'[t].at = "lock"
               /\ UNCHANGED <<lock, rerun>>
            \/ /\ t = "co" /\ job[t].update = "refresh" /\ lock' = "free" /\ UNCHANGED rerun
               /\ job'[t].at = "read" /\ job'[t].update = "succeeded"
            \/ /\ t = "co" /\ job[t].update = "succeeded" /\ lock' = lock
               /\ \/ job'[t].at = "read" /\ job'[t].update = "started"
                  \/ ~rerun /\ job'[t].at = "off"
            \/ /\ t = "co" /\ job[t].update = "failed" /\ job'[t].at = "off" /\ lock' = lock
<1> USE TasksDiffer
<1>1. /\ UNCHANGED <<sources, index, identity, watcher, budget>>
      /\ job[t].at = "write" /\ job[t].copy \in State /\ job \in [Tasks -> Job]
      /\ AfterWrite(t)
  BY DEF Write, TInv, TypeOK, StepsOK
<1>2. \/ state' = job[t].copy /\ events' = events
      \/ state' = Torn /\ events' = events \cup {"tornWrite"}
  BY <1>1, TornAssumption DEF Write
<1>3. CASE t \in Flushes
  <2>1. job' = Goto(t, "handle", "none") /\ UNCHANGED <<lock, rerun>>
    BY <1>1, <1>3 DEF Shaped, Busy, AfterWrite
  <2> QED
    BY <1>1, <1>2, <1>3, <2>1, GotoTyped
<1>4. CASE t = "cli"
  <2>1. job' = [job EXCEPT ![t] = Off] /\ lock' = "free" /\ UNCHANGED rerun
    BY <1>1, <1>4 DEF Shaped, Busy, AfterWrite
  <2> QED
    BY <1>1, <1>2, <1>4, <2>1, OffAgain
<1>5. CASE t = "co" /\ job[t].update = "started"
  <2>1. job' = Goto(t, "lock", "none") /\ UNCHANGED <<lock, rerun>>
    BY <1>1, <1>5 DEF AfterWrite
  <2> QED
    BY <1>1, <1>2, <1>5, <2>1, GotoTyped
<1>6. CASE t = "co" /\ job[t].update = "refresh"
  <2>1. job' = Goto(t, "read", "succeeded") /\ lock' = "free" /\ UNCHANGED rerun
    BY <1>1, <1>6 DEF AfterWrite
  <2> QED
    BY <1>1, <1>2, <1>6, <2>1, GotoTyped
<1>7. CASE t = "co" /\ job[t].update = "succeeded"
  <2>1. /\ lock' = lock
        /\ \/ job' = Goto(t, "read", "started")
           \/ ~rerun /\ job' = [job EXCEPT ![t] = Off]
    BY <1>1, <1>7 DEF AfterWrite
  <2>2. CASE job' = Goto(t, "read", "started")
    BY <1>1, <1>2, <1>7, <2>1, <2>2, GotoTyped
  <2>3. CASE ~rerun /\ job' = [job EXCEPT ![t] = Off]
    BY <1>1, <1>2, <1>7, <2>1, <2>3, OffAgain
  <2> QED
    BY <2>1, <2>2, <2>3
<1>8. CASE t = "co" /\ job[t].update = "failed"
  <2>1. job' = [job EXCEPT ![t] = Off] /\ lock' = lock
    BY <1>1, <1>8 DEF AfterWrite
  <2> QED
    BY <1>1, <1>2, <1>8, <2>1, OffAgain
<1> QED
  BY <1>1, <1>3, <1>4, <1>5, <1>6, <1>7, <1>8 DEF Shaped, Busy, Tasks, Indexers

LEMMA FailedFacts ==
  ASSUME TInv, NEW t \in Indexers, job' = Failed(t)
  PROVE  /\ \/ t = "cli" /\ job'[t].at = "off"
            \/ t = "co" /\ job'[t].at = "read" /\ job'[t].update = "failed"
         /\ \A u \in Tasks : u # t => job'[u] = job[u]
<1>1. job \in [Tasks -> Job] /\ t \in Tasks
  BY TasksDiffer DEF TInv, TypeOK
<1>2. CASE t = "cli"
  BY <1>1, <1>2, OffAgain DEF Failed
<1>3. CASE t = "co"
  BY <1>1, <1>3, GotoTyped DEF Failed
<1> QED
  BY <1>2, <1>3 DEF Indexers

LEMMA ReindexFacts ==
  ASSUME TInv, NEW t \in Indexers, Reindex(t) \/ ReindexThrows(t)
  PROVE  /\ UNCHANGED <<sources, state, watcher, rerun>>
         /\ events \subseteq events'
         /\ \A u \in Tasks : u # t => job'[u] = job[u]
         /\ \/ /\ job[t].at = "lock" /\ job'[t].at = "scan"
               /\ lock = "free" /\ lock' = t /\ index' = index
            \/ /\ job[t].at = "scan" /\ job'[t].at = "commit" /\ job'[t].scanned = disk
               /\ lock' = lock /\ index' = index
            \/ /\ job[t].at = "commit" /\ job'[t].at = "meta" /\ lock' = lock
               /\ \E late \in SUBSET Files :
                    index' = [f \in Files |-> IF f \in late THEN disk[f] ELSE job[t].scanned[f]]
            \/ /\ job[t].at = "meta" /\ lock' = lock /\ index' = index
               /\ job'[t].at = "read" /\ job'[t].update = "refresh"
            \/ /\ job[t].at = "lock" /\ lock' = lock /\ index' = index
               /\ "busy" \in events'
               /\ \/ t = "cli" /\ job'[t].at = "off"
                  \/ t = "co" /\ job'[t].at = "read" /\ job'[t].update = "failed"
            \/ /\ job[t].at \in {"scan", "commit", "meta"} /\ lock' = "free" /\ index' = index
               /\ "fault" \in events'
               /\ \/ t = "cli" /\ job'[t].at = "off"
                  \/ t = "co" /\ job'[t].at = "read" /\ job'[t].update = "failed"
<1>0. job \in [Tasks -> Job] /\ t \in Tasks
  BY TasksDiffer DEF TInv, TypeOK
<1>1. CASE AcquireLock(t)
  <2>1. CASE lock = "free"
    <3>1. job' = Goto(t, "scan", "none") /\ lock' = t /\ events' = events
      BY <1>1, <2>1 DEF AcquireLock
    <3> QED
      BY <1>0, <1>1, <2>1, <3>1, GotoTyped DEF AcquireLock
  <2>2. CASE lock # "free"
    <3>1. job' = Failed(t) /\ lock' = lock /\ events' = events \cup {"busy"}
      BY <1>1, <2>2 DEF AcquireLock
    <3> QED
      BY <1>1, <3>1, FailedFacts DEF AcquireLock
  <2> QED
    BY <2>1, <2>2
<1>2. CASE Scan(t)
  BY <1>0, <1>2 DEF Scan, Job, stored, history
<1>3. CASE Commit(t)
  BY <1>0, <1>3 DEF Commit, Job, history
<1>4. CASE WriteMeta(t)
  <2>1. job' = Goto(t, "read", "refresh")
    BY <1>4 DEF WriteMeta
  <2> QED
    BY <1>0, <1>4, <2>1, GotoTyped DEF WriteMeta, history
<1>5. CASE ReindexThrows(t)
  BY <1>5, FailedFacts DEF ReindexThrows
<1> QED
  BY <1>1, <1>2, <1>3, <1>4, <1>5 DEF Reindex

LEMMA BeginFacts ==
  ASSUME TInv, BeginIndex
  PROVE  /\ UNCHANGED <<sources, stored, watcher, rerun, events>>
         /\ job["cli"].at = "off" /\ job'["cli"].at = "lock"
         /\ \A u \in Tasks : u # "cli" => job'[u] = job[u]
<1>1. job \in [Tasks -> Job] /\ job' = Goto("cli", "lock", "none")
  BY DEF BeginIndex, TInv, TypeOK
<1> QED
  BY <1>1, TasksDiffer, GotoTyped DEF BeginIndex

LEMMA StoppedFacts ==
  ASSUME TInv, Stopped
  PROVE  /\ job'["cli"] = job["cli"]
         /\ \A t \in Tasks : t # "cli" => job'[t].at = "off"
         /\ lock' = IF lock = "co" THEN "free" ELSE lock
BY OffTyped, TasksDiffer DEF Stopped

LEMMA InitShaped == Init => Shaped
<1> SUFFICES ASSUME Init PROVE Shaped
  OBVIOUS
<1>1. \A t \in Tasks : job[t].at = "off"
  BY OffTyped DEF Init
<1> QED
  BY <1>1, TasksDiffer DEF Shaped, Holds, Busy

LEMMA ShapedStep == TInv /\ Shaped /\ [Next]_vars => Shaped'
<1> SUFFICES ASSUME TInv, Shaped, [Next]_vars PROVE Shaped'
  OBVIOUS
<1> USE TasksDiffer
<1>0. job \in [Tasks -> Job] /\ lock \in Indexers \cup {"free"}
  BY DEF TInv, TypeOK
<1>1. CASE Poll
  <2>1. UNCHANGED <<job, lock>>
    BY <1>1 DEF Poll, stored
  <2> QED
    BY <2>1 DEF Shaped, Holds, Busy
<1>2. ASSUME NEW w \in Flushes, Flush(w) PROVE Shaped'
  <2>1. /\ job'[w].at = "read" /\ job'[w].update = "observe" /\ lock' = lock
        /\ \A t \in Tasks : t # w => job'[t] = job[t]
    BY <1>0, <1>2 DEF Flush, Off, stored
  <2> QED
    BY <2>1 DEF Shaped, Holds, Busy, Indexers
<1>3. ASSUME NEW w \in Flushes, Handle(w) PROVE Shaped'
  <2>1. /\ lock' = lock /\ job'[w].at = "off"
        /\ \/ job'["co"].at = "read" /\ job'["co"].update = "started"
           \/ job'["co"] = job["co"]
        /\ \A t \in Tasks : t # w /\ t # "co" => job'[t] = job[t]
    BY <1>3, HandleFacts DEF stored
  <2> QED
    BY <2>1 DEF Shaped, Holds, Busy, Indexers
<1>4. ASSUME NEW t \in Tasks, Read(t) PROVE Shaped'
  <2>1. /\ lock' = lock
        /\ job[t].at = "read" /\ job'[t].at = "open" /\ job'[t].update = job[t].update
        /\ \A u \in Tasks : u # t => job'[u] = job[u]
    BY <1>4, ReadFacts DEF stored
  <2> QED
    BY <2>1 DEF Shaped, Holds, Busy, Indexers
<1>5. ASSUME NEW t \in Tasks, Open(t) PROVE Shaped'
  <2>1. /\ lock' = lock
        /\ job[t].at = "open" /\ job'[t].at = "write" /\ job'[t].update = job[t].update
        /\ \A u \in Tasks : u # t => job'[u] = job[u]
    BY <1>5, OpenFacts
  <2> QED
    BY <2>1 DEF Shaped, Holds, Busy, Indexers
<1>6. ASSUME NEW t \in Tasks, Write(t) PROVE Shaped'
  <2>1. \A u \in Tasks : u # t => job'[u] = job[u]
    BY <1>6, WriteFacts
  <2>2. CASE t \in Flushes
    <3>1. job'[t].at = "handle" /\ lock' = lock
      BY <1>6, <2>2, WriteFacts
    <3> QED
      BY <2>1, <2>2, <3>1 DEF Shaped, Holds, Busy, Indexers
  <2>3. CASE t = "cli"
    <3>1. job'[t].at = "off" /\ job[t].at = "write"
      BY <1>6, <2>3, WriteFacts
    <3>2. lock = "cli"
      BY <2>3, <3>1 DEF Shaped, Holds, Busy, Indexers
    <3> QED
      BY <2>1, <2>3, <3>1, <3>2 DEF Shaped, Holds, Busy, Indexers
  <2>4. CASE t = "co"
    <3>1. /\ job[t].at = "write"
          /\ \/ job'[t].at \in {"lock", "off"}
             \/ job'[t].at = "read" /\ job'[t].update \in {"succeeded", "started"}
          /\ \/ lock' = lock
             \/ lock' = "free" /\ job[t].update = "refresh"
      BY <1>6, <2>4, WriteFacts
    <3>2. job["cli"] = job'["cli"] /\ (lock' = lock \/ ~Holds("cli"))
      BY <2>1, <2>4, <3>1 DEF Shaped, Holds, Busy, Indexers
    <3> QED
      BY <2>1, <2>4, <3>1, <3>2 DEF Shaped, Holds, Busy, Indexers
  <2> QED
    BY <2>2, <2>3, <2>4 DEF Tasks, Indexers
<1>7. ASSUME NEW t \in Indexers, Reindex(t) \/ ReindexThrows(t) PROVE Shaped'
  <2>1. /\ \A u \in Tasks : u # t => job'[u] = job[u]
        /\ \/ job[t].at = "lock" /\ job'[t].at = "scan" /\ lock = "free" /\ lock' = t
           \/ job[t].at = "scan" /\ job'[t].at = "commit" /\ lock' = lock
           \/ job[t].at = "commit" /\ job'[t].at = "meta" /\ lock' = lock
           \/ /\ job[t].at = "meta" /\ lock' = lock
              /\ job'[t].at = "read" /\ job'[t].update = "refresh"
           \/ /\ (job[t].at = "lock" /\ lock' = lock)
                   \/ (job[t].at \in {"scan", "commit", "meta"} /\ lock' = "free")
              /\ \/ t = "cli" /\ job'[t].at = "off"
                 \/ t = "co" /\ job'[t].at = "read" /\ job'[t].update = "failed"
    BY <1>7, ReindexFacts
  <2>2. \A u \in Indexers : Holds(u) => lock = u
    BY DEF Shaped
  <2>3. \A u \in Indexers : Holds(u)' => lock' = u
    BY <2>1, <2>2 DEF Holds, Busy, Indexers
  <2> QED
    BY <2>1, <2>3 DEF Shaped, Busy, Indexers
<1>8. CASE BeginIndex
  <2>1. /\ lock' = lock /\ job'["cli"].at = "lock"
        /\ \A u \in Tasks : u # "cli" => job'[u] = job[u]
    BY <1>8, BeginFacts DEF stored
  <2> QED
    BY <2>1 DEF Shaped, Holds, Busy, Indexers
<1>9. CASE Stopped
  <2>1. /\ job'["cli"] = job["cli"]
        /\ \A t \in Tasks : t # "cli" => job'[t].at = "off"
        /\ lock = "cli" => lock' = "cli"
    BY <1>9, StoppedFacts
  <2> QED
    BY <2>1 DEF Shaped, Holds, Busy, Indexers
<1>10. CASE UNCHANGED <<job, lock>>
  BY <1>10 DEF Shaped, Holds, Busy
<1>11. ASSUME NEW t \in Tasks, ReadTornCaught(t) PROVE Shaped'
  <2>1. /\ lock' = lock /\ job[t].at = "read"
        /\ \/ job'[t].at = "open" /\ job'[t].update = job[t].update
           \/ /\ job'[t].at = "read" /\ job'[t].update = "failed"
              /\ job[t].update = "succeeded"
        /\ \A u \in Tasks : u # t => job'[u] = job[u]
    <3>1. CASE job' = [job EXCEPT ![t].at = "open", ![t].copy = Fresh]
      BY <1>0, <1>11, <3>1 DEF ReadTornCaught, Job, stored
    <3>2. CASE job[t].update = "succeeded" /\ job' = Goto(t, "read", "failed")
      BY <1>0, <1>11, <3>2, GotoTyped DEF ReadTornCaught, stored
    <3> QED
      BY <1>11, <3>1, <3>2 DEF ReadTornCaught
  <2> QED
    BY <2>1 DEF Shaped, Holds, Busy, Indexers
<1>12. ASSUME NEW t \in Tasks, ReadTornThrows(t) PROVE Shaped'
  <2>1. CASE job' = [job EXCEPT ![t] = Off] /\ lock' = lock
    <3>1. job'[t].at = "off" /\ \A u \in Tasks : u # t => job'[u] = job[u]
      BY <1>0, <2>1, OffAgain
    <3> QED
      BY <2>1, <3>1 DEF Shaped, Holds, Busy, Indexers
  <2> QED
    BY <1>9, <1>12, <2>1 DEF ReadTornThrows
<1>13. CASE UNCHANGED vars
  BY <1>10, <1>13 DEF vars, stored
<1>14. CASE Restart \/ \E f \in Files : Save(f) \/ Revert(f)
  BY <1>10, <1>14 DEF Restart, Save, Revert, Edit, stored
<1> QED
  BY <1>1, <1>2, <1>3, <1>4, <1>5, <1>6, <1>7, <1>8, <1>9, <1>11, <1>12, <1>13, <1>14
     DEF Next, Work, World, Step, Stop

-----------------------------------------------------------------------------
(* An error on record comes from a run that failed.                        *)
Sound ==
  /\ state # Torn => ~state.error
  /\ \A t \in Tasks :
       /\ job[t].at \in {"open", "write"} => ~job[t].copy.error
       /\ Busy(t) => job[t].update # "failed"

SInv == events \cap {"fault", "busy", "tornRead"} = {} => Sound

LEMMA UpdatedFields ==
  ASSUME TInv, NEW t \in Tasks, job[t].at = "open"
  PROVE  /\ job[t].update = "observe" => Updated(t).error = job[t].copy.error
         /\ job[t].update \in {"started", "succeeded", "refresh"} => ~Updated(t).error
         /\ job[t].update = "failed" => Updated(t).error
         /\ job[t].update \in {"observe", "started", "succeeded", "failed"} =>
              Updated(t).fingerprint = job[t].copy.fingerprint
         /\ job[t].update = "refresh" => Updated(t).fingerprint = edits
         /\ job[t].update \in {"observe", "started", "succeeded", "failed", "refresh"}
<1>1. /\ job[t].copy \in State
      /\ job[t].update \in {"observe", "started", "refresh", "succeeded", "failed"}
  BY DEF TInv, StepsOK, TypeOK, Job
<1> QED
  BY <1>1 DEF Updated, Observe, State, Fresh

LEMMA InitSound == Init => Sound
<1> SUFFICES ASSUME Init PROVE Sound
  OBVIOUS
<1>1. state = Fresh /\ \A t \in Tasks : job[t].at = "off"
  BY OffTyped DEF Init
<1>2. ~Fresh.error
  BY Zenon DEF Fresh
<1> QED
  BY <1>1, <1>2 DEF Sound, Busy

LEMMA SInvStep == TInv /\ Shaped /\ SInv /\ [Next]_vars => SInv'
<1> SUFFICES ASSUME TInv, Shaped, SInv, [Next]_vars,
                    (events \cap {"fault", "busy", "tornRead"} = {})'
             PROVE  Sound'
  BY DEF SInv
<1> USE TasksDiffer
<1>a. events \subseteq events' /\ Sound
  <2>1. CASE Next
    BY <2>1, EventsStay DEF SInv
  <2>2. CASE UNCHANGED vars
    BY <2>2 DEF vars, history, SInv
  <2> QED
    BY <2>1, <2>2
<1>0. job \in [Tasks -> Job]
  BY DEF TInv, TypeOK
<1>1. ASSUME UNCHANGED state, NEW t \in Tasks, \A u \in Tasks : u # t => job'[u] = job[u],
             job'[t].at \notin {"open", "write"}, Busy(t)' => job'[t].update # "failed"
      PROVE  Sound'
  BY <1>a, <1>1 DEF Sound, Busy
<1>2. ASSUME NEW w \in Flushes, Flush(w) PROVE Sound'
  <2>1. /\ job'[w].at = "read" /\ job'[w].update = "observe" /\ UNCHANGED state
        /\ \A t \in Tasks : t # w => job'[t] = job[t]
    BY <1>0, <1>2 DEF Flush, Off, stored
  <2> QED
    BY <1>1, <2>1 DEF Busy
<1>3. ASSUME NEW w \in Flushes, Handle(w) PROVE Sound'
  <2>1. /\ UNCHANGED state /\ job'[w].at = "off"
        /\ \/ job'["co"].at = "read" /\ job'["co"].update = "started"
           \/ job'["co"] = job["co"]
        /\ \A t \in Tasks : t # w /\ t # "co" => job'[t] = job[t]
    BY <1>3, HandleFacts DEF stored
  <2> QED
    BY <1>a, <2>1 DEF Sound, Busy
<1>4. ASSUME NEW t \in Tasks, Read(t) PROVE Sound'
  <2>1. /\ UNCHANGED state /\ state # Torn /\ job[t].at = "read"
        /\ job'[t].at = "open" /\ job'[t].copy = state /\ job'[t].update = job[t].update
        /\ \A u \in Tasks : u # t => job'[u] = job[u]
    BY <1>4, ReadFacts DEF stored
  <2> QED
    BY <1>a, <2>1 DEF Sound, Busy
<1>5. ASSUME NEW t \in Tasks, Open(t) PROVE Sound'
  <2>1. /\ job[t].at = "open" /\ state' = Torn
        /\ job'[t].at = "write" /\ job'[t].copy = Updated(t) /\ job'[t].update = job[t].update
        /\ \A u \in Tasks : u # t => job'[u] = job[u]
    BY <1>5, OpenFacts
  <2>2. ~Updated(t).error
    BY <1>a, <2>1, UpdatedFields DEF Sound, Busy
  <2> QED
    BY <1>a, <2>1, <2>2 DEF Sound, Busy
<1>6. ASSUME NEW t \in Tasks, Write(t) PROVE Sound'
  <2>1. /\ job[t].at = "write"
        /\ state' = job[t].copy \/ state' = Torn
        /\ \A u \in Tasks : u # t => job'[u] = job[u]
        /\ \/ job'[t].at \in {"handle", "off", "lock"}
           \/ job'[t].at = "read" /\ job'[t].update \in {"succeeded", "started"}
    BY <1>6, WriteFacts
  <2> QED
    BY <1>a, <2>1 DEF Sound, Busy
<1>7. ASSUME NEW t \in Indexers, Reindex(t) \/ ReindexThrows(t) PROVE Sound'
  <2>1. /\ UNCHANGED state /\ \A u \in Tasks : u # t => job'[u] = job[u]
        /\ \/ job'[t].at \in {"scan", "commit", "meta"}
           \/ job'[t].at = "read" /\ job'[t].update = "refresh"
    BY <1>7, ReindexFacts
  <2> QED
    BY <1>1, <2>1 DEF Busy
<1>8. CASE BeginIndex
  <2>1. /\ UNCHANGED state /\ job'["cli"].at = "lock"
        /\ \A u \in Tasks : u # "cli" => job'[u] = job[u]
    BY <1>8, BeginFacts DEF stored
  <2> QED
    BY <1>1, <2>1 DEF Busy
<1>9. CASE Stop
  <2>1. /\ job'["cli"] = job["cli"] /\ UNCHANGED state
        /\ \A t \in Tasks : t # "cli" => job'[t].at = "off"
    BY <1>9, StoppedFacts DEF Stop
  <2> QED
    BY <1>a, <2>1 DEF Sound, Busy
<1>10. CASE UNCHANGED <<job, state>>
  BY <1>a, <1>10 DEF Sound, Busy
<1>11. \A t \in Tasks : ~ReadTornCaught(t) /\ ~ReadTornThrows(t)
  BY DEF ReadTornCaught, ReadTornThrows
<1>12. CASE UNCHANGED vars \/ Poll \/ Restart \/ \E f \in Files : Save(f) \/ Revert(f)
  BY <1>10, <1>12 DEF vars, stored, Poll, Restart, Save, Revert, Edit
<1> QED
  BY <1>2, <1>3, <1>4, <1>5, <1>6, <1>7, <1>8, <1>9, <1>11, <1>12
     DEF Next, Work, World, Step

-----------------------------------------------------------------------------
(* While no run overlooks an edit, a fingerprint that is current was taken *)
(* when nothing was outdated, in state.json and in every copy of it.       *)
Stamped(x) == x <= edits /\ (x = edits => Outdated = {})

RunsSeeAll ==
  \A t \in Indexers :
    /\ job[t].at = "commit" => job[t].scanned = disk
    /\ job[t].at = "meta" \/ (job[t].at \in {"read", "open"} /\ job[t].update = "refresh") => index = disk

Current ==
  /\ RunsSeeAll
  /\ Stamped(0)
  /\ state # Torn => Stamped(state.fingerprint)
  /\ \A t \in Tasks : job[t].at \in {"open", "write"} => Stamped(job[t].copy.fingerprint)

FInv == events \cap {"unseenByCli", "unseenByCo"} = {} => Current

LEMMA InitCurrent == Init => Current
<1> SUFFICES ASSUME Init PROVE Current
  OBVIOUS
<1>1. state = Fresh /\ edits = 0 /\ index = disk /\ \A t \in Tasks : job[t].at = "off"
  BY OffTyped DEF Init
<1>2. Stamped(0) /\ Fresh.fingerprint = 0
  BY <1>1 DEF Stamped, Outdated, Fresh
<1>3. RunsSeeAll
  BY <1>1, TasksDiffer DEF RunsSeeAll
<1> QED
  BY <1>1, <1>2, <1>3 DEF Current

(* An edit makes every fingerprint an old one, and none is made behind the *)
(* back of a run.                                                          *)
LEMMA EditCurrent ==
  ASSUME TInv, Shaped, Current, NEW f \in Files, Save(f) \/ Revert(f),
         events' \cap {"unseenByCli", "unseenByCo"} = {}
  PROVE  Current'
<1> USE TasksDiffer
<1>1. /\ UNCHANGED <<stored, watcher, job, rerun>>
      /\ edits' = edits + 1 /\ edits \in Nat
  BY DEF Save, Revert, Edit, TInv, TypeOK
<1>2. \A t \in Indexers : lock = t => job[t].at = "scan"
  BY DEF Save, Revert, Unseen, Indexers
<1>3. RunsSeeAll'
  <2>1. \A t \in Indexers : ~(job[t].at \in {"commit", "meta"} \/ (Busy(t) /\ job[t].update = "refresh"))
    BY <1>2 DEF Shaped, Holds, Busy
  <2> QED
    BY <1>1, <2>1 DEF RunsSeeAll, Busy
<1>4. ASSUME NEW x \in Nat, Stamped(x) PROVE Stamped(x)'
  BY <1>1, <1>4 DEF Stamped
<1>5. Stamped(0)'
  BY <1>4 DEF Current
<1>6. (state # Torn => Stamped(state.fingerprint))'
  <2>1. CASE state # Torn
    <3>1. state.fingerprint \in Nat
      BY <2>1 DEF TInv, TypeOK, State
    <3>2. state' = state /\ Stamped(state.fingerprint)
      BY <1>1, <2>1 DEF stored, Current
    <3>3. state.fingerprint <= edits
      BY <3>2 DEF Stamped
    <3>4. state'.fingerprint = state.fingerprint
      BY <3>2
    <3>5. ~(edits + 1 <= state.fingerprint) /\ state.fingerprint <= edits + 1
      BY <1>1, <3>1, <3>3
    <3> QED
      BY <1>1, <3>4, <3>5 DEF Stamped
  <2> QED
    BY <1>1, <2>1 DEF stored
<1>7. ASSUME NEW t \in Tasks, job'[t].at \in {"open", "write"}
      PROVE  Stamped(job[t].copy.fingerprint)'
  <2>1. job[t].copy.fingerprint \in Nat /\ job' = job
    BY <1>1, <1>7 DEF TInv, StepsOK, State
  <2>2. job[t].copy.fingerprint <= edits
    BY <1>7, <2>1 DEF Current, Stamped
  <2> QED
    BY <1>1, <2>1, <2>2 DEF Stamped
<1> QED
  BY <1>1, <1>3, <1>5, <1>6, <1>7 DEF Current

LEMMA RunCurrent ==
  ASSUME TInv, Current, NEW t \in Indexers, Reindex(t) \/ ReindexThrows(t)
  PROVE  Current'
<1> USE TasksDiffer
<1>0. disk \in Sources /\ t \in Tasks
  BY DEF TInv, TypeOK
<1>1. /\ UNCHANGED <<disk, edits, state>>
      /\ \A u \in Tasks : u # t => job'[u] = job[u]
      /\ job'[t].at \notin {"open", "write"}
  BY ReindexFacts DEF sources
<1>2. CASE index' = index
  <2>1. RunsSeeAll'
    <3>1. \/ job'[t].at = "scan" \/ job'[t].at = "off"
          \/ job'[t].at = "commit" /\ job'[t].scanned = disk
          \/ job'[t].at = "read" /\ job'[t].update = "failed"
          \/ job[t].at = "meta"
          \/ job[t].at = "commit" /\ job'[t].at = "meta"
      BY ReindexFacts
    <3>2. CASE job[t].at = "commit" /\ job'[t].at = "meta"
      <4>1. PICK late \in SUBSET Files :
              index' = [f \in Files |-> IF f \in late THEN disk[f] ELSE job[t].scanned[f]]
        BY <3>2, ReindexFacts
      <4>2. job[t].scanned = disk
        BY <3>2 DEF Current, RunsSeeAll
      <4>3. index' = disk
        BY <1>0, <4>1, <4>2 DEF Sources
      <4> QED
        BY <1>1, <1>2, <3>2, <4>3 DEF Current, RunsSeeAll
    <3>3. CASE job[t].at = "meta"
      <4>1. index = disk
        BY <3>3 DEF Current, RunsSeeAll
      <4>2. job'[t].at # "commit"
        BY <3>3, ReindexFacts
      <4> QED
        BY <1>1, <1>2, <4>1, <4>2 DEF Current, RunsSeeAll
    <3> QED
      BY <1>1, <1>2, <3>1, <3>2, <3>3 DEF Current, RunsSeeAll
  <2> QED
    BY <1>1, <1>2, <2>1 DEF Current, Stamped, Outdated
<1>3. CASE index' # index
  <2>1. job[t].at = "commit" /\ job'[t].at = "meta"
    BY <1>3, ReindexFacts
  <2>2. PICK late \in SUBSET Files :
          index' = [f \in Files |-> IF f \in late THEN disk[f] ELSE job[t].scanned[f]]
    BY <2>1, ReindexFacts
  <2>3. job[t].scanned = disk
    BY <2>1 DEF Current, RunsSeeAll
  <2>4. index' = disk
    BY <1>0, <2>2, <2>3 DEF Sources
  <2>5. Outdated' = {}
    BY <1>1, <2>4 DEF Outdated
  <2>6. RunsSeeAll'
    BY <1>1, <2>1, <2>4 DEF Current, RunsSeeAll
  <2> QED
    BY <1>1, <2>5, <2>6 DEF Current, Stamped
<1> QED
  BY <1>2, <1>3

LEMMA FInvStep == TInv /\ Shaped /\ FInv /\ [Next]_vars => FInv'
<1> SUFFICES ASSUME TInv, Shaped, FInv, [Next]_vars,
                    events' \cap {"unseenByCli", "unseenByCo"} = {}
             PROVE  Current'
  BY DEF FInv
<1> USE TasksDiffer
<1>a. Current
  <2>1. CASE Next
    BY <2>1, EventsStay DEF FInv
  <2>2. CASE UNCHANGED vars
    BY <2>2 DEF vars, history, FInv
  <2> QED
    BY <2>1, <2>2
<1>0. job \in [Tasks -> Job] /\ "co" \in Indexers /\ "cli" \in Indexers
  BY DEF TInv, TypeOK, Indexers
<1>b. ASSUME UNCHANGED <<disk, edits, index>> PROVE \A x : Stamped(x)' <=> Stamped(x)
  BY <1>b DEF Stamped, Outdated
<1>1. ASSUME UNCHANGED <<disk, edits, index, state>>,
             \A t \in Tasks : \/ job'[t] = job[t]
                              \/ job'[t].at \in {"off", "lock", "handle"}
                              \/ job'[t].at = "read" /\ job'[t].update # "refresh"
      PROVE  Current'
  <2>1. RunsSeeAll'
    BY <1>a, <1>1 DEF Current, RunsSeeAll
  <2>2. \A x : Stamped(x)' <=> Stamped(x)
    BY <1>1, <1>b
  <2> QED
    BY <1>a, <1>1, <2>1, <2>2 DEF Current
<1>2. ASSUME NEW w \in Flushes, Flush(w) PROVE Current'
  <2>1. /\ job'[w].at = "read" /\ job'[w].update = "observe" /\ UNCHANGED <<disk, edits, index, state>>
        /\ \A t \in Tasks : t # w => job'[t] = job[t]
    BY <1>0, <1>2 DEF Flush, Off, stored, sources
  <2> QED
    BY <1>1, <2>1
<1>3. ASSUME NEW w \in Flushes, Handle(w) PROVE Current'
  <2>1. /\ UNCHANGED <<disk, edits, index, state>> /\ job'[w].at = "off"
        /\ \/ job'["co"].at = "read" /\ job'["co"].update = "started"
           \/ job'["co"] = job["co"]
        /\ \A t \in Tasks : t # w /\ t # "co" => job'[t] = job[t]
    BY <1>3, HandleFacts DEF stored, sources
  <2> QED
    BY <1>1, <2>1
<1>4. ASSUME NEW t \in Tasks, Read(t) PROVE Current'
  <2>1. /\ UNCHANGED <<disk, edits, index, state>> /\ state # Torn /\ job[t].at = "read"
        /\ job'[t].at = "open" /\ job'[t].copy = state /\ job'[t].update = job[t].update
        /\ \A u \in Tasks : u # t => job'[u] = job[u]
    BY <1>4, ReadFacts DEF stored, sources
  <2>2. RunsSeeAll'
    BY <1>a, <2>1 DEF Current, RunsSeeAll
  <2>3. \A x : Stamped(x)' <=> Stamped(x)
    BY <1>b, <2>1
  <2> QED
    BY <1>a, <2>1, <2>2, <2>3 DEF Current
<1>5. ASSUME NEW t \in Tasks, Open(t) PROVE Current'
  <2>1. /\ UNCHANGED <<disk, edits, index>> /\ job[t].at = "open" /\ state' = Torn
        /\ job'[t].at = "write" /\ job'[t].copy = Updated(t) /\ job'[t].update = job[t].update
        /\ \A u \in Tasks : u # t => job'[u] = job[u]
    BY <1>5, OpenFacts DEF sources
  <2>2. Stamped(Updated(t).fingerprint)
    <3>1. CASE job[t].update = "refresh"
      <4>1. t \in Indexers
        BY <2>1, <3>1 DEF Shaped, Busy, Tasks
      <4>2. index = disk /\ edits \in Nat /\ Updated(t).fingerprint = edits
        BY <1>a, <2>1, <3>1, <4>1, UpdatedFields DEF Current, RunsSeeAll, TInv, TypeOK
      <4>3. Outdated = {}
        BY <4>2 DEF Outdated
      <4> QED
        BY <4>2, <4>3 DEF Stamped
    <3>2. CASE job[t].update # "refresh"
      <4>1. Updated(t).fingerprint = job[t].copy.fingerprint
        BY <2>1, <3>2, UpdatedFields
      <4> QED
        BY <1>a, <2>1, <4>1 DEF Current
    <3> QED
      BY <3>1, <3>2
  <2>3. RunsSeeAll'
    BY <1>a, <2>1 DEF Current, RunsSeeAll
  <2>4. \A x : Stamped(x)' <=> Stamped(x)
    BY <1>b, <2>1
  <2> QED
    BY <1>a, <2>1, <2>2, <2>3, <2>4 DEF Current
<1>6. ASSUME NEW t \in Tasks, Write(t) PROVE Current'
  <2>1. /\ UNCHANGED <<disk, edits, index>> /\ job[t].at = "write"
        /\ state' = job[t].copy \/ state' = Torn
        /\ \A u \in Tasks : u # t => job'[u] = job[u]
        /\ \/ job'[t].at \in {"handle", "off", "lock"}
           \/ job'[t].at = "read" /\ job'[t].update \in {"succeeded", "started"}
    BY <1>6, WriteFacts DEF sources
  <2>2. RunsSeeAll'
    BY <1>a, <2>1 DEF Current, RunsSeeAll
  <2>3. \A x : Stamped(x)' <=> Stamped(x)
    BY <1>b, <2>1
  <2> QED
    BY <1>a, <2>1, <2>2, <2>3 DEF Current
<1>7. ASSUME NEW t \in Indexers, Reindex(t) \/ ReindexThrows(t) PROVE Current'
  BY <1>a, <1>7, RunCurrent
<1>8. CASE BeginIndex
  <2>1. /\ UNCHANGED <<disk, edits, index, state>> /\ job'["cli"].at = "lock"
        /\ \A u \in Tasks : u # "cli" => job'[u] = job[u]
    BY <1>8, BeginFacts DEF stored, sources
  <2> QED
    BY <1>1, <2>1
<1>9. CASE Stopped /\ UNCHANGED <<disk, edits, index, state>>
  <2>1. /\ job'["cli"] = job["cli"]
        /\ \A t \in Tasks : t # "cli" => job'[t].at = "off"
    BY <1>9, StoppedFacts
  <2> QED
    BY <1>1, <1>9, <2>1
<1>10. ASSUME NEW t \in Tasks, ReadTornCaught(t) PROVE Current'
  <2>1. /\ UNCHANGED <<disk, edits, index, state>> /\ job[t].at = "read"
        /\ \A u \in Tasks : u # t => job'[u] = job[u]
    <3>1. \/ job' = [job EXCEPT ![t].at = "open", ![t].copy = Fresh]
          \/ job' = Goto(t, "read", "failed")
      BY <1>10 DEF ReadTornCaught
    <3>2. \A u \in Tasks : u # t => job'[u] = job[u]
      BY <1>0, <3>1 DEF Goto
    <3> QED
      BY <1>10, <3>2 DEF ReadTornCaught, stored, sources
  <2>2. CASE job' = Goto(t, "read", "failed")
    <3>1. job'[t].at = "read" /\ job'[t].update = "failed"
      BY <1>0, <2>2, GotoTyped
    <3> QED
      BY <1>1, <2>1, <3>1
  <2>3. CASE job' = [job EXCEPT ![t].at = "open", ![t].copy = Fresh]
    <3>1. job'[t].at = "open" /\ job'[t].copy = Fresh /\ job'[t].update = job[t].update
      BY <1>0, <2>3 DEF Job
    <3>2. RunsSeeAll'
      BY <1>a, <2>1, <3>1 DEF Current, RunsSeeAll
    <3>3. \A x : Stamped(x)' <=> Stamped(x)
      BY <1>b, <2>1
    <3>4. Fresh.fingerprint = 0
      BY DEF Fresh
    <3> QED
      BY <1>a, <2>1, <3>1, <3>2, <3>3, <3>4 DEF Current
  <2> QED
    BY <1>10, <2>2, <2>3 DEF ReadTornCaught
<1>11. ASSUME NEW t \in Tasks, ReadTornThrows(t) PROVE Current'
  <2>1. UNCHANGED <<disk, edits, index, state>>
    BY <1>11 DEF ReadTornThrows, sources
  <2>2. CASE job' = [job EXCEPT ![t] = Off]
    <3>1. job'[t].at = "off" /\ \A u \in Tasks : u # t => job'[u] = job[u]
      BY <1>0, <2>2, OffAgain
    <3> QED
      BY <1>1, <2>1, <3>1
  <2> QED
    BY <1>9, <1>11, <2>1, <2>2 DEF ReadTornThrows
<1>12. CASE UNCHANGED <<disk, edits, index, state, job>>
  BY <1>1, <1>12
<1>13. CASE UNCHANGED vars \/ Poll \/ Restart
  BY <1>12, <1>13 DEF vars, stored, sources, Poll, Restart
<1>14. CASE Stop
  BY <1>9, <1>14 DEF Stop, sources
<1>15. ASSUME NEW f \in Files, Save(f) \/ Revert(f) PROVE Current'
  BY <1>a, <1>15, EditCurrent
<1> QED
  BY <1>2, <1>3, <1>4, <1>5, <1>6, <1>7, <1>8, <1>10, <1>11, <1>13, <1>14, <1>15
     DEF Next, Work, World, Step

-----------------------------------------------------------------------------
(* With --auto-reindex, and while nothing in Lost happens, an outdated     *)
(* file will be met by a run: its change is still to be observed, or asked *)
(* for with rerun (Coming), or the coordinator has yet to look at it       *)
(* (Ahead); or a run has failed, and says so.  Any flush at work covers    *)
(* every file, since its handler starts a run or asks for one.             *)
Coming(f) ==
  \/ polled[f] # disk[f]
  \/ f \in pending
  \/ \E w \in Flushes : job[w].at # "off"
  \/ Running /\ rerun

Ahead ==
  \/ job["co"].at \in {"lock", "scan", "commit"}
  \/ Busy("co") /\ job["co"].update \in {"started", "failed"}

Shown == ~Running /\ state # Torn /\ state.error

Awaited == \A f \in Outdated : Coming(f) \/ Ahead \/ Shown

ScanSees ==
  job["co"].at = "commit" => \A f \in Files : job["co"].scanned[f] = disk[f] \/ Coming(f)

SaysSo == job["co"].at = "write" /\ job["co"].update = "failed" => job["co"].copy.error

Followed == RunSeesAll /\ Numbered /\ TornByWriter /\ Awaited /\ ScanSees /\ SaysSo

CInv == events \cap Lost = {} /\ auto => Followed

LEMMA InitFollowed == Init => Followed
<1> SUFFICES ASSUME Init PROVE Followed
  OBVIOUS
<1>1. /\ \A t \in Tasks : job[t].at = "off"
      /\ state = Fresh /\ edits = 0
      /\ disk = [f \in Files |-> 0] /\ polled = disk /\ index = disk
  BY OffTyped DEF Init
<1>2. RunSeesAll /\ ScanSees /\ SaysSo
  BY <1>1, TasksDiffer DEF RunSeesAll, ScanSees, SaysSo, Busy
<1>3. Numbered /\ Awaited
  BY <1>1 DEF Numbered, Awaited, Outdated
<1>4. TornByWriter
  BY <1>1, FreshTyped, TornAssumption DEF TornByWriter
<1> QED
  BY <1>2, <1>3, <1>4 DEF Followed

(* What is coming stays so if no flush ends and no run does.               *)
LEMMA ComingStays ==
  ASSUME NEW f, Coming(f), UNCHANGED <<disk, polled, pending>>,
         \A w \in Flushes : job'[w].at = "off" => job[w].at = "off",
         Running /\ rerun => (Running /\ rerun)'
  PROVE  Coming(f)'
BY DEF Coming

(* The explicit run, which finds nothing outdated from its commit on.      *)
LEMMA CliFollowed ==
  ASSUME TInv, Followed, Reindex("cli") \/ ReindexThrows("cli") \/ BeginIndex
  PROVE  Followed'
<1> USE TasksDiffer
<1>0. /\ disk \in Sources /\ "cli" \in Indexers /\ state \in State \cup {Torn}
      /\ lock \in Indexers \cup {"free"}
  BY DEF TInv, TypeOK, Indexers
<1>1. /\ UNCHANGED <<disk, edits, polled, pending, state>> /\ UNCHANGED rerun
      /\ \A u \in Tasks : u # "cli" => job'[u] = job[u]
      /\ job["cli"].at # "write"
  BY <1>0, ReindexFacts, BeginFacts DEF sources, watcher, stored
<1>2. RunSeesAll' /\ (index' = index \/ index' = disk)
  <2>1. CASE BeginIndex
    BY <2>1, BeginFacts DEF RunSeesAll, Busy, stored
  <2>2. CASE job["cli"].at = "commit" /\ job'["cli"].at = "meta"
    <3>1. PICK late \in SUBSET Files :
            index' = [f \in Files |-> IF f \in late THEN disk[f] ELSE job["cli"].scanned[f]]
      BY <1>0, <2>2, ReindexFacts, BeginFacts
    <3>2. job["cli"].scanned = disk /\ lock = "cli"
      BY <2>2 DEF Followed, RunSeesAll
    <3>3. index' = disk
      BY <1>0, <3>1, <3>2 DEF Sources
    <3>4. lock' = "cli"
      BY <1>0, <2>2, <3>2, ReindexFacts, BeginFacts
    <3> QED
      BY <1>1, <2>2, <3>3, <3>4 DEF RunSeesAll, Busy
  <2>3. CASE ~BeginIndex /\ ~(job["cli"].at = "commit" /\ job'["cli"].at = "meta")
    <3>1. /\ index' = index
          /\ \/ job'["cli"].at = "scan" /\ lock' = "cli"
             \/ job["cli"].at = "scan" /\ job'["cli"].at = "commit" /\ job'["cli"].scanned = disk /\ lock' = lock
             \/ /\ job["cli"].at = "meta" /\ lock' = lock
                /\ job'["cli"].at = "read" /\ job'["cli"].update = "refresh"
             \/ job'["cli"].at = "off"
      BY <1>0, <2>3, ReindexFacts
    <3> QED
      BY <1>1, <3>1 DEF Followed, RunSeesAll, Busy
  <2> QED
    BY <2>1, <2>2, <2>3
<1>3. Numbered' /\ TornByWriter'
  BY <1>1 DEF Followed, Numbered, TornByWriter
<1>4. job'["co"] = job["co"] /\ \A w \in Flushes : job'[w] = job[w]
  BY <1>1
<1>5. \A f : Coming(f) => Coming(f)'
  BY <1>1, <1>4 DEF Coming, Running
<1>6. Outdated' \subseteq Outdated
  BY <1>1, <1>2 DEF Outdated
<1>7. Awaited'
  BY <1>1, <1>4, <1>5, <1>6 DEF Followed, Awaited, Ahead, Shown, Running, Busy
<1>8. ScanSees' /\ SaysSo'
  BY <1>1, <1>4, <1>5 DEF Followed, ScanSees, SaysSo
<1> QED
  BY <1>2, <1>3, <1>7, <1>8 DEF Followed

(* The run of the coordinator.  A failure is one that will be said.         *)
LEMMA CoFollowed ==
  ASSUME TInv, Shaped, Followed, Reindex("co") \/ ReindexThrows("co")
  PROVE  Followed'
<1> USE TasksDiffer
<1>0. "co" \in Indexers
  BY DEF Indexers
<1>1. /\ UNCHANGED <<disk, edits, polled, pending, state>> /\ UNCHANGED rerun
      /\ \A u \in Tasks : u # "co" => job'[u] = job[u]
      /\ job["co"].at \notin {"write", "off"} /\ job'["co"].at \notin {"write", "off"}
  BY <1>0, ReindexFacts DEF sources, watcher
<1>2. RunSeesAll'
  <2>1. lock' = "cli" <=> lock = "cli"
    BY <1>0, ReindexFacts DEF Shaped, Holds
  <2>2. index' = index \/ lock = "co"
    BY <1>0, ReindexFacts DEF Shaped, Holds
  <2> QED
    BY <1>1, <2>1, <2>2 DEF Followed, RunSeesAll, Busy
<1>3. Numbered' /\ TornByWriter'
  BY <1>1 DEF Followed, Numbered, TornByWriter
<1>4. \A w \in Flushes : job'[w] = job[w]
  BY <1>1
<1>5. \A f : Coming(f) => Coming(f)'
  BY <1>1, <1>4 DEF Coming, Running
<1>6. SaysSo'
  BY <1>1 DEF SaysSo
<1>7. ScanSees'
  <2>1. job'["co"].at = "commit" => job'["co"].scanned = disk
    BY <1>0, ReindexFacts
  <2> QED
    BY <1>1, <2>1 DEF ScanSees
<1>8. Awaited'
  <2>1. CASE job[ "co"].at = "commit" /\ job'["co"].at = "meta"
    <3>1. PICK late \in SUBSET Files :
            index' = [f \in Files |-> IF f \in late THEN disk[f] ELSE job["co"].scanned[f]]
      BY <1>0, <2>1, ReindexFacts
    <3>2. ASSUME NEW f \in Outdated' PROVE Coming(f)
      <4>1. f \in Files /\ job["co"].scanned[f] # disk[f]
        BY <1>1, <3>1, <3>2 DEF Outdated
      <4> QED
        BY <2>1, <4>1 DEF Followed, ScanSees
    <3> QED
      BY <1>5, <3>2 DEF Awaited
  <2>2. CASE /\ ~(job["co"].at = "commit" /\ job'["co"].at = "meta")
             /\ \/ job'["co"].at \in {"scan", "commit"}
                \/ job'["co"].at = "read" /\ job'["co"].update = "failed"
    BY <2>2 DEF Awaited, Ahead, Busy
  <2>3. CASE job["co"].at = "meta" /\ job'["co"].at = "read" /\ job'["co"].update = "refresh"
    <3>1. index' = index
      BY <1>0, <2>3, ReindexFacts
    <3>2. Outdated' = Outdated
      BY <1>1, <3>1 DEF Outdated
    <3>3. \A f \in Outdated : Coming(f)
      BY <2>3 DEF Followed, Awaited, Ahead, Busy, Shown, Running
    <3> QED
      BY <1>5, <3>2, <3>3 DEF Awaited
  <2> QED
    BY <1>0, <2>1, <2>2, <2>3, ReindexFacts
<1> QED
  BY <1>2, <1>3, <1>6, <1>7, <1>8 DEF Followed

(* An edit is one that the poll will see, and no explicit run overlooks it. *)
LEMMA SaveFollowed ==
  ASSUME TInv, Followed, NEW f \in Files, Save(f), "unseenByCli" \notin events'
  PROVE  Followed'
<1> USE TasksDiffer
<1>1. /\ UNCHANGED <<stored, watcher, job>> /\ UNCHANGED rerun
      /\ disk' = [disk EXCEPT ![f] = edits + 1] /\ edits' = edits + 1
      /\ disk \in Sources /\ polled \in Sources /\ edits \in Nat
  BY DEF Save, Edit, TInv, TypeOK
<1>2. lock = "cli" => job["cli"].at = "scan"
  BY DEF Save, Unseen, Indexers
<1>3. job["cli"].at \notin {"commit", "meta", "read", "open", "write"}
  BY <1>2 DEF Followed, RunSeesAll
<1>4. RunSeesAll' /\ TornByWriter' /\ SaysSo'
  BY <1>1, <1>3 DEF Followed, RunSeesAll, TornByWriter, SaysSo, Busy, stored
<1>5. Numbered'
  BY <1>1 DEF Followed, Numbered, watcher, Sources
<1>6. Coming(f)'
  <2>1. polled'[f] # disk'[f]
    BY <1>1 DEF Followed, Numbered, watcher, Sources
  <2> QED
    BY <2>1 DEF Coming
<1>7. ASSUME NEW g \in Files, g # f
      PROVE  disk'[g] = disk[g] /\ (Coming(g) => Coming(g)') /\ (g \in Outdated' => g \in Outdated)
  <2>1. disk'[g] = disk[g] /\ polled' = polled /\ index' = index
    BY <1>1, <1>7 DEF Sources, watcher, stored
  <2> QED
    BY <1>1, <2>1 DEF Coming, Running, Outdated, watcher
<1>8. ScanSees'
  BY <1>1, <1>6, <1>7 DEF Followed, ScanSees
<1>9. Awaited'
  <2>1. Outdated' \subseteq Files
    BY DEF Outdated
  <2> QED
    BY <1>1, <1>6, <1>7, <2>1 DEF Followed, Awaited, Ahead, Shown, Running, Busy, stored
<1> QED
  BY <1>4, <1>5, <1>8, <1>9 DEF Followed

(* The poll, the debounce timer and the handler.                           *)
LEMMA ObserveFollowed ==
  ASSUME TInv, Shaped, Followed, auto, Poll \/ \E w \in Flushes : Flush(w) \/ Handle(w)
  PROVE  Followed'
<1> USE TasksDiffer
<1>1. CASE Poll
  <2>1. /\ UNCHANGED <<disk, edits, index, lock, state, job>> /\ UNCHANGED rerun
        /\ \A f \in Files : polled'[f] = polled[f] \/ (polled'[f] = disk[f] /\ f \in pending')
        /\ pending \subseteq pending'
    BY <1>1 DEF Poll, TInv, TypeOK, Sources, sources, stored
  <2>2. \A f \in Files : Coming(f) => Coming(f)'
    BY <2>1 DEF Coming, Running
  <2>3. RunSeesAll' /\ TornByWriter' /\ SaysSo' /\ Numbered'
    BY <2>1 DEF Followed, RunSeesAll, TornByWriter, SaysSo, Numbered, Busy
  <2>4. ScanSees'
    BY <2>1, <2>2 DEF Followed, ScanSees
  <2>5. Awaited'
    BY <2>1, <2>2 DEF Followed, Awaited, Outdated, Ahead, Shown, Running, Busy
  <2> QED
    BY <2>3, <2>4, <2>5 DEF Followed
<1>2. ASSUME NEW w \in Flushes, Flush(w) PROVE Followed'
  <2>1. /\ UNCHANGED <<disk, edits, index, lock, state, polled>>
        /\ job'[w].at = "read" /\ job[w].at = "off"
        /\ \A t \in Tasks : t # w => job'[t] = job[t]
    BY <1>2 DEF Flush, TInv, TypeOK, Off, sources, stored
  <2>2. \A f : Coming(f)'
    BY <2>1 DEF Coming
  <2>3. RunSeesAll' /\ TornByWriter' /\ SaysSo' /\ Numbered'
    BY <2>1 DEF Followed, RunSeesAll, TornByWriter, SaysSo, Numbered, Busy
  <2> QED
    BY <2>2, <2>3 DEF Followed, ScanSees, Awaited
<1>3. ASSUME NEW w \in Flushes, Handle(w) PROVE Followed'
  <2>1. /\ UNCHANGED <<disk, edits, index, lock, state, polled>>
        /\ job[w].at = "handle" /\ job'[w].at = "off"
        /\ \A t \in Tasks : t # w /\ t # "co" => job'[t] = job[t]
    BY <1>3, HandleFacts DEF sources, stored, watcher
  <2>2. \/ /\ job["co"].at = "off"
           /\ job'["co"].at = "read" /\ job'["co"].update = "started"
        \/ job'["co"] = job["co"] /\ (Running /\ rerun)'
    <3>1. job'["co"] = job["co"] => (Running' <=> Running)
      BY DEF Running
    <3> QED
      BY <1>3, <3>1, HandleFacts
  <2>3. RunSeesAll' /\ Numbered'
    BY <2>1 DEF Followed, RunSeesAll, Numbered, Busy
  <2>4. TornByWriter'
    BY <2>1, <2>2 DEF Followed, TornByWriter
  <2>5. SaysSo'
    BY <2>2 DEF Followed, SaysSo
  <2>6. ScanSees' /\ Awaited'
    <3>1. CASE job'["co"].at = "read" /\ job'["co"].update = "started"
      BY <3>1 DEF ScanSees, Awaited, Ahead, Busy
    <3>2. CASE (Running /\ rerun)'
      BY <3>2 DEF ScanSees, Awaited, Coming
    <3> QED
      BY <2>2, <3>1, <3>2
  <2> QED
    BY <2>3, <2>4, <2>5, <2>6 DEF Followed
<1> QED
  BY <1>1, <1>2, <1>3

(* Reading and writing state.json.  Who writes while no run of the         *)
(* coordinator is on is a flush, whose handler comes next, or an explicit  *)
(* run, which has left nothing outdated.                                   *)
LEMMA OpenFollowed ==
  ASSUME TInv, Shaped, Followed, NEW t \in Tasks, Read(t) \/ Open(t)
  PROVE  Followed'
<1> USE TasksDiffer
<1>1. /\ UNCHANGED <<disk, edits, index, lock, polled, pending>> /\ UNCHANGED rerun
      /\ job[t].at \in {"read", "open"}
      /\ job'[t].at \in {"open", "write"} /\ job'[t].update = job[t].update
      /\ job'[t].at = "open" => state' = state /\ job[t].at = "read"
      /\ job'[t].at = "write" => job[t].at = "open" /\ job'[t].copy = Updated(t)
      /\ \A u \in Tasks : u # t => job'[u] = job[u]
  BY ReadFacts, OpenFacts DEF sources, stored, watcher
<1>2. RunSeesAll' /\ Numbered'
  BY <1>1 DEF Followed, RunSeesAll, Numbered, Busy
<1>3. TornByWriter'
  <2>1. CASE Read(t)
    BY <2>1, ReadFacts DEF TornByWriter, stored
  <2>2. CASE Open(t)
    BY <2>2, OpenFacts DEF TornByWriter
  <2> QED
    BY <2>1, <2>2
<1>4. SaysSo'
  BY <1>1, UpdatedFields DEF Followed, SaysSo
<1>5. \A f : Coming(f) => Coming(f)'
  BY <1>1 DEF Coming, Running
<1>6. ScanSees'
  BY <1>1, <1>5 DEF Followed, ScanSees
<1>7. Ahead => Ahead'
  BY <1>1 DEF Ahead, Busy
<1>8. ASSUME NEW f \in Outdated' PROVE Coming(f)' \/ Ahead' \/ Shown'
  <2>1. f \in Outdated /\ f \in Files
    BY <1>1, <1>8 DEF Outdated
  <2>2. CASE Coming(f) \/ Ahead
    BY <1>5, <1>7, <2>2
  <2>3. CASE Shown
    <3>1. t # "co"
      BY <1>1, <2>3 DEF Shown, Running
    <3>2. t # "cli"
      BY <1>1, <2>1 DEF Followed, RunSeesAll, Outdated
    <3>3. t \in Flushes
      BY <3>1, <3>2 DEF Tasks, Indexers
    <3> QED
      BY <1>1, <3>3 DEF Coming
  <2> QED
    BY <2>1, <2>2, <2>3 DEF Followed, Awaited
<1> QED
  BY <1>2, <1>3, <1>4, <1>6, <1>8 DEF Followed, Awaited

LEMMA WriteFollowed ==
  ASSUME TInv, Shaped, Followed, NEW t \in Tasks, Write(t), "tornWrite" \notin events'
  PROVE  Followed'
<1> USE TasksDiffer
<1>1. /\ UNCHANGED <<disk, edits, index, polled, pending>>
      /\ job[t].at = "write" /\ state' = job[t].copy /\ state' # Torn
      /\ \A u \in Tasks : u # t => job'[u] = job[u]
  BY WriteFacts, TornAssumption DEF sources, watcher
<1>2. Numbered' /\ TornByWriter'
  BY <1>1 DEF Followed, Numbered, TornByWriter
<1>3. CASE t \in Flushes
  <2>1. job'[t].at = "handle" /\ lock' = lock /\ job'["co"] = job["co"] /\ job'["cli"] = job["cli"]
    BY <1>1, <1>3, WriteFacts
  <2>2. \A f : Coming(f)'
    BY <1>3, <2>1 DEF Coming
  <2>3. RunSeesAll' /\ SaysSo'
    BY <1>1, <2>1 DEF Followed, RunSeesAll, SaysSo, Busy
  <2> QED
    BY <1>2, <2>2, <2>3 DEF Followed, ScanSees, Awaited
<1>4. CASE t = "cli"
  <2>1. job'[t].at = "off" /\ job'["co"] = job["co"] /\ UNCHANGED rerun
    BY <1>1, <1>4, WriteFacts
  <2>2. index = disk
    BY <1>1, <1>4 DEF Followed, RunSeesAll
  <2>3. Awaited'
    BY <1>1, <2>2 DEF Awaited, Outdated
  <2>4. RunSeesAll' /\ SaysSo'
    BY <1>4, <2>1 DEF Followed, RunSeesAll, SaysSo, Busy
  <2>5. \A f : Coming(f) => Coming(f)'
    BY <1>1, <1>4, <2>1 DEF Coming, Running
  <2>6. ScanSees'
    BY <1>1, <2>1, <2>5 DEF Followed, ScanSees
  <2> QED
    BY <1>2, <2>3, <2>4, <2>6 DEF Followed
<1>5. CASE t = "co"
  <2>1. job'["cli"] = job["cli"] /\ \A w \in Flushes : job'[w] = job[w]
    BY <1>1, <1>5
  <2>2. job'["co"].at \notin {"write", "commit"}
    BY <1>5, WriteFacts
  <2>3. SaysSo' /\ ScanSees'
    BY <2>2 DEF SaysSo, ScanSees
  <2>4. RunSeesAll'
    <3>1. lock = "cli" => lock' = "cli"
      <4>1. "co" \in Indexers
        BY DEF Indexers
      <4> QED
        BY <1>1, <1>5, <4>1, WriteFacts DEF Shaped, Holds, Busy
    <3> QED
      BY <1>1, <2>1, <3>1 DEF Followed, RunSeesAll, Busy
  <2>5. Outdated' = Outdated
    BY <1>1 DEF Outdated
  <2>6. CASE job'["co"].at = "lock" \/ (job'["co"].at = "read" /\ job'["co"].update = "started")
    <3>1. Awaited'
      BY <2>6 DEF Awaited, Ahead, Busy
    <3> QED
      BY <1>2, <2>3, <2>4, <3>1 DEF Followed
  <2>7. CASE job[t].update = "failed" /\ job'["co"].at = "off"
    <3>1. Shown'
      BY <1>1, <1>5, <2>7 DEF Followed, SaysSo, Shown, Running
    <3> QED
      BY <1>2, <2>3, <2>4, <3>1 DEF Followed, Awaited
  <2>8. CASE \/ job[t].update = "refresh" /\ job'["co"].at = "read" /\ UNCHANGED rerun
             \/ job[t].update = "succeeded" /\ ~rerun /\ job'["co"].at = "off"
    <3>1. \A f \in Outdated : Coming(f)
      BY <1>1, <1>5, <2>8 DEF Followed, Awaited, Ahead, Busy, Shown, Running
    <3>2. \A f : Coming(f) => Coming(f)'
      BY <1>1, <2>1, <2>8 DEF Coming, Running
    <3>3. Awaited'
      BY <2>5, <3>1, <3>2 DEF Awaited
    <3> QED
      BY <1>2, <2>3, <2>4, <3>3 DEF Followed
  <2> QED
    BY <1>5, <2>6, <2>7, <2>8, WriteFacts
<1> QED
  BY <1>3, <1>4, <1>5 DEF Tasks, Indexers

LEMMA CInvStep == TInv /\ Shaped /\ LInv /\ CInv /\ [Next]_vars => CInv'
<1> SUFFICES ASSUME TInv, Shaped, LInv, CInv, [Next]_vars, (events \cap Lost = {})', auto'
             PROVE  Followed'
  BY DEF CInv
<1>1. CASE UNCHANGED vars
  <2>1. /\ UNCHANGED <<disk, edits, index, state, lock, polled, pending, job, auto, events, rerun>>
    BY <1>1 DEF vars, sources, stored, watcher, history
  <2>2. Followed
    BY <2>1 DEF CInv
  <2> QED
    BY <2>1, <2>2 DEF Followed, RunSeesAll, Numbered, TornByWriter, Awaited, ScanSees,
          SaysSo, Outdated, Coming, Ahead, Shown, Running, Busy
<1>2. CASE Next
  <2>1. events \cap Lost = {} /\ alive
    BY <1>2, EventsStay DEF LInv
  <2>2. auto
    BY <1>2, <2>1, EventsStay
  <2>3. Followed
    BY <2>1, <2>2 DEF CInv
  <2>4. CASE Poll \/ \E w \in Flushes : Flush(w) \/ Handle(w)
    BY <2>2, <2>3, <2>4, ObserveFollowed
  <2>5. ASSUME NEW t \in Tasks, Step(t) PROVE Followed'
    <3>1. ~ReadTornCaught(t) /\ ~ReadTornThrows(t) /\ "tornWrite" \notin events'
      BY DEF ReadTornCaught, ReadTornThrows, Lost
    <3> QED
      BY <2>3, <2>5, <3>1, OpenFollowed, WriteFollowed DEF Step
  <2>6. CASE BeginIndex \/ \E t \in Indexers : Reindex(t) \/ ReindexThrows(t)
    BY <2>3, <2>6, CliFollowed, CoFollowed DEF Indexers
  <2>7. ~Stop /\ ~Restart
    BY <2>1 DEF Stop, Restart, Lost
  <2>8. ASSUME NEW f \in Files, Save(f) \/ Revert(f) PROVE Followed'
    <3>1. ~Revert(f) /\ "unseenByCli" \notin events'
      BY DEF Revert, Lost
    <3> QED
      BY <2>3, <2>8, <3>1, SaveFollowed
  <2> QED
    BY <1>2, <2>4, <2>5, <2>6, <2>7, <2>8 DEF Next, Work, World
<1> QED
  BY <1>1, <1>2

-----------------------------------------------------------------------------
WInv == TInv /\ Shaped /\ LInv /\ CInv /\ FInv /\ SInv

LEMMA WInvHolds == Spec => []WInv
<1>1. Init => WInv
  BY InitTInv, InitShaped, InitLInv, InitFollowed, InitCurrent, InitSound
     DEF WInv, CInv, FInv, SInv
<1>2. WInv /\ [Next]_vars => WInv'
  BY Inductive, ShapedStep, LInvInductive, CInvStep, FInvStep, SInvStep DEF WInv
<1> QED
  BY <1>1, <1>2, PTL DEF Spec

(* When everything is off, an outdated file has been met by a failure, and *)
(* the failure is on record.                                               *)
LEMMA ShownWhenQuiet ==
  ASSUME WInv, Quiet, auto, Outdated # {}, events \cap Lost = {}
  PROVE  state # Torn /\ state.error
<1>1. Followed /\ \A t \in Tasks : job[t].at = "off"
  BY DEF WInv, CInv, Quiet
<1>2. PICK f \in Outdated : TRUE
  OBVIOUS
<1>3. ~Coming(f) /\ ~Ahead
  BY <1>1, TasksDiffer DEF Coming, Ahead, Running, Busy, Quiet
<1> QED
  BY <1>1, <1>3 DEF Followed, Awaited, Shown

(* With --auto-reindex no request to run again gets lost without a trace:  *)
(* an index that is left behind shows the failure that stopped it.         *)
THEOREM NoSilentStop == Spec => []OnlyAShownFailureStops
<1>1. WInv => OnlyAShownFailureStops
  BY ShownWhenQuiet DEF OnlyAShownFailureStops, Lost
<1> QED
  BY <1>1, WInvHolds, PTL

(* An index that is called fresh when everything has settled is up to      *)
(* date, outside the circumstances that the property names.                *)
THEOREM FreshMeansCurrent == Spec => []FreshIsUpToDate
<1>1. WInv => FreshIsUpToDate
  <2> SUFFICES ASSUME WInv, Quiet, ClaimedFresh, "unseenByCli" \notin events,
                      \/ "unseenByCo" \notin events
                      \/ events \cap {"fault", "busy", "tornRead", "tornWrite", "stopped", "recurrence"} = {}
               PROVE  Outdated = {}
    BY DEF FreshIsUpToDate
  <2>1. CASE "unseenByCo" \notin events
    <3>1. Current
      BY <2>1 DEF WInv, FInv
    <3> QED
      BY <3>1 DEF Current, Stamped, ClaimedFresh
  <2>2. CASE events \cap {"fault", "busy", "tornRead", "tornWrite", "stopped", "recurrence"} = {}
    <3>1. events \cap Lost = {} /\ Sound
      BY <2>2 DEF Lost, WInv, SInv
    <3>2. CASE auto
      BY <3>1, <3>2, ShownWhenQuiet DEF Sound
    <3>3. CASE ~auto
      <4>1. Listed /\ \A t \in Tasks : job[t].at = "off"
        BY <3>1, <3>3 DEF WInv, LInv, Quiet
      <4>2. \A f \in Outdated : Lists(state, f)
        BY <4>1, TasksDiffer DEF Listed, Carried, Quiet
      <4>3. state.observed = {} /\ Cardinality(state.observed) = 0
        BY FS_EmptySet DEF ClaimedFresh
      <4>4. \A f : ~Lists(state, f)
        BY <4>3 DEF Lists
      <4> QED
        BY <4>2, <4>4
    <3> QED
      BY <3>2, <3>3
  <2> QED
    BY <2>1, <2>2
<1> QED
  BY <1>1, WInvHolds, PTL

-----------------------------------------------------------------------------
(* The runs of the coordinator and of the user use the index lock as       *)
(* IndexMutex promises it, and nobody has to clear the lock of a live one: *)
(* inside is a run from its scan to the end of its refresh, whatever it is *)
(* that ends it.                                                           *)
Inside == {t \in Indexers : Holds(t)}

Mutex == INSTANCE IndexMutex WITH Claimants <- Indexers, holders <- Inside, broken <- FALSE

(* What the lock says is where the runs are.                               *)
LockTells ==
  /\ lock \in Indexers \cup {"free"}
  /\ Inside = IF lock = "free" THEN {} ELSE {lock}

LEMMA LockIsTrue == TInv /\ Shaped => LockTells
<1> SUFFICES ASSUME TInv, Shaped PROVE LockTells
  OBVIOUS
<1>1. lock \in Indexers \cup {"free"} /\ "free" \notin Indexers
  BY DEF TInv, TypeOK, Indexers
<1>2. ASSUME NEW t \in Indexers PROVE Holds(t) <=> lock = t
  <2>1. t \in Tasks
    BY TasksDiffer
  <2>2. Holds(t) => lock = t
    BY DEF Shaped
  <2>3. lock = t => Holds(t)
    BY <2>1 DEF TInv, StepsOK, Holds, Busy
  <2> QED
    BY <2>2, <2>3
<1> QED
  BY <1>1, <1>2 DEF LockTells, Inside

(* The lock does not go from one run to the other in one step.             *)
LEMMA LockStep ==
  ASSUME TInv, Shaped, [Next]_vars
  PROVE  lock' = lock \/ lock = "free" \/ lock' = "free"
<1>1. ASSUME NEW t \in Tasks, Write(t) PROVE lock' = lock \/ lock' = "free"
  BY <1>1, WriteFacts
<1>2. ASSUME NEW t \in Indexers, Reindex(t) \/ ReindexThrows(t)
      PROVE  lock' = lock \/ lock = "free" \/ lock' = "free"
  BY <1>2, ReindexFacts
<1>3. CASE Stopped
  BY <1>3 DEF Stopped
<1>4. ASSUME NEW t \in Tasks, ReadTornThrows(t) PROVE lock' = lock \/ lock' = "free"
  BY <1>3, <1>4 DEF ReadTornThrows, Stopped
<1>5. CASE UNCHANGED lock
  BY <1>5
<1> QED
  BY <1>1, <1>2, <1>3, <1>4, <1>5
     DEF Next, Work, World, Step, Poll, Flush, Handle, Read, ReadTornCaught, Open, BeginIndex,
         Stop, Restart, Save, Revert, Edit, stored, vars

(* Every step of the watcher and of the runs enters or leaves the lock, or *)
(* has nothing to do with it.                                              *)
LEMMA MutexStep ==
  ASSUME TInv, Shaped, LockTells, LockTells', [Next]_vars
  PROVE  [Mutex!Next]_(Mutex!vars)
<1>1. /\ Inside = IF lock = "free" THEN {} ELSE {lock}
      /\ lock \in Indexers \cup {"free"}
  BY DEF LockTells
<1>2. /\ Inside' = IF lock' = "free" THEN {} ELSE {lock'}
      /\ lock' \in Indexers \cup {"free"}
  BY DEF LockTells, Indexers
<1>3. CASE lock' = lock
  BY <1>1, <1>2, <1>3 DEF Mutex!vars
<1>4. CASE lock = "free" /\ lock' # "free"
  <2>1. Mutex!Enter(lock') /\ lock' \in Indexers
    BY <1>1, <1>2, <1>4 DEF Mutex!Enter
  <2> QED
    BY <2>1 DEF Mutex!Next
<1>5. CASE lock # "free" /\ lock' = "free"
  <2>1. Mutex!Leave({lock}) /\ {lock} \in SUBSET Indexers
    BY <1>1, <1>2, <1>5 DEF Mutex!Leave
  <2> QED
    BY <2>1 DEF Mutex!Next
<1> QED
  BY <1>3, <1>4, <1>5, LockStep

(* The runs of one worktree exclude each other by the promise of           *)
(* withWorktreeIndexLock and no more than it, also when a run fails, when  *)
(* state.json is torn under it, and when the watcher ends in the middle of *)
(* one (reindexRepoAndRefreshState under the coordinator and the command). *)
THEOREM RunsExclude == Spec => Mutex!Spec
<1>1. Init => Mutex!Init
  BY InitTInv, InitShaped, LockIsTrue DEF Init, LockTells, Mutex!Init
<1>2. TInv /\ Shaped /\ LockTells /\ LockTells' /\ [Next]_vars => [Mutex!Next]_(Mutex!vars)
  BY MutexStep
<1> QED
  BY <1>1, <1>2, InitTInv, Inductive, InitShaped, ShapedStep, LockIsTrue, PTL DEF Spec, Mutex!Spec
===============================================================================
