----------------------- MODULE SessionCompression_proofs -----------------------
(***************************************************************************)
(* Theorems about SessionCompression, for any sessions, sweeps, bounds and *)
(* thresholds.  What is selected and in which order plays no part in them. *)
(***************************************************************************)
EXTENDS SessionCompression, FiniteSetTheorems, SequenceTheorems, TLAPS

Step == {"idle", "visit", "note", "summarise", "group", "fold", "mark"}

\* The functions have their domains, which is all that EXCEPT needs.
Shape ==
  /\ captured \in [Session -> Nat]
  /\ raw = [s \in Session |-> raw[s]]
  /\ folded = [s \in Session |-> folded[s]]
  /\ status = [s \in Session |-> status[s]]
  /\ pc \in [Sweeper -> Step]
  /\ todo = [w \in Sweeper |-> todo[w]]
  /\ seen = [w \in Sweeper |-> seen[w]]

LEMMA InitShape == Init => Shape
BY DEF Init, Shape, Step

LEMMA NextShape == Shape /\ [Next]_vars => Shape'
<1> SUFFICES ASSUME Shape, [Next]_vars PROVE Shape'
  OBVIOUS
<1> USE DEF Shape, Step
<1>1. ASSUME NEW s \in Session, NEW n \in {0, 1}, Capture(s, n) PROVE Shape'
  <2>1. captured' \in [Session -> Nat]
    BY <1>1 DEF Capture
  <2>2. raw' = [t \in Session |-> raw'[t]] /\ folded' = folded
    BY <1>1 DEF Capture
  <2>3. status' = [t \in Session |-> status'[t]]
    BY <1>1 DEF Capture, Activate
  <2>4. pc' = pc /\ todo' = todo /\ seen' = seen
    BY <1>1 DEF Capture
  <2>5. QED
    BY <2>1, <2>2, <2>3, <2>4
<1>2. CASE GrowIdle \/ IndexAgain
  BY <1>2 DEF GrowIdle, IndexAgain
<1>3. ASSUME NEW w \in Sweeper, Begin(w) \/ CutShort(w) \/ SymbolNotFound(w) PROVE Shape'
  BY <1>3 DEF Begin, CutShort, SymbolNotFound
<1>4. ASSUME NEW w \in Sweeper, Look(w) PROVE Shape'
  BY <1>4 DEF Look, NextSession
<1>5. ASSUME NEW w \in Sweeper, Note(w) \/ Summarise(w) \/ Group(w) PROVE Shape'
  BY <1>5 DEF Note, Summarise, Group, Activate
<1>6. ASSUME NEW w \in Sweeper, Fold(w) PROVE Shape'
  BY <1>6 DEF Fold, Activate
<1>7. ASSUME NEW w \in Sweeper, Mark(w) PROVE Shape'
  BY <1>7 DEF Mark, NextSession
<1>8. CASE UNCHANGED vars
  BY <1>8 DEF vars
<1>9. QED
  BY <1>1, <1>2, <1>3, <1>4, <1>5, <1>6, <1>7, <1>8 DEF Next, Work

-----------------------------------------------------------------------------
(* What a summary says of a session.                                       *)

\* A visit past its summary has it, and only what has one is compressed.
Summed ==
  /\ \A s \in Session : status[s] = "compressed" => s \in summary
  /\ \A w \in Sweeper, s \in Session :
       Visiting(w, s) /\ pc[w] \in {"group", "fold", "mark"} => s \in summary

LEMMA NextSummed == Shape /\ Summed /\ [Next]_vars => Summed'
<1> SUFFICES ASSUME Shape, Summed, [Next]_vars PROVE Summed'
  OBVIOUS
<1> USE DEF Shape, Step, Summed, Visiting
<1>1. ASSUME NEW s \in Session, NEW n \in {0, 1}, Capture(s, n) PROVE Summed'
  BY <1>1 DEF Capture, Activate
<1>2. CASE GrowIdle \/ IndexAgain
  BY <1>2 DEF GrowIdle, IndexAgain
<1>3. ASSUME NEW w \in Sweeper, Begin(w) \/ CutShort(w) \/ SymbolNotFound(w) PROVE Summed'
  BY <1>3 DEF Begin, CutShort, SymbolNotFound
<1>4. ASSUME NEW w \in Sweeper, Look(w) PROVE Summed'
  BY <1>4 DEF Look, NextSession
<1>5. ASSUME NEW w \in Sweeper, Note(w) \/ Summarise(w) \/ Group(w) PROVE Summed'
  BY <1>5 DEF Note, Summarise, Group, Activate
<1>6. ASSUME NEW w \in Sweeper, Fold(w) PROVE Summed'
  BY <1>6 DEF Fold, Activate
<1>7. ASSUME NEW w \in Sweeper, Mark(w) PROVE Summed'
  BY <1>7 DEF Mark, NextSession
<1>8. CASE UNCHANGED vars
  BY <1>8 DEF vars
<1>9. QED
  BY <1>1, <1>2, <1>3, <1>4, <1>5, <1>6, <1>7, <1>8 DEF Next, Work

\* A summarised session is active only if it is unsettled or a visit that has
\* stored something of it goes on.
Explained ==
  \A s \in (Session \cap summary) \ unsettled :
    status[s] = "active" => \E w \in Sweeper : Visiting(w, s) /\ pc[w] \in Committed

LEMMA NextExplained == Shape /\ Explained /\ [Next]_vars => Explained'
<1> SUFFICES ASSUME Shape, Explained, [Next]_vars,
                    NEW s \in (Session \cap summary') \ unsettled', status'[s] = "active"
             PROVE  \E w \in Sweeper : Visiting(w, s)' /\ pc'[w] \in Committed
  BY DEF Explained, Committed
<1> DEFINE Goal == \E w \in Sweeper : Visiting(w, s)' /\ pc'[w] \in Committed
<1> USE DEF Shape, Step, Explained, Visiting, Committed
<1>1. ASSUME NEW t \in Session, NEW n \in {0, 1}, Capture(t, n) PROVE Goal
  <2>1. /\ status' = [status EXCEPT ![t] = "active"] /\ summary' = summary
        /\ pc' = pc /\ todo' = todo
    BY <1>1 DEF Capture, Activate
  <2>2. unsettled' = IF t \in summary THEN unsettled \cup {t} ELSE unsettled
    BY <1>1 DEF Capture
  <2>3. s # t /\ s \in summary \ unsettled
    BY <2>1, <2>2
  <2>4. status[s] = "active"
    BY <2>1, <2>3
  <2>5. QED
    BY <2>1, <2>3, <2>4
<1>2. CASE GrowIdle \/ IndexAgain
  BY <1>2 DEF GrowIdle, IndexAgain
<1>3. ASSUME NEW w \in Sweeper, Begin(w) \/ CutShort(w) \/ SymbolNotFound(w) PROVE Goal
  <2>1. CASE Begin(w)
    BY <2>1 DEF Begin
  <2>2. CASE CutShort(w)
    BY <2>2 DEF CutShort
  <2>3. CASE SymbolNotFound(w)
    BY <2>3 DEF SymbolNotFound
  <2>4. QED
    BY <1>3, <2>1, <2>2, <2>3
<1>4. ASSUME NEW w \in Sweeper, Look(w) PROVE Goal
  BY <1>4 DEF Look, NextSession
<1>5. ASSUME NEW w \in Sweeper, Note(w) \/ Summarise(w) \/ Group(w) PROVE Goal
  <2>1. CASE Note(w)
    <3>1. /\ status' = [status EXCEPT ![Head(todo[w])] = "active"]
          /\ summary' = summary /\ unsettled' = unsettled /\ todo' = todo
          /\ pc[w] = "note" /\ pc' = [pc EXCEPT ![w] = "summarise"]
      BY <2>1 DEF Note, Activate
    <3>2. CASE s = Head(todo[w])
      BY <3>1, <3>2
    <3>3. CASE s # Head(todo[w])
      <4>1. status[s] = "active" /\ s \in summary \ unsettled
        BY <3>1, <3>3
      <4>2. PICK v \in Sweeper : Visiting(v, s) /\ pc[v] \in Committed
        BY <4>1
      <4>3. v # w
        BY <3>1, <4>2
      <4>4. QED
        BY <3>1, <4>2, <4>3
    <3>4. QED
      BY <3>2, <3>3
  <2>2. CASE Summarise(w)
    BY <2>2 DEF Summarise
  <2>3. CASE Group(w)
    BY <2>3 DEF Group
  <2>4. QED
    BY <1>5, <2>1, <2>2, <2>3
<1>6. ASSUME NEW w \in Sweeper, Fold(w) PROVE Goal
  <2>1. /\ status' = [status EXCEPT ![Head(todo[w])] = "active"]
        /\ summary' = summary /\ unsettled' = unsettled /\ todo' = todo
        /\ pc[w] = "fold" /\ pc' = [pc EXCEPT ![w] = "mark"]
    BY <1>6 DEF Fold, Activate
  <2>2. CASE s = Head(todo[w])
    BY <2>1, <2>2
  <2>3. CASE s # Head(todo[w])
    <3>1. status[s] = "active" /\ s \in summary \ unsettled
      BY <2>1, <2>3
    <3>2. PICK v \in Sweeper : Visiting(v, s) /\ pc[v] \in Committed
      BY <3>1
    <3>3. v # w
      BY <2>1, <2>3, <3>2
    <3>4. QED
      BY <2>1, <3>2, <3>3
  <2>4. QED
    BY <2>2, <2>3
<1>7. ASSUME NEW w \in Sweeper, Mark(w) PROVE Goal
  <2>1. /\ status' = [status EXCEPT ![Head(todo[w])] = "compressed"]
        /\ summary' = summary /\ unsettled' = unsettled
        /\ pc' = [pc EXCEPT ![w] = IF Len(todo[w]) = 1 THEN "idle" ELSE "visit"]
        /\ todo' = [todo EXCEPT ![w] = Tail(@)]
    BY <1>7 DEF Mark, NextSession
  <2>2. s # Head(todo[w])
    BY <2>1
  <2>3. status[s] = "active" /\ s \in summary \ unsettled
    BY <2>1, <2>2
  <2>4. PICK v \in Sweeper : Visiting(v, s) /\ pc[v] \in Committed
    BY <2>3
  <2>5. v # w
    BY <2>2, <2>4
  <2>6. QED
    BY <2>1, <2>4, <2>5
<1>8. CASE UNCHANGED vars
  BY <1>8 DEF vars
<1>9. QED
  BY <1>1, <1>2, <1>3, <1>4, <1>5, <1>6, <1>7, <1>8 DEF Next, Work

(* A session is compressed only with its summary, and a summarised one is  *)
(* active only because it was resumed or its visit ended half way          *)
(* (compressSession, upsertSession, resolveLinkedSymbols).                 *)
THEOREM SummaryMeansCompressed == Spec => []SummarisedIsCompressed
<1> DEFINE IInv == Shape /\ Summed /\ Explained
<1>1. Init => IInv
  <2>1. Init => Summed
    BY DEF Init, Summed, Visiting
  <2>2. Init => Explained
    BY DEF Init, Explained
  <2>3. QED
    BY <2>1, <2>2, InitShape
<1>2. IInv /\ [Next]_vars => IInv'
  BY NextShape, NextSummed, NextExplained
<1>3. IInv => SummarisedIsCompressed
  BY DEF Summed, Explained, SummarisedIsCompressed, Stuck
<1>4. QED
  BY <1>1, <1>2, <1>3, PTL DEF Spec

-----------------------------------------------------------------------------
(* What becomes of the passive observations.                               *)

\* One sweep at most is in a visit to a session that was never shared.
Alone ==
  \A s \in Session \ shared : \A v, w \in Sweeper :
    Visiting(v, s) /\ Visiting(w, s) => v = w

LEMMA NextAlone == Shape /\ Alone /\ [Next]_vars => Alone'
<1> SUFFICES ASSUME Shape, Alone, [Next]_vars PROVE Alone'
  OBVIOUS
<1> USE DEF Shape, Step, Alone, Visiting
<1>1. CASE (\E s \in Session, n \in {0, 1} : Capture(s, n)) \/ GrowIdle \/ IndexAgain \/ UNCHANGED vars
  BY <1>1 DEF Capture, GrowIdle, IndexAgain, vars
<1>2. ASSUME NEW w \in Sweeper, Begin(w) \/ CutShort(w) \/ SymbolNotFound(w) PROVE Alone'
  <2>1. shared' = shared
    BY <1>2 DEF Begin, CutShort, SymbolNotFound
  <2>2. ASSUME NEW s \in Session, NEW v \in Sweeper, Visiting(v, s)' PROVE Visiting(v, s)
    BY <1>2, <2>2 DEF Begin, CutShort, SymbolNotFound
  <2>3. QED
    BY <2>1, <2>2
<1>3. ASSUME NEW w \in Sweeper, Look(w) PROVE Alone'
  <2>1. CASE Head(todo[w]) \in summary \/ status[Head(todo[w])] = "compressed"
    <3>1. /\ pc' = [pc EXCEPT ![w] = IF Len(todo[w]) = 1 THEN "idle" ELSE "visit"]
          /\ shared' = shared
      BY <1>3, <2>1 DEF Look, NextSession
    <3>2. todo' = [todo EXCEPT ![w] = Tail(@)]
      BY <1>3, <2>1 DEF Look, NextSession
    <3>3. ASSUME NEW s \in Session, NEW v \in Sweeper, Visiting(v, s)' PROVE Visiting(v, s)
      BY <3>1, <3>2, <3>3
    <3>4. QED
      BY <3>1, <3>3
  <2>2. CASE ~(Head(todo[w]) \in summary \/ status[Head(todo[w])] = "compressed")
    <3> SUFFICES ASSUME NEW s \in Session \ shared', NEW v \in Sweeper, NEW u \in Sweeper,
                        Visiting(v, s)', Visiting(u, s)'
                 PROVE  v = u
      OBVIOUS
    <3>1. pc' = [pc EXCEPT ![w] = "note"] /\ todo' = todo
      BY <1>3, <2>2 DEF Look
    <3>2. shared' = IF \E x \in Sweeper : Visiting(x, Head(todo[w]))
                    THEN shared \cup {Head(todo[w])} ELSE shared
      BY <1>3, <2>2 DEF Look
    <3>3. \A x \in Sweeper \ {w} : Visiting(x, s)' => Visiting(x, s)
      BY <3>1
    <3>4. Visiting(w, s)' => Head(todo[w]) = s
      BY <3>1
    <3>5. s \notin shared
      BY <3>2
    <3> HIDE DEF Visiting
    <3>6. CASE v # w /\ u # w
      BY <3>3, <3>5, <3>6
    <3>7. CASE v = w \/ u = w
      BY <3>2, <3>3, <3>4, <3>7
    <3>8. QED
      BY <3>6, <3>7
  <2>3. QED
    BY <2>1, <2>2
<1>4. ASSUME NEW w \in Sweeper, Note(w) \/ Summarise(w) \/ Group(w) \/ Fold(w) PROVE Alone'
  BY <1>4 DEF Note, Summarise, Group, Fold
<1>5. ASSUME NEW w \in Sweeper, Mark(w) PROVE Alone'
  BY <1>5 DEF Mark, NextSession
<1>6. QED
  BY <1>1, <1>2, <1>3, <1>4, <1>5 DEF Next, Work

\* A session was folded after its summary only, and a visit to one that was
\* never shared folds it for the first time.
FoldedOnce ==
  /\ \A s \in Session : folded[s] # {} => s \in summary
  /\ \A s \in Session \ shared : \A w \in Sweeper :
       Visiting(w, s) /\ pc[w] # "mark" => folded[s] = {}

LEMMA NextFoldedOnce ==
  Shape /\ Summed /\ Alone /\ FoldedOnce /\ [Next]_vars => FoldedOnce'
<1> SUFFICES ASSUME Shape, Summed, Alone, FoldedOnce, [Next]_vars PROVE FoldedOnce'
  OBVIOUS
<1> USE DEF Shape, Step, FoldedOnce, Visiting
<1>1. CASE (\E s \in Session, n \in {0, 1} : Capture(s, n)) \/ GrowIdle \/ IndexAgain \/ UNCHANGED vars
  BY <1>1 DEF Capture, GrowIdle, IndexAgain, vars
<1>2. ASSUME NEW w \in Sweeper, Begin(w) \/ CutShort(w) \/ SymbolNotFound(w) PROVE FoldedOnce'
  <2>1. CASE Begin(w)
    BY <2>1 DEF Begin
  <2>2. CASE CutShort(w)
    BY <2>2 DEF CutShort
  <2>3. CASE SymbolNotFound(w)
    BY <2>3 DEF SymbolNotFound
  <2>4. QED
    BY <1>2, <2>1, <2>2, <2>3
<1>3. ASSUME NEW w \in Sweeper, Look(w) PROVE FoldedOnce'
  BY <1>3 DEF Look, NextSession
<1>4. ASSUME NEW w \in Sweeper, Note(w) \/ Summarise(w) \/ Group(w) PROVE FoldedOnce'
  BY <1>4 DEF Note, Summarise, Group
<1>5. ASSUME NEW w \in Sweeper, Fold(w) PROVE FoldedOnce'
  <2>1. ASSUME NEW s \in Session, folded'[s] # {} PROVE s \in summary'
    BY <1>5, <2>1 DEF Fold, Summed
  <2>2. ASSUME NEW s \in Session \ shared', NEW v \in Sweeper,
               Visiting(v, s)', pc'[v] # "mark"
        PROVE  folded'[s] = {}
    BY <1>5, <2>2 DEF Fold, Alone
  <2>3. QED
    BY <2>1, <2>2
<1>6. ASSUME NEW w \in Sweeper, Mark(w) PROVE FoldedOnce'
  BY <1>6 DEF Mark, NextSession
<1>7. QED
  BY <1>1, <1>2, <1>3, <1>4, <1>5, <1>6 DEF Next, Work

LEMMA NextNothingForgotten ==
  Shape /\ FoldedOnce /\ NothingForgotten /\ [Next]_vars => NothingForgotten'
<1> SUFFICES ASSUME Shape, FoldedOnce, NothingForgotten, [Next]_vars,
                    NEW s \in Session \ shared', NEW i \in 1..captured'[s]
             PROVE  i \in raw'[s] \cup folded'[s]
  BY DEF NothingForgotten
<1> USE DEF Shape, Step, NothingForgotten
<1>1. ASSUME NEW t \in Session, NEW n \in {0, 1}, Capture(t, n)
      PROVE  i \in raw'[s] \cup folded'[s]
  <2>1. CASE t # s
    BY <1>1, <2>1 DEF Capture
  <2>2. CASE t = s
    <3>1. captured'[s] = captured[s] + n /\ folded' = folded /\ shared' = shared
      BY <1>1, <2>2 DEF Capture
    <3>2. raw'[s] = raw[s] \cup (captured[s] + 1 .. captured[s] + n)
      BY <1>1, <2>2 DEF Capture
    <3>3. i \in 1..captured[s] \/ i \in captured[s] + 1 .. captured[s] + n
      BY <3>1
    <3>4. QED
      BY <3>1, <3>2, <3>3
  <2>3. QED
    BY <2>1, <2>2
<1>2. ASSUME NEW w \in Sweeper, Fold(w) PROVE i \in raw'[s] \cup folded'[s]
  <2>1. CASE Head(todo[w]) # s
    BY <1>2, <2>1 DEF Fold
  <2>2. CASE Head(todo[w]) = s
    <3>1. folded[s] = {}
      BY <1>2, <2>2 DEF Fold, FoldedOnce, Visiting
    <3>2. folded'[s] = seen[w] /\ raw'[s] = raw[s] \ seen[w]
      BY <1>2, <2>2, <3>1 DEF Fold
    <3>3. i \in raw[s]
      BY <1>2, <3>1 DEF Fold
    <3>4. QED
      BY <3>2, <3>3
  <2>3. QED
    BY <2>1, <2>2
<1>3. ASSUME NEW w \in Sweeper, Look(w) PROVE i \in raw'[s] \cup folded'[s]
  <2>1. captured' = captured /\ raw' = raw /\ folded' = folded
    BY <1>3 DEF Look
  <2>2. s \notin shared
    BY <1>3 DEF Look
  <2>3. QED
    BY <2>1, <2>2
<1>4. CASE UNCHANGED <<captured, raw, folded, shared>>
  BY <1>4
<1>5. QED
  BY <1>1, <1>2, <1>3, <1>4
     DEF Next, Work, GrowIdle, IndexAgain, Begin, CutShort, SymbolNotFound, Note, Summarise, Group, Mark, vars

(* Every passive observation of a session is in the store or counted by    *)
(* its consolidated one, unless two sweeps visited the session together    *)
(* (consolidatePassiveObservationsForSession).                             *)
THEOREM ForgetsNothing == Spec => []NothingForgotten
<1> DEFINE IInv == Shape /\ Summed /\ Alone /\ FoldedOnce /\ NothingForgotten
<1>1. Init => IInv
  <2>1. Init => Summed /\ Alone /\ FoldedOnce
    BY DEF Init, Summed, Alone, FoldedOnce, Visiting
  <2>2. Init => NothingForgotten
    BY DEF Init, NothingForgotten
  <2>3. QED
    BY <2>1, <2>2, InitShape
<1>2. IInv /\ [Next]_vars => IInv'
  BY NextShape, NextSummed, NextAlone, NextFoldedOnce, NextNothingForgotten
<1>3. IInv => NothingForgotten
  OBVIOUS
<1>4. QED
  BY <1>1, <1>2, <1>3, PTL DEF Spec

-----------------------------------------------------------------------------
(* Types.  That the sessions stand in line once each, whoever stores what, *)
(* and that a sweep has a session to visit.                                *)

\* What is left of a sequence behind its k-th place.
LEMMA BackProperties ==
  ASSUME NEW S, NEW q \in Seq(S), NEW k \in DOMAIN q
  PROVE  /\ SubSeq(q, k + 1, Len(q)) \in Seq(S)
         /\ Len(SubSeq(q, k + 1, Len(q))) = Len(q) - k
         /\ \A i \in 1 .. Len(q) - k : SubSeq(q, k + 1, Len(q))[i] = q[k + i]
<1>1. Len(q) \in Nat /\ DOMAIN q = 1..Len(q)
  OBVIOUS
<1>2. \A i \in k + 1 .. Len(q) : q[i] \in S
  BY <1>1
<1>3. /\ SubSeq(q, k + 1, Len(q)) \in Seq(S)
      /\ Len(SubSeq(q, k + 1, Len(q))) = IF k + 1 =< Len(q) THEN Len(q) - (k + 1) + 1 ELSE 0
      /\ \A i \in 1 .. Len(q) - (k + 1) + 1 : SubSeq(q, k + 1, Len(q))[i] = q[k + 1 + i - 1]
  BY <1>1, <1>2, SubSeqProperties
<1>4. \A i \in 1 .. Len(q) - k : k + 1 + i - 1 = k + i /\ i \in 1 .. Len(q) - (k + 1) + 1
  BY <1>1
<1>5. Len(SubSeq(q, k + 1, Len(q))) = Len(q) - k
  BY <1>1, <1>3
<1>6. ASSUME NEW i \in 1 .. Len(q) - k PROVE SubSeq(q, k + 1, Len(q))[i] = q[k + i]
  BY <1>3, <1>4
<1>7. QED
  BY <1>3, <1>5, <1>6

\* A sequence without one of its places.
LEMMA RemoveAtProperties ==
  ASSUME NEW S, NEW q \in Seq(S), NEW k \in DOMAIN q
  PROVE  /\ RemoveAt(q, k) \in Seq(S)
         /\ Len(RemoveAt(q, k)) = Len(q) - 1
         /\ \A i \in 1 .. Len(q) - 1 : RemoveAt(q, k)[i] = IF i < k THEN q[i] ELSE q[i + 1]
<1> DEFINE r == RemoveAt(q, k)
<1>1. Len(q) \in Nat /\ DOMAIN q = 1..Len(q)
  OBVIOUS
<1>2. r = SubSeq(q, 1, k - 1) \o SubSeq(q, k + 1, Len(q))
  BY DEF RemoveAt
<1> HIDE DEF r
<1>3. /\ SubSeq(q, 1, k - 1) \in Seq(S)
      /\ Len(SubSeq(q, 1, k - 1)) = k - 1
      /\ \A i \in 1 .. k - 1 : SubSeq(q, 1, k - 1)[i] = q[i]
  BY <1>1, SubSeqProperties
<1>4. /\ r \in Seq(S) /\ Len(r) = k - 1 + (Len(q) - k)
      /\ \A i \in 1 .. k - 1 + (Len(q) - k) :
           r[i] = IF i =< k - 1 THEN SubSeq(q, 1, k - 1)[i]
                  ELSE SubSeq(q, k + 1, Len(q))[i - (k - 1)]
  <2>1. SubSeq(q, k + 1, Len(q)) \in Seq(S) /\ Len(SubSeq(q, k + 1, Len(q))) = Len(q) - k
    BY BackProperties
  <2> DEFINE front == SubSeq(q, 1, k - 1)
             back == SubSeq(q, k + 1, Len(q))
  <2>2. front \in Seq(S) /\ Len(front) = k - 1 /\ back \in Seq(S) /\ Len(back) = Len(q) - k
    BY <1>3, <2>1
  <2> HIDE DEF front, back
  <2>3. /\ front \o back \in Seq(S) /\ Len(front \o back) = Len(front) + Len(back)
        /\ \A i \in 1 .. Len(front) + Len(back) :
             (front \o back)[i] = IF i =< Len(front) THEN front[i] ELSE back[i - Len(front)]
    BY <2>2, ConcatProperties
  <2>4. r = front \o back
    BY <1>2 DEF front, back
  <2>5. /\ r \in Seq(S) /\ Len(r) = k - 1 + (Len(q) - k)
        /\ \A i \in 1 .. k - 1 + (Len(q) - k) :
             r[i] = IF i =< k - 1 THEN front[i] ELSE back[i - (k - 1)]
    BY <2>2, <2>3, <2>4
  <2>6. QED
    BY <2>5 DEF front, back
<1>5. ASSUME NEW i \in 1 .. Len(q) - 1 PROVE r[i] = IF i < k THEN q[i] ELSE q[i + 1]
  <2>1. CASE i < k
    BY <1>1, <1>3, <1>4, <2>1
  <2>2. CASE i >= k
    <3>1. i - (k - 1) \in 1 .. Len(q) - k /\ k + (i - (k - 1)) = i + 1
      BY <1>1, <2>2
    <3>2. r[i] = SubSeq(q, k + 1, Len(q))[i - (k - 1)]
      BY <1>1, <1>4, <2>2
    <3>3. SubSeq(q, k + 1, Len(q))[i - (k - 1)] = q[i + 1]
      <4>1. \A j \in 1 .. Len(q) - k : k + j = i + 1 => SubSeq(q, k + 1, Len(q))[j] = q[i + 1]
        BY BackProperties
      <4>2. QED
        BY <3>1, <4>1
    <3>4. ~(i < k)
      BY <1>1, <2>2
    <3>5. QED
      BY <3>2, <3>3, <3>4
  <2>3. QED
    BY <1>1, <2>1, <2>2
<1>6. QED
  BY <1>1, <1>4, <1>5 DEF r

\* The place of an element that occurs once is left out with it.
LEMMA RemoveOnly ==
  ASSUME NEW S, NEW q \in Seq(S), IsInjective(q), NEW k \in DOMAIN q
  PROVE  /\ IsInjective(RemoveAt(q, k))
         /\ ToSet(RemoveAt(q, k)) = ToSet(q) \ {q[k]}
<1> DEFINE r == RemoveAt(q, k)
           from(i) == IF i < k THEN i ELSE i + 1
<1>1. Len(q) \in Nat /\ DOMAIN q = 1..Len(q)
  OBVIOUS
<1>2. /\ r \in Seq(S) /\ Len(r) = Len(q) - 1
      /\ \A i \in 1 .. Len(q) - 1 : r[i] = IF i < k THEN q[i] ELSE q[i + 1]
  BY RemoveAtProperties
<1> HIDE DEF r
<1>3. DOMAIN r = 1 .. Len(q) - 1 /\ \A i \in 1 .. Len(q) - 1 : r[i] = q[from(i)]
  BY <1>1, <1>2
<1>4. \A i \in 1 .. Len(q) - 1 : from(i) \in 1..Len(q) /\ from(i) # k
  BY <1>1
<1>5. \A i, j \in 1 .. Len(q) - 1 : from(i) = from(j) => i = j
  BY <1>1
<1> HIDE DEF from
<1>6. IsInjective(r)
  BY <1>1, <1>3, <1>4, <1>5 DEF IsInjective
<1>7. ToSet(r) \subseteq ToSet(q) \ {q[k]}
  BY <1>1, <1>3, <1>4 DEF ToSet, IsInjective
<1>8. ASSUME NEW i \in 1..Len(q), q[i] # q[k] PROVE \E j \in 1 .. Len(q) - 1 : r[j] = q[i]
  <2>1. CASE i < k
    BY <1>1, <1>2, <2>1
  <2>2. CASE i > k
    <3>1. i - 1 \in 1 .. Len(q) - 1 /\ ~(i - 1 < k) /\ i - 1 + 1 = i
      BY <1>1, <2>2
    <3>2. r[i - 1] = q[i]
      BY <1>2, <3>1
    <3>3. QED
      BY <3>1, <3>2
  <2>3. QED
    BY <1>1, <1>8, <2>1, <2>2
<1>9. ToSet(q) \ {q[k]} \subseteq ToSet(r)
  BY <1>1, <1>3, <1>8 DEF ToSet
<1>10. QED
  BY <1>6, <1>7, <1>9 DEF r

LEMMA AppendFresh ==
  ASSUME NEW S, NEW q \in Seq(S), IsInjective(q), NEW h \in S \ ToSet(q)
  PROVE  /\ IsInjective(Append(q, h))
         /\ ToSet(Append(q, h)) = ToSet(q) \cup {h}
<1>1. /\ Append(q, h) \in Seq(S) /\ Len(Append(q, h)) = Len(q) + 1 /\ Len(q) \in Nat
      /\ \A i \in 1..Len(q) : Append(q, h)[i] = q[i]
      /\ Append(q, h)[Len(q) + 1] = h
  BY AppendProperties
<1>2. DOMAIN Append(q, h) = 1 .. Len(q) + 1 /\ DOMAIN q = 1..Len(q)
  BY <1>1
<1>3. \A i \in 1..Len(q) : q[i] # h
  BY <1>2 DEF ToSet
<1>4. QED
  BY <1>1, <1>2, <1>3 DEF IsInjective, ToSet

\* All the sessions stand in line, each of them once.
Lined == order \in Seq(Session) /\ IsInjective(order) /\ ToSet(order) = Session

LEMMA InitLined == Init => Lined
<1> SUFFICES ASSUME Init PROVE Lined
  OBVIOUS
<1> DEFINE n == Cardinality(Session)
<1>1. n \in Nat
  BY SetsAssumption, FS_CardinalityType
<1>2. order \in [1..n -> Session] /\ \A i, j \in 1..n : i # j => order[i] # order[j]
  BY DEF Init, SetToSeqs
<1> HIDE DEF n
<1>3. order \in Seq(Session)
  BY <1>1, <1>2
<1>4. order \in Injection(1..n, Session)
  BY <1>2 DEF Injection, IsInjective
<1>5. Cardinality(1..n) = n
  BY <1>1, FS_Interval
<1>6. order \in Surjection(1..n, Session)
  BY <1>4, <1>5, SetsAssumption, FS_Injection DEF n
<1>7. ToSet(order) = Session
  BY <1>2, <1>6 DEF Surjection, ToSet
<1>8. IsInjective(order)
  BY <1>2 DEF IsInjective
<1>9. QED
  BY <1>3, <1>7, <1>8 DEF Lined

\* A session that is active goes to the end of the line.
LEMMA ActivateLined ==
  ASSUME Lined, NEW s \in Session, Activate(s)
  PROVE  Lined'
<1> DEFINE k == Place(s)
           r == RemoveAt(order, k)
<1>1. k \in DOMAIN order /\ order[k] = s
  BY DEF Lined, ToSet, Place
<1> HIDE DEF k
<1>2. r \in Seq(Session) /\ IsInjective(r) /\ ToSet(r) = Session \ {s}
  BY <1>1, RemoveAtProperties, RemoveOnly DEF Lined
<1>3. order' = Append(r, s)
  BY DEF Activate, k
<1> HIDE DEF r
<1>4. order' \in Seq(Session)
  BY <1>2, <1>3, AppendProperties
<1>5. IsInjective(order') /\ ToSet(order') = Session
  <2>1. s \in Session \ ToSet(r)
    BY <1>2
  <2>2. IsInjective(Append(r, s)) /\ ToSet(Append(r, s)) = ToSet(r) \cup {s}
    BY <1>2, <2>1, AppendFresh
  <2>3. QED
    BY <1>2, <1>3, <2>2
<1>6. QED
  BY <1>4, <1>5 DEF Lined

\* What a sweep selects are sessions.
LEMMA FirstOfType ==
  ASSUME NEW k \in Nat \ {0}, NEW q \in FirstOf(k, Eligible), Eligible # {}
  PROVE  q \in Seq(Session) /\ q # <<>>
<1> DEFINE n == IF k < Cardinality(Eligible) THEN k ELSE Cardinality(Eligible)
<1>1. Eligible \subseteq Session
  BY DEF Eligible
<1>2. Cardinality(Eligible) \in Nat \ {0}
  BY <1>1, SetsAssumption, FS_Subset, FS_CardinalityType, FS_EmptySet
<1>3. n \in Nat \ {0}
  BY <1>2
<1>4. q \in [1..n -> Eligible]
  BY DEF FirstOf
<1> HIDE DEF n
<1>5. QED
  BY <1>1, <1>3, <1>4

\* The sessions a sweep still has before it, and the group it has read.
Sweeps ==
  \A w \in Sweeper :
    /\ todo[w] \in Seq(Session)
    /\ pc[w] # "idle" => todo[w] # <<>>
    /\ seen[w] \subseteq Nat
    /\ pc[w] = "fold" => seen[w] \subseteq 1..captured[Head(todo[w])]

\* No observation stands in the store that was not captured.
Counted == \A s \in Session : raw[s] \cup folded[s] \subseteq 1..captured[s]

Fields ==
  /\ status \in [Session -> {"active", "compressed"}]
  /\ {summary, fresh, unsettled, shared} \subseteq SUBSET Session /\ gone \subseteq Linked
  /\ cuts \in 0..MaxCuts

Typed == Shape /\ Lined /\ Sweeps /\ Counted /\ Fields

LEMMA TypedIsOK == Typed => TypeOK
BY DEF Typed, TypeOK, Shape, Step, Lined, Sweeps, Counted, Fields

LEMMA InitTyped == Init => Typed
<1> SUFFICES ASSUME Init PROVE Typed
  OBVIOUS
<1>1. Sweeps
  BY DEF Init, Sweeps
<1>2. Counted
  BY DEF Init, Counted
<1>3. Fields
  BY NumbersAssumption DEF Init, Fields
<1>4. QED
  BY <1>1, <1>2, <1>3, InitShape, InitLined DEF Typed

\* A visit has its session.
LEMMA VisitHead ==
  ASSUME Typed, NEW w \in Sweeper, todo[w] # <<>>
  PROVE  Head(todo[w]) \in Session /\ Tail(todo[w]) \in Seq(Session)
BY HeadTailProperties DEF Typed, Sweeps

LEMMA NextLined == Typed /\ [Next]_vars => Lined'
<1> SUFFICES ASSUME Typed, [Next]_vars PROVE Lined'
  OBVIOUS
<1>1. ASSUME NEW s \in Session, NEW n \in {0, 1}, Capture(s, n) PROVE Lined'
  BY <1>1, ActivateLined DEF Capture, Typed
<1>2. ASSUME NEW w \in Sweeper, Note(w) \/ Fold(w) PROVE Lined'
  <2>1. todo[w] # <<>>
    BY <1>2 DEF Note, Fold, Typed, Sweeps
  <2>2. Activate(Head(todo[w]))
    BY <1>2 DEF Note, Fold
  <2>3. QED
    BY <2>1, <2>2, VisitHead, ActivateLined DEF Typed
<1>3. CASE UNCHANGED order
  BY <1>3 DEF Lined, Typed
<1>4. QED
  BY <1>1, <1>2, <1>3
     DEF Next, Work, GrowIdle, IndexAgain, Begin, CutShort, SymbolNotFound, Look, Summarise, Group, Mark, vars

LEMMA NextCounted == Typed /\ [Next]_vars => Counted'
<1> SUFFICES ASSUME Typed, [Next]_vars PROVE Counted'
  OBVIOUS
<1> USE DEF Typed, Shape, Counted
<1>1. ASSUME NEW s \in Session, NEW n \in {0, 1}, Capture(s, n) PROVE Counted'
  <2>1. /\ captured' = [captured EXCEPT ![s] = @ + n]
        /\ raw' = [raw EXCEPT ![s] = @ \cup (captured[s] + 1 .. captured[s] + n)]
        /\ folded' = folded
    BY <1>1 DEF Capture
  <2>2. SUFFICES ASSUME NEW t \in Session, NEW i \in raw'[t] \cup folded'[t]
                 PROVE  i \in 1..captured'[t]
    BY DEF Counted
  <2>3. CASE t # s
    BY <2>1, <2>2, <2>3
  <2>4. CASE t = s
    <3>1. captured'[t] = captured[s] + n /\ captured[s] \in Nat
      BY <2>1, <2>4
    <3>2. i \in 1..captured[s] \/ i \in captured[s] + 1 .. captured[s] + n
      BY <2>1, <2>2, <2>4
    <3>3. QED
      BY <3>1, <3>2
  <2>5. QED
    BY <2>3, <2>4
<1>2. ASSUME NEW w \in Sweeper, Fold(w) PROVE Counted'
  <2>1. seen[w] \subseteq 1..captured[Head(todo[w])] /\ captured' = captured
    BY <1>2 DEF Fold, Sweeps
  <2>2. \A t \in Session : raw'[t] \subseteq raw[t]
    BY <1>2 DEF Fold
  <2>3. \A t \in Session : folded'[t] = folded[t] \/ (t = Head(todo[w]) /\ folded'[t] = seen[w])
    BY <1>2 DEF Fold
  <2>4. QED
    BY <2>1, <2>2, <2>3
<1>3. CASE UNCHANGED <<captured, raw, folded>>
  BY <1>3
<1>4. QED
  BY <1>1, <1>2, <1>3
     DEF Next, Work, GrowIdle, IndexAgain, Begin, CutShort, SymbolNotFound, Look, Note, Summarise, Group, Mark, vars

LEMMA NextFields == Typed /\ [Next]_vars => Fields'
<1> SUFFICES ASSUME Typed, [Next]_vars PROVE Fields'
  OBVIOUS
<1> USE DEF Typed, Fields
<1>1. ASSUME NEW s \in Session, NEW n \in {0, 1}, Capture(s, n) PROVE Fields'
  BY <1>1 DEF Capture, Activate
<1>2. CASE GrowIdle \/ IndexAgain
  BY <1>2 DEF GrowIdle, IndexAgain
<1>3. ASSUME NEW w \in Sweeper, Begin(w) \/ Group(w) PROVE Fields'
  BY <1>3 DEF Begin, Group
<1>4. ASSUME NEW w \in Sweeper, CutShort(w) \/ SymbolNotFound(w) PROVE Fields'
  <2>1. pc[w] \in Committed => Head(todo[w]) \in Session
    BY VisitHead DEF Committed, Sweeps
  <2>2. CASE CutShort(w)
    BY <2>1, <2>2, NumbersAssumption DEF CutShort
  <2>3. CASE SymbolNotFound(w)
    BY <2>1, <2>3 DEF SymbolNotFound, Committed
  <2>4. QED
    BY <1>4, <2>2, <2>3
<1>5. ASSUME NEW w \in Sweeper, Look(w) PROVE Fields'
  <2>1. Head(todo[w]) \in Session
    BY <1>5, VisitHead DEF Look, Sweeps, Shape
  <2>2. QED
    BY <1>5, <2>1 DEF Look, NextSession
<1>6. ASSUME NEW w \in Sweeper, Note(w) \/ Summarise(w) \/ Fold(w) \/ Mark(w) PROVE Fields'
  <2>1. todo[w] # <<>>
    BY <1>6 DEF Note, Summarise, Fold, Mark, Sweeps
  <2>2. Head(todo[w]) \in Session
    BY <2>1, VisitHead
  <2>3. QED
    BY <1>6, <2>2 DEF Note, Summarise, Fold, Mark, Activate
<1>7. CASE UNCHANGED vars
  BY <1>7 DEF vars
<1>8. QED
  BY <1>1, <1>2, <1>3, <1>4, <1>5, <1>6, <1>7 DEF Next, Work

LEMMA NextSweeps == Typed /\ [Next]_vars => Sweeps'
<1> SUFFICES ASSUME Typed, [Next]_vars PROVE Sweeps'
  OBVIOUS
<1> USE DEF Typed, Shape, Step, Sweeps
<1>1. ASSUME NEW s \in Session, NEW n \in {0, 1}, Capture(s, n)
      PROVE  Sweeps'
  <2>1. pc' = pc /\ todo' = todo /\ seen' = seen
    BY <1>1 DEF Capture
  <2>2. \A t \in Session : 1..captured[t] \subseteq 1..captured'[t]
    BY <1>1 DEF Capture
  <2>3. \A w \in Sweeper : pc[w] = "fold" => Head(todo[w]) \in Session
    BY VisitHead
  <2>4. QED
    BY <2>1, <2>2, <2>3
<1>2. ASSUME NEW w \in Sweeper, Begin(w) PROVE Sweeps'
  <2>1. PICK q \in FirstOf(Reach(w), Eligible) : todo' = [todo EXCEPT ![w] = q]
    BY <1>2 DEF Begin
  <2>2. Reach(w) \in Nat \ {0}
    BY SetsAssumption, NumbersAssumption, FS_CardinalityType, FS_EmptySet DEF Reach
  <2>3. q \in Seq(Session) /\ q # <<>>
    BY <1>2, <2>2, FirstOfType DEF Begin
  <2>4. pc' = [pc EXCEPT ![w] = "visit"] /\ seen' = seen /\ captured' = captured
    BY <1>2 DEF Begin
  <2>5. QED
    BY <2>1, <2>3, <2>4
<1>3. ASSUME NEW w \in Sweeper, CutShort(w) \/ SymbolNotFound(w) PROVE Sweeps'
  <2>1. <<>> \in Seq(Session)
    OBVIOUS
  <2>2. /\ pc' = [pc EXCEPT ![w] = "idle"] /\ todo' = [todo EXCEPT ![w] = <<>>]
        /\ seen' = [seen EXCEPT ![w] = {}] /\ captured' = captured
    BY <1>3 DEF CutShort, SymbolNotFound
  <2>3. QED
    BY <2>1, <2>2
<1>4. ASSUME NEW w \in Sweeper, Look(w) \/ Mark(w) PROVE Sweeps'
  <2>1. Tail(todo[w]) \in Seq(Session)
    BY <1>4, VisitHead DEF Look, Mark
  <2>2. seen' = seen /\ captured' = captured
    BY <1>4 DEF Look, Mark
  <2>3. \/ NextSession(w)
        \/ pc' = [pc EXCEPT ![w] = "note"] /\ todo' = todo
    BY <1>4 DEF Look, Mark
  <2>4. todo[w] # <<>>
    BY <1>4 DEF Look, Mark
  <2>5. Len(Tail(todo[w])) = Len(todo[w]) - 1 /\ Len(todo[w]) \in Nat \ {0}
    BY <2>4, HeadTailProperties
  <2>6. Len(todo[w]) # 1 => Tail(todo[w]) # <<>>
    <3> DEFINE t == Tail(todo[w])
               n == Len(todo[w])
    <3>1. Len(t) = n - 1 /\ n \in Nat \ {0}
      BY <2>5
    <3> HIDE DEF t, n
    <3>2. Len(<<>>) = 0
      OBVIOUS
    <3>3. n # 1 => t # <<>>
      BY <3>1, <3>2
    <3>4. QED
      BY <3>3 DEF t, n
  <2>7. CASE NextSession(w)
    BY <2>1, <2>2, <2>6, <2>7 DEF NextSession
  <2>8. CASE pc' = [pc EXCEPT ![w] = "note"] /\ todo' = todo
    BY <2>2, <2>4, <2>8
  <2>9. QED
    BY <2>3, <2>7, <2>8
<1>5. ASSUME NEW w \in Sweeper, Note(w) \/ Summarise(w) PROVE Sweeps'
  BY <1>5 DEF Note, Summarise
<1>6. ASSUME NEW w \in Sweeper, Group(w) PROVE Sweeps'
  <2>1. Head(todo[w]) \in Session
    BY <1>6, VisitHead DEF Group
  <2>2. raw[Head(todo[w])] \subseteq 1..captured[Head(todo[w])]
    BY <2>1 DEF Counted
  <2>3. todo' = todo /\ captured' = captured
    BY <1>6 DEF Group
  <2>4. \/ pc' = [pc EXCEPT ![w] = "fold"] /\ seen' = [seen EXCEPT ![w] = raw[Head(todo[w])]]
        \/ pc' = [pc EXCEPT ![w] = "mark"] /\ seen' = seen
    BY <1>6 DEF Group
  <2>5. todo[w] # <<>>
    BY <1>6 DEF Group
  <2>6. raw[Head(todo[w])] \subseteq Nat
    BY <2>1, <2>2
  <2>7. CASE pc' = [pc EXCEPT ![w] = "fold"] /\ seen' = [seen EXCEPT ![w] = raw[Head(todo[w])]]
    BY <2>2, <2>3, <2>5, <2>6, <2>7
  <2>8. CASE pc' = [pc EXCEPT ![w] = "mark"] /\ seen' = seen
    BY <2>3, <2>5, <2>8
  <2>9. QED
    BY <2>4, <2>7, <2>8
<1>7. ASSUME NEW w \in Sweeper, Fold(w) PROVE Sweeps'
  BY <1>7 DEF Fold
<1>8. CASE UNCHANGED <<captured, pc, todo, seen>>
  BY <1>8
<1>9. QED
  BY <1>1, <1>2, <1>3, <1>4, <1>5, <1>6, <1>7, <1>8 DEF Next, Work, GrowIdle, IndexAgain, vars

(* Every session stands in line once, a sweep has a session before it to   *)
(* visit, and no observation is in the store or counted by a consolidated  *)
(* one that was not captured: of the group a sweep has read and not yet    *)
(* consolidated it takes that nothing in it is newer than the capture      *)
(* (compressSession, sessionLifecycle.ts).                                 *)
THEOREM TypeCorrect == Spec => []TypeOK
<1>1. Typed /\ [Next]_vars => Typed'
  BY NextShape, NextLined, NextSweeps, NextCounted, NextFields DEF Typed
<1>2. QED
  BY <1>1, InitTyped, TypedIsOK, PTL DEF Spec
===============================================================================
