-------------------------- MODULE DeferredRefs_proofs --------------------------
(***************************************************************************)
(* Theorems about DeferredRefs, for any processes, hashes, capacities and  *)
(* cuts.  The bound on the rows needs an argument about all the processes  *)
(* that evict at once (Swept): each has selected its rows at another time. *)
(***************************************************************************)
EXTENDS DeferredRefs, FiniteSetTheorems, SequenceTheorems, TLAPS

-----------------------------------------------------------------------------
(* What is selected by ORDER BY ... LIMIT.                                 *)

LEMMA KeptFinite ==
  ASSUME NEW at
  PROVE  /\ IsFiniteSet(Kept(at)) /\ Cardinality(Kept(at)) \in Nat
         /\ \A T : IsFiniteSet(Kept(at) \ T) /\ Cardinality(Kept(at) \ T) \in Nat
<1>1. Kept(at) \in SUBSET Hash
  BY DEF Kept
<1>2. IsFiniteSet(Kept(at))
  BY <1>1, ConstantsAssumption, FS_Subset
<1>3. \A T : IsFiniteSet(Kept(at) \ T)
  BY <1>2, FS_Difference
<1>4. QED
  BY <1>2, <1>3, FS_CardinalityType

\* The rank of a key is the number of older ones; no two keys have the same.
LEMMA RankIsBijective ==
  ASSUME NEW at \in [Hash -> Nat]
  PROVE  /\ \A h \in Kept(at) : Rank(at, h) \in 0 .. Cardinality(Kept(at)) - 1
         /\ \A g, h \in Kept(at) : Rank(at, g) = Rank(at, h) => g = h
         /\ \A i \in 0 .. Cardinality(Kept(at)) - 1 : \E h \in Kept(at) : Rank(at, h) = i
<1> DEFINE S == Kept(at)
           N == Cardinality(S)
           Below(h) == {g \in S : Older(at, g, h)}
<1>1. IsFiniteSet(S) /\ N \in Nat
  BY KeptFinite
<1>2. \A h \in S : h \in Nat /\ at[h] \in Nat
  BY ConstantsAssumption DEF Kept
<1>3. \A f, g, h \in S : Older(at, f, g) /\ Older(at, g, h) => Older(at, f, h)
  BY <1>2 DEF Older
<1>4. \A g, h \in S : g # h => Older(at, g, h) \/ Older(at, h, g)
  BY <1>2 DEF Older
<1>5. \A h \in S : ~Older(at, h, h)
  BY <1>2 DEF Older
<1>6. \A h \in S : IsFiniteSet(Below(h)) /\ Rank(at, h) = Cardinality(Below(h)) /\ Rank(at, h) \in Nat
  <2> SUFFICES ASSUME NEW h \in S
               PROVE  IsFiniteSet(Below(h)) /\ Rank(at, h) = Cardinality(Below(h)) /\ Rank(at, h) \in Nat
    OBVIOUS
  <2>1. Below(h) \in SUBSET S
    OBVIOUS
  <2>2. IsFiniteSet(Below(h))
    BY <1>1, <2>1, FS_Subset
  <2>3. Rank(at, h) = Cardinality(Below(h))
    BY DEF Rank
  <2>4. QED
    BY <2>2, <2>3, FS_CardinalityType
<1>7. \A g, h \in S : Older(at, g, h) => Rank(at, g) < Rank(at, h)
  <2> SUFFICES ASSUME NEW g \in S, NEW h \in S, Older(at, g, h)
               PROVE  Rank(at, g) < Rank(at, h)
    OBVIOUS
  <2>1. Below(g) \in SUBSET Below(h)
    BY <1>3
  <2>2. Below(g) # Below(h)
    BY <1>5
  <2> HIDE DEF Below
  <2>3. QED
    BY <1>6, <2>1, <2>2, FS_Subset
<1>8. \A h \in S : Rank(at, h) \in 0 .. N - 1
  <2> SUFFICES ASSUME NEW h \in S PROVE Rank(at, h) \in 0 .. N - 1
    OBVIOUS
  <2>1. Below(h) \in SUBSET S /\ Below(h) # S
    BY <1>5
  <2>2. Cardinality(Below(h)) =< N /\ Cardinality(Below(h)) # N
    BY <1>1, <2>1, FS_Subset
  <2>3. Rank(at, h) = Cardinality(Below(h)) /\ Rank(at, h) \in Nat
    BY <1>6
  <2> HIDE DEF Below, N
  <2>4. QED
    BY <1>1, <2>2, <2>3
<1>9. \A g, h \in S : Rank(at, g) = Rank(at, h) => g = h
  <2>1. \A h \in S : Rank(at, h) \in Nat
    BY <1>6
  <2> HIDE DEF S
  <2>2. QED
    BY <1>4, <1>7, <2>1
<1>10. \A i \in 0 .. N - 1 : \E h \in S : Rank(at, h) = i
  <2> DEFINE f == [h \in S |-> Rank(at, h)]
  <2>1. f \in Injection(S, 0 .. N - 1)
    BY <1>8, <1>9 DEF Injection, IsInjective
  <2>2. IsFiniteSet(0 .. N - 1) /\ Cardinality(0 .. N - 1) = N
    BY <1>1, FS_Interval
  <2> HIDE DEF S, N, f
  <2>3. f \in Surjection(S, 0 .. N - 1)
    BY <2>1, <2>2, FS_Injection DEF N
  <2> USE DEF f
  <2>4. QED
    BY <2>3 DEF Surjection
<1>11. QED
  BY <1>8, <1>9, <1>10

\* The overflow is made of keys, and no more than the limit are left.
LEMMA OverflowProperties ==
  ASSUME NEW at \in [Hash -> Nat], NEW limit \in Nat
  PROVE  /\ Overflow(at, limit) \in Seq(Kept(at))
         /\ Cardinality(Kept(at) \ ToSet(Overflow(at, limit))) =< limit
<1> DEFINE S == Kept(at)
           N == Cardinality(S)
           E == Excess(at, limit)
           q == Overflow(at, limit)
           rest == S \ ToSet(q)
<1>1. N \in Nat /\ E \in Nat /\ E =< N /\ N - E =< limit
  BY KeptFinite DEF Excess
<1>2. q = [i \in 1..E |-> CHOOSE h \in S : Rank(at, h) = i - 1]
  BY DEF Overflow
<1> HIDE DEF S, N, E, q
<1>3. \A i \in 1..E : q[i] \in S /\ Rank(at, q[i]) = i - 1
  <2> SUFFICES ASSUME NEW i \in 1..E PROVE q[i] \in S /\ Rank(at, q[i]) = i - 1
    OBVIOUS
  <2>1. i - 1 \in 0 .. N - 1
    BY <1>1
  <2>2. \E h \in S : Rank(at, h) = i - 1
    BY <2>1, RankIsBijective DEF S, N
  <2>3. QED
    BY <1>2, <2>2
<1>4. q \in Seq(S)
  BY <1>1, <1>2, <1>3
<1>5. \A h \in rest : Rank(at, h) \in E .. N - 1
  <2> SUFFICES ASSUME NEW h \in S, Rank(at, h) \notin E .. N - 1 PROVE h \in ToSet(q)
    OBVIOUS
  <2>1. Rank(at, h) \in 0 .. N - 1
    BY RankIsBijective DEF S, N
  <2>2. Rank(at, h) + 1 \in 1..E
    BY <1>1, <2>1
  <2>3. Rank(at, q[Rank(at, h) + 1]) = Rank(at, h)
    BY <1>3, <2>1, <2>2
  <2>4. q[Rank(at, h) + 1] = h
    BY <1>3, <2>2, <2>3, RankIsBijective DEF S
  <2>5. QED
    BY <1>2, <2>2, <2>4 DEF ToSet
<1>6. Cardinality(rest) =< Cardinality(E .. N - 1)
  <2> DEFINE f == [h \in rest |-> Rank(at, h)]
  <2>1. f \in Injection(rest, E .. N - 1)
    BY <1>5, RankIsBijective DEF Injection, IsInjective, S
  <2>2. IsFiniteSet(E .. N - 1)
    BY <1>1, FS_Interval
  <2> HIDE DEF f, rest
  <2>3. QED
    BY <2>1, <2>2, FS_Injection
<1>7. Cardinality(E .. N - 1) = N - E
  BY <1>1, FS_Interval
<1>8. Cardinality(rest) \in Nat
  BY KeptFinite DEF S
<1>9. QED
  BY <1>1, <1>4, <1>6, <1>7, <1>8 DEF S, q

-----------------------------------------------------------------------------
(* What publish does to the entries of a process.                          *)

\* What is left of a sequence behind its k-th place.
LEMMA BackProperties ==
  ASSUME NEW S, NEW q \in Seq(S), NEW k \in DOMAIN q
  PROVE  /\ SubSeq(q, k + 1, Len(q)) \in Seq(S)
         /\ Len(SubSeq(q, k + 1, Len(q))) = Len(q) - k
         /\ \A i \in 1 .. Len(q) - k : SubSeq(q, k + 1, Len(q))[i] = q[k + i]
<1>1. Len(q) \in Nat /\ DOMAIN q = 1..Len(q)
  OBVIOUS
<1>2. \A i \in k + 1 .. Len(q) : q[i] \in S
  BY <1>1
<1>3. /\ SubSeq(q, k + 1, Len(q)) \in Seq(S)
      /\ Len(SubSeq(q, k + 1, Len(q))) = IF k + 1 =< Len(q) THEN Len(q) - (k + 1) + 1 ELSE 0
      /\ \A i \in 1 .. Len(q) - (k + 1) + 1 : SubSeq(q, k + 1, Len(q))[i] = q[k + 1 + i - 1]
  BY <1>1, <1>2, SubSeqProperties
<1>4. \A i \in 1 .. Len(q) - k : k + 1 + i - 1 = k + i /\ i \in 1 .. Len(q) - (k + 1) + 1
  BY <1>1
<1>5. Len(SubSeq(q, k + 1, Len(q))) = Len(q) - k
  BY <1>1, <1>3
<1>6. ASSUME NEW i \in 1 .. Len(q) - k PROVE SubSeq(q, k + 1, Len(q))[i] = q[k + i]
  BY <1>3, <1>4
<1>7. QED
  BY <1>3, <1>5, <1>6

\* A sequence without one of its places.
LEMMA RemoveAtProperties ==
  ASSUME NEW S, NEW q \in Seq(S), NEW k \in DOMAIN q
  PROVE  /\ RemoveAt(q, k) \in Seq(S)
         /\ Len(RemoveAt(q, k)) = Len(q) - 1
         /\ \A i \in 1 .. Len(q) - 1 : RemoveAt(q, k)[i] = IF i < k THEN q[i] ELSE q[i + 1]
<1> DEFINE r == RemoveAt(q, k)
<1>1. Len(q) \in Nat /\ DOMAIN q = 1..Len(q)
  OBVIOUS
<1>2. r = SubSeq(q, 1, k - 1) \o SubSeq(q, k + 1, Len(q))
  BY DEF RemoveAt
<1> HIDE DEF r
<1>3. /\ SubSeq(q, 1, k - 1) \in Seq(S)
      /\ Len(SubSeq(q, 1, k - 1)) = k - 1
      /\ \A i \in 1 .. k - 1 : SubSeq(q, 1, k - 1)[i] = q[i]
  BY <1>1, SubSeqProperties
<1>4. /\ r \in Seq(S) /\ Len(r) = k - 1 + (Len(q) - k)
      /\ \A i \in 1 .. k - 1 + (Len(q) - k) :
           r[i] = IF i =< k - 1 THEN SubSeq(q, 1, k - 1)[i]
                  ELSE SubSeq(q, k + 1, Len(q))[i - (k - 1)]
  <2>1. SubSeq(q, k + 1, Len(q)) \in Seq(S) /\ Len(SubSeq(q, k + 1, Len(q))) = Len(q) - k
    BY BackProperties
  <2> DEFINE front == SubSeq(q, 1, k - 1)
             back == SubSeq(q, k + 1, Len(q))
  <2>2. front \in Seq(S) /\ Len(front) = k - 1 /\ back \in Seq(S) /\ Len(back) = Len(q) - k
    BY <1>3, <2>1
  <2> HIDE DEF front, back
  <2>3. /\ front \o back \in Seq(S) /\ Len(front \o back) = Len(front) + Len(back)
        /\ \A i \in 1 .. Len(front) + Len(back) :
             (front \o back)[i] = IF i =< Len(front) THEN front[i] ELSE back[i - Len(front)]
    BY <2>2, ConcatProperties
  <2>4. r = front \o back
    BY <1>2 DEF front, back
  <2>5. /\ r \in Seq(S) /\ Len(r) = k - 1 + (Len(q) - k)
        /\ \A i \in 1 .. k - 1 + (Len(q) - k) :
             r[i] = IF i =< k - 1 THEN front[i] ELSE back[i - (k - 1)]
    BY <2>2, <2>3, <2>4
  <2>6. QED
    BY <2>5 DEF front, back
<1>5. ASSUME NEW i \in 1 .. Len(q) - 1 PROVE r[i] = IF i < k THEN q[i] ELSE q[i + 1]
  <2>1. CASE i < k
    BY <1>1, <1>3, <1>4, <2>1
  <2>2. CASE i >= k
    <3>1. i - (k - 1) \in 1 .. Len(q) - k /\ k + (i - (k - 1)) = i + 1
      BY <1>1, <2>2
    <3>2. r[i] = SubSeq(q, k + 1, Len(q))[i - (k - 1)]
      BY <1>1, <1>4, <2>2
    <3>3. SubSeq(q, k + 1, Len(q))[i - (k - 1)] = q[i + 1]
      <4>1. \A j \in 1 .. Len(q) - k : k + j = i + 1 => SubSeq(q, k + 1, Len(q))[j] = q[i + 1]
        BY BackProperties
      <4>2. QED
        BY <3>1, <4>1
    <3>4. ~(i < k)
      BY <1>1, <2>2
    <3>5. QED
      BY <3>2, <3>3, <3>4
  <2>3. QED
    BY <1>1, <2>1, <2>2
<1>6. QED
  BY <1>1, <1>4, <1>5 DEF r

\* The place of an element that occurs once is left out with it.
LEMMA RemoveOnly ==
  ASSUME NEW S, NEW q \in Seq(S), IsInjective(q), NEW k \in DOMAIN q
  PROVE  /\ IsInjective(RemoveAt(q, k))
         /\ ToSet(RemoveAt(q, k)) = ToSet(q) \ {q[k]}
<1> DEFINE r == RemoveAt(q, k)
           from(i) == IF i < k THEN i ELSE i + 1
<1>1. Len(q) \in Nat /\ DOMAIN q = 1..Len(q)
  OBVIOUS
<1>2. /\ r \in Seq(S) /\ Len(r) = Len(q) - 1
      /\ \A i \in 1 .. Len(q) - 1 : r[i] = IF i < k THEN q[i] ELSE q[i + 1]
  BY RemoveAtProperties
<1> HIDE DEF r
<1>3. DOMAIN r = 1 .. Len(q) - 1 /\ \A i \in 1 .. Len(q) - 1 : r[i] = q[from(i)]
  BY <1>1, <1>2
<1>4. \A i \in 1 .. Len(q) - 1 : from(i) \in 1..Len(q) /\ from(i) # k
  BY <1>1
<1>5. \A i, j \in 1 .. Len(q) - 1 : from(i) = from(j) => i = j
  BY <1>1
<1> HIDE DEF from
<1>6. IsInjective(r)
  BY <1>1, <1>3, <1>4, <1>5 DEF IsInjective
<1>7. ToSet(r) \subseteq ToSet(q) \ {q[k]}
  BY <1>1, <1>3, <1>4 DEF ToSet, IsInjective
<1>8. ASSUME NEW i \in 1..Len(q), q[i] # q[k] PROVE \E j \in 1 .. Len(q) - 1 : r[j] = q[i]
  <2>1. CASE i < k
    BY <1>1, <1>2, <2>1
  <2>2. CASE i > k
    <3>1. i - 1 \in 1 .. Len(q) - 1 /\ ~(i - 1 < k) /\ i - 1 + 1 = i
      BY <1>1, <2>2
    <3>2. r[i - 1] = q[i]
      BY <1>2, <3>1
    <3>3. QED
      BY <3>1, <3>2
  <2>3. QED
    BY <1>1, <1>8, <2>1, <2>2
<1>9. ToSet(q) \ {q[k]} \subseteq ToSet(r)
  BY <1>1, <1>3, <1>8 DEF ToSet
<1>10. QED
  BY <1>6, <1>7, <1>9 DEF r

LEMMA WithoutProperties ==
  ASSUME NEW S, NEW q \in Seq(S), IsInjective(q), NEW h
  PROVE  /\ Without(q, h) \in Seq(S)
         /\ IsInjective(Without(q, h))
         /\ Len(Without(q, h)) =< Len(q)
         /\ ToSet(Without(q, h)) = ToSet(q) \ {h}
<1>1. Len(q) \in Nat /\ DOMAIN q = 1..Len(q)
  OBVIOUS
<1>2. CASE h \notin ToSet(q)
  BY <1>1, <1>2 DEF Without
<1>3. CASE h \in ToSet(q)
  <2> DEFINE k == CHOOSE i \in DOMAIN q : q[i] = h
  <2>1. k \in DOMAIN q /\ q[k] = h
    BY <1>1, <1>3 DEF ToSet
  <2>2. Without(q, h) = RemoveAt(q, k)
    BY <1>3 DEF Without
  <2> HIDE DEF k
  <2>3. /\ RemoveAt(q, k) \in Seq(S) /\ Len(RemoveAt(q, k)) = Len(q) - 1
        /\ IsInjective(RemoveAt(q, k)) /\ ToSet(RemoveAt(q, k)) = ToSet(q) \ {h}
    BY <2>1, RemoveAtProperties, RemoveOnly
  <2>4. QED
    BY <1>1, <2>2, <2>3
<1>4. QED
  BY <1>2, <1>3

LEMMA AppendFresh ==
  ASSUME NEW S, NEW q \in Seq(S), IsInjective(q), NEW h \in S \ ToSet(q)
  PROVE  /\ IsInjective(Append(q, h))
         /\ ToSet(Append(q, h)) = ToSet(q) \cup {h}
<1>1. /\ Append(q, h) \in Seq(S) /\ Len(Append(q, h)) = Len(q) + 1 /\ Len(q) \in Nat
      /\ \A i \in 1..Len(q) : Append(q, h)[i] = q[i]
      /\ Append(q, h)[Len(q) + 1] = h
  BY AppendProperties
<1>2. DOMAIN Append(q, h) = 1 .. Len(q) + 1 /\ DOMAIN q = 1..Len(q)
  BY <1>1
<1>3. \A i \in 1..Len(q) : q[i] # h
  BY <1>2 DEF ToSet
<1>4. QED
  BY <1>1, <1>2, <1>3 DEF IsInjective, ToSet

LEMMA TailProperties ==
  ASSUME NEW S, NEW q \in Seq(S), q # <<>>
  PROVE  /\ Tail(q) \in Seq(S) /\ Head(q) \in ToSet(q) /\ Head(q) \in S
         /\ Len(Tail(q)) = Len(q) - 1
         /\ ToSet(q) = ToSet(Tail(q)) \cup {Head(q)}
         /\ IsInjective(q) => IsInjective(Tail(q)) /\ Head(q) \notin ToSet(Tail(q))
<1>1. /\ Tail(q) \in Seq(S) /\ Len(Tail(q)) = Len(q) - 1
      /\ \A i \in 1 .. Len(q) - 1 : Tail(q)[i] = q[i + 1]
  BY HeadTailProperties
<1>2. Len(q) \in Nat \ {0} /\ DOMAIN q = 1..Len(q) /\ DOMAIN Tail(q) = 1 .. Len(q) - 1
  BY <1>1, EmptySeq
<1>3. Head(q) = q[1] /\ 1 \in DOMAIN q
  BY <1>2
<1>4. \A i \in 2..Len(q) : i - 1 \in 1 .. Len(q) - 1 /\ Tail(q)[i - 1] = q[i]
  BY <1>1, <1>2
<1>5. \A i \in 1..Len(q) : i = 1 \/ i \in 2..Len(q)
  BY <1>2
<1>6. ToSet(q) \subseteq ToSet(Tail(q)) \cup {Head(q)}
  BY <1>2, <1>3, <1>4, <1>5 DEF ToSet
<1>7. ToSet(Tail(q)) \cup {Head(q)} \subseteq ToSet(q)
  BY <1>1, <1>2, <1>3 DEF ToSet
<1>8. IsInjective(q) => IsInjective(Tail(q)) /\ Head(q) \notin ToSet(Tail(q))
  BY <1>1, <1>2, <1>3 DEF ToSet, IsInjective
<1>9. QED
  BY <1>1, <1>3, <1>6, <1>7, <1>8, HeadTailProperties DEF ToSet

-----------------------------------------------------------------------------
(* Types.                                                                  *)

\* TypeOK with the domains of the functions it leaves open, and what a
\* process in the middle of a persist has at hand.
Typed ==
  /\ TypeOK
  /\ entries = [p \in Proc |-> entries[p]]
  /\ expired = [p \in Proc |-> expired[p]]
  /\ doomed = [p \in Proc |-> doomed[p]]
  /\ \A p \in Proc :
       pc[p] \in {"upsert", "untomb"} => ref[p].hash \in Hash /\ ref[p].at \in 1..MaxClock
  /\ \A p \in Proc : pc[p] = "bury" => doomed[p] # <<>>

LEMMA TypedInit == Init => Typed
<1> SUFFICES ASSUME Init PROVE Typed
  OBVIOUS
<1>1. ToSet(<<>>) = {} /\ IsInjective(<<>>) /\ <<>> \in Seq(Hash) /\ Len(<<>>) = 0
  BY DEF ToSet, IsInjective
<1>2. QED
  BY <1>1, ConstantsAssumption DEF Init, Typed, TypeOK, NoRef

\* A hash is published last and out of the marks; no other is forgotten.
LEMMA PublishEffect ==
  ASSUME Typed, NEW p \in Proc, NEW h \in Hash, Publish(p, h)
  PROVE  /\ entries'[p] \in Seq(Hash) /\ Len(entries'[p]) =< Capacity
         /\ IsInjective(entries'[p])
         /\ expired'[p] \subseteq Hash \ ToSet(entries'[p])
         /\ ToSet(entries'[p]) \cup expired'[p] = ToSet(entries[p]) \cup expired[p] \cup {h}
<1> DEFINE rest == Without(entries[p], h)
           queue == Append(rest, h)
<1>1. /\ entries[p] \in Seq(Hash) /\ Len(entries[p]) =< Capacity /\ IsInjective(entries[p])
      /\ expired[p] \subseteq Hash \ ToSet(entries[p])
  BY DEF Typed, TypeOK
<1>2. /\ rest \in Seq(Hash) /\ IsInjective(rest) /\ Len(rest) =< Len(entries[p])
      /\ ToSet(rest) = ToSet(entries[p]) \ {h}
  BY <1>1, WithoutProperties
<1>3. entries'[p] = IF Len(queue) > Capacity THEN Tail(queue) ELSE queue
  BY DEF Publish, Typed
<1>4. expired'[p] = (expired[p] \ {h}) \cup IF Len(queue) > Capacity THEN {Head(queue)} ELSE {}
  BY DEF Publish, Typed
<1> HIDE DEF rest
<1>5. /\ queue \in Seq(Hash) /\ queue # <<>> /\ Len(queue) = Len(rest) + 1
      /\ IsInjective(queue) /\ ToSet(queue) = (ToSet(entries[p]) \ {h}) \cup {h}
  BY <1>2, AppendProperties, AppendFresh
<1> HIDE DEF queue
<1>6. /\ Tail(queue) \in Seq(Hash) /\ Head(queue) \in Hash
      /\ Len(Tail(queue)) = Len(queue) - 1 /\ IsInjective(Tail(queue))
      /\ ToSet(queue) = ToSet(Tail(queue)) \cup {Head(queue)}
      /\ Head(queue) \notin ToSet(Tail(queue))
  BY <1>5, TailProperties
<1>7. Len(entries[p]) \in Nat /\ Len(rest) \in Nat /\ Capacity \in Nat
  BY <1>1, <1>2, ConstantsAssumption
<1>8. CASE Len(queue) > Capacity
  <2>1. entries'[p] = Tail(queue) /\ expired'[p] = (expired[p] \ {h}) \cup {Head(queue)}
    BY <1>3, <1>4, <1>8
  <2>2. Len(entries'[p]) =< Capacity
    BY <1>1, <1>2, <1>5, <1>6, <1>7, <2>1
  <2>3. QED
    BY <1>1, <1>5, <1>6, <2>1, <2>2
<1>9. CASE ~(Len(queue) > Capacity)
  <2>1. entries'[p] = queue /\ expired'[p] = expired[p] \ {h}
    BY <1>3, <1>4, <1>9
  <2>2. Len(entries'[p]) =< Capacity
    BY <1>5, <1>7, <1>9, <2>1
  <2>3. QED
    BY <1>1, <1>5, <2>1, <2>2
<1>10. QED
  BY <1>8, <1>9

LEMMA TypedStep == Typed /\ [Next]_vars => Typed'
<1> SUFFICES ASSUME Typed, [Next]_vars PROVE Typed'
  OBVIOUS
<1> USE ConstantsAssumption
<1>1. ASSUME NEW p \in Proc, NEW h \in Hash, Publish(p, h) PROVE Typed'
  <2>1. /\ entries' = [q \in Proc |-> entries'[q]] /\ expired' = [q \in Proc |-> expired'[q]]
        /\ \A q \in Proc \ {p} : entries'[q] = entries[q] /\ expired'[q] = expired[q]
    BY <1>1 DEF Publish, Typed
  <2>2. \A q \in Proc :
          /\ entries'[q] \in Seq(Hash) /\ Len(entries'[q]) =< Capacity
          /\ IsInjective(entries'[q]) /\ expired'[q] \subseteq Hash \ ToSet(entries'[q])
    BY <1>1, <2>1, PublishEffect DEF Typed, TypeOK
  <2>3. /\ pc' = [pc EXCEPT ![p] = "upsert"] /\ ref' = [ref EXCEPT ![p] = [hash |-> h, at |-> clock]]
        /\ UNCHANGED <<clock, row, tomb, doomed, cuts>>
    BY <1>1 DEF Publish, Go
  <2>4. clock \in 1..MaxClock
    BY DEF Typed, TypeOK
  <2>5. ref' \in [Proc -> [hash : Hash \cup {0}, at : 0..MaxClock]]
    BY <2>3, <2>4 DEF Typed, TypeOK
  <2>6. \A q \in Proc :
          pc'[q] \in {"upsert", "untomb"} => ref'[q].hash \in Hash /\ ref'[q].at \in 1..MaxClock
    BY <2>3, <2>4 DEF Typed, TypeOK
  <2>7. QED
    BY <2>1, <2>2, <2>3, <2>5, <2>6 DEF Typed, TypeOK
<1>2. ASSUME NEW p \in Proc, Upsert(p) PROVE Typed'
  BY <1>2 DEF Upsert, Go, Typed, TypeOK
<1>3. ASSUME NEW p \in Proc, DeleteTombstone(p) PROVE Typed'
  BY <1>3 DEF DeleteTombstone, Go, NoRef, Typed, TypeOK
<1>4. ASSUME NEW p \in Proc, SelectOverflow(p) PROVE Typed'
  <2>1. row \in [Hash -> Nat] /\ MaxRecords \in Nat
    BY DEF Typed, TypeOK
  <2>2. Overflow(row, MaxRecords) \in Seq(Hash)
    <3>1. Overflow(row, MaxRecords) \in Seq(Kept(row))
      BY <2>1, OverflowProperties
    <3>2. Kept(row) \subseteq Hash
      BY DEF Kept
    <3>3. QED
      BY <3>1, <3>2, SeqMonotonic
  <2>3. QED
    BY <1>4, <2>2 DEF SelectOverflow, Go, Typed, TypeOK
<1>5. ASSUME NEW p \in Proc, DeleteRow(p) PROVE Typed'
  <2>1. row' \in [Hash -> 0..MaxClock]
    BY <1>5 DEF DeleteRow, Typed, TypeOK
  <2>2. pc' = [pc EXCEPT ![p] = "bury"] /\ doomed[p] # <<>> /\ doomed' = doomed
    BY <1>5 DEF DeleteRow, Go
  <2>3. pc' = [q \in Proc |-> IF q = p THEN "bury" ELSE pc[q]]
    BY <2>2 DEF Typed, TypeOK
  <2>3a. pc' \in [Proc -> {"idle", "upsert", "untomb", "select", "evict", "bury"}]
    BY <2>3 DEF Typed, TypeOK
  <2>4. UNCHANGED <<clock, tomb, entries, expired, ref, cuts>>
    BY <1>5 DEF DeleteRow
  <2>5. QED
    BY <2>1, <2>2, <2>3, <2>3a, <2>4 DEF Typed, TypeOK
<1>6. ASSUME NEW p \in Proc, Bury(p) PROVE Typed'
  <2>1. Tail(doomed[p]) \in Seq(Hash)
    BY <1>6, HeadTailProperties DEF Bury, Typed, TypeOK
  <2>2. tomb' \in [Hash -> 0..MaxClock]
    BY <1>6 DEF Bury, Typed, TypeOK
  <2>2a. doomed' = [doomed EXCEPT ![p] = Tail(@)] /\ doomed = [q \in Proc |-> doomed[q]]
    BY <1>6 DEF Bury, Typed
  <2>2b. /\ doomed' = [q \in Proc |-> doomed'[q]] /\ \A q \in Proc : doomed'[q] \in Seq(Hash)
         /\ \A q \in Proc \ {p} : doomed'[q] = doomed[q]
    BY <2>1, <2>2a DEF Typed, TypeOK
  <2>3. /\ pc' \in [Proc -> {"idle", "upsert", "untomb", "select", "evict", "bury"}]
        /\ \A q \in Proc : IF q = p THEN pc'[q] = "evict" ELSE pc'[q] = pc[q]
    BY <1>6 DEF Bury, Go, Typed, TypeOK
  <2>4. UNCHANGED <<clock, row, entries, expired, ref, cuts>>
    BY <1>6 DEF Bury
  <2>5. QED
    BY <2>2, <2>2b, <2>3, <2>4 DEF Typed, TypeOK
<1>7. ASSUME NEW p \in Proc, TrimTombstones(p) PROVE Typed'
  BY <1>7 DEF TrimTombstones, Go, Typed, TypeOK
<1>8. ASSUME NEW p \in Proc, Crash(p) PROVE Typed'
  <2>1. ToSet(<<>>) = {} /\ IsInjective(<<>>) /\ <<>> \in Seq(Hash) /\ Len(<<>>) = 0
    BY DEF ToSet, IsInjective
  <2>2. /\ entries' = [q \in Proc |-> IF q = p THEN <<>> ELSE entries[q]]
        /\ expired' = [q \in Proc |-> IF q = p THEN {} ELSE expired[q]]
        /\ doomed' = [q \in Proc |-> IF q = p THEN <<>> ELSE doomed[q]]
    BY <1>8 DEF Crash, CutOff, Typed
  <2>3. /\ pc' \in [Proc -> {"idle", "upsert", "untomb", "select", "evict", "bury"}]
        /\ ref' \in [Proc -> [hash : Hash \cup {0}, at : 0..MaxClock]]
        /\ \A q \in Proc : IF q = p THEN pc'[q] = "idle" ELSE pc'[q] = pc[q] /\ ref'[q] = ref[q]
    BY <1>8 DEF Crash, CutOff, Go, NoRef, Typed, TypeOK
  <2>4. cuts' \in 0..MaxCuts /\ UNCHANGED <<clock, row, tomb>>
    BY <1>8 DEF Crash, CutOff, Typed, TypeOK
  <2>5. \A q \in Proc :
          /\ entries'[q] \in Seq(Hash) /\ Len(entries'[q]) =< Capacity
          /\ IsInjective(entries'[q]) /\ expired'[q] \subseteq Hash \ ToSet(entries'[q])
          /\ doomed'[q] \in Seq(Hash) /\ (q # p => doomed'[q] = doomed[q])
    BY <2>1, <2>2 DEF Typed, TypeOK
  <2>6. /\ entries' = [q \in Proc |-> entries'[q]]
        /\ expired' = [q \in Proc |-> expired'[q]]
        /\ doomed' = [q \in Proc |-> doomed'[q]]
    BY <2>2
  <2>7. QED
    BY <2>3, <2>4, <2>5, <2>6 DEF Typed, TypeOK
<1>9. ASSUME NEW p \in Proc, Fails(p) PROVE Typed'
  <2>1. <<>> \in Seq(Hash)
    OBVIOUS
  <2>2. doomed' = [q \in Proc |-> IF q = p THEN <<>> ELSE doomed[q]]
    BY <1>9 DEF Fails, CutOff, Typed
  <2>3. /\ pc' \in [Proc -> {"idle", "upsert", "untomb", "select", "evict", "bury"}]
        /\ ref' \in [Proc -> [hash : Hash \cup {0}, at : 0..MaxClock]]
        /\ \A q \in Proc : IF q = p THEN pc'[q] = "idle" ELSE pc'[q] = pc[q] /\ ref'[q] = ref[q]
    BY <1>9 DEF Fails, CutOff, Go, NoRef, Typed, TypeOK
  <2>4. cuts' \in 0..MaxCuts /\ UNCHANGED <<clock, row, tomb, entries, expired>>
    BY <1>9 DEF Fails, CutOff, Typed, TypeOK
  <2>5. \A q \in Proc : doomed'[q] \in Seq(Hash) /\ (q # p => doomed'[q] = doomed[q])
    BY <2>1, <2>2 DEF Typed, TypeOK
  <2>6. doomed' = [q \in Proc |-> doomed'[q]]
    BY <2>2
  <2>7. QED
    BY <2>3, <2>4, <2>5, <2>6 DEF Typed, TypeOK
<1>10. CASE Tick
  BY <1>10 DEF Tick, Typed, TypeOK
<1>11. CASE UNCHANGED vars
  BY <1>11 DEF vars, Typed, TypeOK
<1>12. QED
  BY <1>1, <1>2, <1>3, <1>4, <1>5, <1>6, <1>7, <1>8, <1>9, <1>10, <1>11 DEF Next, ProcStep

(* The variables keep their types, and in the store of a process no hash   *)
(* is an entry twice, or an entry and expired (createDeferredVexpStore).   *)
THEOREM TypeCorrect == Spec => []TypeOK
<1>1. Typed => TypeOK
  BY DEF Typed
<1>2. QED
  BY TypedInit, TypedStep, <1>1, PTL DEF Spec

-----------------------------------------------------------------------------
(* What is answered for a hash.                                            *)

\* p answers for h, or a burial of h is due.
Traced(p, h) ==
  \/ h \in ToSet(entries[p]) \cup expired[p]
  \/ row[h] # 0 \/ tomb[h] # 0
  \/ \E q \in Proc : pc[q] = "bury" /\ Head(doomed[q]) = h

LEMMA AnswerableIsTraced ==
  ASSUME NEW p \in Proc, NEW h \in Hash
  PROVE  (Answerable(p, h) <=> Traced(p, h)) /\ (Answerable(p, h)' <=> Traced(p, h)')
BY DEF Answerable, Resolution, Due, Traced

\* The circumstances under which p comes to answer "unknown_hash".
Lost(p, h) ==
  \/ Crash(p) /\ row[h] = 0 /\ tomb[h] = 0
  \/ /\ h \notin ToSet(entries[p]) \cup expired[p]
     /\ \E q \in Proc :
          \/ TrimTombstones(q) /\ h \in ToSet(Overflow(tomb, MaxTombs))
          \/ Crash(q) /\ h \in Due(q)
          \/ Fails(q) /\ h \in Due(q)
          \/ DeleteTombstone(q) /\ ref[q].hash = h /\ row[h] = 0

LEMMA OnlyLost ==
  ASSUME Typed, Next, NEW p \in Proc, NEW h \in Hash, Traced(p, h), ~Traced(p, h)'
  PROVE  Lost(p, h)
<1>1. /\ h \notin ToSet(entries'[p]) \cup expired'[p]
      /\ row'[h] = 0 /\ tomb'[h] = 0
      /\ \A q \in Proc : ~(pc'[q] = "bury" /\ Head(doomed'[q]) = h)
  BY DEF Traced
<1>2. /\ pc \in [Proc -> {"idle", "upsert", "untomb", "select", "evict", "bury"}]
      /\ row \in [Hash -> Nat] /\ tomb \in [Hash -> Nat] /\ clock \in Nat \ {0}
      /\ entries = [q \in Proc |-> entries[q]] /\ expired = [q \in Proc |-> expired[q]]
      /\ doomed = [q \in Proc |-> doomed[q]]
  BY DEF Typed, TypeOK
<1>3. ASSUME NEW q \in Proc, NEW g \in Hash, Publish(q, g) PROVE FALSE
  <2>1. ToSet(entries[p]) \cup expired[p] \subseteq ToSet(entries'[p]) \cup expired'[p]
    <3>1. CASE q = p
      BY <1>3, <3>1, PublishEffect
    <3>2. CASE q # p
      BY <1>2, <1>3, <3>2 DEF Publish
    <3>3. QED
      BY <3>1, <3>2
  <2>2. /\ row' = row /\ tomb' = tomb /\ doomed' = doomed
        /\ \A r \in Proc : pc[r] = "bury" => pc'[r] = "bury"
    BY <1>2, <1>3 DEF Publish, Go
  <2>3. QED
    BY <1>1, <2>1, <2>2 DEF Traced
<1>4. ASSUME NEW q \in Proc, Upsert(q) PROVE FALSE
  <2>1. ref[q].at # 0 /\ row' = [row EXCEPT ![ref[q].hash] = ref[q].at]
    BY <1>4 DEF Upsert, Typed
  <2>2. row[h] = 0
    BY <1>1, <1>2, <2>1
  <2>3. /\ UNCHANGED <<tomb, entries, expired, doomed>>
        /\ \A r \in Proc : pc[r] = "bury" => pc'[r] = "bury"
    BY <1>2, <1>4 DEF Upsert, Go
  <2>4. QED
    BY <1>1, <2>2, <2>3 DEF Traced
<1>5. ASSUME NEW q \in Proc, DeleteTombstone(q) PROVE Lost(p, h)
  <2>1. /\ UNCHANGED <<row, entries, expired, doomed>>
        /\ \A r \in Proc : pc[r] = "bury" => pc'[r] = "bury"
    BY <1>2, <1>5 DEF DeleteTombstone, Go
  <2>2. ref[q].hash = h
    BY <1>1, <1>2, <1>5, <2>1 DEF DeleteTombstone, Traced
  <2>3. QED
    BY <1>1, <1>5, <2>1, <2>2 DEF Lost
<1>6. ASSUME NEW q \in Proc, SelectOverflow(q) PROVE FALSE
  <2>1. /\ UNCHANGED <<row, tomb, entries, expired>>
        /\ \A r \in Proc : pc[r] = "bury" => pc'[r] = "bury" /\ doomed'[r] = doomed[r]
    BY <1>2, <1>6 DEF SelectOverflow, Go
  <2>2. QED
    BY <1>1, <2>1 DEF Traced
<1>7. ASSUME NEW q \in Proc, DeleteRow(q) PROVE FALSE
  <2>1. /\ UNCHANGED <<tomb, entries, expired, doomed>>
        /\ row' = [row EXCEPT ![Head(doomed[q])] = 0]
        /\ pc' = [pc EXCEPT ![q] = "bury"]
    BY <1>7 DEF DeleteRow, Go
  <2>2. Head(doomed[q]) # h
    BY <1>1, <1>2, <2>1
  <2>3. row'[h] = row[h] /\ \A r \in Proc : pc[r] = "bury" => pc'[r] = "bury"
    BY <1>2, <2>1, <2>2
  <2>4. QED
    BY <1>1, <2>1, <2>3 DEF Traced
<1>8. ASSUME NEW q \in Proc, Bury(q) PROVE FALSE
  <2>1. /\ UNCHANGED <<row, entries, expired>>
        /\ tomb' = [tomb EXCEPT ![Head(doomed[q])] = clock]
    BY <1>8 DEF Bury
  <2>2. Head(doomed[q]) # h
    BY <1>1, <1>2, <2>1
  <2>3. /\ tomb'[h] = tomb[h]
        /\ \A r \in Proc \ {q} : pc'[r] = pc[r] /\ doomed'[r] = doomed[r]
    BY <1>2, <1>8, <2>1, <2>2 DEF Bury, Go
  <2>4. QED
    BY <1>1, <2>1, <2>2, <2>3 DEF Traced
<1>9. ASSUME NEW q \in Proc, TrimTombstones(q) PROVE Lost(p, h)
  <2>1. /\ UNCHANGED <<row, entries, expired, doomed>>
        /\ \A r \in Proc : pc[r] = "bury" => pc'[r] = "bury"
    BY <1>2, <1>9 DEF TrimTombstones, Go
  <2>2. tomb[h] # 0
    BY <1>1, <2>1 DEF Traced
  <2>3. h \in ToSet(Overflow(tomb, MaxTombs))
    BY <1>1, <1>9, <2>2 DEF TrimTombstones
  <2>4. QED
    BY <1>1, <1>9, <2>1, <2>3 DEF Lost
<1>10. ASSUME NEW q \in Proc, Crash(q) PROVE Lost(p, h)
  <2>1. row[h] = 0 /\ tomb[h] = 0
    BY <1>1, <1>10 DEF Crash, CutOff
  <2>2. CASE q = p
    BY <1>10, <2>1, <2>2 DEF Lost
  <2>3. CASE q # p
    <3>1. /\ entries'[p] = entries[p] /\ expired'[p] = expired[p]
          /\ \A r \in Proc \ {q} : pc'[r] = pc[r] /\ doomed'[r] = doomed[r]
      BY <1>2, <1>10, <2>3 DEF Crash, CutOff, Go
    <3>2. pc[q] = "bury" /\ Head(doomed[q]) = h
      BY <1>1, <2>1, <3>1 DEF Traced
    <3>3. h \in Due(q)
      BY <3>2 DEF Due
    <3>4. QED
      BY <1>1, <1>10, <3>1, <3>3 DEF Lost
  <2>4. QED
    BY <2>2, <2>3
<1>11. ASSUME NEW q \in Proc, Fails(q) PROVE Lost(p, h)
  <2>1. /\ UNCHANGED <<row, tomb, entries, expired>>
        /\ \A r \in Proc \ {q} : pc'[r] = pc[r] /\ doomed'[r] = doomed[r]
    BY <1>2, <1>11 DEF Fails, CutOff, Go
  <2>2. pc[q] = "bury" /\ Head(doomed[q]) = h
    BY <1>1, <2>1 DEF Traced
  <2>3. h \in Due(q)
    BY <2>2 DEF Due
  <2>4. QED
    BY <1>1, <1>11, <2>1, <2>3 DEF Lost
<1>12. CASE Tick
  BY <1>1, <1>12 DEF Tick, Traced
<1>13. QED
  BY <1>3, <1>4, <1>5, <1>6, <1>7, <1>8, <1>9, <1>10, <1>11, <1>12 DEF Next, ProcStep

(* A ref that is answered for comes to be unknown in the five ways only    *)
(* that the property names, whatever the processes do between each other's *)
(* statements (persistDeferredVexpRef, cleanupDeferredVexpRefs).           *)
THEOREM ForgottenInFiveWays == Spec => UnknownOnlyInFiveWays
<1>1. Typed /\ [Next]_vars =>
        [\A p \in Proc, h \in Hash :
           (Answerable(p, h) /\ ~Answerable(p, h)') =>
             \/ Crash(p) /\ row[h] = 0 /\ tomb[h] = 0
             \/ /\ h \notin ToSet(entries[p]) \cup expired[p]
                /\ \E q \in Proc :
                     \/ TrimTombstones(q) /\ h \in ToSet(Overflow(tomb, MaxTombs))
                     \/ Crash(q) /\ h \in Due(q)
                     \/ Fails(q) /\ h \in Due(q)
                     \/ DeleteTombstone(q) /\ ref[q].hash = h /\ row[h] = 0]_vars
  BY AnswerableIsTraced, OnlyLost DEF Lost
<1>2. QED
  BY TypedInit, TypedStep, <1>1, PTL DEF Spec, UnknownOnlyInFiveWays

-----------------------------------------------------------------------------
(* How many rows there are.                                                *)

Evicting == {p \in Proc : pc[p] \in {"evict", "bury"}}

\* The rows p has still to delete.
Pending(p) == ToSet(IF pc[p] = "bury" THEN Tail(doomed[p]) ELSE doomed[p])

\* Of any processes that evict, one is to leave no more rows than the limit
\* and those of the processes besides: the one that selected last, since
\* every row that came after its selection belongs to a process that has
\* still to select, or was cut off.
Swept ==
  \A Q \in SUBSET Evicting : Q # {} =>
    \E p \in Q :
      Cardinality(Kept(row) \ Pending(p)) =< MaxRecords + Cardinality(Sweeping \ Q) + cuts

LEMMA SweepingFinite ==
  \A Q : IsFiniteSet(Sweeping \ Q) /\ Cardinality(Sweeping \ Q) \in Nat
<1>1. Sweeping \in SUBSET Proc
  BY DEF Sweeping
<1>2. IsFiniteSet(Sweeping)
  BY <1>1, ConstantsAssumption, FS_Subset
<1>3. QED
  BY <1>2, FS_Difference, FS_CardinalityType

\* Less is left, or as much, of fewer rows.
LEMMA LeftIsMonotonic ==
  ASSUME NEW at, NEW T, NEW rest \in SUBSET (Kept(at) \ T)
  PROVE  Cardinality(rest) \in Nat /\ Cardinality(rest) =< Cardinality(Kept(at) \ T)
BY KeptFinite, FS_Subset, FS_CardinalityType

Bounded == RecordsAreBounded /\ Swept

\* A step after which no more rows are left by any process that evicts, and
\* that takes no process out of its persist.
LEMMA QuietStep ==
  ASSUME Bounded, Kept(row') \subseteq Kept(row),
         Sweeping' = Sweeping, Evicting' = Evicting, cuts' = cuts,
         \A p \in Evicting : Kept(row') \ Pending(p)' \subseteq Kept(row) \ Pending(p),
         cuts \in Nat
  PROVE  Bounded'
<1>1. MaxRecords \in Nat
  BY ConstantsAssumption
<1>2. RecordsAreBounded'
  <2>1. Cardinality(Kept(row')) =< Cardinality(Kept(row)) /\ Cardinality(Kept(row')) \in Nat
    BY KeptFinite, FS_Subset
  <2>2. Cardinality(Sweeping) \in Nat /\ Cardinality(Kept(row)) \in Nat
    <3>1. Sweeping \ {} = Sweeping
      OBVIOUS
    <3>2. QED
      BY <3>1, SweepingFinite, KeptFinite
  <2>3. QED
    BY <1>1, <2>1, <2>2 DEF Bounded, RecordsAreBounded
<1>3. Swept'
  <2> SUFFICES ASSUME NEW Q \in SUBSET Evicting, Q # {}
               PROVE  \E p \in Q : Cardinality(Kept(row') \ Pending(p)')
                                     =< MaxRecords + Cardinality(Sweeping \ Q) + cuts
    BY DEF Swept
  <2>1. PICK p \in Q : Cardinality(Kept(row) \ Pending(p))
                          =< MaxRecords + Cardinality(Sweeping \ Q) + cuts
    BY DEF Bounded, Swept
  <2>2. Cardinality(Kept(row') \ Pending(p)') =< Cardinality(Kept(row) \ Pending(p))
    BY LeftIsMonotonic
  <2>3. /\ Cardinality(Kept(row') \ Pending(p)') \in Nat
        /\ Cardinality(Kept(row) \ Pending(p)) \in Nat
        /\ Cardinality(Sweeping \ Q) \in Nat
    BY KeptFinite, SweepingFinite
  <2>4. Cardinality(Kept(row') \ Pending(p)') =< MaxRecords + Cardinality(Sweeping \ Q) + cuts
    BY <1>1, <2>1, <2>2, <2>3
  <2>5. QED
    BY <2>4
<1>4. QED
  BY <1>2, <1>3 DEF Bounded

\* The row that comes is of a process that comes to sweep.
LEMMA BoundedUpsert ==
  ASSUME Typed, Bounded, NEW p \in Proc, Upsert(p)
  PROVE  Bounded'
<1> DEFINE h == ref[p].hash
<1>1. /\ pc[p] = "upsert" /\ pc' = [pc EXCEPT ![p] = "untomb"] /\ doomed' = doomed
      /\ row' = [row EXCEPT ![h] = ref[p].at] /\ cuts' = cuts
  BY DEF Upsert, Go
<1>2. /\ pc \in [Proc -> {"idle", "upsert", "untomb", "select", "evict", "bury"}]
      /\ row \in [Hash -> Nat] /\ cuts \in Nat /\ MaxRecords \in Nat
  BY ConstantsAssumption DEF Typed, TypeOK
<1>3. Sweeping' = Sweeping \cup {p} /\ p \notin Sweeping /\ p \notin Evicting
  BY <1>1, <1>2 DEF Sweeping, Evicting
<1>4. Evicting' = Evicting /\ \A r \in Evicting : Pending(r)' = Pending(r)
  BY <1>1, <1>2 DEF Evicting, Pending
<1>5. Kept(row') \subseteq Kept(row) \cup {h}
  BY <1>1, <1>2 DEF Kept
<1>6. ASSUME NEW T
      PROVE  /\ Cardinality(Kept(row') \ T) =< Cardinality(Kept(row) \ T) + 1
             /\ Cardinality(Kept(row') \ T) \in Nat /\ Cardinality(Kept(row) \ T) \in Nat
  <2>1. IsFiniteSet(Kept(row) \ T) /\ Cardinality(Kept(row) \ T) \in Nat
    BY KeptFinite
  <2>2. /\ IsFiniteSet((Kept(row) \ T) \cup {h})
        /\ Cardinality((Kept(row) \ T) \cup {h}) \in Nat
        /\ Cardinality((Kept(row) \ T) \cup {h}) =< Cardinality(Kept(row) \ T) + 1
    <3>1. Cardinality((Kept(row) \ T) \cup {h}) =
            IF h \in Kept(row) \ T THEN Cardinality(Kept(row) \ T) ELSE Cardinality(Kept(row) \ T) + 1
      BY <2>1, FS_AddElement
    <3>2. QED
      BY <2>1, <3>1, FS_AddElement
  <2>3. Kept(row') \ T \in SUBSET ((Kept(row) \ T) \cup {h})
    BY <1>5
  <2>4. Cardinality(Kept(row') \ T) =< Cardinality((Kept(row) \ T) \cup {h})
    BY <2>2, <2>3, FS_Subset
  <2>5. Cardinality(Kept(row') \ T) \in Nat
    BY KeptFinite
  <2>6. QED
    BY <2>1, <2>2, <2>4, <2>5
<1>7. ASSUME NEW Q \in SUBSET Evicting
      PROVE  /\ Cardinality(Sweeping' \ Q) = Cardinality(Sweeping \ Q) + 1
             /\ Cardinality(Sweeping \ Q) \in Nat
  <2>1. Sweeping' \ Q = (Sweeping \ Q) \cup {p} /\ p \notin Sweeping \ Q
    BY <1>3
  <2>2. QED
    BY <2>1, SweepingFinite, FS_AddElement
<1>8. RecordsAreBounded'
  <2>1. Kept(row') \ {} = Kept(row') /\ Kept(row) \ {} = Kept(row)
    OBVIOUS
  <2>2. Sweeping' \ {} = Sweeping' /\ Sweeping \ {} = Sweeping
    OBVIOUS
  <2>3. Cardinality(Kept(row)) =< MaxRecords + Cardinality(Sweeping) + cuts
    BY DEF Bounded, RecordsAreBounded
  <2>4. /\ Cardinality(Kept(row')) =< Cardinality(Kept(row)) + 1
        /\ Cardinality(Kept(row')) \in Nat /\ Cardinality(Kept(row)) \in Nat
    BY <1>6, <2>1
  <2>5. {} \in SUBSET Evicting
    OBVIOUS
  <2>6. Cardinality(Sweeping') = Cardinality(Sweeping) + 1 /\ Cardinality(Sweeping) \in Nat
    BY <1>7, <2>2, <2>5
  <2>7. Cardinality(Kept(row')) =< MaxRecords + Cardinality(Sweeping') + cuts
    BY <1>2, <2>3, <2>4, <2>6
  <2>8. QED
    BY <1>1, <2>7 DEF RecordsAreBounded
<1>9. Swept'
  <2> SUFFICES ASSUME NEW Q \in SUBSET Evicting, Q # {}
               PROVE  \E r \in Q : Cardinality(Kept(row') \ Pending(r)')
                                     =< MaxRecords + Cardinality(Sweeping' \ Q) + cuts
    BY <1>1, <1>4 DEF Swept
  <2>1. PICK r \in Q : Cardinality(Kept(row) \ Pending(r))
                          =< MaxRecords + Cardinality(Sweeping \ Q) + cuts
    BY DEF Bounded, Swept
  <2>2. Pending(r)' = Pending(r)
    BY <1>4
  <2>3. /\ Cardinality(Kept(row') \ Pending(r)) =< Cardinality(Kept(row) \ Pending(r)) + 1
        /\ Cardinality(Kept(row') \ Pending(r)) \in Nat
        /\ Cardinality(Kept(row) \ Pending(r)) \in Nat
    BY <1>6
  <2>4. /\ Cardinality(Sweeping' \ Q) = Cardinality(Sweeping \ Q) + 1
        /\ Cardinality(Sweeping \ Q) \in Nat
    BY <1>7
  <2>5. Cardinality(Kept(row') \ Pending(r)) =< MaxRecords + Cardinality(Sweeping' \ Q) + cuts
    BY <1>2, <2>1, <2>3, <2>4
  <2>6. QED
    BY <2>2, <2>5
<1>10. QED
  BY <1>8, <1>9 DEF Bounded

\* The process that selects last leaves the limit.
LEMMA BoundedSelect ==
  ASSUME Typed, Bounded, NEW p \in Proc, SelectOverflow(p)
  PROVE  Bounded'
<1>1. /\ pc[p] = "select" /\ pc' = [pc EXCEPT ![p] = "evict"] /\ row' = row /\ cuts' = cuts
      /\ doomed' = [doomed EXCEPT ![p] = Overflow(row, MaxRecords)]
  BY DEF SelectOverflow, Go
<1>2. /\ pc \in [Proc -> {"idle", "upsert", "untomb", "select", "evict", "bury"}]
      /\ doomed = [q \in Proc |-> doomed[q]]
      /\ row \in [Hash -> Nat] /\ cuts \in Nat /\ MaxRecords \in Nat
  BY ConstantsAssumption DEF Typed, TypeOK
<1>3. Sweeping' = Sweeping /\ Evicting' = Evicting \cup {p} /\ p \notin Evicting
  BY <1>1, <1>2 DEF Sweeping, Evicting
<1>4. \A r \in Evicting : Pending(r)' = Pending(r)
  BY <1>1, <1>2 DEF Evicting, Pending
<1>5. Pending(p)' = ToSet(Overflow(row, MaxRecords))
  BY <1>1, <1>2 DEF Pending
<1>6. Swept'
  <2> SUFFICES ASSUME NEW Q \in SUBSET (Evicting \cup {p}), Q # {}
               PROVE  \E r \in Q : Cardinality(Kept(row) \ Pending(r)')
                                     =< MaxRecords + Cardinality(Sweeping \ Q) + cuts
    BY <1>1, <1>3 DEF Swept
  <2>1. CASE p \in Q
    <3>1. Cardinality(Kept(row) \ Pending(p)') =< MaxRecords
      BY <1>2, <1>5, OverflowProperties
    <3>2. Cardinality(Sweeping \ Q) \in Nat /\ Cardinality(Kept(row) \ Pending(p)') \in Nat
      BY SweepingFinite, KeptFinite
    <3>3. Cardinality(Kept(row) \ Pending(p)') =< MaxRecords + Cardinality(Sweeping \ Q) + cuts
      BY <1>2, <3>1, <3>2
    <3>4. QED
      BY <2>1, <3>3
  <2>2. CASE p \notin Q
    <3>1. Q \in SUBSET Evicting
      BY <2>2
    <3>2. QED
      BY <1>4, <3>1 DEF Bounded, Swept
  <2>3. QED
    BY <2>1, <2>2
<1>7. QED
  BY <1>1, <1>3, <1>6 DEF Bounded, RecordsAreBounded

\* A process that has nothing left to delete leaves its share free.
LEMMA BoundedTrim ==
  ASSUME Typed, Bounded, NEW p \in Proc, TrimTombstones(p)
  PROVE  Bounded'
<1>1. /\ pc[p] = "evict" /\ doomed[p] = <<>> /\ pc' = [pc EXCEPT ![p] = "idle"]
      /\ row' = row /\ cuts' = cuts /\ doomed' = doomed
  BY DEF TrimTombstones, Go
<1>2. /\ pc \in [Proc -> {"idle", "upsert", "untomb", "select", "evict", "bury"}]
      /\ cuts \in Nat /\ MaxRecords \in Nat
  BY ConstantsAssumption DEF Typed, TypeOK
<1>3. Sweeping' = Sweeping \ {p} /\ Evicting' = Evicting \ {p} /\ p \in Evicting
  BY <1>1, <1>2 DEF Sweeping, Evicting
<1>4. \A r \in Evicting' : Pending(r)' = Pending(r)
  BY <1>1, <1>2, <1>3 DEF Evicting, Pending
<1>5. Kept(row) \ Pending(p) = Kept(row)
  BY <1>1 DEF Pending, ToSet
<1>6. RecordsAreBounded'
  <2>1. {p} \in SUBSET Evicting /\ {p} # {}
    BY <1>3
  <2>2. Cardinality(Kept(row)) =< MaxRecords + Cardinality(Sweeping \ {p}) + cuts
    BY <1>5, <2>1 DEF Bounded, Swept
  <2>3. QED
    BY <1>1, <1>3, <2>2 DEF RecordsAreBounded
<1>7. Swept'
  <2> SUFFICES ASSUME NEW Q \in SUBSET (Evicting \ {p}), Q # {}
               PROVE  \E r \in Q : Cardinality(Kept(row) \ Pending(r))
                                     =< MaxRecords + Cardinality((Sweeping \ {p}) \ Q) + cuts
    BY <1>1, <1>3, <1>4 DEF Swept
  <2>1. Q \cup {p} \in SUBSET Evicting /\ Q \cup {p} # {}
    BY <1>3
  <2>2. PICK r \in Q \cup {p} :
          Cardinality(Kept(row) \ Pending(r))
            =< MaxRecords + Cardinality(Sweeping \ (Q \cup {p})) + cuts
    BY <2>1 DEF Bounded, Swept
  <2>3. Sweeping \ (Q \cup {p}) = (Sweeping \ {p}) \ Q
    OBVIOUS
  <2>4. CASE r \in Q
    BY <2>2, <2>3, <2>4
  <2>5. CASE r = p
    <3>1. PICK q \in Q : TRUE
      OBVIOUS
    <3>2. Kept(row) \ Pending(q) \in SUBSET (Kept(row) \ Pending(p))
      BY <1>5
    <3>3. Cardinality(Kept(row) \ Pending(q)) =< Cardinality(Kept(row) \ Pending(p))
      BY <3>2, LeftIsMonotonic
    <3>4. /\ Cardinality(Kept(row) \ Pending(q)) \in Nat
          /\ Cardinality(Kept(row) \ Pending(p)) \in Nat
          /\ Cardinality((Sweeping \ {p}) \ Q) \in Nat
      BY <2>3, KeptFinite, SweepingFinite
    <3>5. Cardinality(Kept(row) \ Pending(q))
            =< MaxRecords + Cardinality((Sweeping \ {p}) \ Q) + cuts
      BY <1>2, <2>2, <2>3, <2>5, <3>3, <3>4
    <3>6. QED
      BY <3>5
  <2>6. QED
    BY <2>4, <2>5
<1>8. QED
  BY <1>6, <1>7 DEF Bounded

\* What a persist that is cut off leaves behind is counted as its cut.
LEMMA BoundedCut ==
  ASSUME Typed, Bounded, NEW p \in Proc, CutOff(p)
  PROVE  Bounded'
<1>1. /\ pc' = [pc EXCEPT ![p] = "idle"] /\ row' = row /\ cuts' = cuts + 1
      /\ doomed' = [doomed EXCEPT ![p] = <<>>]
  BY DEF CutOff, Go
<1>2. /\ pc \in [Proc -> {"idle", "upsert", "untomb", "select", "evict", "bury"}]
      /\ doomed = [q \in Proc |-> doomed[q]]
      /\ cuts \in Nat /\ MaxRecords \in Nat
  BY ConstantsAssumption DEF Typed, TypeOK
<1>3. Sweeping' = Sweeping \ {p} /\ Evicting' = Evicting \ {p}
  BY <1>1, <1>2 DEF Sweeping, Evicting
<1>4. \A r \in Evicting' : Pending(r)' = Pending(r)
  BY <1>1, <1>2, <1>3 DEF Evicting, Pending
<1>5. ASSUME NEW Q
      PROVE  /\ Cardinality(Sweeping \ Q) =< Cardinality(Sweeping' \ Q) + 1
             /\ Cardinality(Sweeping \ Q) \in Nat /\ Cardinality(Sweeping' \ Q) \in Nat
  <2>1. IsFiniteSet(Sweeping \ Q) /\ Cardinality(Sweeping \ Q) \in Nat
    BY SweepingFinite
  <2>2. Sweeping' \ Q = (Sweeping \ Q) \ {p}
    BY <1>3
  <2>3. Cardinality(Sweeping' \ Q) =
          IF p \in Sweeping \ Q THEN Cardinality(Sweeping \ Q) - 1 ELSE Cardinality(Sweeping \ Q)
    BY <2>1, <2>2, FS_RemoveElement
  <2>4. Cardinality(Sweeping' \ Q) \in Nat
    BY <2>1, <2>2, FS_RemoveElement, FS_CardinalityType
  <2>5. QED
    BY <2>1, <2>3, <2>4
<1>6. RecordsAreBounded'
  <2>1. Cardinality(Kept(row)) =< MaxRecords + Cardinality(Sweeping) + cuts
    BY DEF Bounded, RecordsAreBounded
  <2>2. Sweeping' \ {} = Sweeping' /\ Sweeping \ {} = Sweeping
    OBVIOUS
  <2>3. Cardinality(Kept(row)) \in Nat
    BY KeptFinite
  <2>4. /\ Cardinality(Sweeping) =< Cardinality(Sweeping') + 1
        /\ Cardinality(Sweeping) \in Nat /\ Cardinality(Sweeping') \in Nat
    BY <1>5, <2>2
  <2>5. Cardinality(Kept(row)) =< MaxRecords + Cardinality(Sweeping') + (cuts + 1)
    BY <1>2, <2>1, <2>3, <2>4
  <2>6. QED
    BY <1>1, <2>5 DEF RecordsAreBounded
<1>7. Swept'
  <2> SUFFICES ASSUME NEW Q \in SUBSET (Evicting \ {p}), Q # {}
               PROVE  \E r \in Q : Cardinality(Kept(row) \ Pending(r))
                                     =< MaxRecords + Cardinality(Sweeping' \ Q) + (cuts + 1)
    BY <1>1, <1>3, <1>4 DEF Swept
  <2>1. PICK r \in Q : Cardinality(Kept(row) \ Pending(r))
                          =< MaxRecords + Cardinality(Sweeping \ Q) + cuts
    BY DEF Bounded, Swept
  <2>2. Cardinality(Kept(row) \ Pending(r)) \in Nat
    BY KeptFinite
  <2>3. /\ Cardinality(Sweeping \ Q) =< Cardinality(Sweeping' \ Q) + 1
        /\ Cardinality(Sweeping \ Q) \in Nat /\ Cardinality(Sweeping' \ Q) \in Nat
    BY <1>5
  <2>4. Cardinality(Kept(row) \ Pending(r))
          =< MaxRecords + Cardinality(Sweeping' \ Q) + (cuts + 1)
    BY <1>2, <2>1, <2>2, <2>3
  <2>5. QED
    BY <2>4
<1>8. QED
  BY <1>6, <1>7 DEF Bounded

LEMMA BoundedStep == Typed /\ Bounded /\ [Next]_vars => Bounded'
<1> SUFFICES ASSUME Typed, Bounded, [Next]_vars PROVE Bounded'
  OBVIOUS
<1>1. /\ pc \in [Proc -> {"idle", "upsert", "untomb", "select", "evict", "bury"}]
      /\ row \in [Hash -> Nat] /\ cuts \in Nat
      /\ doomed = [q \in Proc |-> doomed[q]] /\ \A q \in Proc : doomed[q] \in Seq(Hash)
  BY DEF Typed, TypeOK
<1>2. ASSUME NEW p \in Proc, (\E h \in Hash : Publish(p, h)) \/ DeleteTombstone(p) PROVE Bounded'
  <2>1. row' = row /\ cuts' = cuts /\ doomed' = doomed
    BY <1>2 DEF Publish, DeleteTombstone
  <2>2. Sweeping' = Sweeping /\ Evicting' = Evicting
    BY <1>1, <1>2 DEF Publish, DeleteTombstone, Go, Sweeping, Evicting
  <2>3. \A r \in Evicting : pc'[r] = pc[r]
    BY <1>1, <1>2 DEF Publish, DeleteTombstone, Go, Evicting
  <2>4. \A r \in Evicting : Pending(r)' = Pending(r)
    BY <2>1, <2>3 DEF Pending
  <2>5. QED
    BY <1>1, <2>1, <2>2, <2>4, QuietStep
<1>3. ASSUME NEW p \in Proc, DeleteRow(p) PROVE Bounded'
  <2>1. /\ pc[p] = "evict" /\ doomed[p] # <<>> /\ pc' = [pc EXCEPT ![p] = "bury"]
        /\ row' = [row EXCEPT ![Head(doomed[p])] = 0] /\ doomed' = doomed /\ cuts' = cuts
    BY <1>3 DEF DeleteRow, Go
  <2>2. Sweeping' = Sweeping /\ Evicting' = Evicting
    BY <1>1, <2>1 DEF Sweeping, Evicting
  <2>3. Kept(row') \subseteq Kept(row) \ {Head(doomed[p])}
    BY <1>1, <2>1 DEF Kept
  <2>4. Pending(p) = ToSet(doomed[p]) /\ Pending(p)' = ToSet(Tail(doomed[p]))
    BY <1>1, <2>1 DEF Pending
  <2>5. ToSet(doomed[p]) = ToSet(Tail(doomed[p])) \cup {Head(doomed[p])}
    BY <1>1, <2>1, TailProperties
  <2>6. \A r \in Evicting \ {p} : Pending(r)' = Pending(r)
    BY <1>1, <2>1 DEF Evicting, Pending
  <2>7. \A r \in Evicting : Kept(row') \ Pending(r)' \subseteq Kept(row) \ Pending(r)
    BY <2>3, <2>4, <2>5, <2>6
  <2>8. QED
    BY <1>1, <2>1, <2>2, <2>3, <2>7, QuietStep
<1>4. ASSUME NEW p \in Proc, Bury(p) PROVE Bounded'
  <2>1. /\ pc[p] = "bury" /\ pc' = [pc EXCEPT ![p] = "evict"] /\ row' = row /\ cuts' = cuts
        /\ doomed' = [doomed EXCEPT ![p] = Tail(doomed[p])]
    BY <1>4 DEF Bury, Go
  <2>2. Sweeping' = Sweeping /\ Evicting' = Evicting
    BY <1>1, <2>1 DEF Sweeping, Evicting
  <2>3. \A r \in Evicting : Pending(r)' = Pending(r)
    BY <1>1, <2>1 DEF Evicting, Pending
  <2>4. QED
    BY <1>1, <2>1, <2>2, <2>3, QuietStep
<1>5. CASE Tick \/ UNCHANGED vars
  <2>1. UNCHANGED <<row, pc, doomed, cuts>>
    BY <1>5 DEF Tick, vars
  <2>2. Sweeping' = Sweeping /\ Evicting' = Evicting /\ \A r \in Evicting : Pending(r)' = Pending(r)
    BY <2>1 DEF Sweeping, Evicting, Pending
  <2>3. QED
    BY <1>1, <2>1, <2>2, QuietStep
<1>6. QED
  BY <1>2, <1>3, <1>4, <1>5, BoundedUpsert, BoundedSelect, BoundedTrim, BoundedCut
     DEF Next, ProcStep, Fails, Crash

(* However many processes sweep the same rows, the table is over its limit *)
(* by no more than the persists at work and those a crash or a failed      *)
(* statement cut off (cleanupDeferredVexpRefs).                            *)
THEOREM FewRecords == Spec => []RecordsAreBounded
<1>1. Init => Bounded
  <2> SUFFICES ASSUME Init PROVE Bounded
    OBVIOUS
  <2>1. Kept(row) = {} /\ Evicting = {}
    BY DEF Init, Kept, Evicting
  <2>2. Cardinality(Kept(row)) = 0
    BY <2>1, FS_EmptySet
  <2>3. Sweeping \ {} = Sweeping
    OBVIOUS
  <2>4. Cardinality(Sweeping) \in Nat
    BY <2>3, SweepingFinite
  <2>5. RecordsAreBounded
    BY <2>2, <2>4, ConstantsAssumption DEF Init, RecordsAreBounded
  <2>6. Swept
    BY <2>1 DEF Swept
  <2>7. QED
    BY <2>5, <2>6 DEF Bounded
<1>2. Bounded => RecordsAreBounded
  BY DEF Bounded
<1>3. QED
  BY TypedInit, TypedStep, BoundedStep, <1>1, <1>2, PTL DEF Spec
=============================================================================
