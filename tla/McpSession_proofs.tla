-------------------------- MODULE McpSession_proofs --------------------------
(***************************************************************************)
(* Theorems about McpSession, for every number of messages, every script   *)
(* of them and every way of cutting them into chunks.                      *)
(***************************************************************************)
EXTENDS McpSession, TLAPS

USE NAssumption

-----------------------------------------------------------------------------
(* The position in the stream.                                             *)

(* Half of a number, rounded down.                                         *)
LEMMA HalfIsNat ==
  ASSUME NEW n \in Nat
  PROVE  n \div 2 \in Nat /\ 2 * (n \div 2) <= n /\ n <= 2 * (n \div 2) + 1
OBVIOUS

(* A message that has arrived in part is one of the client's.              *)
LEMMA FrontIsAMessage ==
  ASSUME TypeOK, arrived > consumed
  PROVE  Front \in 1..N
BY DEF TypeOK, Front

(* At the start of a message two pieces lead to its end.                   *)
LEMMA FrontEnds ==
  ASSUME TypeOK, AtStart
  PROVE  2 * Front = consumed + 2
BY DEF TypeOK, Front, AtStart

-----------------------------------------------------------------------------
(* The types.  What a step does to the drains is OneDrain, the rest of     *)
(* TypeOK is one conjunct per variable; an answer is written in a known    *)
(* mode, since a call is awaited only after a message was read.            *)
ModeIsKnown == \A d \in Drain : pc[d] = "call" => mode # "unknown"

Inv == TypeOK /\ ModeIsKnown

Plain ==
  /\ framed \in BOOLEAN
  /\ script \in [1..N -> Kind]
  /\ redrain \in BOOLEAN /\ ended \in BOOLEAN
  /\ mode \in {"unknown", "line", "framed"}
  /\ settled \in {"open", "resolved", "rejected"}

Drains ==
  /\ draining \in BOOLEAN /\ microtask \in BOOLEAN
  /\ pc \in [Drain -> {"idle", "parse", "call"}]
  /\ cur \in [Drain -> 0..N]
  /\ OneDrain
  /\ ModeIsKnown

Stream == arrived \in 0 .. 2 * N /\ consumed \in 0 .. arrived

Answers == replies \in Seq([msg : 0..N, mode : {"line", "framed"}])

(* A sequence with one more element.                                       *)
LEMMA AppendType ==
  ASSUME NEW S, NEW s \in Seq(S), NEW e \in S
  PROVE  /\ Append(s, e) \in Seq(S)
         /\ Len(s) \in Nat
         /\ Len(Append(s, e)) = Len(s) + 1
         /\ \A i \in 1..Len(s) : s[i] \in S /\ Append(s, e)[i] = s[i]
         /\ Append(s, e)[Len(s) + 1] = e
OBVIOUS

(* The four parts are the invariant.                                       *)
LEMMA Parts == Inv <=> Plain /\ Drains /\ Stream /\ Answers
BY DEF Inv, TypeOK, Plain, Drains, Stream, Answers

(* The invariant holds when the session is opened.                         *)
LEMMA InitInv == Init => Inv
<1> SUFFICES ASSUME Init PROVE Plain /\ Drains /\ Stream /\ Answers
  BY Parts
<1>1. framed \in BOOLEAN /\ script \in [1..N -> Kind]
  BY DEF Init
<1>2. Plain
  BY <1>1 DEF Init, Plain
<1>3. Drains
  <2>1. draining \in BOOLEAN /\ microtask \in BOOLEAN
    BY DEF Init
  <2>2. /\ pc \in [Drain -> {"idle", "parse", "call"}]
        /\ cur \in [Drain -> 0..N]
    BY DEF Init
  <2>3. OneDrain /\ ModeIsKnown
    BY DEF Init, OneDrain, ModeIsKnown, AtWork
  <2> QED
    BY <2>1, <2>2, <2>3 DEF Drains
<1>4. Stream /\ Answers
  BY DEF Init, Stream, Answers
<1> QED
  BY <1>2, <1>3, <1>4

(* A drain begins only when none is at work, and ends alone.               *)
LEMMA DrainStarts ==
  ASSUME Drains, ~draining, NEW d \in Drain, StartDrain(d),
         microtask' \in BOOLEAN, UNCHANGED <<cur, mode>>
  PROVE  Drains'
BY DEF Drains, OneDrain, ModeIsKnown, AtWork, StartDrain

LEMMA DrainEnds ==
  ASSUME Drains, NEW d \in Drain, AtWork(d), NEW STATE outcome, EndDrain(d, outcome),
         cur' = [cur EXCEPT ![d] = 0]
  PROVE  Drains'
<1>1. draining' \in BOOLEAN /\ microtask' \in BOOLEAN
  BY DEF EndDrain
<1>2. /\ pc' \in [Drain -> {"idle", "parse", "call"}]
      /\ cur' \in [Drain -> 0..N]
  BY DEF Drains, EndDrain
<1>3. \A e \in Drain : pc'[e] = "idle" /\ cur'[e] = 0
  BY DEF Drains, OneDrain, AtWork, EndDrain
<1>4. OneDrain' /\ ModeIsKnown'
  BY <1>2, <1>3 DEF OneDrain, ModeIsKnown, AtWork, EndDrain
<1> QED
  BY <1>1, <1>2, <1>4 DEF Drains

(* Every step keeps the types and the one drain.                           *)
LEMMA InvStep == Inv /\ [Next]_vars => Inv'
<1> SUFFICES ASSUME Inv, [Next]_vars PROVE Plain' /\ Drains' /\ Stream' /\ Answers'
  BY Parts DEF Inv, TypeOK, Plain, Drains, Stream, Answers
<1>0. Plain /\ Drains /\ Stream /\ Answers /\ TypeOK
  BY Parts DEF Inv
<1>1. ASSUME NEW d \in Drain, Read(d) PROVE Plain' /\ Drains' /\ Stream' /\ Answers'
  <2>1. Front \in 1..N
    BY <1>0, <1>1, FrontIsAMessage DEF TypeOK, Read, CanRead
  <2>2. mode' \in {"line", "framed"}
    BY <1>1 DEF Read
  <2>3. Plain'
    BY <1>0, <1>1, <2>2 DEF Read, Plain
  <2>4. Drains'
    <3>1. CASE script[Front] = "call"
      BY <1>0, <1>1, <2>1, <2>2, <3>1 DEF Read, Drains, OneDrain, ModeIsKnown, AtWork
    <3>2. CASE script[Front] # "call"
      BY <1>0, <1>1, <2>2, <3>2 DEF Read, Drains, OneDrain, ModeIsKnown, AtWork
    <3> QED
      BY <3>1, <3>2
  <2>5. Stream'
    BY <1>0, <1>1 DEF Read, CanRead, Stream
  <2>6. Answers'
    <3> DEFINE Answer == [msg : 0..N, mode : {"line", "framed"}]
               answer == [msg |-> Front, mode |-> mode']
    <3>1. answer \in Answer
      BY <2>1, <2>2
    <3>2. replies' = Append(replies, answer) \/ replies' = replies
      BY <1>1 DEF Read, Reply
    <3>3. replies \in Seq(Answer)
      BY <1>0 DEF Answers
    <3> HIDE DEF answer, Answer
    <3>4. replies' \in Seq(Answer)
      BY <3>1, <3>2, <3>3, AppendType
    <3> QED
      BY <3>4 DEF Answers, Answer
  <2> QED
    BY <2>3, <2>4, <2>5, <2>6
<1>2. ASSUME NEW d \in Drain, ReadHeaderAsLine(d) PROVE Plain' /\ Drains' /\ Stream' /\ Answers'
  <2>1. Plain'
    BY <1>0, <1>2 DEF ReadHeaderAsLine, Plain
  <2>2. Drains'
    BY <1>0, <1>2 DEF ReadHeaderAsLine, Drains, OneDrain, ModeIsKnown, AtWork
  <2>3. Stream'
    BY <1>0, <1>2 DEF ReadHeaderAsLine, Misread, NextHeader, Stream
  <2>4. Answers'
    BY <1>0, <1>2 DEF ReadHeaderAsLine, Reply, Answers
  <2> QED
    BY <2>1, <2>2, <2>3, <2>4
<1>3. ASSUME NEW d \in Drain, FramingError(d) PROVE Plain' /\ Drains' /\ Stream' /\ Answers'
  <2>1. AtWork(d) /\ cur[d] = 0 /\ EndDrain(d, settled)
    BY <1>0, <1>3 DEF FramingError, AtWork, Drains, OneDrain
  <2>2. Drains'
    BY <1>0, <1>3, <2>1, DrainEnds DEF FramingError, Drains
  <2>3. Plain'
    BY <1>0, <1>3, <2>1 DEF FramingError, EndDrain, Plain
  <2>4. Stream'
    BY <1>0, <1>3 DEF FramingError, Stream
  <2>5. (IF mode = "unknown" THEN "line" ELSE mode) \in {"line", "framed"}
    BY <1>0 DEF Plain
  <2>6. Answers'
    BY <1>0, <1>3, <2>5 DEF FramingError, Reply, Answers
  <2> QED
    BY <2>2, <2>3, <2>4, <2>6
<1>4. ASSUME NEW d \in Drain, RunDry(d) PROVE Plain' /\ Drains' /\ Stream' /\ Answers'
  <2>1. Stream' /\ Answers'
    BY <1>0, <1>4 DEF RunDry, Stream, Answers
  <2>2. CASE redrain
    <3>1. Plain'
      BY <1>0, <1>4, <2>2 DEF RunDry, Plain
    <3>2. Drains'
      BY <1>0, <1>4, <2>2 DEF RunDry, Drains, OneDrain, ModeIsKnown, AtWork
    <3> QED
      BY <2>1, <3>1, <3>2
  <2>3. CASE ~redrain
    <3>1. AtWork(d) /\ cur[d] = 0 /\ EndDrain(d, settled)
      BY <1>0, <1>4, <2>3 DEF RunDry, AtWork, Drains, OneDrain
    <3>2. Drains'
      BY <1>0, <1>4, <3>1, DrainEnds DEF RunDry, Drains
    <3>3. Plain'
      BY <1>0, <1>4, <2>3, <3>1 DEF RunDry, EndDrain, Plain
    <3> QED
      BY <2>1, <3>2, <3>3
  <2> QED
    BY <2>2, <2>3
<1>5. ASSUME NEW d \in Drain, CallEnds(d) PROVE Plain' /\ Drains' /\ Stream' /\ Answers'
  <2>1. Plain' /\ Stream'
    BY <1>0, <1>5 DEF CallEnds, Plain, Stream
  <2>2. Drains'
    BY <1>0, <1>5 DEF CallEnds, Drains, OneDrain, ModeIsKnown, AtWork
  <2>3. cur[d] \in 0..N /\ mode \in {"line", "framed"}
    BY <1>0, <1>5 DEF CallEnds, Drains, ModeIsKnown, Plain
  <2>4. Answers'
    BY <1>0, <1>5, <2>3 DEF CallEnds, Reply, Answers
  <2> QED
    BY <2>1, <2>2, <2>4
<1>6. ASSUME NEW d \in Drain, CallThrows(d) PROVE Plain' /\ Drains' /\ Stream' /\ Answers'
  <2>1. AtWork(d) /\ EndDrain(d, IF settled = "open" THEN "rejected" ELSE settled)
    BY <1>6 DEF CallThrows, AtWork
  <2>2. Drains'
    BY <1>0, <1>6, <2>1, DrainEnds DEF CallThrows
  <2>3. Plain'
    BY <1>0, <1>6, <2>1 DEF CallThrows, EndDrain, Plain
  <2>4. Stream' /\ Answers'
    BY <1>0, <1>6 DEF CallThrows, Stream, Answers
  <2> QED
    BY <2>2, <2>3, <2>4
<1>7. ASSUME RunMicrotask PROVE Plain' /\ Drains' /\ Stream' /\ Answers'
  <2>1. Stream' /\ Answers'
    BY <1>0, <1>7 DEF RunMicrotask, Stream, Answers
  <2>2. CASE draining
    <3>1. Plain'
      BY <1>0, <1>7, <2>2 DEF RunMicrotask, Plain
    <3>2. Drains'
      BY <1>0, <1>7, <2>2 DEF RunMicrotask, Drains, OneDrain, ModeIsKnown, AtWork
    <3> QED
      BY <2>1, <3>1, <3>2
  <2>3. ASSUME ~draining, NEW d \in Drain, StartDrain(d)
        PROVE  Plain' /\ Drains' /\ Stream' /\ Answers'
    <3>1. Plain'
      BY <1>0, <1>7, <2>3 DEF RunMicrotask, StartDrain, Plain
    <3>2. microtask' \in BOOLEAN /\ UNCHANGED <<cur, mode>>
      BY <1>7 DEF RunMicrotask
    <3>3. Drains'
      BY <1>0, <2>3, <3>2, DrainStarts
    <3> QED
      BY <2>1, <3>1, <3>3
  <2> QED
    BY <1>7, <2>2, <2>3 DEF RunMicrotask
<1>8. ASSUME OnData PROVE Plain' /\ Drains' /\ Stream' /\ Answers'
  <2>1. Stream' /\ Answers'
    BY <1>0, <1>8 DEF OnData, Stream, Answers
  <2>2. CASE draining
    <3>1. Plain'
      BY <1>0, <1>8, <2>2 DEF OnData, Plain
    <3>2. Drains'
      BY <1>0, <1>8, <2>2 DEF OnData, Drains, OneDrain, ModeIsKnown, AtWork
    <3> QED
      BY <2>1, <3>1, <3>2
  <2>3. ASSUME ~draining, NEW d \in Drain, StartDrain(d)
        PROVE  Plain' /\ Drains' /\ Stream' /\ Answers'
    <3>1. Plain'
      BY <1>0, <1>8, <2>3 DEF OnData, StartDrain, Plain
    <3>2. microtask' \in BOOLEAN /\ UNCHANGED <<cur, mode>>
      BY <1>0, <1>8 DEF OnData, Drains
    <3>3. Drains'
      BY <1>0, <2>3, <3>2, DrainStarts
    <3> QED
      BY <2>1, <3>1, <3>3
  <2> QED
    BY <1>8, <2>2, <2>3 DEF OnData
<1>9. ASSUME OnEnd \/ OnError PROVE Plain' /\ Drains' /\ Stream' /\ Answers'
  <2>1. Plain'
    BY <1>0, <1>9 DEF OnEnd, OnError, Plain
  <2>2. Drains' /\ Stream' /\ Answers'
    BY <1>0, <1>9 DEF OnEnd, OnError, Drains, OneDrain, ModeIsKnown, AtWork, Stream, Answers
  <2> QED
    BY <2>1, <2>2
<1>10. CASE UNCHANGED vars
  BY <1>0, <1>10 DEF vars, Plain, Drains, OneDrain, ModeIsKnown, AtWork, Stream, Answers
<1> QED
  BY <1>1, <1>2, <1>3, <1>4, <1>5, <1>6, <1>7, <1>8, <1>9, <1>10 DEF Next, Work

LEMMA Invariant == Spec => []Inv
BY InitInv, InvStep, PTL DEF Spec

(* The variables have their types in every behaviour, and no two drains    *)
(* are ever at work (draining and the microtask of serveMcpStdioSession).  *)
THEOREM TypeCorrect == Spec => []TypeOK
<1>1. Inv => TypeOK
  BY DEF Inv
<1> QED
  BY <1>1, Invariant, PTL

-----------------------------------------------------------------------------
(* The order of the answers.  What was answered, and what is being called, *)
(* lies before the front of the buffer, the call behind every answer.      *)
AnswersLieBehind ==
  /\ \A i \in 1..Len(replies) : 2 * replies[i].msg <= consumed
  /\ \A d \in Drain : 2 * cur[d] <= consumed
  /\ \A i \in 1..Len(replies), d \in Drain : cur[d] # 0 => replies[i].msg < cur[d]

OrderInv == AnsweredInOrder /\ AnswersLieBehind

(* The answers there are.                                                  *)
LEMMA AnswerFields ==
  ASSUME TypeOK, NEW i \in 1..Len(replies)
  PROVE  replies[i].msg \in 0..N /\ replies[i].mode \in {"line", "framed"}
<1> DEFINE Answer == [msg : 0..N, mode : {"line", "framed"}]
<1>1. replies \in Seq(Answer)
  BY DEF TypeOK
<1> HIDE DEF Answer
<1>2. replies[i] \in Answer
  BY <1>1
<1> QED
  BY <1>2 DEF Answer

(* An answer is written behind the others.                                 *)
LEMMA ReplyAppends ==
  ASSUME TypeOK, NEW ACTION m, NEW ACTION how, Reply(m, how)
  PROVE  /\ Len(replies) \in Nat
         /\ Len(replies') = Len(replies) + 1
         /\ \A i \in 1..Len(replies) : replies'[i] = replies[i]
         /\ replies'[Len(replies) + 1].msg = m
         /\ replies'[Len(replies) + 1].mode = how
<1> DEFINE Answer == [msg : 0..N, mode : {"line", "framed"}]
           answer == [msg |-> m, mode |-> how]
<1>1. replies \in Seq(Answer)
  BY DEF TypeOK
<1>2. replies' = Append(replies, answer)
  BY DEF Reply
<1>3. answer.msg = m /\ answer.mode = how
  OBVIOUS
<1> HIDE DEF Answer, answer
<1>4. Len(replies) \in Nat /\ replies \in [1..Len(replies) -> Answer]
  BY <1>1
<1>5. /\ Len(replies') = Len(replies) + 1
      /\ \A i \in 1..Len(replies) : replies'[i] = replies[i]
      /\ replies'[Len(replies) + 1] = answer
  BY <1>1, <1>2, <1>4
<1> QED
  BY <1>3, <1>4, <1>5

(* It keeps the order if it answers none or a later message than all.      *)
LEMMA ReplyInOrder ==
  ASSUME TypeOK, AnsweredInOrder, NEW ACTION m, m \in 0..N, NEW ACTION how, Reply(m, how),
         m = 0 \/ \A i \in 1..Len(replies) : replies[i].msg < m
  PROVE  AnsweredInOrder'
<1>1. /\ Len(replies) \in Nat
      /\ Len(replies') = Len(replies) + 1
      /\ \A i \in 1..Len(replies) : replies'[i].msg = replies[i].msg
      /\ replies'[Len(replies) + 1].msg = m
  BY ReplyAppends
<1>2. \A i \in 1..Len(replies) : replies[i].msg \in 0..N
  BY AnswerFields
<1>3. ASSUME NEW i \in 1..Len(replies'), NEW j \in 1..Len(replies'), i < j,
             replies'[j].msg # 0
      PROVE  replies'[i].msg < replies'[j].msg
  <2>1. CASE j = Len(replies) + 1
    BY <1>1, <1>3, <2>1
  <2>2. CASE j # Len(replies) + 1
    <3>1. i \in 1..Len(replies) /\ j \in 1..Len(replies)
      BY <1>1, <1>3, <2>2
    <3> QED
      BY <1>1, <1>3, <3>1 DEF AnsweredInOrder
  <2> QED
    BY <2>1, <2>2
<1> QED
  BY <1>3 DEF AnsweredInOrder

LEMMA OrderStep == TypeOK /\ OrderInv /\ [Next]_vars => OrderInv'
<1> SUFFICES ASSUME TypeOK, OrderInv, [Next]_vars PROVE OrderInv'
  OBVIOUS
<1>0. AnsweredInOrder /\ AnswersLieBehind
  BY DEF OrderInv
<1>a. consumed \in Nat /\ cur \in [Drain -> 0..N] /\ Len(replies) \in Nat
  BY DEF TypeOK
<1>b. \A i \in 1..Len(replies) : replies[i].msg \in 0..N
  BY AnswerFields
<1>c. ASSUME NEW ACTION m, NEW ACTION how, Reply(m, how),
             consumed' \in Nat, consumed' >= consumed, 2 * m <= consumed',
             \A e \in Drain : cur'[e] = 0
      PROVE  AnswersLieBehind'
  <2>1. /\ Len(replies') = Len(replies) + 1
        /\ \A i \in 1..Len(replies) : replies'[i].msg = replies[i].msg
        /\ replies'[Len(replies) + 1].msg = m
    BY <1>c, ReplyAppends
  <2>2. \A i \in 1..Len(replies) : 2 * replies'[i].msg <= consumed'
    BY <1>0, <1>a, <1>b, <1>c, <2>1 DEF AnswersLieBehind
  <2>3. \A i \in 1..Len(replies') : i \in 1..Len(replies) \/ i = Len(replies) + 1
    BY <1>a, <2>1
  <2> QED
    BY <1>c, <2>1, <2>2, <2>3 DEF AnswersLieBehind
<1>1. ASSUME NEW d \in Drain, Read(d) PROVE OrderInv'
  <2>1. Front \in 1..N /\ 2 * Front = consumed + 2
    BY <1>1, FrontIsAMessage, FrontEnds DEF TypeOK, Read, CanRead
  <2>2. consumed' = consumed + 2
    BY <1>1 DEF Read
  <2>3. \A i \in 1..Len(replies) : replies[i].msg < Front
    BY <1>0, <1>a, <1>b, <2>1 DEF AnswersLieBehind
  <2>4. \A e \in Drain : cur'[e] = cur[e] \/ (e = d /\ cur'[e] = Front)
    BY <1>1, <1>a DEF Read
  <2>5. CASE UNCHANGED replies
    <3>1. AnsweredInOrder'
      BY <1>0, <2>5 DEF AnsweredInOrder
    <3>2. \A i \in 1..Len(replies) : 2 * replies[i].msg <= consumed'
      BY <1>0, <1>a, <1>b, <2>2 DEF AnswersLieBehind
    <3>3. \A e \in Drain : 2 * cur'[e] <= consumed'
      BY <1>0, <1>a, <2>1, <2>2, <2>4 DEF AnswersLieBehind
    <3>4. ASSUME NEW i \in 1..Len(replies), NEW e \in Drain, cur'[e] # 0
          PROVE  replies[i].msg < cur'[e]
      <4>1. CASE cur'[e] = cur[e]
        BY <1>0, <3>4, <4>1 DEF AnswersLieBehind
      <4>2. CASE cur'[e] = Front
        BY <2>3, <4>2
      <4> QED
        BY <2>4, <4>1, <4>2
    <3>5. AnswersLieBehind'
      BY <2>5, <3>2, <3>3, <3>4 DEF AnswersLieBehind
    <3> QED
      BY <3>1, <3>5 DEF OrderInv
  <2>6. CASE script[Front] \in {"plain", "garbled"}
    <3>1. Reply(Front, mode') /\ cur' = cur
      BY <1>1, <2>6 DEF Read
    <3>2. AnsweredInOrder'
      BY <1>0, <2>1, <2>3, <3>1, ReplyInOrder
    <3>3. \A e \in Drain : cur'[e] = 0
      BY <1>1, <3>1 DEF TypeOK, OneDrain, AtWork, Read
    <3>4. AnswersLieBehind'
      BY <1>a, <1>c, <2>1, <2>2, <3>1, <3>3
    <3> QED
      BY <3>2, <3>4 DEF OrderInv
  <2> QED
    BY <1>1, <2>5, <2>6 DEF Read
<1>2. ASSUME NEW d \in Drain, ReadHeaderAsLine(d) \/ FramingError(d) PROVE OrderInv'
  <2>1. PICK how : Reply(0, how)
    BY <1>2 DEF ReadHeaderAsLine, FramingError
  <2>2. AnsweredInOrder'
    BY <1>0, <2>1, ReplyInOrder
  <2>3. consumed' \in Nat /\ consumed' >= consumed /\ cur' = cur
    BY <1>2 DEF TypeOK, ReadHeaderAsLine, NextHeader, FramingError
  <2>4. \A e \in Drain : cur'[e] = 0
    BY <1>2, <2>3 DEF TypeOK, OneDrain, AtWork, ReadHeaderAsLine, FramingError
  <2>5. AnswersLieBehind'
    BY <1>c, <2>1, <2>3, <2>4
  <2> QED
    BY <2>2, <2>5 DEF OrderInv
<1>3. ASSUME NEW d \in Drain, CallEnds(d) PROVE OrderInv'
  <2>1. /\ Reply(cur[d], mode)
        /\ cur[d] \in 1..N
        /\ \A i \in 1..Len(replies) : replies[i].msg < cur[d]
    BY <1>0, <1>3 DEF CallEnds, TypeOK, OneDrain, AnswersLieBehind
  <2>2. AnsweredInOrder'
    BY <1>0, <2>1, ReplyInOrder
  <2>3. consumed' = consumed /\ \A e \in Drain : cur'[e] = 0
    BY <1>3 DEF CallEnds, TypeOK, OneDrain, AtWork
  <2>4. 2 * cur[d] <= consumed
    BY <1>0 DEF AnswersLieBehind
  <2>5. AnswersLieBehind'
    BY <1>a, <1>c, <2>1, <2>3, <2>4
  <2> QED
    BY <2>2, <2>5 DEF OrderInv
<1>4. ASSUME UNCHANGED <<replies, consumed>>, \A e \in Drain : cur'[e] \in {0, cur[e]}
      PROVE  OrderInv'
  <2>1. AnsweredInOrder'
    BY <1>0, <1>4 DEF AnsweredInOrder
  <2>2. AnswersLieBehind'
    BY <1>0, <1>a, <1>4 DEF AnswersLieBehind
  <2> QED
    BY <2>1, <2>2 DEF OrderInv
<1>5. ASSUME NEW d \in Drain, RunDry(d) \/ CallThrows(d) PROVE OrderInv'
  BY <1>a, <1>4, <1>5 DEF RunDry, CallThrows
<1>6. ASSUME RunMicrotask \/ OnData \/ OnEnd \/ OnError PROVE OrderInv'
  BY <1>4, <1>6 DEF RunMicrotask, OnData, OnEnd, OnError
<1>7. CASE UNCHANGED vars
  BY <1>4, <1>7 DEF vars
<1> QED
  BY <1>1, <1>2, <1>3, <1>5, <1>6, <1>7 DEF Next, Work

(* Requests are answered in the order in which they were sent, each once   *)
(* at most, however the input is cut into chunks and however long a tool   *)
(* call takes (the loop of drainBuffer).                                   *)
THEOREM Ordered == Spec => []AnsweredInOrder
<1>1. Init => OrderInv
  BY DEF Init, OrderInv, AnsweredInOrder, AnswersLieBehind
<1>2. OrderInv => AnsweredInOrder
  BY DEF OrderInv
<1> QED
  BY <1>1, <1>2, TypeCorrect, OrderStep, PTL DEF Spec

-----------------------------------------------------------------------------
(* The transport.  A client that sends lines is never taken for a framed   *)
(* one; a framed client whose first frame is whole is known before its     *)
(* first message is taken off the buffer.                                  *)
ClientIsKnown ==
  /\ ~framed => mode # "framed" /\ \A m \in 1..N : script[m] # "badframe"
  /\ framed /\ script[1] # "badframe" => mode # "line" /\ (mode = "unknown" => consumed = 0)

TransportInv == ClientIsKnown /\ InTheClientsTransport

LEMMA TransportStep == Inv /\ TransportInv /\ [Next]_vars => TransportInv'
<1> SUFFICES ASSUME TypeOK, ModeIsKnown, TransportInv, [Next]_vars PROVE TransportInv'
  BY DEF Inv
<1>0. ClientIsKnown /\ InTheClientsTransport
  BY DEF TransportInv
<1>a. UNCHANGED <<framed, script>>
  BY DEF Next, Work, Read, ReadHeaderAsLine, FramingError, RunDry, CallEnds, CallThrows,
         RunMicrotask, OnData, OnEnd, OnError, vars
<1>b. ASSUME NEW ACTION m, m \in 0..N, NEW ACTION how, Reply(m, how), ClientIsKnown',
             framed /\ script[1] # "badframe" => how = "framed",
             ~framed => how = "line"
      PROVE  TransportInv'
  <2>1. \A i \in 1..Len(replies') :
          replies'[i].mode # (IF framed THEN "framed" ELSE "line") =>
            framed /\ script[1] = "badframe"
    <3>1. /\ Len(replies) \in Nat
          /\ Len(replies') = Len(replies) + 1
          /\ \A i \in 1..Len(replies) : replies'[i].mode = replies[i].mode
          /\ replies'[Len(replies) + 1].mode = how
      BY <1>b, ReplyAppends
    <3>2. \A i \in 1..Len(replies') : i \in 1..Len(replies) \/ i = Len(replies) + 1
      BY <3>1
    <3> QED
      BY <1>0, <1>b, <3>1, <3>2 DEF InTheClientsTransport
  <2> QED
    BY <1>a, <1>b, <2>1 DEF TransportInv, InTheClientsTransport
<1>c. ASSUME UNCHANGED replies, ClientIsKnown' PROVE TransportInv'
  BY <1>0, <1>a, <1>c DEF TransportInv, InTheClientsTransport
<1>1. ASSUME NEW d \in Drain, Read(d) PROVE TransportInv'
  <2>1. Front \in 1..N
    BY <1>1, FrontIsAMessage DEF TypeOK, Read, CanRead
  <2>2. framed => mode' = "framed"
    BY <1>1 DEF Read, CanRead
  <2>3. ~framed => mode' = "line"
    BY <1>1 DEF Read, CanRead
  <2>4. ClientIsKnown'
    BY <1>0, <1>a, <2>2, <2>3 DEF ClientIsKnown
  <2>5. UNCHANGED replies \/ Reply(Front, mode')
    BY <1>1 DEF Read
  <2> QED
    BY <1>b, <1>c, <2>1, <2>2, <2>3, <2>4, <2>5
<1>2. ASSUME NEW d \in Drain, ReadHeaderAsLine(d) PROVE TransportInv'
  <2>1. framed /\ Lined /\ mode' = "line" /\ Reply(0, "line")
    BY <1>2 DEF ReadHeaderAsLine, Misread
  <2>2. script[1] = "badframe"
    BY <1>0, <2>1 DEF Lined, AtStart, ClientIsKnown
  <2>3. ClientIsKnown'
    BY <1>a, <2>1, <2>2 DEF ClientIsKnown
  <2> QED
    BY <1>b, <2>1, <2>2, <2>3
<1>3. ASSUME NEW d \in Drain, FramingError(d) PROVE TransportInv'
  <2>1. framed /\ mode' = mode /\ Reply(0, IF mode = "unknown" THEN "line" ELSE mode)
    BY <1>3 DEF FramingError, Broken
  <2>2. CASE script[1] = "badframe"
    <3>1. ClientIsKnown'
      BY <1>a, <2>1, <2>2 DEF ClientIsKnown
    <3> QED
      BY <1>b, <2>1, <2>2, <3>1
  <2>3. CASE script[1] # "badframe"
    <3>1. mode = "framed"
      <4>1. mode # "line" /\ (mode = "unknown" => consumed = 0)
        BY <1>0, <2>1, <2>3 DEF ClientIsKnown
      <4>2. consumed = 0 => AtStart /\ Front = 1
        BY DEF AtStart, Front
      <4> QED
        BY <1>3, <2>3, <4>1, <4>2 DEF FramingError, Broken, TypeOK
    <3>2. ClientIsKnown'
      BY <1>a, <2>1, <3>1 DEF ClientIsKnown
    <3> QED
      BY <1>b, <2>1, <3>1, <3>2
  <2> QED
    BY <2>2, <2>3
<1>4. ASSUME NEW d \in Drain, CallEnds(d) PROVE TransportInv'
  <2>1. Reply(cur[d], mode) /\ cur[d] \in 0..N /\ mode # "unknown"
    BY <1>4 DEF CallEnds, TypeOK, ModeIsKnown
  <2>2. ClientIsKnown'
    BY <1>0, <1>a, <1>4 DEF CallEnds, ClientIsKnown
  <2>3. /\ framed /\ script[1] # "badframe" => mode = "framed"
        /\ ~framed => mode = "line"
    BY <1>0, <2>1 DEF ClientIsKnown, TypeOK
  <2> QED
    BY <1>b, <2>1, <2>2, <2>3
<1>5. ASSUME UNCHANGED <<mode, consumed, replies>> PROVE TransportInv'
  BY <1>0, <1>a, <1>c, <1>5 DEF ClientIsKnown
<1>6. ASSUME NEW d \in Drain, RunDry(d) \/ CallThrows(d) PROVE TransportInv'
  BY <1>5, <1>6 DEF RunDry, CallThrows
<1>7. ASSUME RunMicrotask \/ OnData \/ OnEnd \/ OnError PROVE TransportInv'
  BY <1>5, <1>7 DEF RunMicrotask, OnData, OnEnd, OnError
<1>8. CASE UNCHANGED vars
  BY <1>5, <1>8 DEF vars
<1> QED
  BY <1>1, <1>2, <1>3, <1>4, <1>6, <1>7, <1>8 DEF Next, Work

(* A client is answered in the transport it uses, unless the first frame   *)
(* it sent was broken (transportMode).                                     *)
THEOREM OwnTransport == Spec => []InTheClientsTransport
<1>1. Init => TransportInv
  BY DEF Init, TransportInv, ClientIsKnown, InTheClientsTransport
<1>2. TransportInv => InTheClientsTransport
  BY DEF TransportInv
<1> QED
  BY <1>1, <1>2, Invariant, TransportStep, PTL DEF Spec

-----------------------------------------------------------------------------
(* The session implements the request service.  What the simulation needs: *)
(* a session that has ended well is at rest; an open one without a drain   *)
(* has no whole message left; the buffer begins inside a message only      *)
(* behind a broken frame; only calls are awaited, and they were read.      *)
AtRest == ~microtask /\ ended /\ \A d \in Drain : ~AtWork(d)
NothingLeft == (\A d \in Drain : ~AtWork(d)) => arrived <= consumed + 1
InsideIsCut == ~AtStart => Cut(Front)
CallsAreCalls ==
  \A d \in Drain : cur[d] # 0 => script[cur[d]] = "call" /\ 2 * cur[d] <= consumed

ServiceInv ==
  /\ settled = "resolved" => AtRest
  /\ settled = "open" => NothingLeft
  /\ InsideIsCut
  /\ CallsAreCalls
  /\ ClientIsKnown

(* A drain that finds nothing to read has read all that came whole.        *)
LEMMA StarvedIsServed ==
  ASSUME TypeOK, InsideIsCut, ClientIsKnown, Starved
  PROVE  arrived <= consumed + 1
<1> SUFFICES ASSUME arrived >= consumed + 2 PROVE FALSE
  BY DEF TypeOK
<1>1. Front \in 1..N
  BY FrontIsAMessage DEF TypeOK
<1>2. NextHeader <= consumed + 2
  BY DEF NextHeader, TypeOK
<1>3. arrived >= NextHeader
  BY <1>2 DEF NextHeader, TypeOK
<1>4. CASE ~framed
  <2>1. AtStart
    BY <1>1, <1>4 DEF InsideIsCut, Cut, ClientIsKnown
  <2>2. Lined
    BY <1>4, <2>1 DEF ClientIsKnown, Lined, TypeOK
  <2> QED
    BY <1>1, <1>4, <2>1, <2>2 DEF Starved, CanRead, ClientIsKnown
<1>5. CASE framed /\ Lined
  BY <1>3, <1>5 DEF Starved, Misread
<1>6. CASE framed /\ ~Lined
  BY <1>6 DEF Starved, CanRead, Broken, TypeOK
<1> QED
  BY <1>4, <1>5, <1>6

LEMMA InitServiceInv == Init => ServiceInv
<1> SUFFICES ASSUME Init PROVE ServiceInv
  OBVIOUS
<1>1. AtStart
  BY DEF Init, AtStart
<1>2. ClientIsKnown
  BY DEF Init, ClientIsKnown
<1> QED
  BY <1>1, <1>2 DEF Init, ServiceInv, NothingLeft, InsideIsCut, CallsAreCalls

LEMMA ServiceInvStep == Inv /\ TransportInv /\ ServiceInv /\ [Next]_vars => ServiceInv'
<1> SUFFICES ASSUME Inv, TransportInv, ServiceInv, [Next]_vars PROVE ServiceInv'
  OBVIOUS
<1>0. /\ TypeOK
      /\ settled = "resolved" => AtRest
      /\ settled = "open" => NothingLeft
      /\ InsideIsCut /\ CallsAreCalls /\ ClientIsKnown
  BY DEF Inv, ServiceInv
<1>a. ClientIsKnown' /\ TypeOK'
  BY TransportStep, InvStep DEF TransportInv, Inv
<1>b. UNCHANGED <<framed, script>>
  BY DEF Next, Work, Read, ReadHeaderAsLine, FramingError, RunDry, CallEnds, CallThrows,
         RunMicrotask, OnData, OnEnd, OnError, vars
<1>c. \A d \in Drain : AtWork(d) => settled # "resolved"
  BY <1>0 DEF AtRest
<1>d. ASSUME UNCHANGED consumed PROVE InsideIsCut'
  BY <1>0, <1>b, <1>d DEF InsideIsCut, AtStart, Front, Cut
<1>e. ASSUME UNCHANGED consumed, \A d \in Drain : cur'[d] \in {0, cur[d]} PROVE CallsAreCalls'
  BY <1>0, <1>b, <1>e DEF CallsAreCalls
<1>f. ASSUME NEW d \in Drain, AtWork(d), NEW STATE outcome, EndDrain(d, outcome),
             outcome # "resolved", UNCHANGED ended
      PROVE  settled' = "resolved" => AtRest'
  <2>1. \A e \in Drain : ~AtWork(e)'
    BY <1>0, <1>f DEF EndDrain, AtWork, TypeOK, OneDrain
  <2> QED
    BY <1>f, <2>1 DEF EndDrain, AtRest
<1>1. ASSUME NEW d \in Drain, Read(d) PROVE ServiceInv'
  <2>1. /\ AtStart /\ Front \in 1..N /\ 2 * Front = consumed + 2
        /\ consumed' = consumed + 2
    BY <1>0, <1>1, FrontIsAMessage, FrontEnds DEF Read, CanRead, TypeOK
  <2>2. AtStart'
    BY <1>0, <2>1 DEF AtStart, TypeOK
  <2>3. AtWork(d) /\ AtWork(d)' /\ settled' = settled
    BY <1>0, <1>1 DEF Read, AtWork, TypeOK
  <2>4. CallsAreCalls'
    <3>1. \A e \in Drain : cur'[e] = cur[e]
                           \/ (cur'[e] = Front /\ script[Front] = "call")
      BY <1>0, <1>1 DEF Read, TypeOK
    <3>2. \A e \in Drain : cur[e] \in 0..N
      BY <1>0 DEF TypeOK
    <3> QED
      BY <1>0, <1>b, <2>1, <3>1, <3>2 DEF CallsAreCalls, TypeOK
  <2> QED
    BY <1>a, <1>c, <2>2, <2>3, <2>4 DEF ServiceInv, NothingLeft, InsideIsCut
<1>2. ASSUME NEW d \in Drain, ReadHeaderAsLine(d) PROVE ServiceInv'
  <2>1. script[1] = "badframe"
    BY <1>0, <1>2 DEF ReadHeaderAsLine, Misread, Lined, AtStart, ClientIsKnown
  <2>2. consumed' \in Nat /\ consumed' >= consumed
    BY <1>0, <1>2 DEF ReadHeaderAsLine, NextHeader, TypeOK
  <2>3. InsideIsCut'
    <3>0. consumed' \div 2 \in Nat
      BY <2>2, HalfIsNat
    <3>1. Front' \in Nat /\ Front' >= 1
      BY <3>0 DEF Front
    <3> QED
      BY <1>b, <2>1, <3>1 DEF InsideIsCut, Cut
  <2>4. AtWork(d) /\ AtWork(d)' /\ settled' = settled /\ cur' = cur
    BY <1>2 DEF ReadHeaderAsLine, AtWork
  <2>5. CallsAreCalls'
    <3>1. \A e \in Drain : cur[e] \in 0..N
      BY <1>0 DEF TypeOK
    <3> QED
      BY <1>0, <1>b, <2>2, <2>4, <3>1 DEF CallsAreCalls, TypeOK
  <2> QED
    BY <1>a, <1>c, <2>3, <2>4, <2>5 DEF ServiceInv, NothingLeft
<1>3. ASSUME NEW d \in Drain, FramingError(d) PROVE ServiceInv'
  <2>1. /\ AtWork(d) /\ EndDrain(d, settled) /\ settled # "resolved"
        /\ UNCHANGED <<ended, arrived, cur>> /\ consumed' = arrived
    BY <1>c, <1>3 DEF FramingError, AtWork
  <2>2. settled' = "resolved" => AtRest'
    BY <1>f, <2>1
  <2>3. NothingLeft'
    BY <1>0, <2>1 DEF NothingLeft, TypeOK
  <2>4. InsideIsCut'
    <3>1. Front \in Nat /\ Front' \in Nat /\ Front <= Front'
      BY <1>0, <2>1 DEF Front, TypeOK
    <3>2. Cut(Front) \/ (AtStart /\ script[Front] = "badframe" /\ Front \in 1..N)
      BY <1>0, <1>3, FrontIsAMessage DEF FramingError, Broken, InsideIsCut, TypeOK
    <3>3. Cut(Front)
      BY <3>2 DEF Cut
    <3>4. Cut(Front')
      BY <3>1, <3>3 DEF Cut
    <3>5. Cut(Front)'
      BY <1>b, <3>4 DEF Cut
    <3> QED
      BY <3>5 DEF InsideIsCut
  <2>5. CallsAreCalls'
    <3>1. \A e \in Drain : cur[e] \in 0..N
      BY <1>0 DEF TypeOK
    <3> QED
      BY <1>0, <1>b, <2>1, <3>1 DEF CallsAreCalls, TypeOK
  <2> QED
    BY <1>a, <2>2, <2>3, <2>4, <2>5 DEF ServiceInv
<1>4. ASSUME NEW d \in Drain, RunDry(d) PROVE ServiceInv'
  <2>1. /\ AtWork(d) /\ UNCHANGED <<arrived, consumed, ended, cur>>
        /\ arrived <= consumed + 1
    BY <1>0, <1>4, StarvedIsServed DEF RunDry, AtWork
  <2>2. InsideIsCut' /\ CallsAreCalls' /\ NothingLeft'
    BY <1>d, <1>e, <2>1 DEF NothingLeft
  <2>3. CASE redrain
    BY <1>0, <1>a, <1>c, <1>4, <2>1, <2>2, <2>3 DEF RunDry, ServiceInv
  <2>4. CASE ~redrain
    <3>1. EndDrain(d, settled) /\ settled # "resolved"
      BY <1>c, <1>4, <2>1, <2>4 DEF RunDry
    <3>2. settled' = "resolved" => AtRest'
      BY <1>f, <2>1, <3>1
    <3> QED
      BY <1>a, <2>2, <3>2 DEF ServiceInv
  <2> QED
    BY <2>3, <2>4
<1>5. ASSUME NEW d \in Drain, CallEnds(d) PROVE ServiceInv'
  <2>1. /\ AtWork(d) /\ AtWork(d)' /\ UNCHANGED <<consumed, settled>>
        /\ \A e \in Drain : cur'[e] \in {0, cur[e]}
    BY <1>0, <1>5 DEF CallEnds, AtWork, TypeOK
  <2> QED
    BY <1>a, <1>c, <1>d, <1>e, <2>1 DEF ServiceInv, NothingLeft
<1>6. ASSUME NEW d \in Drain, CallThrows(d) PROVE ServiceInv'
  <2>1. /\ AtWork(d) /\ UNCHANGED consumed /\ settled # "resolved"
        /\ \A e \in Drain : cur'[e] \in {0, cur[e]}
    BY <1>0, <1>c, <1>6 DEF CallThrows, AtWork, TypeOK
  <2>2. settled' = "rejected"
    BY <1>0, <1>6, <2>1 DEF CallThrows, EndDrain, TypeOK
  <2> QED
    BY <1>a, <1>d, <1>e, <2>1, <2>2 DEF ServiceInv
<1>7. ASSUME RunMicrotask PROVE ServiceInv'
  <2>1. /\ settled # "resolved" /\ UNCHANGED <<consumed, cur, settled>>
    BY <1>0, <1>7 DEF RunMicrotask, AtRest
  <2>2. \E d \in Drain : AtWork(d)'
    <3>1. CASE draining
      BY <1>0, <1>7, <3>1 DEF RunMicrotask, AtWork, TypeOK, OneDrain
    <3>2. ASSUME NEW d \in Drain, StartDrain(d) PROVE AtWork(d)'
      BY <1>0, <3>2 DEF StartDrain, AtWork, TypeOK
    <3> QED
      BY <1>7, <3>1, <3>2 DEF RunMicrotask
  <2> QED
    BY <1>a, <1>d, <1>e, <2>1, <2>2 DEF ServiceInv, NothingLeft
<1>8. ASSUME OnData PROVE ServiceInv'
  <2>1. settled = "open" /\ UNCHANGED <<consumed, cur, settled>>
    BY <1>8 DEF OnData, Listening
  <2>2. \E d \in Drain : AtWork(d)'
    <3>1. CASE draining
      BY <1>0, <1>8, <3>1 DEF OnData, AtWork, TypeOK, OneDrain
    <3>2. ASSUME NEW d \in Drain, StartDrain(d) PROVE AtWork(d)'
      BY <1>0, <3>2 DEF StartDrain, AtWork, TypeOK
    <3> QED
      BY <1>8, <3>1, <3>2 DEF OnData
  <2> QED
    BY <1>a, <1>d, <1>e, <2>1, <2>2 DEF ServiceInv, NothingLeft
<1>9. ASSUME OnEnd PROVE ServiceInv'
  <2>1. /\ settled = "open" /\ ~microtask
        /\ UNCHANGED <<arrived, consumed, cur, pc, microtask>> /\ ended' = TRUE
        /\ settled' = IF draining THEN settled ELSE "resolved"
    BY <1>9 DEF OnEnd, Listening, Quiet
  <2>2. settled' = "resolved" => AtRest'
    BY <1>0, <2>1 DEF AtRest, AtWork, TypeOK, OneDrain
  <2>3. NothingLeft'
    BY <1>0, <2>1 DEF NothingLeft, AtWork
  <2> QED
    BY <1>a, <1>d, <1>e, <2>1, <2>2, <2>3 DEF ServiceInv
<1>10. ASSUME OnError PROVE ServiceInv'
  <2>1. UNCHANGED <<consumed, cur>> /\ settled' = "rejected"
    BY <1>10 DEF OnError
  <2> QED
    BY <1>a, <1>d, <1>e, <2>1 DEF ServiceInv
<1>11. CASE UNCHANGED vars
  <2>1. UNCHANGED <<arrived, consumed, cur, settled, pc, microtask, ended>>
    BY <1>11 DEF vars
  <2>2. (settled' = "resolved" => AtRest') /\ (settled' = "open" => NothingLeft')
    BY <1>0, <2>1 DEF AtRest, NothingLeft, AtWork
  <2> QED
    BY <1>a, <1>d, <1>e, <2>1, <2>2 DEF ServiceInv
<1> QED
  BY <1>1, <1>2, <1>3, <1>4, <1>5, <1>6, <1>7, <1>8, <1>9, <1>10, <1>11 DEF Next, Work

-----------------------------------------------------------------------------
(* The steps of the session as steps of the service.                       *)
Asked == {m \in 1..N : Asks(m)}
Waits(m) == 2 * m <= arrived /\ (consumed < 2 * m - 1 \/ \E d \in Drain : cur[d] = m)

LEMMA WaitingWaits == \A m : m \in Waiting <=> m \in 1..N /\ Waits(m)
BY DEF Waiting, Waits

LEMMA WaitingWaitsNext == \A m : m \in Waiting' <=> m \in 1..N /\ Waits(m)'
BY DEF Waiting, Waits

(* A message is answered, or an error that answers none is written.        *)
LEMMA AnsweredGrows ==
  ASSUME TypeOK, NEW ACTION m, m \in 0..N, NEW ACTION how, Reply(m, how)
  PROVE  Answered' = Answered \cup ({m} \cap 1..N)
<1>1. /\ Len(replies) \in Nat
      /\ Len(replies') = Len(replies) + 1
      /\ \A i \in 1..Len(replies) : replies'[i].msg = replies[i].msg
      /\ replies'[Len(replies) + 1].msg = m
  BY ReplyAppends
<1>2. ASSUME NEW k \in 1..N
      PROVE  (\E i \in 1..Len(replies') : replies'[i].msg = k) <=>
               (k = m \/ \E i \in 1..Len(replies) : replies[i].msg = k)
  <2>1. \A i \in 1..Len(replies') : i \in 1..Len(replies) \/ i = Len(replies) + 1
    BY <1>1
  <2>2. Len(replies) + 1 \in 1..Len(replies') /\ 1..Len(replies) \subseteq 1..Len(replies')
    BY <1>1
  <2> QED
    BY <1>1, <2>1, <2>2
<1> QED
  BY <1>2 DEF Answered

(* The actions of the service, said of the session.                        *)
LEMMA ServiceServe ==
  ASSUME UNCHANGED <<script, arrived, settled>>, NEW ACTION m, m \in Waiting,
         \A k \in Waiting : m <= k, Waiting' = Waiting \ {m},
         Answered' = Answered \cup ({m} \cap Asked)
  PROVE  Service!Serve
BY DEF Service!Serve, Asked, Asks

LEMMA ServiceLose ==
  ASSUME UNCHANGED <<script, arrived, settled, Answered>>, Waiting' \subseteq Waiting,
         \A m \in Waiting : Cut(m)
  PROVE  Service!Lose
<1>1. \A m \in Waiting : m \in 1..N
  BY DEF Waiting
<1>2. \A m \in Waiting : Service!Behind(m)
  BY <1>1 DEF Service!Behind, Cut
<1> QED
  BY <1>2 DEF Service!Lose, Asks

LEMMA ServiceEnd ==
  ASSUME UNCHANGED <<script, arrived, Answered>>, settled = "open", settled' = "resolved",
         Waiting' = {}, \A m \in Waiting : Cut(m)
  PROVE  Service!End
<1>1. \A m \in Waiting : m \in 1..N
  BY DEF Waiting
<1>2. \A m \in Waiting : Service!Behind(m)
  BY <1>1 DEF Service!Behind, Cut
<1> QED
  BY <1>2 DEF Service!End, Asks

LEMMA ServiceFail ==
  ASSUME UNCHANGED <<script, arrived, Answered>>, settled \in {"open", "rejected"},
         settled' = "rejected", Waiting' \subseteq Waiting
  PROVE  Service!Fail
BY DEF Service!Fail, Asks

LEMMA ServiceStutters ==
  ASSUME UNCHANGED <<script, arrived, settled, Answered, Waiting>>
  PROVE  UNCHANGED Service!svars
BY DEF Service!svars, Asks

(* What waits when nothing that concerns it changes, and what is answered. *)
LEMMA SameWaiting ==
  ASSUME UNCHANGED <<arrived, consumed>>,
         \A m \in 1..N : (\E d \in Drain : cur[d] = m) <=> (\E d \in Drain : cur'[d] = m)
  PROVE  Waiting' = Waiting
BY DEF Waiting

LEMMA SameAnswered == UNCHANGED replies => Answered' = Answered
BY DEF Answered

(* While a drain reads, no call is awaited, and what waits is behind the   *)
(* front of the buffer.                                                    *)
LEMMA ReadingWaits ==
  ASSUME TypeOK, NEW d \in Drain, pc[d] = "parse"
  PROVE  /\ \A e \in Drain : cur[e] = 0
         /\ \A m \in Waiting : m \in 1..N /\ 2 * m <= arrived /\ consumed < 2 * m - 1
         /\ \A m \in Waiting : Front <= m
<1>1. \A e \in Drain : cur[e] = 0
  BY DEF TypeOK, OneDrain, AtWork
<1>2. \A m \in Waiting : m \in 1..N /\ 2 * m <= arrived /\ consumed < 2 * m - 1
  BY <1>1 DEF Waiting
<1>3. \A m \in Waiting : Front <= m
  BY <1>2 DEF Front, TypeOK
<1> QED
  BY <1>1, <1>2, <1>3

LEMMA ServiceStep ==
  Inv /\ OrderInv /\ ServiceInv /\ [Next]_vars => [Service!SNext]_(Service!svars)
<1> SUFFICES ASSUME Inv, OrderInv, ServiceInv, [Next]_vars
             PROVE  Service!SNext \/ UNCHANGED Service!svars
  OBVIOUS
<1>0. /\ TypeOK
      /\ settled = "resolved" => AtRest
      /\ settled = "open" => NothingLeft
      /\ InsideIsCut /\ CallsAreCalls /\ ClientIsKnown
  BY DEF Inv, ServiceInv
<1>a. UNCHANGED script
  BY DEF Next, Work, Read, ReadHeaderAsLine, FramingError, RunDry, CallEnds, CallThrows,
         RunMicrotask, OnData, OnEnd, OnError, vars
<1>b. arrived \in 0 .. 2 * N /\ consumed \in 0..arrived /\ cur \in [Drain -> 0..N]
  BY <1>0 DEF TypeOK
<1>c. settled \in {"open", "resolved", "rejected"}
  BY <1>0 DEF TypeOK
<1>d. \A d \in Drain : AtWork(d) => settled # "resolved"
  BY <1>0 DEF AtRest
<1>1. ASSUME NEW d \in Drain, Read(d) PROVE Service!SNext \/ UNCHANGED Service!svars
  <2>1. /\ AtStart /\ Front \in 1..N /\ 2 * Front = consumed + 2 /\ arrived >= 2 * Front
        /\ consumed' = consumed + 2 /\ pc[d] = "parse"
        /\ UNCHANGED <<arrived, settled>>
    BY <1>0, <1>1, FrontIsAMessage, FrontEnds DEF Read, CanRead, TypeOK
  <2>2. Front \in Waiting
    BY <2>1, <1>b DEF Waiting
  <2>3. /\ \A e \in Drain : cur[e] = 0
        /\ \A k \in Waiting : Front <= k
    BY <1>0, <2>1, ReadingWaits
  <2>4. CASE script[Front] = "call"
    <3>1. UNCHANGED replies /\ cur'[d] = Front /\ \A e \in Drain : cur'[e] \in {0, Front}
      BY <1>1, <1>b, <2>3, <2>4 DEF Read
    <3>2. ASSUME NEW k \in 1..N PROVE Waits(k) <=> Waits(k)'
      BY <1>b, <2>1, <2>3, <3>1 DEF Waits
    <3>3. Waiting' = Waiting
      BY <3>2, WaitingWaits, WaitingWaitsNext
    <3> QED
      BY <1>a, <2>1, <3>1, <3>3, SameAnswered, ServiceStutters
  <2>5. CASE script[Front] # "call"
    <3>1. UNCHANGED cur
      BY <1>1, <2>5 DEF Read
    <3>2. ASSUME NEW k \in 1..N PROVE Waits(k)' <=> Waits(k) /\ k # Front
      BY <1>b, <2>1, <2>3, <3>1 DEF Waits
    <3>3. Waiting' = Waiting \ {Front}
      BY <3>2, WaitingWaits, WaitingWaitsNext
    <3>4. Answered' = Answered \cup ({Front} \cap Asked)
      <4>1. CASE script[Front] \in {"plain", "garbled"}
        <5>1. Front \in Asked
          BY <2>1, <4>1 DEF Asked, Asks
        <5>2. Reply(Front, mode')
          BY <1>1, <4>1 DEF Read
        <5>3. Front \in 0..N /\ {Front} \cap 1..N = {Front} \cap Asked
          BY <2>1, <5>1
        <5>4. Answered' = Answered \cup ({Front} \cap 1..N)
          BY <1>0, <5>2, <5>3, AnsweredGrows
        <5> QED
          BY <5>3, <5>4
      <4>2. CASE script[Front] \notin {"plain", "garbled"}
        <5>1. Front \notin Asked
          BY <2>5, <4>2 DEF Asked, Asks
        <5>2. UNCHANGED replies
          BY <1>1, <4>2 DEF Read
        <5> QED
          BY <5>1, <5>2, SameAnswered
      <4> QED
        BY <4>1, <4>2
    <3> QED
      BY <1>a, <2>1, <2>2, <2>3, <3>3, <3>4, ServiceServe DEF Service!SNext
  <2> QED
    BY <2>4, <2>5
<1>2. ASSUME NEW d \in Drain, ReadHeaderAsLine(d) PROVE Service!SNext \/ UNCHANGED Service!svars
  <2>1. /\ pc[d] = "parse" /\ Reply(0, "line") /\ UNCHANGED <<arrived, settled, cur>>
        /\ consumed' = NextHeader /\ framed /\ Lined
    BY <1>2 DEF ReadHeaderAsLine, Misread
  <2>2. script[1] = "badframe"
    BY <1>0, <2>1 DEF Lined, AtStart, ClientIsKnown
  <2>3. \A m \in Waiting : Cut(m)
    BY <2>2 DEF Cut, Waiting
  <2>4. Answered' = Answered
    BY <1>0, <2>1, AnsweredGrows
  <2>5. consumed' \in Nat /\ consumed <= consumed'
    BY <1>b, <2>1 DEF NextHeader
  <2>6. Waiting' \subseteq Waiting
    BY <1>b, <2>1, <2>5 DEF Waiting
  <2> QED
    BY <1>a, <2>1, <2>3, <2>4, <2>6, ServiceLose DEF Service!SNext
<1>3. ASSUME NEW d \in Drain, FramingError(d) PROVE Service!SNext \/ UNCHANGED Service!svars
  <2>1. /\ pc[d] = "parse" /\ AtWork(d) /\ UNCHANGED <<arrived, cur>> /\ consumed' = arrived
        /\ settled' = IF settled = "open" /\ ended THEN "resolved" ELSE settled
        /\ \E how : Reply(0, how)
    BY <1>3 DEF FramingError, EndDrain, AtWork
  <2>2. /\ \A e \in Drain : cur[e] = 0
        /\ \A m \in Waiting : m \in 1..N /\ Front <= m
    BY <1>0, <2>1, ReadingWaits
  <2>3. Waiting' = {}
    BY <1>b, <2>1, <2>2 DEF Waiting
  <2>4. Answered' = Answered
    BY <1>0, <2>1, AnsweredGrows
  <2>5. Front \in Nat /\ Cut(Front)
    <3>1. Front \in Nat
      BY <1>b DEF Front
    <3>2. Cut(Front) \/ (AtStart /\ script[Front] = "badframe" /\ Front \in 1..N)
      BY <1>0, <1>3, FrontIsAMessage DEF FramingError, Broken, InsideIsCut, TypeOK
    <3> QED
      BY <3>1, <3>2 DEF Cut
  <2>6. \A m \in Waiting : Cut(m)
    BY <2>2, <2>5 DEF Cut
  <2>7. CASE settled' = settled
    BY <1>a, <2>1, <2>3, <2>4, <2>6, <2>7, ServiceLose DEF Service!SNext
  <2>8. CASE settled = "open" /\ settled' = "resolved"
    BY <1>a, <2>1, <2>3, <2>4, <2>6, <2>8, ServiceEnd DEF Service!SNext
  <2> QED
    BY <2>1, <2>7, <2>8
<1>4. ASSUME NEW d \in Drain, RunDry(d) PROVE Service!SNext \/ UNCHANGED Service!svars
  <2>1. /\ pc[d] = "parse" /\ UNCHANGED <<arrived, consumed, cur, replies>>
        /\ arrived <= consumed + 1
    BY <1>0, <1>4, StarvedIsServed DEF RunDry
  <2>2. Waiting' = Waiting /\ Answered' = Answered
    BY <2>1, SameWaiting, SameAnswered
  <2>3. Waiting = {}
    <3>1. \A m \in Waiting : m \in 1..N /\ 2 * m <= arrived /\ consumed < 2 * m - 1
      BY <1>0, <2>1, ReadingWaits
    <3> QED
      BY <1>b, <2>1, <3>1
  <2>4. settled' = settled \/ (settled = "open" /\ settled' = "resolved")
    BY <1>4 DEF RunDry, EndDrain
  <2>5. CASE settled' = settled
    BY <1>a, <2>1, <2>2, <2>5, ServiceStutters
  <2>6. CASE settled = "open" /\ settled' = "resolved"
    BY <1>a, <2>1, <2>2, <2>3, <2>6, ServiceEnd DEF Service!SNext
  <2> QED
    BY <2>4, <2>5, <2>6
<1>5. ASSUME NEW d \in Drain, CallEnds(d) PROVE Service!SNext \/ UNCHANGED Service!svars
  <2>1. /\ Reply(cur[d], mode) /\ cur[d] \in 1..N
        /\ UNCHANGED <<arrived, consumed, settled>>
        /\ \A e \in Drain : cur'[e] = 0 /\ cur[e] \in {0, cur[d]}
    BY <1>0, <1>5 DEF CallEnds, TypeOK, OneDrain, AtWork
  <2>2. script[cur[d]] = "call" /\ 2 * cur[d] <= consumed
    BY <1>0, <2>1 DEF CallsAreCalls
  <2>3. cur[d] \in Waiting /\ cur[d] \in Asked
    BY <1>b, <2>1, <2>2 DEF Waiting, Asked, Asks
  <2>4. ASSUME NEW k \in 1..N
        PROVE  /\ Waits(k)' <=> Waits(k) /\ k # cur[d]
               /\ Waits(k) => cur[d] <= k
    BY <1>b, <2>1, <2>2 DEF Waits
  <2>5. Waiting' = Waiting \ {cur[d]} /\ \A k \in Waiting : cur[d] <= k
    BY <2>4, WaitingWaits, WaitingWaitsNext
  <2>6. Answered' = Answered \cup ({cur[d]} \cap Asked)
    BY <1>0, <2>1, <2>3, AnsweredGrows
  <2> QED
    BY <1>a, <2>1, <2>3, <2>5, <2>6, ServiceServe DEF Service!SNext
<1>6. ASSUME NEW d \in Drain, CallThrows(d) PROVE Service!SNext \/ UNCHANGED Service!svars
  <2>1. /\ AtWork(d) /\ UNCHANGED <<arrived, consumed, replies>>
        /\ \A e \in Drain : cur'[e] \in {0, cur[e]}
    BY <1>b, <1>6 DEF CallThrows, AtWork
  <2>2. settled \in {"open", "rejected"} /\ settled' = "rejected"
    BY <1>c, <1>d, <1>6, <2>1 DEF CallThrows, EndDrain
  <2>3. \A m \in 1..N : (\E e \in Drain : cur'[e] = m) => \E e \in Drain : cur[e] = m
    BY <2>1
  <2>4. Waiting' \subseteq Waiting
    BY <2>1, <2>3 DEF Waiting
  <2> QED
    BY <1>a, <2>1, <2>2, <2>4, SameAnswered, ServiceFail DEF Service!SNext
<1>7. ASSUME UNCHANGED <<arrived, consumed, cur, replies, settled>>
      PROVE  UNCHANGED Service!svars
  BY <1>a, <1>7, SameWaiting, SameAnswered, ServiceStutters
<1>8. ASSUME OnData PROVE Service!SNext \/ UNCHANGED Service!svars
  <2>1. /\ settled = "open" /\ UNCHANGED <<consumed, cur, replies, settled>>
        /\ arrived' \in arrived + 1 .. 2 * N
    BY <1>8 DEF OnData, Listening
  <2> DEFINE before == arrived \div 2
             after == arrived' \div 2
  <2>3. /\ before \in 0..N /\ after \in 0..N /\ before <= after
        /\ \A m \in 1..N : 2 * m <= arrived <=> m <= before
        /\ \A m \in 1..N : 2 * m <= arrived' <=> m <= after
    <3>1. arrived \in Nat /\ arrived' \in Nat /\ arrived' <= 2 * N /\ arrived <= arrived'
      BY <1>b, <2>1
    <3>2. /\ before \in Nat /\ 2 * before <= arrived /\ arrived <= 2 * before + 1
          /\ after \in Nat /\ 2 * after <= arrived' /\ arrived' <= 2 * after + 1
      BY <3>1, HalfIsNat
    <3> HIDE DEF before, after
    <3> QED
      BY <3>1, <3>2
  <2>5. \A m \in 1..N : m \in Waiting' <=> m \in Waiting
                                        \/ (m \in before + 1 .. after /\ consumed < 2 * m - 1)
    <3>1. ASSUME NEW m \in 1..N, \E d \in Drain : cur[d] = m PROVE 2 * m <= arrived
      BY <1>0, <1>b, <3>1 DEF CallsAreCalls
    <3> HIDE DEF before, after
    <3> QED
      BY <2>1, <2>3, <3>1 DEF Waiting
  <2>6. ASSUME NEW m \in before + 1 .. after, ~(consumed < 2 * m - 1) PROVE Cut(m)
    <3>1. m \in 1..N /\ arrived < 2 * m
      <4> HIDE DEF before, after
      <4> QED
        BY <1>b, <2>3, <2>6
    <3>2. consumed = 2 * m - 1
      BY <1>b, <2>6, <3>1
    <3>3. ~AtStart /\ Front = m
      BY <3>1, <3>2 DEF AtStart, Front
    <3> QED
      BY <1>0, <3>3 DEF InsideIsCut
  <2>7. Answered' = Answered
    BY <2>1, SameAnswered
  <2>8. CASE after = 0
    <3>1. before = after
      BY <2>3, <2>8
    <3>2. Waiting' = Waiting
      <4>1. before + 1 .. after = {}
        <5> HIDE DEF before, after
        <5> QED
          BY <2>3, <3>1
      <4>2. Waiting \subseteq 1..N /\ Waiting' \subseteq 1..N
        BY DEF Waiting
      <4> HIDE DEF before, after
      <4> QED
        BY <2>5, <4>1, <4>2
    <3> QED
      BY <1>a, <2>1, <2>7, <3>1, <3>2 DEF Service!svars, Asks
  <2>9. CASE after # 0
    <3> DEFINE lost == {m \in before + 1 .. after : ~(consumed < 2 * m - 1)}
    <3>1. after \in 1..N
      BY <2>3, <2>9
    <3>2. \A m \in lost : m \in 1..N /\ Service!Behind(m)
      <4>1. ASSUME NEW m \in lost PROVE m \in 1..N /\ Cut(m)
        BY <2>3, <2>6, <4>1
      <4> QED
        BY <4>1 DEF Service!Behind, Cut
    <3>3. Waiting' = Waiting \cup ((before + 1 .. after) \ lost)
      <4>1. Waiting \subseteq 1..N /\ Waiting' \subseteq 1..N /\ before + 1 .. after \subseteq 1..N
        BY <2>3 DEF Waiting
      <4> QED
        BY <2>5, <4>1
    <3>4. Service!Receive
      BY <1>a, <2>1, <2>7, <3>1, <3>2, <3>3 DEF Service!Receive, Asks
    <3> QED
      BY <3>4 DEF Service!SNext
  <2> QED
    BY <2>8, <2>9
<1>9. ASSUME OnEnd PROVE Service!SNext \/ UNCHANGED Service!svars
  <2>1. /\ settled = "open" /\ UNCHANGED <<arrived, consumed, cur, replies>>
        /\ settled' = IF draining THEN settled ELSE "resolved"
    BY <1>9 DEF OnEnd, Listening
  <2>2. CASE draining
    BY <1>7, <2>1, <2>2
  <2>3. CASE ~draining
    <3>1. \A d \in Drain : ~AtWork(d) /\ cur[d] = 0
      BY <1>0, <2>3 DEF TypeOK, OneDrain, AtWork
    <3>2. Waiting = {}
      BY <1>0, <1>b, <2>1, <3>1 DEF NothingLeft, Waiting
    <3>3. Waiting' = Waiting /\ Answered' = Answered
      BY <2>1, SameWaiting, SameAnswered
    <3> QED
      BY <1>a, <2>1, <2>3, <3>2, <3>3, ServiceEnd DEF Service!SNext
  <2> QED
    BY <2>2, <2>3
<1>10. ASSUME OnError PROVE Service!SNext \/ UNCHANGED Service!svars
  <2>1. /\ settled = "open" /\ settled' = "rejected"
        /\ UNCHANGED <<arrived, consumed, cur, replies>>
    BY <1>10 DEF OnError
  <2>2. Waiting' = Waiting /\ Answered' = Answered
    BY <2>1, SameWaiting, SameAnswered
  <2> QED
    BY <1>a, <2>1, <2>2, ServiceFail DEF Service!SNext
<1>11. CASE RunMicrotask
  BY <1>7, <1>11 DEF RunMicrotask
<1>12. CASE UNCHANGED vars
  BY <1>7, <1>12 DEF vars
<1> QED
  BY <1>1, <1>2, <1>3, <1>4, <1>5, <1>6, <1>8, <1>9, <1>10, <1>11, <1>12 DEF Next, Work

(* A new session is a service that has received nothing.                   *)
LEMMA ServiceInit == Init => Service!SInit
<1> SUFFICES ASSUME Init PROVE Service!SInit
  OBVIOUS
<1>1. Waiting = {} /\ Answered = {}
  BY DEF Init, Waiting, Answered
<1>2. arrived \div 2 = 0
  BY DEF Init
<1> QED
  BY <1>1, <1>2 DEF Init, Service!SInit

(* The session implements the request service: whatever the chunks, the    *)
(* tool calls and their failures, requests are served in order, one is     *)
(* lost only behind a frame that cannot be read or when the session fails, *)
(* and the session ends well only when nothing is left to serve.           *)
THEOREM Implements == Spec => ImplementsService
<1>1. Init => OrderInv
  BY DEF Init, OrderInv, AnsweredInOrder, AnswersLieBehind
<1>2. Init => TransportInv
  BY DEF Init, TransportInv, ClientIsKnown, InTheClientsTransport
<1>3. Inv => TypeOK
  BY DEF Inv
<1> QED
  BY <1>1, <1>2, <1>3, Invariant, OrderStep, TransportStep, InitServiceInv, ServiceInvStep,
     ServiceInit, ServiceStep, PTL DEF Spec, ImplementsService, Service!Service
=============================================================================
