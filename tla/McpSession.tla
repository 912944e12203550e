------------------------------ MODULE McpSession ------------------------------
(***************************************************************************)
(* One MCP session over stdio (serveMcpStdioSession,                       *)
(* src/src/mcp/startServer.ts): bytes arrive in chunks cut anywhere, a     *)
(* drain takes messages off the buffer and answers them one by one, and    *)
(* end of input ends the session once no drain is at work.                 *)
(*                                                                         *)
(* Message m of the client is sent as the pieces 2m-1 (which holds its     *)
(* header, in the framed transport) and 2m (which ends it), and the buffer *)
(* is the interval of pieces consumed+1 .. arrived.  A broken frame is     *)
(* answered with an error and clears the buffer, the rest of a message cut *)
(* there arrives later and is read as the start of the next header.        *)
(*                                                                         *)
(* JavaScript runs a drain without interruption up to a tool call, the one *)
(* await that is not over by itself: input events come only when Quiet.    *)
(***************************************************************************)
EXTENDS Naturals, Sequences

CONSTANTS
  N,          \* number of messages the client sends
  Drain       \* calls of drainBuffer that may be at work

ASSUME NAssumption == N \in Nat \ {0}

VARIABLES
  framed,     \* the client frames its messages; otherwise one line each
  script,     \* script[m]: what message m is
  arrived,    \* pieces received so far
  consumed,   \* pieces taken off the buffer so far
  mode,       \* transportMode
  draining,
  redrain,    \* redrainRequested
  ended,
  microtask,  \* a drain is queued as a microtask
  pc,         \* pc[d]: "idle", reading ("parse") or in a tool call ("call")
  cur,        \* cur[d]: the message whose tool call d awaits, or 0
  replies,    \* what was written to stdout
  settled     \* the promise of the session

vars == <<framed, script, arrived, consumed, mode, draining, redrain, ended,
          microtask, pc, cur, replies, settled>>

\* A plain request is answered at once, a silent message (a notification, or
\* a request without an id) never, a garbled one (bad JSON) with an error.
Kind == {"plain", "silent", "call", "blank", "garbled", "badframe"}
Asks(m) == script[m] \in {"plain", "call", "garbled"}

Init ==
  /\ framed \in BOOLEAN
  /\ script \in [1..N -> Kind]
  /\ ~framed => \A m \in 1..N : script[m] # "badframe"
  /\ arrived = 0
  /\ consumed = 0
  /\ mode = "unknown"
  /\ draining = FALSE
  /\ redrain = FALSE
  /\ ended = FALSE
  /\ microtask = FALSE
  /\ pc = [d \in Drain |-> "idle"]
  /\ cur = [d \in Drain |-> 0]
  /\ replies = <<>>
  /\ settled = "open"

-----------------------------------------------------------------------------
(* The front of the buffer.  Until a message was read, one that does not   *)
(* start with Content-Length is taken for a line.                          *)
Front == consumed \div 2 + 1
AtStart == consumed % 2 = 0
Lined == mode = "line" \/ (mode = "unknown" /\ ~(framed /\ AtStart))

\* Mutant: the rest of a message whose head was cleared is taken as one.
CanRead_CutMessage ==
  /\ framed <=> ~Lined
  /\ arrived >= consumed + 2
  /\ script[Front] # "badframe"

\* A whole message, read in the transport it was sent in.
CanRead ==
  /\ framed <=> ~Lined
  /\ AtStart
  /\ arrived >= consumed + 2
  /\ script[Front] # "badframe"

\* A header without a valid Content-Length, the rest of a message cut by an
\* earlier one in front of it included.
Broken ==
  /\ framed /\ ~Lined
  /\ IF AtStart THEN arrived > consumed /\ script[Front] = "badframe"
                ELSE arrived >= consumed + 2

\* A framed message read as lines: its header ends a line that is no JSON.
NextHeader == IF AtStart THEN consumed + 1 ELSE consumed + 2
Misread == framed /\ Lined /\ arrived >= NextHeader

\* Nothing whole is left.
Starved == ~CanRead /\ ~Broken /\ ~Misread

Reply(m, how) == replies' = Append(replies, [msg |-> m, mode |-> how])

-----------------------------------------------------------------------------
(* The start and the end of a drain.                                       *)
StartDrain(d) ==
  /\ pc[d] = "idle"
  /\ pc' = [pc EXCEPT ![d] = "parse"]
  /\ draining' = TRUE
  /\ redrain' = FALSE

\* Mutant: the end of a drain does not look whether the input has ended.
EndDrain_Goes(d, outcome) ==
  /\ pc' = [pc EXCEPT ![d] = "idle"]
  /\ draining' = FALSE
  /\ microtask' = (redrain /\ ~ended)
  /\ settled' = outcome

EndDrain(d, outcome) ==
  /\ pc' = [pc EXCEPT ![d] = "idle"]
  /\ draining' = FALSE
  /\ microtask' = (redrain /\ ~ended)
  /\ settled' = IF outcome = "open" /\ ended THEN "resolved" ELSE outcome

\* Mutant: a blank message ends the drain.
Read_BlankEnds(d) ==
  /\ pc[d] = "parse"
  /\ CanRead
  /\ consumed' = consumed + 2
  /\ mode' = IF Lined THEN "line" ELSE "framed"
  /\ IF script[Front] \in {"plain", "garbled"}
     THEN Reply(Front, mode')
     ELSE UNCHANGED replies
  /\ CASE script[Front] = "call" ->
            /\ pc' = [pc EXCEPT ![d] = "call"]
            /\ cur' = [cur EXCEPT ![d] = Front]
            /\ UNCHANGED <<draining, microtask, settled>>
       [] script[Front] = "blank" -> EndDrain(d, settled) /\ UNCHANGED cur
       [] OTHER -> UNCHANGED <<pc, cur, draining, microtask, settled>>
  /\ UNCHANGED <<framed, script, arrived, redrain, ended>>

Read(d) ==
  /\ pc[d] = "parse"
  /\ CanRead
  /\ consumed' = consumed + 2
  /\ mode' = IF Lined THEN "line" ELSE "framed"
  /\ IF script[Front] \in {"plain", "garbled"}
     THEN Reply(Front, mode')
     ELSE UNCHANGED replies
  /\ IF script[Front] = "call"
     THEN pc' = [pc EXCEPT ![d] = "call"] /\ cur' = [cur EXCEPT ![d] = Front]
     ELSE UNCHANGED <<pc, cur>>
  /\ UNCHANGED <<framed, script, arrived, draining, redrain, ended, microtask, settled>>

ReadHeaderAsLine(d) ==
  /\ pc[d] = "parse"
  /\ Misread
  /\ consumed' = NextHeader
  /\ mode' = "line"
  /\ Reply(0, "line")
  /\ UNCHANGED <<framed, script, arrived, draining, redrain, ended, microtask, pc, cur, settled>>

\* Mutant: the error is always written as a line.
FramingError_AsLine(d) ==
  /\ pc[d] = "parse"
  /\ Broken
  /\ Reply(0, "line")
  /\ consumed' = arrived
  /\ EndDrain(d, settled)
  /\ UNCHANGED <<framed, script, arrived, mode, redrain, ended, cur>>

FramingError(d) ==
  /\ pc[d] = "parse"
  /\ Broken
  /\ Reply(0, IF mode = "unknown" THEN "line" ELSE mode)
  /\ consumed' = arrived
  /\ EndDrain(d, settled)
  /\ UNCHANGED <<framed, script, arrived, mode, redrain, ended, cur>>

\* The end of the buffer: once more if data came meanwhile.
RunDry(d) ==
  /\ pc[d] = "parse"
  /\ Starved
  /\ IF redrain
     THEN redrain' = FALSE /\ UNCHANGED <<draining, microtask, pc, settled>>
     ELSE EndDrain(d, settled) /\ UNCHANGED redrain
  /\ UNCHANGED <<framed, script, arrived, consumed, mode, ended, cur, replies>>

-----------------------------------------------------------------------------
(* The tool call, whose failure is an answer too (handleRequest), except   *)
(* when the answer itself cannot be written out.                           *)
CallEnds(d) ==
  /\ pc[d] = "call"
  /\ Reply(cur[d], mode)
  /\ pc' = [pc EXCEPT ![d] = "parse"]
  /\ cur' = [cur EXCEPT ![d] = 0]
  /\ UNCHANGED <<framed, script, arrived, consumed, mode, draining, redrain, ended, microtask, settled>>

CallThrows(d) ==
  /\ pc[d] = "call"
  /\ cur' = [cur EXCEPT ![d] = 0]
  /\ EndDrain(d, IF settled = "open" THEN "rejected" ELSE settled)
  /\ UNCHANGED <<framed, script, arrived, consumed, mode, redrain, ended, replies>>

RunMicrotask ==
  /\ microtask
  /\ microtask' = FALSE
  /\ IF draining
     THEN redrain' = TRUE /\ UNCHANGED <<draining, pc>>
     ELSE \E d \in Drain : StartDrain(d)
  /\ UNCHANGED <<framed, script, arrived, consumed, mode, ended, cur, replies, settled>>

-----------------------------------------------------------------------------
(* The events of stdin; cleanup takes the listeners off.                   *)
Quiet == ~microtask /\ \A d \in Drain : pc[d] # "parse"
Listening == settled = "open" /\ ~ended /\ Quiet

\* Mutant: data that comes during a tool call starts a drain of its own.
OnData_DrainsAnyway ==
  /\ Listening
  /\ \E n \in arrived + 1 .. 2 * N : arrived' = n
  /\ \E d \in Drain : StartDrain(d)
  /\ UNCHANGED <<framed, script, consumed, mode, ended, microtask, cur, replies, settled>>

OnData ==
  /\ Listening
  /\ \E n \in arrived + 1 .. 2 * N : arrived' = n
  /\ IF draining
     THEN redrain' = TRUE /\ UNCHANGED <<draining, pc>>
     ELSE \E d \in Drain : StartDrain(d)
  /\ UNCHANGED <<framed, script, consumed, mode, ended, microtask, cur, replies, settled>>

\* Mutant: the end of the input ends the session during a tool call.
OnEnd_AtOnce ==
  /\ Listening
  /\ ended' = TRUE
  /\ settled' = "resolved"
  /\ UNCHANGED <<framed, script, arrived, consumed, mode, draining, redrain, microtask, pc, cur, replies>>

OnEnd ==
  /\ Listening
  /\ ended' = TRUE
  /\ settled' = IF draining THEN settled ELSE "resolved"
  /\ UNCHANGED <<framed, script, arrived, consumed, mode, draining, redrain, microtask, pc, cur, replies>>

OnError ==
  /\ settled = "open" /\ Quiet
  /\ settled' = "rejected"
  /\ UNCHANGED <<framed, script, arrived, consumed, mode, draining, redrain, ended, microtask, pc, cur, replies>>

Work(d) == Read(d) \/ ReadHeaderAsLine(d) \/ FramingError(d) \/ RunDry(d)

Next ==
  \/ \E d \in Drain : Work(d) \/ CallEnds(d) \/ CallThrows(d)
  \/ RunMicrotask \/ OnData \/ OnEnd \/ OnError

Spec == Init /\ [][Next]_vars

\* A drain at work goes on, a queued one starts, and a tool call ends.
FairSpec ==
  /\ Spec
  /\ WF_vars(RunMicrotask)
  /\ \A d \in Drain : WF_vars(Work(d)) /\ WF_vars(CallEnds(d) \/ CallThrows(d))

-----------------------------------------------------------------------------
AtWork(d) == pc[d] # "idle"

\* One drain at most is at work, and draining says whether there is one; it
\* holds a message while it awaits the call.
OneDrain ==
  /\ draining <=> \E d \in Drain : AtWork(d)
  /\ \A d, e \in Drain : AtWork(d) /\ AtWork(e) => d = e
  /\ \A d \in Drain : pc[d] = "call" <=> cur[d] # 0

\* Types, and one drain.
TypeOK ==
  /\ framed \in BOOLEAN
  /\ script \in [1..N -> Kind]
  /\ arrived \in 0 .. 2 * N
  /\ consumed \in 0 .. arrived
  /\ mode \in {"unknown", "line", "framed"}
  /\ draining \in BOOLEAN /\ redrain \in BOOLEAN
  /\ ended \in BOOLEAN /\ microtask \in BOOLEAN
  /\ pc \in [Drain -> {"idle", "parse", "call"}]
  /\ cur \in [Drain -> 0..N]
  /\ replies \in Seq([msg : 0..N, mode : {"line", "framed"}])
  /\ settled \in {"open", "resolved", "rejected"}
  /\ OneDrain

Cut(m) == \E b \in 1..m : script[b] = "badframe"

Answered == {m \in 1..N : \E i \in 1..Len(replies) : replies[i].msg = m}

\* Received whole, and not yet served or cleared.
Waiting == {m \in 1..N : 2 * m <= arrived /\ (consumed < 2 * m - 1 \/ \E d \in Drain : cur[d] = m)}

\* Answers are given in the order of the messages, and one for each at most,
\* though data keeps arriving while a tool call is awaited.
AnsweredInOrder ==
  \A i, j \in 1..Len(replies) :
    i < j /\ replies[j].msg # 0 => replies[i].msg < replies[j].msg

\* A client is answered in its own transport, unless its first frame was
\* broken: an error is then written as a line, and so may be all that follow.
InTheClientsTransport ==
  \A i \in 1..Len(replies) :
    replies[i].mode # (IF framed THEN "framed" ELSE "line") =>
      framed /\ script[1] = "badframe"

\* Every message that asks for it is answered in the end.
EveryRequestIsAnswered ==
  \A m \in 1..N :
    2 * m <= arrived /\ Asks(m) ~> m \in Answered \/ Cut(m) \/ settled = "rejected"

\* The session ends when its input does.
EndOfInputEnds == ended ~> settled # "open"

\* The session is a request service: it serves in order, and loses a message
\* only behind an unreadable one or when it fails.
Service == INSTANCE RequestService WITH
  asks       <- {m \in 1..N : Asks(m)},
  unreadable <- {m \in 1..N : script[m] = "badframe"},
  received   <- arrived \div 2,
  inbox      <- Waiting,
  answered   <- Answered,
  outcome    <- settled

ImplementsService == Service!Service
===============================================================================
