---------------------------- MODULE RequestService ----------------------------
(***************************************************************************)
(* What a client of the MCP session may count on.  Messages 1 .. N are     *)
(* received in this order and served one after the other; a service        *)
(* answers its message if the message asks for an answer.  A message goes  *)
(* unserved only behind one that cannot be read.  The service ends with    *)
(* nothing left to serve, unless it fails.                                 *)
(***************************************************************************)
EXTENDS Naturals

CONSTANT N            \* number of messages the client sends

VARIABLES
  asks,               \* the messages that ask for an answer
  unreadable,         \* the messages that cannot be read
  received,           \* how many messages have been received
  inbox,              \* received and neither served nor lost
  answered,           \* the messages answered
  outcome             \* "open" while the service runs, then how it ended

svars == <<asks, unreadable, received, inbox, answered, outcome>>

Behind(m) == \E b \in unreadable : b <= m

SInit ==
  /\ asks \subseteq 1..N
  /\ unreadable \subseteq 1..N
  /\ received = 0
  /\ inbox = {}
  /\ answered = {}
  /\ outcome = "open"

Receive ==
  /\ outcome = "open"
  /\ \E n \in 1..N : \E lost \in SUBSET (received + 1 .. n) :
       /\ \A m \in lost : Behind(m)
       /\ received' = n
       /\ inbox' = inbox \cup ((received + 1 .. n) \ lost)
  /\ UNCHANGED <<asks, unreadable, answered, outcome>>

Serve ==
  /\ \E m \in inbox :
       /\ \A k \in inbox : m <= k
       /\ inbox' = inbox \ {m}
       /\ answered' = answered \cup ({m} \cap asks)
  /\ UNCHANGED <<asks, unreadable, received, outcome>>

Lose ==
  /\ inbox' \subseteq inbox
  /\ \A m \in inbox \ inbox' : Behind(m)
  /\ UNCHANGED <<asks, unreadable, received, answered, outcome>>

End ==
  /\ outcome = "open" /\ outcome' = "resolved"
  /\ \A m \in inbox : Behind(m)
  /\ inbox' = {}
  /\ UNCHANGED <<asks, unreadable, received, answered>>

\* A failure may take the message in service with it.
Fail ==
  /\ outcome' \in IF outcome = "open" THEN {"rejected"} ELSE {outcome} \cap {"rejected"}
  /\ inbox' \subseteq inbox
  /\ UNCHANGED <<asks, unreadable, received, answered>>

SNext == Receive \/ Serve \/ Lose \/ End \/ Fail

Service == SInit /\ [][SNext]_svars
===============================================================================
