---------------------------- MODULE ApiGuarantees ----------------------------
(***************************************************************************)
(* What ApiReplica must satisfy, in either runtime mode.                   *)
(***************************************************************************)
EXTENDS ApiReplica, FiniteSets

Phases == {"idle", "load", "check", "status", "history", "save", "lock", "send",
           "append", "drain", "clear"}

SomeOrder == Order \cup {NoOrder}

Task == [phase : Phases, nr : Nat, who : Principals,
         type : AdminTypes \cup {NoEvent}, on : Ids, path : Ids, second : BOOLEAN,
         copy : SomeOrder, next : INTEGRATION_EVENT_TYPES \cup {NoEvent}, list : Seq(Nat)]

Answer == [who : Principals, on : Ids, shown : SomeOrder]

\* Types of the repository, the publisher and the threads' locals.
TypeOK ==
  /\ kind \in {"memory", "real"}
  /\ store \in [Orders -> SomeOrder]
  /\ owner \in [Orders -> Customers \cup {Blank}]
  /\ task \in [Threads -> Task]
  /\ answer \in [Threads -> Answer]
  /\ lock \in Threads \cup {Free}
  /\ stored \in [Orders -> SUBSET Order]
  /\ {messages, returned, drained} \subseteq Seq(Nat)
  /\ taken \subseteq Nat /\ exposed \subseteq Nat
  /\ requests \in Nat /\ faults \in Nat

-----------------------------------------------------------------------------
(* The evidence GET /events and POST /events/drain give of what was published *)

\* The message the lock's holder has sent and not listed yet.
InFlight == IF lock # Free /\ At(lock, "append") THEN <<task[lock].nr>> ELSE <<>>

\* Real mode: drains and the list together are the messages whose basic_publish returned,
\* in that order, however publications and drains met and whatever else failed (publish
\* lists a message after basic_publish, under the lock drain takes).
EvidenceIsExact == kind = "real" => returned = drained \o messages \o InFlight

Entries(s) == {s[i] : i \in DOMAIN s}

Listed == Entries(messages) \cup Entries(drained)

\* What the evidence tells and RabbitMQ does not have, and the reverse.
Errors ==
  LET told == Listed \cup Entries(InFlight)
  IN  (taken \ told) \cup (told \ taken)

\* Real mode: the evidence errs about what RabbitMQ has only where a call or a connection
\* failed, by one message each time.  No interleaving of publications and drains makes
\* it err, nor does one error lead to another.  (The queue is bound before each
\* publication, so that RabbitMQ drops none.)
EvidenceErrsByFaults == kind = "real" => Cardinality(Errors) <= faults

\* What GET /events shows, with the message that is sent and not listed yet.
Log == IF kind = "real" THEN messages \o InFlight ELSE <<>>

Handed == IF kind = "real" THEN drained ELSE <<>>

\* Real mode: whatever publications, drains and failures meet, the publisher steps as a
\* log does that is appended to and handed over in one step, and that learns of what
\* RabbitMQ takes except where a step fails; a message counts as listed from the moment
\* basic_publish returns.
Evidence == INSTANCE EvidenceLog WITH
  Messages <- 1 .. MaxRequests, log <- Log, handed <- Handed,
  broker <- taken, failures <- faults

ImplementsEvidenceLog == Evidence!Spec

\* Memory mode has no lock: a message is lost to a drain only if it was appended
\* between that drain's copy and its clear.
OnlyRacesLose ==
  kind = "memory" => \A i \in DOMAIN returned : returned[i] \in Listed \cup exposed

\* No request waits for the publisher in vain, nor for itself (the lock may be taken
\* once only): whoever has the lock is on its way to give it back.
WaitersAreServed ==
  \A t \in Threads : At(t, "lock") \/ (At(t, "drain") /\ kind = "real") =>
    lock = Free \/ (lock # t /\ task[lock].phase \in {"send", "append", "clear"})

\* Every request ends: the publisher's lock is given back whatever fails.
RequestsEnd == \A t \in Threads : []<>At(t, "idle")

-----------------------------------------------------------------------------
(* What clients are shown *)

\* Real mode: a client is never shown a state of an order that the table did not hold
\* at some moment: a response is built after the save, and after a failed one there is
\* none.  (In memory the response is read off an object that other threads change.)
ShownWasStored ==
  kind = "real" =>
    \A t \in Threads : answer[t].on # Blank => answer[t].shown \in stored[answer[t].on]

\* A customer sees only orders opened for that customer, also while another
\* thread opens them, and orders keep the customer they were opened for.
CustomersSeeTheirOwn ==
  \A t \in Threads : answer[t].on # Blank /\ answer[t].who \in Customers =>
    owner[answer[t].on] = answer[t].who

\* Memory mode: two requests that move one shared order at the same time may both
\* be accepted, and then its history tells both; no entry is lost or rewritten.
SharedHistoryGrows ==
  [][kind = "memory" => \A o \in Orders :
       LET before == store[o].history
           after  == store'[o].history
       IN  Len(before) <= Len(after) /\ SubSeq(after, 1, Len(before)) = before]_vars

-----------------------------------------------------------------------------
(* What a document says and the code does not do *)

\* POST /service-orders/{service_order_id}/events applies the event "to the service
\* order state" (README.md:26): an order changes by requests on its own path only.
OnlyItsPathMoves ==
  [][\A o \in Orders : store'[o] # store[o] =>
       \E t \in Threads : ~At(t, "idle") /\ task[t].path = o]_vars
=============================================================================
