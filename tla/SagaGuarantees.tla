--------------------------- MODULE SagaGuarantees ---------------------------
(***************************************************************************)
(* What SagaHandling must satisfy.  Some of it holds however many actors   *)
(* share an order; the rest needs a single actor that applies saga events, *)
(* which is what the deployment's one worker replica provides as long as   *)
(* nobody posts events by hand.                                            *)
(***************************************************************************)
EXTENDS SagaHandling

Row == Order \cup {NoRow}

Job == [phase : Phases, msg : Messages, copy : Row,
        next : INTEGRATION_EVENT_TYPES \cup {NoEvent}]

\* Types of the tables, the queue and the actors' locals.
TypeOK ==
  /\ orders \in [Orders -> Row]
  /\ processed \subseteq EventIds
  /\ queue \in Seq(Messages)
  /\ published \in Seq({m \in Messages : m.type \in INTEGRATION_EVENT_TYPES})
  /\ job \in [Actors -> Job]
  /\ unacked \in [Workers -> BOOLEAN]
  /\ {sends, requests, faults} \subseteq Nat

\* The phases at which an actor holds an order it has changed and not saved,
\* or saved and not announced.
Holds(a) == job[a].phase \in {"save", "publish"}

IsOwn(m) == m.id[1] = "os"

PublishedOf(o) == {i \in DOMAIN published : published[i].order = o}

HasPublished(o, ev) == \E i \in PublishedOf(o) : published[i].type = ev

-----------------------------------------------------------------------------
(* However many actors share an order *)

\* Whatever overwrites whatever, a saved history is a path of the saga that
\* starts at OPENED and ends in the saved status: a row is never a mixture of
\* two actors' work (save writes status and history of one loaded copy).
RowsAreCoherent == \A o \in Orders : HasRow(o) => IsCoherent(orders[o])

\* A message is acknowledged only once its id is in processed_events, so the
\* broker forgets nothing the database does not remember (handle marks before
\* _handle_delivery acks).
AckedIsProcessed ==
  \A w \in Workers : At(w, "ack") => job[w].msg.id \in processed

\* The event that answers a saga event: what _apply returns unless it raises.
Answer(type) ==
  CASE type = "QUOTE_APPROVED"             -> "QUOTE_APPROVED"
    [] type = "PAYMENT_PREFERENCE_CREATED" -> "PAYMENT_PENDING"
    [] type = "PAYMENT_CONFIRMED"          -> "EXECUTION_REQUESTED"
    [] type = "EXECUTION_STARTED"          -> "EXECUTION_STARTED"
    [] type = "EXECUTION_COMPLETED"        -> "OS_COMPLETED"
    [] type \in FAILURE_STATUSES           -> "OS_COMPENSATION_REQUIRED"
    [] OTHER                               -> NoEvent

\* An id in processed_events is skipped for ever after, so by then the event
\* that moves the saga on must be out: recording is the last thing handle does.
ProcessedIsAnswered ==
  \A m \in Inputs : m.id \in processed =>
    Answer(m.type) = NoEvent \/ HasPublished(m.order, Answer(m.type))

\* The event of a saved stage is out, or an actor is about to publish it: between
\* save and publish only a fault can lose it, even when another actor has read,
\* changed and saved the row meanwhile.
SavedIsOwed ==
  faults = 0 => \A o \in Orders : \A k \in DOMAIN orders[o].history :
    LET ev == Announces(orders[o].history[k])
    IN  \/ ev = NoEvent
        \/ HasPublished(o, ev)
        \/ \E a \in Actors : At(a, "publish") /\ job[a].msg.order = o /\ job[a].next = ev

-----------------------------------------------------------------------------
(* One actor applies saga events, others only open orders *)

\* A saved history is never cut short or rewritten, which makes a terminal
\* status final as _transition demands of the aggregate in memory.
HistoryOnlyGrows ==
  [][\A o \in Orders : HasRow(o) =>
       LET before == orders[o].history
           after  == orders'[o].history
       IN  Len(before) <= Len(after) /\ SubSeq(after, 1, Len(before)) = before]_vars

\* Redelivery, a second copy of a message, a crash or a restart never makes the
\* service announce a stage twice: Billing would quote, or Execution repair, twice.
AnnouncedOnce ==
  \A o \in Orders : \A i, j \in PublishedOf(o) :
    published[i].type = published[j].type => i = j

\* Nothing is announced that the database does not hold: save precedes publish,
\* and no later save takes the stage back.
AnnouncedIsSaved ==
  \A i \in DOMAIN published : \E k \in DOMAIN orders[published[i].order].history :
    published[i].type = Announces(orders[published[i].order].history[k])

\* The events a worker reads back from its own queue never move an order.
EchoesAreRefused == \A w \in Workers : Holds(w) => ~IsOwn(job[w].msg)

Pending(o) ==
  {job[a].next : a \in {b \in Actors : At(b, "publish") /\ job[b].msg.order = o}}

\* The service implements the lifecycle it promises.
Promised == INSTANCE OrderLifecycle WITH
  status <- [o \in Orders |-> orders[o].status],
  decided <- [o \in Orders |-> Pending(o)],
  announced <- [o \in Orders |-> {published[i].type : i \in PublishedOf(o)}]

ImplementsLifecycle == Promised!Spec

-----------------------------------------------------------------------------
(* Progress *)

\* The service has nothing left to do.
Quiet == queue = <<>> /\ \A a \in Actors : At(a, "idle")

\* The service answers its own events at most finitely often: what it reads back
\* from the queue does not keep it busy, and every message is settled.
EchoesDieOut == <>[]Quiet

-----------------------------------------------------------------------------
(* What the documents say and the code does not do *)

\* "Terminal service orders cannot change status" (service_order.py:148): a row
\* with a terminal status keeps it.  Two actors that loaded the row before it
\* became terminal do not see each other's save.
TerminalIsFinal ==
  [][\A o \in Orders : orders[o].status \in TERMINAL_STATUSES =>
       orders'[o].status = orders[o].status]_vars

\* A failure registers the terminal status and publishes
\* OS_COMPENSATION_REQUIRED (fase4-final.md:112).
CompensationIsPublished ==
  \A o \in Orders :
    (orders[o].status \in FAILURE_STATUSES) ~> HasPublished(o, "OS_COMPENSATION_REQUIRED")

\* Retries are part of the implementation (fase4-final.md:122): an event that was
\* dropped although its order could take it is handled later.
DroppedIsRetried ==
  \A m \in Inputs :
    (\E w \in Workers : /\ At(w, "nack") /\ job[w].msg = m /\ HasRow(m.order)
                         /\ ~Apply(m.type, m.keys, orders[m.order]).raises)
    ~> m.id \in processed
=============================================================================
