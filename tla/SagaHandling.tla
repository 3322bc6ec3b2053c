---------------------------- MODULE SagaHandling ----------------------------
(***************************************************************************)
(* The running os-service: worker processes that consume the service's     *)
(* RabbitMQ queue, API threads that open orders and apply the events an    *)
(* administrator posts, the two tables they share and the queue itself.    *)
(*                                                                         *)
(* Each database or broker call is a step of its own, because nothing in   *)
(* the code holds a lock or a transaction across two of them.  An actor is *)
(* at the phase whose call it makes next:                                  *)
(*                                                                         *)
(*   worker  idle -> check -> get -> save -> publish -> mark -> insert     *)
(*                -> ack -> idle, or nack -> idle after any exception      *)
(*   thread  idle -> get -> save -> publish -> idle   (administrator event)*)
(*           idle -> save -> publish -> idle          (open)               *)
(***************************************************************************)
EXTENDS ServiceOrder, FiniteSets

CONSTANTS
  Orders,        \* ids the service may give to orders
  ForeignOrder,  \* an id that is no order of this service
  Workers,       \* processes running worker.py
  Threads,       \* request threads of the API
  OtherTypes,    \* event types outside the contract
  Inputs,        \* messages Billing and Execution may send
  AdminTypes,    \* event types an administrator may post
  MaxSends,      \* bound: messages sent by Billing and Execution
  MaxQueue,      \* bound: they wait while this many messages are ready
  MaxRequests,   \* bound: administrator events posted
  MaxFaults      \* bound: crashes, failed calls, lost connections

VARIABLES
  orders,     \* table service_orders: the row of each order
  processed,  \* table processed_events: event ids
  queue,      \* messages ready in RABBITMQ_QUEUE
  published,  \* messages the service has handed to the exchange
  job,        \* what each actor is doing: phase, event, copy, next event
  unacked,    \* does the broker still wait for the worker to settle its message?
  sends, requests, faults

tables == <<orders, processed>>
broker == <<queue, published, unacked>>
bounds == <<sends, requests, faults>>
vars == <<tables, broker, job, bounds>>

-----------------------------------------------------------------------------
Actors == Workers \cup Threads

OrderIds == Orders \cup {ForeignOrder}

\* A producer and a number: what a fresh uuid amounts to.
EventIds == {"billing", "execution", "os", "api"} \X Nat

EventTypes == INTEGRATION_EVENT_TYPES \cup OtherTypes \cup {NoEvent}

\* "order" is payload.service_order_id or, without one, correlation_id;
\* "keys" are the identifiers the payload carries.
Messages == [id : EventIds, type : EventTypes, order : OrderIds,
             keys : SUBSET {"quote_id", "payment_id"}]

Phases == {"idle", "check", "get", "save", "publish", "mark", "insert", "ack", "nack"}

ASSUME SagaConstants ==
  /\ ForeignOrder \notin Orders
  /\ Workers \cap Threads = {}
  /\ \A m \in Inputs : m \in Messages /\ m.id[1] \in {"billing", "execution"}
  /\ \A m, n \in Inputs : m.id = n.id => m = n
  /\ AdminTypes \subseteq EventTypes
  /\ OtherTypes \cap INTEGRATION_EVENT_TYPES = {}
  /\ {MaxSends, MaxQueue, MaxRequests, MaxFaults} \subseteq Nat

NoRow == [status |-> "none", history |-> <<>>]

\* What a request is about; its event_id is never looked at.
ApiMessage(type, o) == [id |-> <<"api", 0>>, type |-> type, order |-> o,
                        keys |-> {"quote_id", "payment_id"}]

NoMessage == ApiMessage(NoEvent, ForeignOrder)

Busy(phase, m, o, ev) == [phase |-> phase, msg |-> m, copy |-> o, next |-> ev]

Idle == Busy("idle", NoMessage, NoRow, NoEvent)

HasRow(o) == o \in Orders /\ orders[o] # NoRow

\* The service published something about o, so other services know its id.
Announced(o) == \E i \in DOMAIN published : published[i].order = o

OwnKeys(ev) ==
  CASE ev = "QUOTE_APPROVED"  -> {"quote_id"}
    [] ev = "PAYMENT_PENDING" -> {"payment_id"}
    [] OTHER                  -> {}

\* The message publish() builds for the event an actor's use case returned.
Outgoing(j) == [id |-> <<"os", Len(published) + 1>>, type |-> j.next,
                order |-> j.msg.order, keys |-> OwnKeys(j.next)]

At(a, phase) == job[a].phase = phase

\* The actor's next state; its locals are gone once it is idle again.
Become(a, j) == job' = [job EXCEPT ![a] = IF j.phase = "idle" THEN Idle ELSE j]

Goto(a, phase) == Become(a, Busy(phase, job[a].msg, job[a].copy, job[a].next))

\* An exception: the worker's "except Exception" nacks, the API answers 4xx/500.
Failed(a) == IF a \in Workers THEN "nack" ELSE "idle"

\* Mutant: the worker acknowledges what it never recorded.
HandledWithoutMark(a) == IF a \in Workers THEN "ack" ELSE "idle"

\* The use case returned: the worker records the event, the API answers.
Handled(a) == IF a \in Workers THEN "mark" ELSE "idle"

Init ==
  /\ orders = [o \in Orders |-> NoRow]
  /\ processed = {}
  /\ queue = <<>>
  /\ published = <<>>
  /\ job = [a \in Actors |-> Idle]
  /\ unacked = [w \in Workers |-> FALSE]
  /\ sends = 0 /\ requests = 0 /\ faults = 0

-----------------------------------------------------------------------------
(* Billing, Execution and the broker's delivery *)

\* Another service sends one of its messages, perhaps for the second time.
Send(m) ==
  /\ sends < MaxSends /\ Len(queue) < MaxQueue
  /\ m.order \in Orders => Announced(m.order)
  /\ queue' = Append(queue, m)
  /\ sends' = sends + 1
  /\ UNCHANGED <<tables, published, unacked, job, requests, faults>>

\* prefetch_count=1: a worker is given one message and validates its envelope.
Deliver(w) ==
  /\ At(w, "idle")
  /\ queue # <<>>
  /\ queue' = Tail(queue)
  /\ unacked' = [unacked EXCEPT ![w] = TRUE]
  /\ LET m == Head(queue)
         phase == IF m.type \in INTEGRATION_EVENT_TYPES THEN "check" ELSE "nack"
     IN  Become(w, Busy(phase, m, NoRow, NoEvent))
  /\ UNCHANGED <<tables, published, bounds>>

\* Acknowledged or, with requeue=False and no dead-letter queue, discarded.  On
\* a channel the broker already closed the call raises and the process restarts.
Settle(w, phase) ==
  /\ At(w, phase)
  /\ unacked' = [unacked EXCEPT ![w] = FALSE]
  /\ Goto(w, "idle")
  /\ UNCHANGED <<tables, queue, published, bounds>>

Ack(w) == Settle(w, "ack")

\* Mutant: a rejected message goes back to the queue.
NackWithRequeue(w) ==
  /\ At(w, "nack")
  /\ queue' = IF unacked[w] THEN <<job[w].msg>> \o queue ELSE queue
  /\ unacked' = [unacked EXCEPT ![w] = FALSE]
  /\ Goto(w, "idle")
  /\ UNCHANGED <<tables, published, bounds>>

Nack(w) == Settle(w, "nack")

-----------------------------------------------------------------------------
(* ServiceOrderSagaEventHandler.handle around the use case *)

\* Mutant: the id is claimed before the event is handled.
ClaimFirst(w) ==
  /\ At(w, "check")
  /\ Goto(w, IF job[w].msg.id \in processed THEN "ack" ELSE "get")
  /\ processed' = processed \cup {job[w].msg.id}
  /\ UNCHANGED <<orders, broker, bounds>>

IsProcessed(w) ==
  /\ At(w, "check")
  /\ Goto(w, IF job[w].msg.id \in processed THEN "ack" ELSE "get")
  /\ UNCHANGED <<tables, broker, bounds>>

\* mark_processed looks again before it inserts...
MarkProcessed(w) ==
  /\ At(w, "mark")
  /\ Goto(w, IF job[w].msg.id \in processed THEN "ack" ELSE "insert")
  /\ UNCHANGED <<tables, broker, bounds>>

\* ...and the primary key refuses an id that arrived in between.
InsertProcessed(w) ==
  /\ At(w, "insert")
  /\ Goto(w, IF job[w].msg.id \in processed THEN "nack" ELSE "ack")
  /\ processed' = processed \cup {job[w].msg.id}
  /\ UNCHANGED <<orders, broker, bounds>>

-----------------------------------------------------------------------------
(* The use cases: HandleSagaEventUseCase.execute and OpenServiceOrderUseCase *)

\* repository.get, then _apply on the loaded copy: a missing row is a KeyError.
LoadAndApply(a) ==
  LET m == job[a].msg
      outcome == IF HasRow(m.order) THEN Apply(m.type, m.keys, orders[m.order])
                                    ELSE Raise(NoRow)
  IN  /\ At(a, "get")
      /\ Become(a, Busy(IF outcome.raises THEN Failed(a) ELSE "save",
                        m, outcome.order, outcome.event))
      /\ UNCHANGED <<tables, broker, bounds>>

\* Mutant: an existing row is not written.
SaveInsertsOnly(a) ==
  /\ At(a, "save")
  /\ orders' = IF HasRow(job[a].msg.order) THEN orders
                ELSE [orders EXCEPT ![job[a].msg.order] = job[a].copy]
  /\ Goto(a, IF job[a].next = NoEvent THEN Handled(a) ELSE "publish")
  /\ UNCHANGED <<processed, broker, bounds>>

\* Mutant: an update writes the status and leaves the history column.
SaveStatusOnly(a) ==
  /\ At(a, "save")
  /\ orders' = [orders EXCEPT ![job[a].msg.order] =
                  IF @ = NoRow THEN job[a].copy ELSE [@ EXCEPT !.status = job[a].copy.status]]
  /\ Goto(a, IF job[a].next = NoEvent THEN Handled(a) ELSE "publish")
  /\ UNCHANGED <<processed, broker, bounds>>

\* Mutant: publish is called even when the event is None.
SaveThenAlwaysPublish(a) ==
  /\ At(a, "save")
  /\ orders' = [orders EXCEPT ![job[a].msg.order] = job[a].copy]
  /\ Goto(a, "publish")
  /\ UNCHANGED <<processed, broker, bounds>>

\* repository.save writes the whole row, whatever it holds by now.
Save(a) ==
  /\ At(a, "save")
  /\ orders' = [orders EXCEPT ![job[a].msg.order] = job[a].copy]
  /\ Goto(a, IF job[a].next = NoEvent THEN Handled(a) ELSE "publish")
  /\ UNCHANGED <<processed, broker, bounds>>

\* The publisher binds RABBITMQ_QUEUE, the queue the worker reads, to its own
\* routing key: what the service publishes comes back to it.
Publish(a) ==
  /\ At(a, "publish")
  /\ published' = Append(published, Outgoing(job[a]))
  /\ queue' = Append(queue, Outgoing(job[a]))
  /\ Goto(a, Handled(a))
  /\ UNCHANGED <<tables, unacked, bounds>>

\* No row and no thread about to write one: the id a fresh uuid4 gives.
IsFresh(o) ==
  orders[o] = NoRow /\ \A t \in Threads : At(t, "save") => job[t].msg.order # o

\* POST /service-orders of a valid customer and vehicle.
Open(t, o) ==
  /\ At(t, "idle")
  /\ IsFresh(o)
  /\ LET opening == RequestQuote(Opened)
     IN  Become(t, Busy("save", ApiMessage(NoEvent, o), opening.order, opening.event))
  /\ UNCHANGED <<tables, broker, bounds>>

\* POST /service-orders/{id}/events: neither the event contract nor
\* processed_events is consulted.
PostEvent(t, type, o) ==
  /\ At(t, "idle")
  /\ requests < MaxRequests
  /\ HasRow(o) \/ o = ForeignOrder
  /\ Become(t, Busy("get", ApiMessage(type, o), NoRow, NoEvent))
  /\ requests' = requests + 1
  /\ UNCHANGED <<tables, broker, sends, faults>>

-----------------------------------------------------------------------------
(* Faults *)

Fails == faults < MaxFaults /\ faults' = faults + 1 /\ UNCHANGED <<sends, requests>>

\* The broker puts an unsettled delivery back where it was, at the head.
Requeue(w) ==
  /\ queue' = IF unacked[w] THEN <<job[w].msg>> \o queue ELSE queue
  /\ unacked' = [unacked EXCEPT ![w] = FALSE]

\* A process dies between two calls; it starts again with nothing loaded.
Crash(a) ==
  /\ Fails
  /\ ~At(a, "idle")
  /\ Goto(a, "idle")
  /\ IF a \in Workers THEN Requeue(a) ELSE UNCHANGED <<queue, unacked>>
  /\ UNCHANGED <<tables, published>>

\* The database or the broker refuses a call, which raises.
CallFails(a) ==
  /\ Fails
  /\ job[a].phase \in {"check", "get", "save", "publish", "mark", "insert"}
  /\ Goto(a, Failed(a))
  /\ UNCHANGED <<tables, broker>>

\* A missed heartbeat: the broker redelivers while the handler still runs.
ConnectionLost(w) ==
  /\ Fails
  /\ unacked[w]
  /\ Requeue(w)
  /\ UNCHANGED <<tables, published, job>>

\* Messages are published with properties=None: none survives the broker.
BrokerRestart ==
  /\ Fails
  /\ queue' = <<>>
  /\ unacked' = [w \in Workers |-> FALSE]
  /\ UNCHANGED <<tables, published, job>>

-----------------------------------------------------------------------------
UseCaseStep(a) == LoadAndApply(a) \/ Save(a) \/ Publish(a)

WorkerStep(w) ==
  \/ Deliver(w) \/ IsProcessed(w) \/ UseCaseStep(w)
  \/ MarkProcessed(w) \/ InsertProcessed(w) \/ Ack(w) \/ Nack(w)

Request(t) ==
  \/ \E o \in Orders : Open(t, o)
  \/ \E type \in AdminTypes, o \in OrderIds : PostEvent(t, type, o)

Fault ==
  \/ \E a \in Actors : Crash(a) \/ CallFails(a)
  \/ \E w \in Workers : ConnectionLost(w)
  \/ BrokerRestart

Next ==
  \/ \E m \in Inputs : Send(m)
  \/ \E w \in Workers : WorkerStep(w)
  \/ \E t \in Threads : Request(t) \/ UseCaseStep(t)
  \/ Fault

Spec == Init /\ [][Next]_vars

\* start_consuming loops and the request pool runs its threads: an actor with a
\* call to make makes it.  Nothing obliges anyone to send, to ask or to fail.
Fairness ==
  /\ \A w \in Workers : WF_vars(WorkerStep(w))
  /\ \A t \in Threads : WF_vars(UseCaseStep(t))

FairSpec == Spec /\ Fairness
=============================================================================
