----------------------------- MODULE ApiReplica -----------------------------
(***************************************************************************)
(* One replica of the API: the service-order and event routes as a pool of *)
(* request threads runs them over the replica's order repository and event *)
(* publisher.  APP_RUNTIME_MODE chooses both: "real" is the SQL table and  *)
(* RabbitMqBlockingEventPublisher, "memory" a dictionary of shared objects *)
(* and InMemoryEventPublisher.  Tokens are resolved before a thread runs   *)
(* (module Access), the checks of a new order are in module Registry, and  *)
(* the identifiers a payload must carry in SagaHandling.                   *)
(*                                                                         *)
(* The message of a request is its number: a request publishes at most one.*)
(***************************************************************************)
EXTENDS ServiceOrder

CONSTANTS
  Orders,       \* the ids uuid4 may give
  Customers,    \* customer_id of the principals that have one
  Admin,        \* a principal with the role admin
  Free,         \* the publisher's lock is not held
  Threads,      \* request threads
  AdminTypes,   \* event types an administrator may post
  MaxRequests,  \* bound: requests received
  MaxFaults     \* bound: connections and calls that fail

VARIABLES
  kind,      \* APP_RUNTIME_MODE
  store,     \* the order repository
  owner,     \* the customer of each order
  task,      \* per thread: the request it runs
  answer,    \* per thread: the order its last response showed, and to whom
  lock,      \* RabbitMqBlockingEventPublisher._lock
  messages,  \* the publisher's list
  stored,    \* history: the states each order has had in the repository
  taken,     \* history: messages RabbitMQ has taken
  returned,  \* history: messages whose publication returned, in that order
  drained,   \* history: messages the drains have answered
  exposed,   \* history: messages appended while a drain ran
  requests, faults

rows == <<store, owner, stored>>
evidence == <<lock, messages, taken, returned, drained, exposed>>
bounds == <<requests, faults>>
vars == <<kind, rows, task, answer, evidence, bounds>>

ASSUME ReplicaConstants ==
  /\ Admin \notin Customers
  /\ Free \notin Threads
  /\ MaxRequests \in Nat /\ MaxFaults \in Nat

-----------------------------------------------------------------------------
Principals == Customers \cup {Admin}

NoOrder == [status |-> "none", history |-> <<>>]

Blank == "blank"  \* an id that is absent, empty or names no order

Ids == Orders \cup {Blank}

Exists(o) == o \in Orders /\ store[o] # NoOrder

\* What a thread has in its locals: its number, the request, the loaded copy, the
\* event to publish, the list a drain copied.
Working(phase, nr, who, type, o) ==
  [phase |-> phase, nr |-> nr, who |-> who, type |-> type, on |-> o, path |-> o,
   second |-> FALSE, copy |-> NoOrder, next |-> NoEvent, list |-> <<>>]

Waiting == Working("idle", 0, Admin, NoEvent, Blank)

At(t, phase) == task[t].phase = phase

Goto(t, phase) == task' = [task EXCEPT ![t].phase = phase]

NoAnswer == [who |-> Admin, on |-> Blank, shown |-> NoOrder]

Ends(t, response) ==
  /\ task' = [task EXCEPT ![t] = Waiting]
  /\ answer' = [answer EXCEPT ![t] = response]

\* The response shows an order...
Shows(t, who, o, shown) == Ends(t, [who |-> who, on |-> o, shown |-> shown])

Answers(t, shown) == Shows(t, task[t].who, task[t].on, shown)

\* ...or none: 403, 404, 400, 500, or the events of a drain.
Raises(t) == Ends(t, NoAnswer)

Starts(t, work) ==
  /\ task' = [task EXCEPT ![t] = work]
  /\ answer' = [answer EXCEPT ![t] = NoAnswer]

\* service_order_to_response reads the object the thread holds: its own copy, or
\* the shared one.
Show(t) == IF kind = "real" THEN task[t].copy ELSE store[task[t].on]

\* The repository holds s for o from now on.
Put(o, s) ==
  /\ store' = [store EXCEPT ![o] = s]
  /\ stored' = [stored EXCEPT ![o] = @ \cup {s}]

Init ==
  /\ kind \in {"memory", "real"}
  /\ store = [o \in Orders |-> NoOrder]
  /\ owner = [o \in Orders |-> Blank]
  /\ stored = [o \in Orders |-> {}]
  /\ task = [t \in Threads |-> Waiting]
  /\ answer = [t \in Threads |-> NoAnswer]
  /\ lock = Free
  /\ messages = <<>> /\ returned = <<>> /\ drained = <<>>
  /\ taken = {} /\ exposed = {}
  /\ requests = 0 /\ faults = 0

-----------------------------------------------------------------------------
(* Requests *)

Receive(t) ==
  /\ At(t, "idle")
  /\ requests < MaxRequests
  /\ requests' = requests + 1
  /\ UNCHANGED <<kind, evidence, faults>>

\* Nobody has seen the id before, and no thread is about to use it.
Fresh(o) == store[o] = NoOrder /\ \A t \in Threads : task[t].on # o

\* POST /service-orders: a customer opens orders for itself only.
OpenServiceOrder(t, who, c) ==
  /\ Receive(t)
  /\ IF who \in Customers /\ who # c
       THEN Raises(t) /\ UNCHANGED rows
       ELSE \E o \in Orders :
              LET opening == RequestQuote(Opened)
              IN  /\ Fresh(o)
                  /\ Starts(t, [Working("save", requests', who, NoEvent, o) EXCEPT
                                  !.copy = opening.order, !.next = opening.event])
                  /\ owner' = [owner EXCEPT ![o] = c]
                  /\ UNCHANGED <<store, stored>>

\* GET /service-orders/{id}: one read, then the owner is compared.
GetServiceOrder(t, who, o) ==
  /\ Receive(t)
  /\ CASE ~Exists(o) -> Raises(t)
       [] Exists(o) /\ who \in Customers /\ owner[o] # who -> Raises(t)
       [] OTHER      -> Shows(t, who, o, store[o])
  /\ UNCHANGED rows

\* Mutant: the payload alone names the order.
TargetOfPayload(path, named, correlation) ==
  IF named = Blank THEN correlation ELSE named

\* The order an event is about: event_payload.update lets the payload replace the
\* id of the path, and a blank one there gives way to correlation_id.
Target(path, named, correlation) ==
  CASE named = "absent" -> path
    [] named = Blank    -> correlation
    [] OTHER            -> named

\* POST /service-orders/{id}/events, for administrators.
PostEvent(t, who, type, path, named, correlation) ==
  /\ Receive(t)
  /\ IF who # Admin
       THEN Raises(t)
       ELSE Starts(t, [Working("load", requests', who, type, Target(path, named, correlation))
                         EXCEPT !.path = path])
  /\ UNCHANGED rows

\* POST /events/drain, for administrators.
DrainEvents(t, who) ==
  /\ Receive(t)
  /\ IF who # Admin
       THEN Raises(t)
       ELSE Starts(t, Working("drain", requests', who, NoEvent, Blank))
  /\ UNCHANGED rows

-----------------------------------------------------------------------------
(* The use cases *)

\* repository.get: a copy of the row, which _apply changes before anyone sees it,
\* or the stored object itself, whose methods run in the steps below.
Load(t) ==
  LET o == task[t].on
      outcome == Dispatch(task[t].type, store[o])
  IN  /\ At(t, "load")
      /\ CASE ~Exists(o) -> Raises(t)
           [] Exists(o) /\ kind = "memory" -> Goto(t, "check") /\ UNCHANGED answer
           [] Exists(o) /\ kind = "real" /\ outcome.raises -> Raises(t)
           [] OTHER ->
                /\ task' = [task EXCEPT ![t].phase = "save", ![t].copy = outcome.order,
                                        ![t].next = outcome.event]
                /\ UNCHANGED answer
      /\ UNCHANGED <<kind, rows, evidence, bounds>>

\* The method of the shared object that is called next.
NextMove(t) ==
  LET now == store[task[t].on]
  IN  CASE task[t].type = "PAYMENT_CONFIRMED" /\ ~task[t].second -> MarkPaymentConfirmed(now)
        [] task[t].type = "PAYMENT_CONFIRMED" /\ task[t].second  -> RequestExecution(now)
        [] OTHER -> Dispatch(task[t].type, now)

\* Shared object: the method reads the status...
Check(t) ==
  /\ At(t, "check")
  /\ CASE NextMove(t).raises -> Raises(t)
       [] task[t].type = "QUOTE_CREATED" -> Goto(t, "save") /\ UNCHANGED answer
       [] OTHER ->
            /\ task' = [task EXCEPT ![t].phase = "status", ![t].copy = NextMove(t).order,
                                    ![t].next = NextMove(t).event]
            /\ UNCHANGED answer
  /\ UNCHANGED <<kind, rows, evidence, bounds>>

\* ...assigns it...
SetStatus(t) ==
  /\ At(t, "status")
  /\ Put(task[t].on, [store[task[t].on] EXCEPT !.status = task[t].copy.status])
  /\ Goto(t, "history")
  /\ UNCHANGED <<kind, owner, answer, evidence, bounds>>

\* Mutant: the history is assigned from what the method read.
AssignHistory(t) ==
  LET again == task[t].type = "PAYMENT_CONFIRMED" /\ ~task[t].second
  IN  /\ At(t, "history")
      /\ Put(task[t].on, [store[task[t].on] EXCEPT !.history = task[t].copy.history])
      /\ task' = [task EXCEPT ![t].phase = IF again THEN "check" ELSE "save",
                              ![t].second = again]
      /\ UNCHANGED <<kind, owner, answer, evidence, bounds>>

\* ...and appends to the history.
AppendHistory(t) ==
  LET now == store[task[t].on]
      again == task[t].type = "PAYMENT_CONFIRMED" /\ ~task[t].second
  IN  /\ At(t, "history")
      /\ Put(task[t].on, [now EXCEPT !.history = Append(@, task[t].copy.status)])
      /\ task' = [task EXCEPT ![t].phase = IF again THEN "check" ELSE "save",
                              ![t].second = again]
      /\ UNCHANGED <<kind, owner, answer, evidence, bounds>>

Published == IF kind = "real" THEN "lock" ELSE "append"

\* repository.save: the row is written; in memory only a new order is, any other
\* is the stored object already.
Save(t) ==
  LET o == task[t].on
      new == kind = "real" \/ ~Exists(o)
  IN  /\ At(t, "save")
      /\ IF new THEN Put(o, task[t].copy) ELSE UNCHANGED <<store, stored>>
      /\ IF task[t].next = NoEvent
           THEN Answers(t, IF new THEN task[t].copy ELSE store[o])
           ELSE Goto(t, Published) /\ UNCHANGED answer
      /\ UNCHANGED <<kind, owner, evidence, bounds>>

-----------------------------------------------------------------------------
(* The publishers *)

\* with self._lock
Acquire(t) ==
  /\ At(t, "lock")
  /\ lock = Free
  /\ lock' = t
  /\ Goto(t, "send")
  /\ UNCHANGED <<kind, rows, answer, messages, taken, returned, drained, exposed, bounds>>

\* Connect, declare, basic_publish, which returns once the message is written to the
\* connection...
Sent(t) ==
  /\ At(t, "send")
  /\ returned' = Append(returned, task[t].nr)
  /\ Goto(t, "append")
  /\ UNCHANGED <<kind, rows, answer, lock, messages, drained, exposed, requests>>

\* Mutant: the queue is not bound, so RabbitMQ drops what no queue takes.
PublishUnbound(t) == Sent(t) /\ UNCHANGED <<taken, faults>>

\* ...and RabbitMQ takes it...
BasicPublish(t) ==
  /\ Sent(t)
  /\ taken' = taken \cup {task[t].nr}
  /\ UNCHANGED faults

\* ...or the connection is lost behind it: without publisher confirms nobody is told.
SendIsLost(t) ==
  /\ faults < MaxFaults /\ faults' = faults + 1
  /\ Sent(t)
  /\ UNCHANGED taken

Draining == \E u \in Threads : At(u, "clear")

\* The message joins the list; the real publisher then closes its connection and
\* releases the lock, and the route answers.
AppendMessage(t) ==
  /\ At(t, "append")
  /\ messages' = Append(messages, task[t].nr)
  /\ IF kind = "real" THEN lock' = Free /\ UNCHANGED <<returned, exposed>>
       ELSE /\ returned' = Append(returned, task[t].nr)
            /\ exposed' = IF Draining THEN exposed \cup {task[t].nr} ELSE exposed
            /\ UNCHANGED lock
  /\ Answers(t, Show(t))
  /\ UNCHANGED <<kind, rows, taken, drained, bounds>>

\* Mutant: a drain of the real publisher takes no lock.
CopyWithoutLock(t) ==
  /\ At(t, "drain")
  /\ task' = [task EXCEPT ![t].phase = "clear", ![t].list = messages]
  /\ UNCHANGED <<kind, rows, answer, evidence, bounds>>

\* drain copies the list...
CopyMessages(t) ==
  /\ At(t, "drain")
  /\ IF kind = "real" THEN lock = Free /\ lock' = t ELSE UNCHANGED lock
  /\ task' = [task EXCEPT ![t].phase = "clear", ![t].list = messages]
  /\ UNCHANGED <<kind, rows, answer, messages, taken, returned, drained, exposed, bounds>>

\* Mutant: drain answers the list itself, which clear has emptied.
AnswerEmptied(t) ==
  /\ At(t, "clear")
  /\ messages' = <<>>
  /\ IF kind = "real" THEN lock' = Free ELSE UNCHANGED lock
  /\ Raises(t)
  /\ UNCHANGED <<kind, rows, taken, returned, drained, exposed, bounds>>

\* ...and empties it; the copy is the answer.
ClearMessages(t) ==
  /\ At(t, "clear")
  /\ messages' = <<>>
  /\ drained' = drained \o task[t].list
  /\ IF kind = "real" THEN lock' = Free ELSE UNCHANGED lock
  /\ Raises(t)
  /\ UNCHANGED <<kind, rows, taken, returned, exposed, bounds>>

\* Mutant: a failed connection leaves the lock held.
FailHoldingLock(t) ==
  /\ faults < MaxFaults /\ faults' = faults + 1
  /\ kind = "real"
  /\ task[t].phase \in {"load", "save", "send"}
  /\ Raises(t)
  /\ UNCHANGED <<kind, rows, evidence, requests>>

\* A call to the database raises, or connecting, declaring or sending to RabbitMQ, which
\* may have the message nevertheless: the list does not get it, the exception reaches
\* the client, and leaving the "with" releases the lock.
CallFails(t) ==
  /\ faults < MaxFaults /\ faults' = faults + 1
  /\ kind = "real"
  /\ task[t].phase \in {"load", "save", "send"}
  /\ lock' = IF At(t, "send") THEN Free ELSE lock
  /\ \/ UNCHANGED taken
     \/ At(t, "send") /\ taken' = taken \cup {task[t].nr}
  /\ Raises(t)
  /\ UNCHANGED <<kind, rows, messages, returned, drained, exposed, requests>>

\* publish's "finally": the list has the message, but closing the connection raises, and
\* the client gets no answer.
CloseFails(t) ==
  /\ faults < MaxFaults /\ faults' = faults + 1
  /\ kind = "real" /\ At(t, "append")
  /\ messages' = Append(messages, task[t].nr)
  /\ lock' = Free
  /\ Raises(t)
  /\ UNCHANGED <<kind, rows, taken, returned, drained, exposed, requests>>

-----------------------------------------------------------------------------
Request(t) ==
  \E who \in Principals :
    \/ \E c \in Customers : OpenServiceOrder(t, who, c)
    \/ \E o \in Ids : GetServiceOrder(t, who, o)
    \/ \E type \in AdminTypes, path \in Orders, named \in Ids \cup {"absent"}, correlation \in Ids :
         PostEvent(t, who, type, path, named, correlation)
    \/ DrainEvents(t, who)

ThreadStep(t) ==
  \/ Load(t) \/ Check(t) \/ SetStatus(t) \/ AppendHistory(t) \/ Save(t)
  \/ Acquire(t) \/ BasicPublish(t) \/ AppendMessage(t)
  \/ CopyMessages(t) \/ ClearMessages(t)

Fault(t) == SendIsLost(t) \/ CallFails(t) \/ CloseFails(t)

Next == \E t \in Threads : Request(t) \/ ThreadStep(t) \/ Fault(t)

Spec == Init /\ [][Next]_vars

\* A thread that can go on does.
Fairness == \A t \in Threads : WF_vars(ThreadStep(t))

FairSpec == Spec /\ Fairness
=============================================================================
