----------------------------- MODULE OwedProofs -----------------------------
(***************************************************************************)
(* Between save and publish only a fault loses an event, for any number of *)
(* actors on one row.  A row may be overwritten by a copy that was loaded  *)
(* before; what makes the invariant inductive is that such a copy is owed  *)
(* for too: each of its entries was announced, or somebody is about to     *)
(* announce it, except for the ones its own holder has just added.         *)
(***************************************************************************)
EXTENDS SagaProofs

\* p is o with entries added that announce nothing, or ev.
Extends(o, p, ev) ==
  \A k \in DOMAIN p.history :
    \/ k \in DOMAIN o.history /\ p.history[k] = o.history[k]
    \/ Announces(p.history[k]) \in {NoEvent, ev}

LEMMA ExtendsItself == ASSUME NEW o, NEW ev PROVE Extends(o, o, ev)
BY DEF Extends

LEMMA ExtendsTransitive ==
  ASSUME NEW o, NEW p, NEW q, NEW ev, Extends(o, p, ev), Extends(p, q, ev)
  PROVE  Extends(o, q, ev)
BY DEF Extends

LEMMA RecordedExtends ==
  ASSUME NEW o \in Order, NEW s, NEW ev, Announces(s) \in {NoEvent, ev}
  PROVE  Extends(o, Recorded(o, s), ev)
<1> DEFINE h == o.history
           g == Append(h, s)
<1>1. h \in Seq(ServiceOrderStatus) /\ Recorded(o, s).history = g
  BY DEF Order, Recorded
<1>2. DOMAIN g = 1 .. Len(h) + 1 /\ DOMAIN h = 1 .. Len(h) /\ Len(h) \in Nat
  BY <1>1
<1>3. \A k \in 1 .. Len(h) : g[k] = h[k]
  BY <1>1
<1>4. g[Len(h) + 1] = s
  BY <1>1
<1> HIDE DEF h, g
<1>5. \A k \in DOMAIN g :
       (k \in DOMAIN h /\ g[k] = h[k]) \/ Announces(g[k]) \in {NoEvent, ev}
  <2> TAKE k \in DOMAIN g
  <2>1. CASE k = Len(h) + 1
    BY <2>1, <1>4
  <2>2. CASE k # Len(h) + 1
    BY <2>2, <1>2, <1>3
  <2>3. QED BY <2>1, <2>2
<1>6. QED BY <1>1, <1>5 DEF Extends, h

LEMMA MoveExtends ==
  ASSUME NEW o \in Order, NEW from, NEW to, NEW ev, NEW e, Announces(to) \in {NoEvent, e}
  PROVE  Extends(o, Move(o, from, to, ev).order, e)
<1>1. Move(o, from, to, ev).order \in {o, Recorded(o, to)}
  BY DEF Move, Raise
<1>2. QED BY <1>1, ExtendsItself, RecordedExtends

\* The entries _apply adds announce nothing or the event it returns.
LEMMA ApplyExtends ==
  ASSUME NEW o \in Order, IsCoherent(o), NEW type, NEW keys,
         ~Apply(type, keys, o).raises
  PROVE  Extends(o, Apply(type, keys, o).order, Apply(type, keys, o).event)
<1> DEFINE r == Apply(type, keys, o)
<1>0. r = Dispatch(type, o) /\ r.event = Answer(type)
  BY ApplyOutcome DEF Apply, Raise
<1>1. CASE type = "QUOTE_CREATED"
  <2>1. Dispatch(type, o).order = o
    BY <1>1, Zenon DEF Dispatch, FAILURE_STATUSES
  <2>2. QED BY <1>0, <2>1, ExtendsItself
<1>2. CASE type = "QUOTE_APPROVED"
  <2>1. Dispatch(type, o) = MarkQuoteApproved(o) /\ Answer(type) = "QUOTE_APPROVED"
    BY <1>2, Zenon DEF Dispatch, Answer, FAILURE_STATUSES
  <2>2. Announces("QUOTE_APPROVED") = "QUOTE_APPROVED"
    BY DEF Announces, FAILURE_STATUSES
  <2>3. QED BY <1>0, <2>1, <2>2, MoveExtends DEF MarkQuoteApproved
<1>3. CASE type = "PAYMENT_PREFERENCE_CREATED"
  <2>1. Dispatch(type, o) = MarkPaymentPending(o) /\ Answer(type) = "PAYMENT_PENDING"
    BY <1>3, Zenon DEF Dispatch, Answer, FAILURE_STATUSES
  <2>2. Announces("PAYMENT_PENDING") = "PAYMENT_PENDING"
    BY DEF Announces, FAILURE_STATUSES
  <2>3. QED BY <1>0, <2>1, <2>2, MoveExtends DEF MarkPaymentPending
<1>4. CASE type = "PAYMENT_CONFIRMED"
  <2> DEFINE c == MarkPaymentConfirmed(o).order
             e == "EXECUTION_REQUESTED"
  <2>1. Dispatch(type, o) = ConfirmAndRequest(o) /\ Answer(type) = e
    BY <1>4, Zenon DEF Dispatch, Answer, FAILURE_STATUSES
  <2>2. Announces("PAYMENT_CONFIRMED") = NoEvent /\ Announces(e) = e
    BY DEF Announces, FAILURE_STATUSES
  <2>3. Extends(o, c, e)
    BY <2>2, MoveExtends DEF MarkPaymentConfirmed
  <2>4. c \in Order
    <3>1. "PAYMENT_CONFIRMED" \in ServiceOrderStatus
          /\ "PAYMENT_CONFIRMED" \in INTEGRATION_EVENT_TYPES
          /\ <<"PAYMENT_PENDING", "PAYMENT_CONFIRMED">> \in Lifecycle
      BY DEF ServiceOrderStatus, INTEGRATION_EVENT_TYPES, Lifecycle
    <3>2. IsOutcome(MarkPaymentConfirmed(o))
      BY <3>1, StageOutcome DEF MarkPaymentConfirmed
    <3>3. QED BY <3>2 DEF IsOutcome
  <2> HIDE DEF c
  <2>5. Extends(c, RequestExecution(c).order, e)
    BY <2>2, <2>4, MoveExtends DEF RequestExecution
  <2>6. ConfirmAndRequest(o).order \in {c, RequestExecution(c).order}
    BY DEF ConfirmAndRequest, c
  <2>7. QED BY <1>0, <2>1, <2>3, <2>5, <2>6, ExtendsTransitive
<1>5. CASE type = "EXECUTION_STARTED"
  <2>1. Dispatch(type, o) = MarkExecutionStarted(o) /\ Answer(type) = "EXECUTION_STARTED"
    BY <1>5, Zenon DEF Dispatch, Answer, FAILURE_STATUSES
  <2>2. Announces("EXECUTION_IN_PROGRESS") = "EXECUTION_STARTED"
    BY DEF Announces, FAILURE_STATUSES
  <2>3. QED BY <1>0, <2>1, <2>2, MoveExtends DEF MarkExecutionStarted
<1>6. CASE type = "EXECUTION_COMPLETED"
  <2>1. Dispatch(type, o) = Complete(o) /\ Answer(type) = "OS_COMPLETED"
    BY <1>6, Zenon DEF Dispatch, Answer, FAILURE_STATUSES
  <2>2. Announces("COMPLETED") = "OS_COMPLETED"
    BY DEF Announces, FAILURE_STATUSES
  <2>3. QED BY <1>0, <2>1, <2>2, MoveExtends DEF Complete
<1>7. CASE type \in FAILURE_STATUSES
  <2>1. Dispatch(type, o) = Fail(o, type) /\ Answer(type) = "OS_COMPENSATION_REQUIRED"
    BY <1>7, Zenon DEF Dispatch, Answer, FAILURE_STATUSES
  <2>2. Announces(type) = "OS_COMPENSATION_REQUIRED"
    BY <1>7, Zenon DEF Announces, FAILURE_STATUSES
  <2>3. QED BY <1>0, <2>1, <2>2, MoveExtends DEF Fail
<1>8. CASE type \notin {"QUOTE_CREATED", "QUOTE_APPROVED", "PAYMENT_PREFERENCE_CREATED",
                        "PAYMENT_CONFIRMED", "EXECUTION_STARTED", "EXECUTION_COMPLETED"}
                       \cup FAILURE_STATUSES
  <2>1. Dispatch(type, o) = Raise(o)
    BY <1>8, Zenon DEF Dispatch, FAILURE_STATUSES
  <2>2. QED BY <1>0, <2>1 DEF Raise
<1>9. QED BY <1>1, <1>2, <1>3, <1>4, <1>5, <1>6, <1>7, <1>8

-----------------------------------------------------------------------------
(* The inductive invariant *)

Publishes(o, ev) == \E a \in Actors : At(a, "publish") /\ job[a].msg.order = o /\ job[a].next = ev

Owed(o, ev) == ev = NoEvent \/ HasPublished(o, ev) \/ Publishes(o, ev)

\* Every entry of an order's history is owed for, but for those that stand for ev.
AllOwed(o, history, ev) ==
  \A k \in DOMAIN history : Announces(history[k]) = ev \/ Owed(o, Announces(history[k]))

RowsOwed == \A o \in Orders : AllOwed(o, orders[o].history, NoEvent)

CopiesOwed ==
  \A a \in Actors : At(a, "save") => AllOwed(job[a].msg.order, job[a].copy.history, job[a].next)

OwedInv == faults = 0 => RowsOwed /\ CopiesOwed

LEMMA InitOwed == Init => OwedInv
BY DEF Init, OwedInv, RowsOwed, CopiesOwed, AllOwed, At, Idle, Busy, NoRow

\* A step that is no fault takes an event away from nobody who owes it, but to publish it.
LEMMA OwedStays ==
  ASSUME SagaInv, NEW a \in Actors, NEW j, Become(a, j), UNCHANGED published,
         ~At(a, "publish"), NEW o, NEW ev, Owed(o, ev)
  PROVE  Owed(o, ev)'
<1>1. \A b \in Actors \ {a} : job'[b] = job[b]
  BY DEF SagaInv, TypeOK, Become
<1>2. HasPublished(o, ev) => HasPublished(o, ev)'
  BY DEF HasPublished, PublishedOf
<1>3. Publishes(o, ev) => Publishes(o, ev)'
  BY <1>1 DEF Publishes, At
<1>4. QED BY <1>2, <1>3 DEF Owed

LEMMA OwedCopies ==
  ASSUME SagaInv, CopiesOwed, NEW a \in Actors, NEW j, Become(a, j),
         \A o, ev : Owed(o, ev) => Owed(o, ev)',
         j.phase = "save" => AllOwed(j.msg.order, j.copy.history, j.next)
  PROVE  CopiesOwed'
<1>1. job' = [job EXCEPT ![a] = IF j.phase = "idle" THEN Idle ELSE j] /\ DOMAIN job = Actors
  BY DEF Become, SagaInv, TypeOK
<1>2. ASSUME NEW o, NEW history, NEW ev, AllOwed(o, history, ev)
      PROVE  \A k \in DOMAIN history :
               Announces(history[k]) = ev \/ Owed(o, Announces(history[k]))'
  BY <1>2 DEF AllOwed
<1>3. ASSUME NEW b \in Actors, At(b, "save")'
      PROVE  AllOwed(job[b].msg.order, job[b].copy.history, job[b].next)'
  <2>1. PICK k : k = job'[b] /\ AllOwed(k.msg.order, k.copy.history, k.next)
    <3>1. CASE b = a
      <4>1. Idle.phase # "save"
        BY DEF Idle, Busy
      <4>2. job'[b] = j /\ j.phase = "save"
        BY <1>1, <1>3, <3>1, <4>1 DEF At
      <4>3. QED BY <4>2
    <3>2. CASE b # a
      <4>1. job'[b] = job[b] /\ At(b, "save")
        BY <1>1, <1>3, <3>2 DEF At
      <4>2. QED BY <4>1 DEF CopiesOwed
    <3>3. QED BY <3>1, <3>2
  <2>2. QED BY <1>2, <2>1 DEF AllOwed
<1>4. QED BY <1>3 DEF CopiesOwed

\* A step of one actor that changes no row and publishes nothing.
LEMMA OwedLocal ==
  ASSUME SagaInv, OwedInv, NEW a \in Actors, NEW j, Become(a, j), UNCHANGED <<orders, published, faults>>,
         ~At(a, "publish"),
         faults = 0 /\ j.phase = "save" => AllOwed(j.msg.order, j.copy.history, j.next)
  PROVE  OwedInv'
<1>1. SUFFICES ASSUME faults = 0 PROVE RowsOwed' /\ CopiesOwed'
  BY DEF OwedInv
<1>2. RowsOwed /\ CopiesOwed
  BY <1>1 DEF OwedInv
<1>3. \A o, ev : Owed(o, ev) => Owed(o, ev)'
  BY OwedStays
<1>4. CopiesOwed'
  BY <1>1, <1>2, <1>3, OwedCopies
<1>5. RowsOwed'
  BY <1>2, <1>3 DEF RowsOwed, AllOwed
<1>6. QED BY <1>4, <1>5

LEMMA OwedLoad == ASSUME SagaInv, OwedInv, NEW a \in Actors, LoadAndApply(a) PROVE OwedInv'
<1> DEFINE m == job[a].msg
           r == IF HasRow(m.order) THEN Apply(m.type, m.keys, orders[m.order]) ELSE Raise(NoRow)
           j == Busy(IF r.raises THEN Failed(a) ELSE "save", m, r.order, r.event)
<1>1. Become(a, j) /\ ~At(a, "publish") /\ UNCHANGED <<orders, published, faults>>
  BY DEF LoadAndApply, At, tables, broker, bounds
<1>2. ASSUME faults = 0, j.phase = "save"
      PROVE  AllOwed(j.msg.order, j.copy.history, j.next)
  <2>1. ~r.raises /\ HasRow(m.order)
    BY <1>2 DEF Busy, Failed, Raise
  <2>2. m.order \in Orders /\ orders[m.order] \in Order /\ IsCoherent(orders[m.order])
    BY <2>1 DEF SagaInv, TypeOK, RowsAreCoherent, HasRow, Row
  <2>3. Extends(orders[m.order], r.order, r.event)
    BY <2>1, <2>2, ApplyExtends
  <2>4. AllOwed(m.order, orders[m.order].history, NoEvent)
    BY <1>2, <2>2 DEF OwedInv, RowsOwed
  <2>5. AllOwed(m.order, r.order.history, r.event)
    <3> HIDE DEF r, m
    <3>1. QED BY <2>3, <2>4 DEF Extends, AllOwed, Owed
  <2>6. QED BY <2>5 DEF Busy
<1> HIDE DEF j
<1>3. QED BY <1>1, <1>2, OwedLocal

LEMMA OwedOpen ==
  ASSUME SagaInv, OwedInv, NEW t \in Threads, NEW o \in Orders, Open(t, o) PROVE OwedInv'
<1> DEFINE new == Recorded(Opened, "QUOTE_REQUESTED")
           j == Busy("save", ApiMessage(NoEvent, o), new, "OS_OPENED")
<1>1. t \in Actors /\ ~At(t, "publish") /\ UNCHANGED <<orders, published, faults>>
  BY DEF Open, Actors, At, tables, broker, bounds
<1>2. Become(t, j)
  BY OpeningOutcome DEF Open
<1>3. AllOwed(o, new.history, "OS_OPENED")
  <2>1. Announces("OPENED") = NoEvent /\ Announces("QUOTE_REQUESTED") = "OS_OPENED"
    BY DEF Announces, FAILURE_STATUSES
  <2>2. Opened \in Order /\ Opened.history = <<"OPENED">>
    BY DEF Opened, Order, ServiceOrderStatus
  <2>3. Extends(Opened, new, "OS_OPENED")
    BY <2>1, <2>2, RecordedExtends
  <2> HIDE DEF new
  <2>4. QED BY <2>1, <2>2, <2>3 DEF Extends, AllOwed, Owed
<1>4. j.msg.order = o /\ j.copy = new /\ j.next = "OS_OPENED"
  BY DEF Busy, ApiMessage
<1> HIDE DEF j, new
<1>5. QED BY <1>1, <1>2, <1>3, <1>4, OwedLocal

\* The row becomes the copy, and its holder goes on to publish what it added.
LEMMA OwedSave == ASSUME SagaInv, OwedInv, NEW a \in Actors, Save(a) PROVE OwedInv'
<1>1. SUFFICES ASSUME faults = 0 PROVE RowsOwed' /\ CopiesOwed'
  BY DEF OwedInv, Save, bounds
<1>2. RowsOwed /\ CopiesOwed
  BY <1>1 DEF OwedInv, Save, bounds
<1>3. PICK k : k = job[a]
  OBVIOUS
<1> DEFINE j == Busy(IF k.next = NoEvent THEN Handled(a) ELSE "publish", k.msg, k.copy, k.next)
<1>4. Become(a, j) /\ At(a, "save") /\ UNCHANGED published
  BY <1>3 DEF Save, Goto, broker
<1>5. k.msg.order \in Orders /\ AllOwed(k.msg.order, k.copy.history, k.next)
  BY <1>2, <1>3, <1>4 DEF SagaInv, JobOK, CopiesOwed, At
<1>6. \A o, ev : Owed(o, ev) => Owed(o, ev)'
  BY <1>4, OwedStays DEF At
<1>7. j.phase # "save"
  BY DEF Busy, Handled
<1>8. CopiesOwed'
  <2> HIDE DEF j
  <2>1. QED BY <1>2, <1>4, <1>6, <1>7, OwedCopies
<1>9. k.next # NoEvent => Publishes(k.msg.order, k.next)'
  <2> SUFFICES ASSUME k.next # NoEvent PROVE Publishes(k.msg.order, k.next)'
    OBVIOUS
  <2>1. job'[a] = Busy("publish", k.msg, k.copy, k.next)
    BY <1>4 DEF Become, Busy, SagaInv, TypeOK
  <2>2. QED BY <2>1 DEF Publishes, At, Busy
<1>10. \A i \in DOMAIN k.copy.history : Owed(k.msg.order, Announces(k.copy.history[i]))'
  BY <1>5, <1>6, <1>9 DEF AllOwed, Owed
<1>11. RowsOwed'
  <2>1. orders' = [orders EXCEPT ![k.msg.order] = k.copy] /\ DOMAIN orders = Orders
    BY <1>3 DEF Save, SagaInv, TypeOK
  <2>2. ASSUME NEW o \in Orders PROVE AllOwed(o, orders[o].history, NoEvent)'
    <3>1. CASE o = k.msg.order
      BY <1>10, <2>1, <3>1 DEF AllOwed
    <3>2. CASE o # k.msg.order
      BY <1>2, <1>6, <2>1, <3>2 DEF RowsOwed, AllOwed, Owed
    <3>3. QED BY <3>1, <3>2
  <2>3. QED BY <2>2 DEF RowsOwed
<1>12. QED BY <1>8, <1>11

\* What was owed is paid.
LEMMA OwedPublish == ASSUME SagaInv, OwedInv, NEW a \in Actors, Publish(a) PROVE OwedInv'
<1> DEFINE m == Outgoing(job[a])
           j == Busy(Handled(a), job[a].msg, job[a].copy, job[a].next)
<1>1. SUFFICES ASSUME faults = 0 PROVE RowsOwed' /\ CopiesOwed'
  BY DEF OwedInv, Publish, bounds
<1>2. RowsOwed /\ CopiesOwed
  BY <1>1 DEF OwedInv, Publish, bounds
<1>3. Become(a, j) /\ At(a, "publish") /\ published' = Append(published, m) /\ UNCHANGED orders
  BY DEF Publish, Goto, tables
<1>4. published \in Seq(Messages)
  BY DEF SagaInv, TypeOK
<1>5. \A i \in DOMAIN published : i \in DOMAIN published' /\ published'[i] = published[i]
  BY <1>3, <1>4
<1>6. Len(published) + 1 \in DOMAIN published' /\ published'[Len(published) + 1] = m
  BY <1>3, <1>4
<1>7. m.order = job[a].msg.order /\ m.type = job[a].next
  BY DEF Outgoing
<1> HIDE DEF m
<1>8. \A b \in Actors \ {a} : job'[b] = job[b]
  BY <1>3 DEF SagaInv, TypeOK, Become
<1>9. ASSUME NEW p, NEW e, Owed(p, e) PROVE Owed(p, e)'
  <2>1. CASE HasPublished(p, e)
    BY <1>5, <2>1 DEF Owed, HasPublished, PublishedOf
  <2>2. CASE Publishes(p, e)
    <3>1. PICK b \in Actors : At(b, "publish") /\ job[b].msg.order = p /\ job[b].next = e
      BY <2>2 DEF Publishes
    <3>2. CASE b = a
      BY <1>6, <1>7, <3>1, <3>2 DEF Owed, HasPublished, PublishedOf
    <3>3. CASE b # a
      BY <1>8, <3>1, <3>3 DEF Owed, Publishes, At
    <3>4. QED BY <3>2, <3>3
  <2>3. QED BY <1>9, <2>1, <2>2 DEF Owed
<1>10. j.phase # "save"
  BY DEF Busy, Handled
<1> HIDE DEF j
<1>11. CopiesOwed'
  BY <1>2, <1>3, <1>9, <1>10, OwedCopies
<1>12. RowsOwed'
  BY <1>2, <1>3, <1>9 DEF RowsOwed, AllOwed
<1>13. QED BY <1>11, <1>12

LEMMA StepOwed == SagaInv /\ OwedInv /\ [Next]_vars => OwedInv'
<1> SUFFICES ASSUME SagaInv, OwedInv, [Next]_vars PROVE OwedInv'
  OBVIOUS
<1>1. ASSUME NEW a \in Actors, NEW phase, Goto(a, phase), UNCHANGED <<orders, published, faults>>,
             ~At(a, "publish"), phase # "save"
      PROVE  OwedInv'
  <2> DEFINE j == Busy(phase, job[a].msg, job[a].copy, job[a].next)
  <2>1. Become(a, j) /\ j.phase # "save"
    BY <1>1 DEF Goto, Busy
  <2> HIDE DEF j
  <2>2. QED BY <1>1, <2>1, OwedLocal
<1>2. ASSUME UNCHANGED <<orders, published, job, faults>> PROVE OwedInv'
  BY <1>2 DEF OwedInv, RowsOwed, CopiesOwed, AllOwed, Owed, Publishes, HasPublished, PublishedOf, At
<1>3. ASSUME NEW m \in Inputs, Send(m) PROVE OwedInv'
  BY <1>2, <1>3 DEF Send, tables
<1>4. ASSUME NEW a \in Actors, UseCaseStep(a) PROVE OwedInv'
  BY <1>4, OwedLoad, OwedSave, OwedPublish DEF UseCaseStep
<1>5. ASSUME NEW w \in Workers, WorkerStep(w) PROVE OwedInv'
  <2>0. w \in Actors
    BY DEF Actors
  <2>1. CASE Deliver(w)
    <3>1. PICK phase \in {"check", "nack"} : Become(w, Busy(phase, Head(queue), NoRow, NoEvent))
      BY <2>1 DEF Deliver
    <3> DEFINE j == Busy(phase, Head(queue), NoRow, NoEvent)
    <3>2. j.phase # "save"
      BY DEF Busy
    <3>3. UNCHANGED <<orders, published, faults>> /\ ~At(w, "publish")
      BY <2>1 DEF Deliver, tables, bounds, At
    <3> HIDE DEF j
    <3>4. Become(w, j)
      BY <3>1 DEF j
    <3>5. QED BY <2>0, <3>2, <3>3, <3>4, OwedLocal
  <2>2. CASE IsProcessed(w) \/ MarkProcessed(w) \/ InsertProcessed(w)
    <3>1. PICK phase \in {"ack", "nack", "get", "insert"} : Goto(w, phase)
      BY <2>2 DEF IsProcessed, MarkProcessed, InsertProcessed
    <3>2. QED BY <1>1, <2>0, <2>2, <3>1
              DEF IsProcessed, MarkProcessed, InsertProcessed, At, tables, broker, bounds
  <2>3. CASE Ack(w) \/ Nack(w)
    BY <1>1, <2>0, <2>3 DEF Ack, Nack, Settle, At, tables, bounds
  <2>4. QED BY <1>4, <1>5, <2>0, <2>1, <2>2, <2>3 DEF WorkerStep
<1>6. ASSUME NEW t \in Threads, Request(t) PROVE OwedInv'
  <2>1. ASSUME NEW type \in AdminTypes, NEW o \in OrderIds, PostEvent(t, type, o) PROVE OwedInv'
    <3> DEFINE j == Busy("get", ApiMessage(type, o), NoRow, NoEvent)
    <3>1. Become(t, j) /\ j.phase # "save"
      BY <2>1 DEF PostEvent, Busy
    <3>2. t \in Actors /\ ~At(t, "publish") /\ UNCHANGED <<orders, published, faults>>
      BY <2>1 DEF PostEvent, Actors, At, tables, broker
    <3> HIDE DEF j
    <3>3. QED BY <3>1, <3>2, OwedLocal
  <2>2. QED BY <1>6, <2>1, OwedOpen DEF Request
<1>7. CASE Fault
  <2>1. faults \in Nat /\ faults' = faults + 1
    BY <1>7 DEF SagaInv, TypeOK, Fault, Crash, CallFails, ConnectionLost, BrokerRestart, Fails
  <2>2. QED BY <2>1 DEF OwedInv
<1>8. CASE UNCHANGED vars
  BY <1>2, <1>8 DEF vars, tables, broker, bounds
<1>9. QED BY <1>3, <1>4, <1>5, <1>6, <1>7, <1>8 DEF Next, Actors

\* With any number of workers and administrators, the event of every saved stage is out
\* or somebody is about to publish it, as long as no call has failed: what overwrites
\* a row never makes the service forget to announce a stage.
THEOREM SavedIsNeverForgotten == Spec => []SavedIsOwed
<1>1. OwedInv => SavedIsOwed
  BY DEF OwedInv, RowsOwed, AllOwed, Owed, Publishes, SavedIsOwed
<1>2. QED BY <1>1, InitOwed, StepOwed, SagaInvariant, PTL DEF Spec
=============================================================================
