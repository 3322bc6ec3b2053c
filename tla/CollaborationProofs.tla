------------------------- MODULE CollaborationProofs -------------------------
(***************************************************************************)
(* The service among its partners: everything proved of SagaHandling holds *)
(* there too, what the service asks of Execution was paid, and with one    *)
(* worker no message of a partner is discarded (PeersInv) and no order     *)
(* comes to rest half-way.                                                 *)
(***************************************************************************)
EXTENDS Collaboration, SoleWorkerProofs

\* The joint system is the service in a politer environment: each of its behaviours is
\* one of SagaHandling, so every theorem about Spec is one about JointSpec.
THEOREM PartnersAreInputs == JointSpec => Spec
<1>1. JointInit => Init
  BY DEF JointInit
<1>2. [JointNext]_jointVars => [Next]_vars
  <2> SUFFICES ASSUME [JointNext]_jointVars PROVE [Next]_vars
    OBVIOUS
  <2>1. ASSUME NEW m \in Inputs, Reply(m) PROVE Next
    BY <2>1 DEF Reply, Next
  <2>2. CASE ServiceStep
    BY <2>2 DEF ServiceStep, Next
  <2>3. CASE UNCHANGED jointVars
    BY <2>3 DEF jointVars
  <2>4. QED BY <2>1, <2>2, <2>3 DEF JointNext
<1>3. QED BY <1>1, <1>2, PTL DEF JointSpec, Spec

\* Among partners, one worker and no events posted by hand, the service implements
\* OrderLifecycle, and no echo of its own events moves an order.
THEOREM PartnersSeeTheLifecycle ==
  ASSUME Sole PROVE JointSpec => ImplementsLifecycle /\ HistoryOnlyGrows /\ []EchoesAreRefused
BY PartnersAreInputs, ServiceImplementsLifecycle, HistoryIsKept, EchoesMoveNothing, PTL

-----------------------------------------------------------------------------
(* What the service records, asks for and publishes was reported *)

\* What Billing and Execution report, and the entry a history has for it.
Reports ==
  {"QUOTE_APPROVED", "PAYMENT_CONFIRMED", "EXECUTION_STARTED", "EXECUTION_COMPLETED"}
  \cup FAILURE_STATUSES

Entry(type) ==
  CASE type = "EXECUTION_STARTED"   -> "EXECUTION_IN_PROGRESS"
    [] type = "EXECUTION_COMPLETED" -> "COMPLETED"
    [] OTHER                        -> type

\* A report was sent by the one whose it is: the service publishes two of these types
\* itself, but only after such a report.
Genuine(m) == m.type \in Reports => HasSent(m.order, m.type)

\* Every entry of the history was reported.
Vouched(o, row) ==
  \A i \in DOMAIN row.history, type \in Reports : row.history[i] = Entry(type) => HasSent(o, type)

\* An actor that will save, report or ask for something handles a genuine report of it.
Justified(j) ==
  /\ Genuine(j.msg)
  /\ j.phase \in {"save", "publish"} =>
       /\ j.next \in Reports => HasSent(j.msg.order, j.next)
       /\ j.next = "EXECUTION_REQUESTED" => HasSent(j.msg.order, "PAYMENT_CONFIRMED")
  /\ j.phase = "save" => Vouched(j.msg.order, j.copy)

QueueGenuine == \A i \in DOMAIN queue : Genuine(queue[i])

JobsJustified == \A a \in Actors : Justified(job[a])

RowsVouched == \A o \in Orders : Vouched(o, orders[o])

PublishedJustified ==
  \A o \in Orders : HasPublished(o, "EXECUTION_REQUESTED") => HasSent(o, "PAYMENT_CONFIRMED")

PaidInv == requests = 0 => QueueGenuine /\ JobsJustified /\ RowsVouched /\ PublishedJustified

LEMMA NoReports ==
  /\ NoEvent \notin Reports
  /\ {"OS_OPENED", "PAYMENT_PENDING", "EXECUTION_REQUESTED", "OS_COMPLETED",
      "OS_COMPENSATION_REQUIRED"} \cap Reports = {}
BY DEF Reports, NoEvent, FAILURE_STATUSES

\* A history vouches only for what its entries stand for.
LEMMA EntryOf ==
  ASSUME NEW type \in Reports
  PROVE  /\ Entry(type) \notin {"OPENED", "QUOTE_REQUESTED", "PAYMENT_PENDING", "EXECUTION_REQUESTED"}
         /\ \A other \in Reports : Entry(other) = Entry(type) => other = type
         /\ type \notin {"EXECUTION_STARTED", "EXECUTION_COMPLETED"} => Entry(type) = type
         /\ Entry("EXECUTION_STARTED") = "EXECUTION_IN_PROGRESS"
         /\ Entry("EXECUTION_COMPLETED") = "COMPLETED"
BY DEF Reports, Entry, FAILURE_STATUSES

LEMMA IdleJustified == Justified(Idle)
BY NoReports DEF Justified, Genuine, Idle, Busy, NoMessage, ApiMessage

LEMMA InitPaid == JointInit => PaidInv
BY IdleJustified DEF JointInit, Init, PaidInv, QueueGenuine, JobsJustified, RowsVouched, Vouched,
                     NoRow, PublishedJustified, HasPublished, PublishedOf

\* The answer to a message is a report only if the message is the same report, and a
\* request for execution only if it reports a payment.
LEMMA AnswerJustified ==
  ASSUME NEW type
  PROVE  /\ Answer(type) \in Reports => type = Answer(type)
         /\ Answer(type) = "EXECUTION_REQUESTED" => type = "PAYMENT_CONFIRMED"
<1>1. Answer(type) \in {type, "PAYMENT_PENDING", "EXECUTION_REQUESTED", "OS_COMPLETED",
                        "OS_COMPENSATION_REQUIRED", NoEvent}
  BY Zenon DEF Answer
<1>2. Answer(type) = "EXECUTION_REQUESTED" => type = "PAYMENT_CONFIRMED"
  BY Zenon DEF Answer, FAILURE_STATUSES, NoEvent
<1>3. QED BY <1>1, <1>2, NoReports

\* Recording what was reported keeps a history vouched for.
LEMMA RecordVouched ==
  ASSUME NEW o, NEW row \in Order, Vouched(o, row), NEW s,
         \A type \in Reports : s = Entry(type) => HasSent(o, type)
  PROVE  Vouched(o, Recorded(row, s))
<1>1. row.history \in Seq(ServiceOrderStatus)
  BY DEF Order
<1>2. Recorded(row, s).history = Append(row.history, s)
  BY DEF Recorded
<1>3. \A i \in DOMAIN Append(row.history, s) :
        \/ i \in DOMAIN row.history /\ Append(row.history, s)[i] = row.history[i]
        \/ Append(row.history, s)[i] = s
  BY <1>1
<1>4. QED BY <1>2, <1>3 DEF Vouched

LEMMA MoveVouched ==
  ASSUME NEW o, NEW row \in Order, Vouched(o, row), NEW from, NEW to, NEW ev,
         \A type \in Reports : to = Entry(type) => HasSent(o, type)
  PROVE  Vouched(o, Move(row, from, to, ev).order)
BY RecordVouched DEF Move, Raise

\* What the handler records for a genuine report.
LEMMA ApplyVouched ==
  ASSUME NEW o, NEW row \in Order, IsCoherent(row), Vouched(o, row), NEW type, NEW keys,
         type \in Reports => HasSent(o, type)
  PROVE  Vouched(o, Apply(type, keys, row).order)
<1>1. ASSUME type = "QUOTE_APPROVED" PROVE Vouched(o, MarkQuoteApproved(row).order)
  <2>1. type \in Reports /\ (\A other \in Reports : "QUOTE_APPROVED" = Entry(other) => other = type)
    BY <1>1, EntryOf DEF Reports
  <2>2. QED BY <2>1, MoveVouched DEF MarkQuoteApproved
<1>2. Vouched(o, MarkPaymentPending(row).order)
  BY EntryOf, MoveVouched DEF MarkPaymentPending
<1>3. ASSUME type = "PAYMENT_CONFIRMED" PROVE Vouched(o, ConfirmAndRequest(row).order)
  <2>1. type \in Reports /\ (\A other \in Reports : "PAYMENT_CONFIRMED" = Entry(other) => other = type)
    BY <1>3, EntryOf DEF Reports
  <2>2. PICK c : c = MarkPaymentConfirmed(row)
    OBVIOUS
  <2>3. Vouched(o, c.order)
    BY <2>1, <2>2, MoveVouched DEF MarkPaymentConfirmed
  <2>4. c.order \in Order
    <3>1. "PAYMENT_CONFIRMED" \in ServiceOrderStatus
          /\ <<"PAYMENT_PENDING", "PAYMENT_CONFIRMED">> \in Lifecycle
      BY DEF ServiceOrderStatus, Lifecycle
    <3>2. c.order = row \/ (row.status = "PAYMENT_PENDING" /\ c.order = Recorded(row, "PAYMENT_CONFIRMED"))
      BY <2>2 DEF MarkPaymentConfirmed, Move, Raise
    <3>3. QED BY <3>1, <3>2, RecordedCoherent
  <2>5. Vouched(o, RequestExecution(c.order).order)
    BY <2>3, <2>4, EntryOf, MoveVouched DEF RequestExecution
  <2>6. ConfirmAndRequest(row) = IF c.raises THEN c ELSE RequestExecution(c.order)
    BY <2>2 DEF ConfirmAndRequest
  <2>7. QED BY <2>3, <2>5, <2>6
<1>4. ASSUME type = "EXECUTION_STARTED" PROVE Vouched(o, MarkExecutionStarted(row).order)
  <2>1. type \in Reports /\ (\A other \in Reports : "EXECUTION_IN_PROGRESS" = Entry(other) => other = type)
    BY <1>4, EntryOf DEF Reports
  <2>2. QED BY <2>1, MoveVouched DEF MarkExecutionStarted
<1>5. ASSUME type = "EXECUTION_COMPLETED" PROVE Vouched(o, Complete(row).order)
  <2>1. type \in Reports /\ (\A other \in Reports : "COMPLETED" = Entry(other) => other = type)
    BY <1>5, EntryOf DEF Reports
  <2>2. QED BY <2>1, MoveVouched DEF Complete
<1>6. ASSUME type \in FAILURE_STATUSES PROVE Vouched(o, Fail(row, type).order)
  <2>1. type \in Reports /\ type \notin {"EXECUTION_STARTED", "EXECUTION_COMPLETED"}
    BY <1>6 DEF Reports, FAILURE_STATUSES
  <2>2. \A other \in Reports : type = Entry(other) => other = type
    BY <2>1, EntryOf
  <2>3. QED BY <2>1, <2>2, MoveVouched DEF Fail
<1>7. Vouched(o, Raise(row).order)
  BY DEF Raise
<1>8. Apply(type, keys, row) = Raise(row) \/ Apply(type, keys, row) = Dispatch(type, row)
  BY DEF Apply
<1>9. \/ Dispatch(type, row).order = row
      \/ type = "QUOTE_APPROVED" /\ Dispatch(type, row) = MarkQuoteApproved(row)
      \/ Dispatch(type, row) = MarkPaymentPending(row)
      \/ type = "PAYMENT_CONFIRMED" /\ Dispatch(type, row) = ConfirmAndRequest(row)
      \/ type = "EXECUTION_STARTED" /\ Dispatch(type, row) = MarkExecutionStarted(row)
      \/ type = "EXECUTION_COMPLETED" /\ Dispatch(type, row) = Complete(row)
      \/ type \in FAILURE_STATUSES /\ Dispatch(type, row) = Fail(row, type)
      \/ Dispatch(type, row) = Raise(row)
  <2>1. CASE type = "QUOTE_CREATED"
    BY <2>1 DEF Dispatch
  <2>2. CASE type = "QUOTE_APPROVED"
    BY <2>2, Zenon DEF Dispatch, FAILURE_STATUSES
  <2>3. CASE type = "PAYMENT_PREFERENCE_CREATED"
    BY <2>3, Zenon DEF Dispatch, FAILURE_STATUSES
  <2>4. CASE type = "PAYMENT_CONFIRMED"
    BY <2>4, Zenon DEF Dispatch, FAILURE_STATUSES
  <2>5. CASE type = "EXECUTION_STARTED"
    BY <2>5, Zenon DEF Dispatch, FAILURE_STATUSES
  <2>6. CASE type = "EXECUTION_COMPLETED"
    BY <2>6, Zenon DEF Dispatch, FAILURE_STATUSES
  <2>7. CASE type \in FAILURE_STATUSES
    BY <2>7, Zenon DEF Dispatch, FAILURE_STATUSES
  <2>8. QED BY <2>1, <2>2, <2>3, <2>4, <2>5, <2>6, <2>7 DEF Dispatch
<1>10. QED BY <1>1, <1>2, <1>3, <1>4, <1>5, <1>6, <1>7, <1>8, <1>9

\* The jobs after a step of one actor.
LEMMA BecomeJustified ==
  ASSUME SagaInv, JobsJustified, UNCHANGED sent, NEW a \in Actors, NEW j, Become(a, j), Justified(j)
  PROVE  JobsJustified'
<1>1. job' = [job EXCEPT ![a] = IF j.phase = "idle" THEN Idle ELSE j] /\ DOMAIN job = Actors
  BY DEF Become, SagaInv, TypeOK
<1>2. ASSUME NEW k, Justified(k)
      PROVE  /\ k.msg.type \in Reports => HasSent(k.msg.order, k.msg.type)'
             /\ k.phase \in {"save", "publish"} =>
                  /\ k.next \in Reports => HasSent(k.msg.order, k.next)'
                  /\ k.next = "EXECUTION_REQUESTED" =>
                       HasSent(k.msg.order, "PAYMENT_CONFIRMED")'
             /\ k.phase = "save" => Vouched(k.msg.order, k.copy)'
  BY <1>2 DEF Justified, Genuine, HasSent, Vouched
<1>3. ASSUME NEW b \in Actors PROVE Justified(job[b])'
  <2>1. PICK k : k = job'[b] /\ Justified(k)
    <3>1. job'[b] \in {Idle, j, job[b]}
      BY <1>1
    <3>2. QED BY <3>1, IdleJustified DEF JobsJustified
  <2>2. QED BY <1>2, <2>1 DEF Justified, Genuine, Vouched, HasSent
<1>4. QED BY <1>3 DEF JobsJustified

LEMMA GotoJustified ==
  ASSUME SagaInv, JobsJustified, UNCHANGED sent, NEW a \in Actors, NEW phase, Goto(a, phase),
         phase # "save", phase = "publish" => job[a].phase = "save"
  PROVE  JobsJustified'
<1> DEFINE j == Busy(phase, job[a].msg, job[a].copy, job[a].next)
<1>1. Justified(j)
  BY DEF JobsJustified, Justified, Genuine, Busy
<1>2. Become(a, j)
  BY DEF Goto
<1> HIDE DEF j
<1>3. QED BY <1>1, <1>2, BecomeJustified

\* What was reported stays reported.
LEMMA GenuineStays ==
  ASSUME sent \subseteq sent', NEW m, Genuine(m)
  PROVE  m.type \in Reports => HasSent(m.order, m.type)'
BY DEF Genuine, HasSent

LEMMA QueueAppended ==
  ASSUME SagaInv, QueueGenuine, sent \subseteq sent', NEW m \in Messages, queue' = Append(queue, m),
         m.type \in Reports => HasSent(m.order, m.type)'
  PROVE  QueueGenuine'
<1>1. queue \in Seq(Messages)
  BY DEF SagaInv, TypeOK
<1>2. \A i \in DOMAIN queue' : (i \in DOMAIN queue /\ queue'[i] = queue[i]) \/ queue'[i] = m
  BY <1>1
<1>3. ASSUME NEW i \in DOMAIN queue' PROVE Genuine(queue[i])'
  BY <1>2, <1>3, GenuineStays DEF QueueGenuine, Genuine
<1>4. QED BY <1>3 DEF QueueGenuine

LEMMA QueueRequeued ==
  ASSUME SagaInv, QueueGenuine, JobsJustified, UNCHANGED sent, NEW w \in Workers, Requeue(w)
  PROVE  QueueGenuine'
<1>1. queue \in Seq(Messages) /\ job[w].msg \in Messages /\ w \in Actors
  BY DEF SagaInv, TypeOK, Job, Actors
<1>2. Genuine(job[w].msg)
  BY <1>1 DEF JobsJustified, Justified
<1>3. PICK m \in Messages : m = job[w].msg
  BY <1>1
<1>4. CASE unacked[w]
  <2>1. queue' = <<m>> \o queue
    BY <1>3, <1>4 DEF Requeue
  <2>2. \A i \in DOMAIN queue' : queue'[i] = m \/ (i - 1 \in DOMAIN queue /\ queue'[i] = queue[i - 1])
    BY <1>1, <2>1
  <2>3. ASSUME NEW i \in DOMAIN queue' PROVE Genuine(queue[i])'
    BY <1>2, <1>3, <2>2, <2>3 DEF QueueGenuine, Genuine, HasSent
  <2>4. QED BY <2>3 DEF QueueGenuine
<1>5. CASE ~unacked[w]
  BY <1>5 DEF Requeue, QueueGenuine, Genuine, HasSent
<1>6. QED BY <1>4, <1>5

LEMMA QueueKept == ASSUME QueueGenuine, UNCHANGED <<queue, sent>> PROVE QueueGenuine'
BY DEF QueueGenuine, Genuine, HasSent

LEMMA PublishedKept ==
  ASSUME PublishedJustified, UNCHANGED published, sent \subseteq sent'
  PROVE  PublishedJustified'
BY DEF PublishedJustified, HasPublished, PublishedOf, HasSent

LEMMA RowsKept ==
  ASSUME RowsVouched, UNCHANGED orders, sent \subseteq sent'
  PROVE  RowsVouched'
BY DEF RowsVouched, Vouched, HasSent

LEMMA PaidReply == ASSUME SagaInv, PaidInv, NEW m \in Inputs, Reply(m) PROVE PaidInv'
<1>1. SUFFICES ASSUME requests = 0
               PROVE  QueueGenuine' /\ JobsJustified' /\ RowsVouched' /\ PublishedJustified'
  BY DEF PaidInv, Reply, Send
<1>2. QueueGenuine /\ JobsJustified /\ RowsVouched /\ PublishedJustified
  BY <1>1 DEF PaidInv, Reply, Send
<1>3. m \in sent' /\ sent \subseteq sent' /\ m \in Messages
  BY SagaConstants DEF Reply
<1>4. QueueGenuine'
  BY <1>2, <1>3, QueueAppended DEF Reply, Send, HasSent
<1>5. UNCHANGED <<orders, job, published>>
  BY DEF Reply, Send, tables
<1>6. JobsJustified'
  BY <1>2, <1>3, <1>5 DEF JobsJustified, Justified, Genuine, Vouched, HasSent
<1>7. QED BY <1>2, <1>3, <1>4, <1>5, <1>6, PublishedKept, RowsKept

LEMMA PaidUseCase ==
  ASSUME SagaInv, PaidInv, UNCHANGED sent, NEW a \in Actors, UseCaseStep(a) PROVE PaidInv'
<1>1. SUFFICES ASSUME requests = 0
               PROVE  QueueGenuine' /\ JobsJustified' /\ RowsVouched' /\ PublishedJustified'
  BY DEF PaidInv, UseCaseStep, LoadAndApply, Save, Publish, bounds
<1>2. QueueGenuine /\ JobsJustified /\ RowsVouched /\ PublishedJustified
  BY <1>1 DEF PaidInv, UseCaseStep, LoadAndApply, Save, Publish, bounds
<1>3. CASE LoadAndApply(a)
  <2> DEFINE m == job[a].msg
             r == IF HasRow(m.order) THEN Apply(m.type, m.keys, orders[m.order]) ELSE Raise(NoRow)
             j == Busy(IF r.raises THEN Failed(a) ELSE "save", m, r.order, r.event)
  <2>1. Genuine(m)
    BY <1>2 DEF JobsJustified, Justified
  <2>2. ~r.raises => r.event = Answer(m.type) /\ Vouched(m.order, r.order)
    <3>1. CASE HasRow(m.order)
      <4>1. m.order \in Orders /\ orders[m.order] \in Order /\ IsCoherent(orders[m.order])
        BY <3>1 DEF SagaInv, TypeOK, RowsAreCoherent, HasRow, Row
      <4>2. PICK row \in Order : row = orders[m.order]
        BY <4>1
      <4>3. Vouched(m.order, row)
        BY <1>2, <4>1, <4>2 DEF RowsVouched
      <4>4. Vouched(m.order, Apply(m.type, m.keys, row).order)
        BY <2>1, <4>1, <4>2, <4>3, ApplyVouched DEF Genuine
      <4>5. QED BY <3>1, <4>1, <4>2, <4>4, ApplyOutcome
    <3>2. CASE ~HasRow(m.order)
      BY <3>2 DEF Raise
    <3>3. QED BY <3>1, <3>2
  <2>3. Become(a, j)
    BY <1>3 DEF LoadAndApply
  <2> HIDE DEF r
  <2>4. Justified(j)
    <3>1. CASE r.raises
      <4>1. PICK phase \in {"nack", "idle"} : phase = Failed(a)
        BY DEF Failed
      <4>2. j = Busy(phase, m, r.order, r.event)
        BY <3>1, <4>1
      <4>3. QED BY <2>1, <4>2 DEF Justified, Genuine, Busy
    <3>2. CASE ~r.raises
      <4>1. PICK copy : copy = r.order /\ Vouched(m.order, copy)
        BY <2>2, <3>2
      <4>2. PICK ev : ev = Answer(m.type)
        OBVIOUS
      <4>3. j = Busy("save", m, copy, ev)
        BY <2>2, <3>2, <4>1, <4>2
      <4>4. /\ ev \in Reports => HasSent(m.order, ev)
            /\ ev = "EXECUTION_REQUESTED" => HasSent(m.order, "PAYMENT_CONFIRMED")
        <5>1. (ev \in Reports => m.type = ev) /\ (ev = "EXECUTION_REQUESTED" => m.type = "PAYMENT_CONFIRMED")
          BY <4>2, AnswerJustified
        <5>2. "PAYMENT_CONFIRMED" \in Reports
          BY DEF Reports
        <5>3. QED BY <2>1, <5>1, <5>2 DEF Genuine
      <4>5. QED BY <2>1, <4>1, <4>3, <4>4 DEF Justified, Genuine, Busy
    <3>3. QED BY <3>1, <3>2
  <2> HIDE DEF j
  <2>5. JobsJustified'
    BY <1>2, <2>3, <2>4, BecomeJustified
  <2>6. QED BY <1>2, <1>3, <2>5, QueueKept, PublishedKept, RowsKept DEF LoadAndApply, broker, tables
<1>4. CASE Save(a)
  <2>1. PICK phase \in {"mark", "idle", "publish"} : Goto(a, phase) /\ job[a].phase = "save"
    BY <1>4 DEF Save, At, Handled
  <2>2. JobsJustified'
    BY <1>2, <2>1, GotoJustified
  <2>3. RowsVouched'
    <3>1. Vouched(job[a].msg.order, job[a].copy)
      BY <1>2, <2>1 DEF JobsJustified, Justified
    <3>2. \A o \in Orders : orders'[o] = IF o = job[a].msg.order THEN job[a].copy ELSE orders[o]
      BY <1>4 DEF Save, SagaInv, TypeOK
    <3>3. QED BY <1>2, <3>1, <3>2 DEF RowsVouched, Vouched, HasSent
  <2>4. QED BY <1>2, <1>4, <2>2, <2>3, QueueKept, PublishedKept DEF Save, broker
<1>5. CASE Publish(a)
  <2>1. PICK m : m = Outgoing(job[a])
    OBVIOUS
  <2>2. m.type = job[a].next /\ m.order = job[a].msg.order
    BY <2>1 DEF Outgoing
  <2>3. queue' = Append(queue, m) /\ published' = Append(published, m)
    BY <1>5, <2>1 DEF Publish
  <2>4. m \in Messages
    <3>1. queue' \in Seq(Messages) /\ queue \in Seq(Messages)
      BY <1>5, StepPublish DEF SagaInv, TypeOK
    <3>2. m = queue'[Len(queue) + 1] /\ Len(queue) + 1 \in DOMAIN queue'
      BY <2>3, <3>1
    <3>3. QED BY <3>1, <3>2
  <2>5. Justified(job[a]) /\ job[a].phase = "publish"
    BY <1>2, <1>5 DEF JobsJustified, Publish, At
  <2>6. QueueGenuine'
    <3>1. m.type \in Reports => HasSent(m.order, m.type)
      BY <2>2, <2>5 DEF Justified
    <3>2. m.type \in Reports => HasSent(m.order, m.type)'
      BY <3>1 DEF HasSent
    <3>3. QED BY <1>2, <2>3, <2>4, <3>2, QueueAppended
  <2>7. JobsJustified'
    <3>1. PICK phase \in {"mark", "idle"} : Goto(a, phase)
      BY <1>5 DEF Publish, Handled
    <3>2. QED BY <1>2, <3>1, GotoJustified
  <2>8. PublishedJustified'
    <3>1. published \in Seq(Messages)
      BY DEF SagaInv, TypeOK
    <3>2. \A i \in DOMAIN published' :
            (i \in DOMAIN published /\ published'[i] = published[i]) \/ published'[i] = m
      BY <2>3, <3>1
    <3>3. m.type = "EXECUTION_REQUESTED" => HasSent(m.order, "PAYMENT_CONFIRMED")
      BY <2>2, <2>5 DEF Justified
    <3>4. QED BY <1>2, <3>2, <3>3 DEF PublishedJustified, HasPublished, PublishedOf, HasSent
  <2>9. QED BY <1>2, <1>5, <2>6, <2>7, <2>8, RowsKept DEF Publish, tables
<1>6. QED BY <1>3, <1>4, <1>5 DEF UseCaseStep

LEMMA PaidWorker ==
  ASSUME SagaInv, PaidInv, UNCHANGED sent, NEW w \in Workers, WorkerStep(w) PROVE PaidInv'
<1>1. w \in Actors
  BY DEF Actors
<1>2. CASE UseCaseStep(w)
  BY <1>1, <1>2, PaidUseCase
<1>3. ASSUME UNCHANGED <<orders, published, requests>>, QueueGenuine', JobsJustified'
      PROVE  PaidInv'
  BY <1>3, PublishedKept, RowsKept DEF PaidInv
<1>4. CASE UNCHANGED requests /\ requests # 0
  BY <1>4 DEF PaidInv
<1>5. ASSUME requests = 0 PROVE QueueGenuine /\ JobsJustified
  BY <1>5 DEF PaidInv
<1>6. CASE Deliver(w)
  <2> SUFFICES ASSUME requests = 0 PROVE PaidInv'
    BY <1>4, <1>6 DEF Deliver, bounds
  <2>1. queue \in Seq(Messages) /\ queue # <<>>
    BY <1>6 DEF SagaInv, TypeOK, Deliver
  <2>2. Genuine(Head(queue))
    BY <1>5, <2>1 DEF QueueGenuine
  <2>3. PICK phase \in {"check", "nack"} : Become(w, Busy(phase, Head(queue), NoRow, NoEvent))
    BY <1>6 DEF Deliver
  <2>4. Justified(Busy(phase, Head(queue), NoRow, NoEvent))
    BY <2>2 DEF Justified, Genuine, Busy
  <2>5. JobsJustified'
    BY <1>1, <1>5, <2>3, <2>4, BecomeJustified
  <2>6. \A i \in DOMAIN queue' : i + 1 \in DOMAIN queue /\ queue'[i] = queue[i + 1]
    BY <1>6, <2>1 DEF Deliver
  <2>7. QueueGenuine'
    BY <1>5, <2>6 DEF QueueGenuine, Genuine, HasSent
  <2>8. QED BY <1>3, <1>6, <2>5, <2>7 DEF Deliver, bounds, tables
<1>7. CASE IsProcessed(w) \/ MarkProcessed(w) \/ InsertProcessed(w) \/ Ack(w) \/ Nack(w)
  <2>1. UNCHANGED <<orders, queue, published, requests>>
    BY <1>7 DEF IsProcessed, MarkProcessed, InsertProcessed, Ack, Nack, Settle, tables, broker, bounds
  <2> SUFFICES ASSUME requests = 0 PROVE PaidInv'
    BY <1>4, <2>1
  <2>2. PICK phase \in {"ack", "nack", "get", "insert", "idle"} : Goto(w, phase)
    BY <1>7 DEF IsProcessed, MarkProcessed, InsertProcessed, Ack, Nack, Settle
  <2>3. JobsJustified'
    BY <1>1, <1>5, <2>2, GotoJustified
  <2>4. QED BY <1>3, <1>5, <2>1, <2>3, QueueKept
<1>8. QED BY <1>2, <1>6, <1>7 DEF WorkerStep

LEMMA PaidRequest ==
  ASSUME SagaInv, PaidInv, UNCHANGED sent, NEW t \in Threads, Request(t) PROVE PaidInv'
<1>1. ASSUME NEW o \in Orders, Open(t, o) PROVE PaidInv'
  <2> SUFFICES ASSUME requests = 0 PROVE PaidInv'
    BY <1>1 DEF PaidInv, Open, bounds
  <2>1. QueueGenuine /\ JobsJustified /\ RowsVouched /\ PublishedJustified
    BY DEF PaidInv
  <2>2. PICK row : row = Recorded(Opened, "QUOTE_REQUESTED")
    OBVIOUS
  <2> DEFINE j == Busy("save", ApiMessage(NoEvent, o), row, "OS_OPENED")
  <2>3. Become(t, j)
    BY <1>1, <2>2, OpeningOutcome DEF Open
  <2>4. Vouched(o, row)
    <3>1. row.history = Append(Opened.history, "QUOTE_REQUESTED") /\ Opened.history = <<"OPENED">>
      BY <2>2 DEF Recorded, Opened
    <3>2. \A i \in DOMAIN row.history : row.history[i] \in {"OPENED", "QUOTE_REQUESTED"}
      BY <3>1
    <3>3. QED BY <3>2, EntryOf DEF Vouched
  <2>5. Justified(j)
    BY <2>4, NoReports DEF Justified, Genuine, Busy, ApiMessage
  <2> HIDE DEF j
  <2>6. JobsJustified'
    BY <2>1, <2>3, <2>5, BecomeJustified DEF Actors
  <2>7. QED BY <1>1, <2>1, <2>6, QueueKept, PublishedKept, RowsKept DEF Open, broker, tables, PaidInv
<1>2. ASSUME NEW type \in AdminTypes, NEW o \in OrderIds, PostEvent(t, type, o) PROVE PaidInv'
  <2>1. requests \in Nat /\ requests' = requests + 1
    BY <1>2 DEF PostEvent, SagaInv, TypeOK
  <2>2. QED BY <2>1 DEF PaidInv
<1>3. QED BY <1>1, <1>2 DEF Request

LEMMA PaidFault == ASSUME SagaInv, PaidInv, UNCHANGED sent, Fault PROVE PaidInv'
<1>1. UNCHANGED <<orders, published, requests>>
  BY DEF Fault, Crash, CallFails, ConnectionLost, BrokerRestart, Fails, tables, broker
<1>2. SUFFICES ASSUME requests = 0 PROVE QueueGenuine' /\ JobsJustified'
  BY <1>1, PublishedKept, RowsKept DEF PaidInv
<1>3. QueueGenuine /\ JobsJustified
  BY <1>2 DEF PaidInv
<1>4. UNCHANGED job => JobsJustified'
  BY <1>3 DEF JobsJustified, Justified, Genuine, Vouched, HasSent
<1>5. ASSUME NEW a \in Actors, Crash(a) PROVE QueueGenuine' /\ JobsJustified'
  <2>1. JobsJustified'
    BY <1>3, <1>5, GotoJustified DEF Crash
  <2>2. CASE a \in Workers
    BY <1>3, <1>5, <2>1, <2>2, QueueRequeued DEF Crash
  <2>3. CASE a \notin Workers
    BY <1>3, <1>5, <2>1, <2>3, QueueKept DEF Crash
  <2>4. QED BY <2>2, <2>3
<1>6. ASSUME NEW a \in Actors, CallFails(a) PROVE QueueGenuine' /\ JobsJustified'
  <2>1. PICK phase \in {"nack", "idle"} : Goto(a, phase)
    BY <1>6 DEF CallFails, Failed
  <2>2. QED BY <1>3, <1>6, <2>1, GotoJustified, QueueKept DEF CallFails, broker
<1>7. ASSUME NEW w \in Workers, ConnectionLost(w) PROVE QueueGenuine' /\ JobsJustified'
  BY <1>3, <1>4, <1>7, QueueRequeued DEF ConnectionLost
<1>8. CASE BrokerRestart
  BY <1>4, <1>8 DEF BrokerRestart, QueueGenuine
<1>9. QED BY <1>5, <1>6, <1>7, <1>8 DEF Fault

LEMMA StepPaid == SagaInv /\ PaidInv /\ [JointNext]_jointVars => PaidInv'
<1> SUFFICES ASSUME SagaInv, PaidInv, [JointNext]_jointVars PROVE PaidInv'
  OBVIOUS
<1>1. ASSUME NEW m \in Inputs, Reply(m) PROVE PaidInv'
  BY <1>1, PaidReply
<1>2. CASE ServiceStep /\ UNCHANGED sent
  BY <1>2, PaidWorker, PaidRequest, PaidUseCase, PaidFault DEF ServiceStep, Actors
<1>3. CASE UNCHANGED jointVars
  BY <1>3, QueueKept, PublishedKept, RowsKept DEF jointVars, vars, tables, broker, bounds, PaidInv,
     JobsJustified, Justified, Genuine, Vouched, HasSent
<1>4. QED BY <1>1, <1>2, <1>3 DEF JointNext

\* Whatever is redelivered, crashes or is handled by two workers at once: as long as no
\* administrator posts events, Execution is asked to work only on orders that Billing
\* reported as paid.
THEOREM ExecutionWasPaid == JointSpec => []PaidBeforeExecuted
<1>1. PaidInv => PaidBeforeExecuted
  BY DEF PaidInv, PublishedJustified, PaidBeforeExecuted
<1>2. QED BY <1>1, InitPaid, StepPaid, SagaInvariant, PartnersAreInputs, PTL DEF JointSpec

\* What any number of workers and administrators cannot break, with partners that keep
\* to the flow too: no event of a saved stage is forgotten, none is acknowledged that
\* was not recorded or recorded that was not answered.
THEOREM AmongPartners ==
  JointSpec => [](SavedIsOwed /\ AckedIsProcessed /\ ProcessedIsAnswered /\ RowsAreCoherent)
BY PartnersAreInputs, SavedIsNeverForgotten, AcknowledgedIsRecorded, RecordedIsAnswered,
   SavedHistoryIsAPath, PTL

-----------------------------------------------------------------------------
(***************************************************************************)
(* The partners are heard.  The messages that move an order have a stage;  *)
(* the partners send those of one order in the order of their stages, one  *)
(* per stage, and while nothing fails the queue and a single worker keep   *)
(* that order.  So when the worker loads the row for a message, everything *)
(* of an earlier stage has been saved, and nothing of its own stage or a   *)
(* later one: the row is in the status the message is for.                 *)
(***************************************************************************)

\* The stage of the saga a message of this type ends; 0: it moves no order.
StageOf(type) ==
  CASE type \in {"QUOTE_APPROVED", "QUOTE_FAILED"}                -> 1
    [] type = "PAYMENT_PREFERENCE_CREATED"                        -> 2
    [] type \in {"PAYMENT_CONFIRMED", "PAYMENT_FAILED"}           -> 3
    [] type \in {"EXECUTION_STARTED", "EXECUTION_ENQUEUE_FAILED"} -> 4
    [] type \in {"EXECUTION_COMPLETED", "EXECUTION_FAILED"}       -> 5
    [] OTHER                                                      -> 0

\* The status a row must have for such a message, and the one it has afterwards.
Awaited(type) ==
  CASE StageOf(type) = 1 -> "QUOTE_REQUESTED"
    [] StageOf(type) = 2 -> "QUOTE_APPROVED"
    [] StageOf(type) = 3 -> "PAYMENT_PENDING"
    [] StageOf(type) = 4 -> "EXECUTION_REQUESTED"
    [] StageOf(type) = 5 -> "EXECUTION_IN_PROGRESS"
    [] OTHER             -> "none"

Reached(type) ==
  CASE type = "PAYMENT_PREFERENCE_CREATED" -> "PAYMENT_PENDING"
    [] type = "PAYMENT_CONFIRMED"          -> "EXECUTION_REQUESTED"
    [] type = "EXECUTION_STARTED"          -> "EXECUTION_IN_PROGRESS"
    [] type = "EXECUTION_COMPLETED"        -> "COMPLETED"
    [] OTHER                               -> type

\* The stage a row has ended last.
StatusStage(s) ==
  CASE s \in {"QUOTE_APPROVED", "QUOTE_FAILED"}                    -> 1
    [] s = "PAYMENT_PENDING"                                       -> 2
    [] s \in {"EXECUTION_REQUESTED", "PAYMENT_FAILED"}             -> 3
    [] s \in {"EXECUTION_IN_PROGRESS", "EXECUTION_ENQUEUE_FAILED"} -> 4
    [] s \in {"COMPLETED", "EXECUTION_FAILED"}                     -> 5
    [] OTHER                                                       -> 0

RowStage(o) == StatusStage(orders[o].status)

\* The messages sent about o that move it.
Moves(o) == {m \in sent : m.order = o /\ StageOf(m.type) > 0}

\* What holds of the conversation whatever happens to the messages.
Exclusive(m, n) == m.type = n.type \/ \E pair \in Alternatives : m.type \in pair /\ n.type \in pair

Conversation ==
  /\ sent \subseteq Inputs
  /\ \A m \in sent : Prompted(m.order, m.type)
  /\ \A m, n \in sent : m.order = n.order /\ Exclusive(m, n) => m = n

\* A row has the status the last handled message of its order led to.
RowsTold ==
  /\ \A m \in sent : HasRow(m.order)
  /\ \A o \in Orders : HasRow(o) =>
       \/ orders[o].status = "QUOTE_REQUESTED"
       \/ \E m \in Moves(o) : orders[o].status = Reached(m.type)

OwnTypes == { "OS_OPENED", "QUOTE_APPROVED", "PAYMENT_PENDING", "EXECUTION_REQUESTED",
              "EXECUTION_STARTED", "OS_COMPLETED", "OS_COMPENSATION_REQUIRED" }

\* An event of this type about o comes too late to move it.
Stale(o, type) ==
  /\ HasRow(o)
  /\ type \in OwnTypes
  /\ type = "QUOTE_APPROVED" => RowStage(o) >= 1
  /\ type = "EXECUTION_STARTED" => RowStage(o) >= 4

PublishedStale == \A i \in DOMAIN published : Stale(published[i].order, published[i].type)

\* Nothing but the partners' messages and the service's echoes reaches the worker.
Told(m) == m \in sent \/ (IsOwn(m) /\ Stale(m.order, m.type))

QueueTold == \A i \in DOMAIN queue : Told(queue[i])

\* m moves the order n moves, at an earlier stage.
Before(m, n) == StageOf(m.type) < StageOf(n.type)

Comparable(m, n) ==
  m \in sent /\ n \in sent /\ m.order = n.order /\ StageOf(m.type) > 0 /\ StageOf(n.type) > 0

QueueSorted ==
  \A i, j \in DOMAIN queue : i < j /\ Comparable(queue[i], queue[j]) => Before(queue[i], queue[j])

\* A worker that has a message and has not saved what it leads to.
Handling(j) == j.phase \in {"check", "get", "save"}

WorkerAhead ==
  \A w \in Workers : Handling(job[w]) =>
    \A i \in DOMAIN queue : Comparable(job[w].msg, queue[i]) => Before(job[w].msg, queue[i])

\* A message is still to be handled exactly if it is ahead of its row.
Awaiting(m) ==
  \/ \E i \in DOMAIN queue : queue[i] = m
  \/ \E w \in Workers : Handling(job[w]) /\ job[w].msg = m

AwaitingIsAhead ==
  \A o \in Orders : \A m \in Moves(o) : Awaiting(m) <=> StageOf(m.type) > RowStage(o)

ProcessedIsBehind ==
  /\ \A id \in processed : \E m \in sent : m.id = id
  /\ \A m \in sent : m.id \in processed => StageOf(m.type) <= RowStage(m.order)

\* What the worker is doing.
WorkerTold(j) ==
  /\ j.phase # "idle" => Told(j.msg)
  /\ j.phase \notin {"idle", "nack"} => j.msg.type \in INTEGRATION_EVENT_TYPES
  /\ j.phase = "nack" => IsOwn(j.msg) \/ j.msg.type \notin INTEGRATION_EVENT_TYPES
  /\ j.phase \in {"save", "publish", "mark", "insert"} => j.msg \in sent
  /\ j.phase = "save" =>
       IF StageOf(j.msg.type) = 0 THEN j.copy = orders[j.msg.order] /\ j.next = NoEvent
       ELSE j.copy.status = Reached(j.msg.type) /\ j.next = Answer(j.msg.type)
  /\ j.phase = "publish" => StageOf(j.msg.type) > 0 /\ j.next = Answer(j.msg.type)
  /\ j.phase \in {"publish", "mark", "insert"} => StageOf(j.msg.type) <= RowStage(j.msg.order)
  /\ j.phase = "insert" => j.msg.id \notin processed

WorkersTold == \A w \in Workers : WorkerTold(job[w])

\* The threads open orders, each its own.
ThreadOpens(j) ==
  /\ j.phase \in {"idle", "save", "publish"}
  /\ j.phase \in {"save", "publish"} => j.next = "OS_OPENED"
  /\ j.phase = "save" => ~HasRow(j.msg.order) /\ j.copy.status = "QUOTE_REQUESTED"
  /\ j.phase = "publish" => HasRow(j.msg.order)

ThreadsOpen ==
  /\ \A t \in Threads : ThreadOpens(job[t])
  /\ \A t, u \in Threads : At(t, "save") /\ At(u, "save") /\ job[t].msg.order = job[u].msg.order => t = u

Live ==
  /\ RowsTold /\ PublishedStale /\ QueueTold /\ QueueSorted /\ WorkerAhead /\ AwaitingIsAhead
  /\ ProcessedIsBehind /\ WorkersTold /\ ThreadsOpen

PeersInv == Conversation /\ (Undisturbed => Live)

-----------------------------------------------------------------------------
(* Stages *)

LEMMA StageBounds ==
  /\ \A type : StageOf(type) \in 0 .. 5
  /\ \A s : StatusStage(s) \in 0 .. 5
BY DEF StageOf, StatusStage

LEMMA ReachedStage == ASSUME NEW type, StageOf(type) > 0
                      PROVE  StatusStage(Reached(type)) = StageOf(type)
BY DEF StageOf, Reached, StatusStage

LEMMA StageTypes ==
  ASSUME NEW type
  PROVE  /\ StageOf(type) = 1 => type \in {"QUOTE_APPROVED", "QUOTE_FAILED"}
         /\ StageOf(type) = 2 => type = "PAYMENT_PREFERENCE_CREATED"
         /\ StageOf(type) = 3 => type \in {"PAYMENT_CONFIRMED", "PAYMENT_FAILED"}
         /\ StageOf(type) = 4 => type \in {"EXECUTION_STARTED", "EXECUTION_ENQUEUE_FAILED"}
         /\ StageOf(type) = 5 => type \in {"EXECUTION_COMPLETED", "EXECUTION_FAILED"}
BY DEF StageOf

LEMMA ReachedAwaited ==
  /\ Reached("QUOTE_APPROVED") = "QUOTE_APPROVED"
  /\ Reached("PAYMENT_PREFERENCE_CREATED") = "PAYMENT_PENDING"
  /\ Reached("PAYMENT_CONFIRMED") = "EXECUTION_REQUESTED"
  /\ Reached("EXECUTION_STARTED") = "EXECUTION_IN_PROGRESS"
  /\ \A type : /\ StageOf(type) = 1 => Awaited(type) = "QUOTE_REQUESTED"
               /\ StageOf(type) = 2 => Awaited(type) = "QUOTE_APPROVED"
               /\ StageOf(type) = 3 => Awaited(type) = "PAYMENT_PENDING"
               /\ StageOf(type) = 4 => Awaited(type) = "EXECUTION_REQUESTED"
               /\ StageOf(type) = 5 => Awaited(type) = "EXECUTION_IN_PROGRESS"
<1>1. \A type : /\ StageOf(type) = 1 => Awaited(type) = "QUOTE_REQUESTED"
                /\ StageOf(type) = 2 => Awaited(type) = "QUOTE_APPROVED"
                /\ StageOf(type) = 3 => Awaited(type) = "PAYMENT_PENDING"
                /\ StageOf(type) = 4 => Awaited(type) = "EXECUTION_REQUESTED"
                /\ StageOf(type) = 5 => Awaited(type) = "EXECUTION_IN_PROGRESS"
  BY DEF Awaited
<1>2. QED BY <1>1 DEF Reached

\* The aggregate takes a message in the status it is for.
LEMMA TakenInTime ==
  ASSUME NEW type, NEW keys, NEW o, StageOf(type) > 0, RequiredKeys(type) \subseteq keys,
         o.status = Awaited(type)
  PROVE  LET r == Apply(type, keys, o)
         IN  ~r.raises /\ r.order.status = Reached(type) /\ r.event = Answer(type)
<1>1. Apply(type, keys, o) = Dispatch(type, o)
  BY DEF Apply
<1>2. ASSUME NEW from, NEW to, NEW ev, o.status \in from \ TERMINAL_STATUSES
      PROVE  Move(o, from, to, ev) = [raises |-> FALSE, order |-> Recorded(o, to), event |-> ev]
  BY <1>2 DEF Move
<1>3. \A to : Recorded(o, to).status = to
  BY DEF Recorded
<1>4. o.status \in ServiceOrderStatus \ TERMINAL_STATUSES
  BY DEF Awaited, StageOf, ServiceOrderStatus, TERMINAL_STATUSES, FAILURE_STATUSES
<1>5. CASE type = "QUOTE_APPROVED"
  <2>1. o.status = "QUOTE_REQUESTED"
    BY <1>5, ReachedAwaited DEF StageOf
  <2>2. Dispatch(type, o) = MarkQuoteApproved(o) /\ Answer(type) = "QUOTE_APPROVED"
    BY <1>5, Zenon DEF Dispatch, Answer, FAILURE_STATUSES
  <2>3. QED BY <1>1, <1>2, <1>3, <1>4, <1>5, <2>1, <2>2, ReachedAwaited DEF MarkQuoteApproved
<1>6. CASE type = "PAYMENT_PREFERENCE_CREATED"
  <2>1. o.status = "QUOTE_APPROVED"
    BY <1>6, ReachedAwaited DEF StageOf
  <2>2. Dispatch(type, o) = MarkPaymentPending(o) /\ Answer(type) = "PAYMENT_PENDING"
    BY <1>6, Zenon DEF Dispatch, Answer, FAILURE_STATUSES
  <2>3. QED BY <1>1, <1>2, <1>3, <1>4, <1>6, <2>1, <2>2, ReachedAwaited DEF MarkPaymentPending
<1>7. CASE type = "PAYMENT_CONFIRMED"
  <2> DEFINE c == MarkPaymentConfirmed(o)
  <2>1. o.status = "PAYMENT_PENDING"
    BY <1>7, ReachedAwaited DEF StageOf
  <2>2. Dispatch(type, o) = ConfirmAndRequest(o) /\ Answer(type) = "EXECUTION_REQUESTED"
    BY <1>7, Zenon DEF Dispatch, Answer, FAILURE_STATUSES
  <2>3. ~c.raises /\ c.order.status = "PAYMENT_CONFIRMED"
    BY <1>2, <1>3, <1>4, <2>1 DEF MarkPaymentConfirmed
  <2>4. ConfirmAndRequest(o) = RequestExecution(c.order)
    BY <2>3 DEF ConfirmAndRequest
  <2>5. PICK p : p = c.order
    OBVIOUS
  <2>6. RequestExecution(p) = [raises |-> FALSE, order |-> Recorded(p, "EXECUTION_REQUESTED"),
                               event |-> "EXECUTION_REQUESTED"]
    BY <2>3, <2>5 DEF RequestExecution, Move, TERMINAL_STATUSES, FAILURE_STATUSES
  <2>7. RequestExecution(p).order.status = "EXECUTION_REQUESTED"
    BY <2>6 DEF Recorded
  <2>8. QED BY <1>1, <1>7, <2>2, <2>4, <2>5, <2>6, <2>7, ReachedAwaited
<1>8. CASE type = "EXECUTION_STARTED"
  <2>1. o.status = "EXECUTION_REQUESTED"
    BY <1>8, ReachedAwaited DEF StageOf
  <2>2. Dispatch(type, o) = MarkExecutionStarted(o) /\ Answer(type) = "EXECUTION_STARTED"
    BY <1>8, Zenon DEF Dispatch, Answer, FAILURE_STATUSES
  <2>3. QED BY <1>1, <1>2, <1>3, <1>4, <1>8, <2>1, <2>2, ReachedAwaited DEF MarkExecutionStarted
<1>9. CASE type = "EXECUTION_COMPLETED"
  <2>1. o.status = "EXECUTION_IN_PROGRESS"
    BY <1>9, ReachedAwaited DEF StageOf
  <2>2. Dispatch(type, o) = Complete(o) /\ Answer(type) = "OS_COMPLETED"
    BY <1>9, Zenon DEF Dispatch, Answer, FAILURE_STATUSES
  <2>3. Reached(type) = "COMPLETED"
    BY <1>9 DEF Reached
  <2>4. QED BY <1>1, <1>2, <1>3, <1>4, <2>1, <2>2, <2>3 DEF Complete
<1>10. CASE type \in FAILURE_STATUSES
  <2>1. Dispatch(type, o) = Fail(o, type) /\ Answer(type) = "OS_COMPENSATION_REQUIRED"
    BY <1>10, Zenon DEF Dispatch, Answer, FAILURE_STATUSES
  <2>2. Reached(type) = type
    BY <1>10 DEF Reached, FAILURE_STATUSES
  <2>3. QED BY <1>1, <1>2, <1>3, <1>4, <2>1, <2>2 DEF Fail
<1>11. QED BY <1>5, <1>6, <1>7, <1>8, <1>9, <1>10 DEF StageOf, FAILURE_STATUSES

\* The service's own events come too late for it or are not known to _apply.
LEMMA EchoRaises ==
  ASSUME NEW type \in OwnTypes, NEW keys, NEW o,
         type = "QUOTE_APPROVED" => StatusStage(o.status) >= 1,
         type = "EXECUTION_STARTED" => StatusStage(o.status) >= 4
  PROVE  Apply(type, keys, o).raises
<1>1. CASE type = "QUOTE_APPROVED"
  <2>1. o.status # "QUOTE_REQUESTED"
    BY <1>1 DEF StatusStage
  <2>2. Dispatch(type, o) = MarkQuoteApproved(o)
    BY <1>1, Zenon DEF Dispatch, FAILURE_STATUSES
  <2>3. QED BY <2>1, <2>2 DEF Apply, MarkQuoteApproved, Move, Raise
<1>2. CASE type = "EXECUTION_STARTED"
  <2>1. o.status # "EXECUTION_REQUESTED"
    BY <1>2 DEF StatusStage
  <2>2. Dispatch(type, o) = MarkExecutionStarted(o)
    BY <1>2, Zenon DEF Dispatch, FAILURE_STATUSES
  <2>3. QED BY <2>1, <2>2 DEF Apply, MarkExecutionStarted, Move, Raise
<1>3. CASE type \notin {"QUOTE_APPROVED", "EXECUTION_STARTED"}
  <2>1. Dispatch(type, o) = Raise(o)
    BY <1>3 DEF Dispatch, OwnTypes, FAILURE_STATUSES
  <2>2. QED BY <2>1 DEF Apply, Raise
<1>4. QED BY <1>1, <1>2, <1>3

LEMMA QuoteCreatedStays ==
  ASSUME NEW keys, NEW o
  PROVE  Apply("QUOTE_CREATED", keys, o) = [raises |-> FALSE, order |-> o, event |-> NoEvent]
<1>1. RequiredKeys("QUOTE_CREATED") = {}
  BY DEF RequiredKeys
<1>2. Dispatch("QUOTE_CREATED", o) = [raises |-> FALSE, order |-> o, event |-> NoEvent]
  BY Zenon DEF Dispatch, FAILURE_STATUSES
<1>3. QED BY <1>1, <1>2 DEF Apply

LEMMA AnswerIsOwn ==
  ASSUME NEW type, StageOf(type) > 0
  PROVE  /\ Answer(type) \in OwnTypes \ {NoEvent}
         /\ Answer(type) = "QUOTE_APPROVED" => StageOf(type) = 1
         /\ Answer(type) = "EXECUTION_STARTED" => StageOf(type) = 4
         /\ type # "QUOTE_CREATED"
<1>1. CASE type \in FAILURE_STATUSES
  <2>1. Answer(type) = "OS_COMPENSATION_REQUIRED"
    BY <1>1, Zenon DEF Answer, FAILURE_STATUSES
  <2>2. QED BY <1>1, <2>1 DEF OwnTypes, FAILURE_STATUSES, NoEvent
<1>2. CASE type \notin FAILURE_STATUSES
  BY <1>2 DEF StageOf, Answer, OwnTypes, FAILURE_STATUSES, NoEvent
<1>3. QED BY <1>1, <1>2

-----------------------------------------------------------------------------
(* The conversation *)

\* Only one message ends a stage of an order, and what it leads to is what the
\* message of the next stage is for.
OnePerStage ==
  \A o \in Orders : \A m, n \in Moves(o) : StageOf(m.type) = StageOf(n.type) => m = n

Preceded ==
  \A o \in Orders : \A m \in Moves(o) : StageOf(m.type) > 1 =>
    \E n \in Moves(o) : StageOf(n.type) = StageOf(m.type) - 1 /\ Reached(n.type) = Awaited(m.type)

LEMMA PromptedBy ==
  ASSUME NEW o, NEW type, Prompted(o, type)
  PROVE  /\ type \in {"QUOTE_CREATED", "QUOTE_FAILED"} => HasPublished(o, "OS_OPENED")
         /\ type = "QUOTE_APPROVED" => HasSent(o, "QUOTE_CREATED")
         /\ type = "PAYMENT_PREFERENCE_CREATED" => HasSent(o, "QUOTE_APPROVED")
         /\ type \in {"PAYMENT_CONFIRMED", "PAYMENT_FAILED"} =>
              HasSent(o, "PAYMENT_PREFERENCE_CREATED")
         /\ type \in {"EXECUTION_QUEUED", "EXECUTION_ENQUEUE_FAILED"} =>
              HasPublished(o, "EXECUTION_REQUESTED")
         /\ type = "EXECUTION_STARTED" => HasSent(o, "EXECUTION_QUEUED")
         /\ type \in {"EXECUTION_COMPLETED", "EXECUTION_FAILED"} => HasSent(o, "EXECUTION_STARTED")
BY DEF Prompted

\* The partners send nothing else.
LEMMA PromptedTypes ==
  ASSUME NEW o, NEW type, Prompted(o, type)
  PROVE  StageOf(type) = 0 => type \in {"QUOTE_CREATED", "EXECUTION_QUEUED"}
BY DEF Prompted, StageOf

LEMMA OneEnd == Conversation => OnePerStage
<1> SUFFICES ASSUME Conversation, NEW o \in Orders, NEW m \in Moves(o), NEW n \in Moves(o),
                    StageOf(m.type) = StageOf(n.type)
             PROVE  m = n
  BY DEF OnePerStage
<1>1. /\ m \in sent /\ n \in sent /\ m.order = o /\ n.order = o
      /\ StageOf(m.type) \in 1 .. 5
  BY StageBounds DEF Moves
<1>2. Exclusive(m, n) => m = n
  BY <1>1 DEF Conversation
<1>3. ASSUME NEW a \in sent, NEW b \in sent, a.order = o, b.order = o,
             a.type = "QUOTE_APPROVED", b.type = "QUOTE_FAILED"
      PROVE  FALSE
  <2>1. HasSent(o, "QUOTE_CREATED")
    BY <1>3, PromptedBy DEF Conversation
  <2>2. PICK c \in sent : c.order = o /\ c.type = "QUOTE_CREATED"
    BY <2>1 DEF HasSent
  <2>3. Exclusive(b, c)
    BY <1>3, <2>2 DEF Exclusive, Alternatives
  <2>4. QED BY <1>3, <2>2, <2>3 DEF Conversation
<1>4. ASSUME NEW a \in sent, NEW b \in sent, a.order = o, b.order = o,
             a.type = "EXECUTION_STARTED", b.type = "EXECUTION_ENQUEUE_FAILED"
      PROVE  FALSE
  <2>1. HasSent(o, "EXECUTION_QUEUED")
    BY <1>4, PromptedBy DEF Conversation
  <2>2. PICK c \in sent : c.order = o /\ c.type = "EXECUTION_QUEUED"
    BY <2>1 DEF HasSent
  <2>3. Exclusive(b, c)
    BY <1>4, <2>2 DEF Exclusive, Alternatives
  <2>4. QED BY <1>4, <2>2, <2>3 DEF Conversation
<1>5. CASE StageOf(m.type) = 1
  <2>1. m.type \in {"QUOTE_APPROVED", "QUOTE_FAILED"} /\ n.type \in {"QUOTE_APPROVED", "QUOTE_FAILED"}
    BY <1>5, StageTypes
  <2>2. m.type = n.type
    BY <1>1, <1>3, <2>1
  <2>3. QED BY <1>2, <2>2 DEF Exclusive
<1>6. CASE StageOf(m.type) = 2
  BY <1>2, <1>6, StageTypes DEF Exclusive
<1>7. CASE StageOf(m.type) = 3
  BY <1>2, <1>7, StageTypes DEF Exclusive, Alternatives
<1>8. CASE StageOf(m.type) = 4
  BY <1>1, <1>2, <1>4, <1>8, StageTypes DEF Exclusive
<1>9. CASE StageOf(m.type) = 5
  BY <1>2, <1>9, StageTypes DEF Exclusive, Alternatives
<1>10. QED BY <1>1, <1>5, <1>6, <1>7, <1>8, <1>9

LEMMA OneEndNext == Conversation' => OnePerStage'
BY OneEnd, PTL

LEMMA EachFollows == Conversation /\ PaidInv /\ requests = 0 => Preceded
<1> SUFFICES ASSUME Conversation, PaidInv, requests = 0, NEW o \in Orders, NEW m \in Moves(o),
                    StageOf(m.type) > 1
             PROVE  \E n \in Moves(o) : /\ StageOf(n.type) = StageOf(m.type) - 1
                                        /\ Reached(n.type) = Awaited(m.type)
  BY DEF Preceded
<1>1. m \in sent /\ m.order = o /\ Prompted(o, m.type) /\ StageOf(m.type) \in 2 .. 5
  BY StageBounds DEF Moves, Conversation
<1>2. ASSUME NEW type, HasSent(o, type), StageOf(type) = StageOf(m.type) - 1,
             Reached(type) = Awaited(m.type)
      PROVE  \E n \in Moves(o) : /\ StageOf(n.type) = StageOf(m.type) - 1
                                 /\ Reached(n.type) = Awaited(m.type)
  BY <1>1, <1>2 DEF HasSent, Moves
<1>3. CASE StageOf(m.type) = 2
  <2>1. HasSent(o, "QUOTE_APPROVED") /\ StageOf("QUOTE_APPROVED") = 1
    BY <1>1, <1>3, StageTypes, PromptedBy DEF StageOf
  <2>2. QED BY <1>2, <1>3, <2>1, ReachedAwaited
<1>4. CASE StageOf(m.type) = 3
  <2>1. HasSent(o, "PAYMENT_PREFERENCE_CREATED") /\ StageOf("PAYMENT_PREFERENCE_CREATED") = 2
    BY <1>1, <1>4, StageTypes, PromptedBy DEF StageOf
  <2>2. QED BY <1>2, <1>4, <2>1, ReachedAwaited
<1>5. CASE StageOf(m.type) = 4
  <2>1. HasPublished(o, "EXECUTION_REQUESTED")
    <3>1. CASE m.type = "EXECUTION_STARTED"
      <4>1. PICK c \in sent : c.order = o /\ c.type = "EXECUTION_QUEUED"
        BY <1>1, <3>1, PromptedBy DEF HasSent
      <4>2. QED BY <4>1, PromptedBy DEF Conversation
    <3>2. QED BY <1>1, <1>5, <3>1, StageTypes, PromptedBy
  <2>2. HasSent(o, "PAYMENT_CONFIRMED") /\ StageOf("PAYMENT_CONFIRMED") = 3
    BY <2>1 DEF PaidInv, PublishedJustified, StageOf
  <2>3. QED BY <1>2, <1>5, <2>2, ReachedAwaited
<1>6. CASE StageOf(m.type) = 5
  <2>1. HasSent(o, "EXECUTION_STARTED") /\ StageOf("EXECUTION_STARTED") = 4
    BY <1>1, <1>6, StageTypes, PromptedBy DEF StageOf
  <2>2. QED BY <1>2, <1>6, <2>1, ReachedAwaited
<1>7. QED BY <1>1, <1>3, <1>4, <1>5, <1>6

\* A message of a stage is preceded by one of each stage before it.
LEMMA StagesInBetween ==
  ASSUME Preceded, NEW o \in Orders, NEW m \in Moves(o), NEW k \in 1 .. StageOf(m.type)
  PROVE  \E n \in Moves(o) : StageOf(n.type) = k
<1>1. ASSUME NEW n \in Moves(o), k < StageOf(n.type)
      PROVE  \E p \in Moves(o) : StageOf(p.type) = StageOf(n.type) - 1
  BY <1>1, StageBounds DEF Preceded
<1>2. StageOf(m.type) \in 1 .. 5 /\ k \in 1 .. 5 /\ k <= StageOf(m.type)
  BY StageBounds DEF Moves
<1>3. PICK a \in Moves(o) : StageOf(a.type) \in {k, StageOf(m.type) - 1}
                            /\ k <= StageOf(a.type) /\ StageOf(a.type) <= 5
  BY <1>1, <1>2
<1>4. PICK b \in Moves(o) : StageOf(b.type) \in {k, StageOf(a.type) - 1}
                            /\ k <= StageOf(b.type) /\ StageOf(b.type) <= 5
  BY <1>1, <1>2, <1>3
<1>5. PICK c \in Moves(o) : StageOf(c.type) \in {k, StageOf(b.type) - 1}
                            /\ k <= StageOf(c.type) /\ StageOf(c.type) <= 5
  BY <1>1, <1>2, <1>4
<1>6. PICK d \in Moves(o) : StageOf(d.type) \in {k, StageOf(c.type) - 1}
  BY <1>1, <1>2, <1>5
<1>7. QED BY <1>2, <1>3, <1>4, <1>5, <1>6

\* So a message that moves an order is of a later stage than the ones sent before.
LEMMA RepliesRise ==
  ASSUME Conversation, PaidInv, requests = 0, Conversation', NEW m \in Inputs, Reply(m),
         m.order \in Orders, StageOf(m.type) > 0, NEW n \in Moves(m.order)
  PROVE  StageOf(n.type) < StageOf(m.type)
<1>1. Preceded /\ OnePerStage'
  BY EachFollows, OneEndNext
<1>2. m \notin sent /\ m \in Moves(m.order)' /\ Moves(m.order) \subseteq Moves(m.order)'
  BY DEF Reply, Settled, HasSent, Moves
<1>3. SUFFICES ASSUME StageOf(m.type) <= StageOf(n.type) PROVE FALSE
  BY StageBounds
<1>4. PICK p \in Moves(m.order) : StageOf(p.type) = StageOf(m.type)
  BY <1>1, <1>3, StageBounds, StagesInBetween
<1>5. p = m
  BY <1>1, <1>2, <1>4 DEF OnePerStage
<1>6. QED BY <1>2, <1>4, <1>5 DEF Moves

LEMMA PublishedGrows ==
  ASSUME SagaInv, [JointNext]_jointVars, NEW o, NEW ev, HasPublished(o, ev)
  PROVE  HasPublished(o, ev)'
<1>1. published \in Seq(Messages)
  BY DEF SagaInv, TypeOK
<1>2. published' = published \/ \E m : published' = Append(published, m)
  <2>1. ASSUME NEW a, UseCaseStep(a) PROVE published' = published \/ \E m : published' = Append(published, m)
    BY <2>1 DEF UseCaseStep, LoadAndApply, Save, Publish, broker
  <2>2. ASSUME NEW w, WorkerStep(w) PROVE published' = published \/ \E m : published' = Append(published, m)
    BY <2>1, <2>2 DEF WorkerStep, Deliver, IsProcessed, MarkProcessed, InsertProcessed, Ack, Nack,
                      Settle, broker
  <2>3. ASSUME NEW t, Request(t) PROVE published' = published
    BY <2>3 DEF Request, Open, PostEvent, broker
  <2>4. Fault => published' = published
    BY DEF Fault, Crash, CallFails, ConnectionLost, BrokerRestart, broker
  <2>5. QED BY <2>1, <2>2, <2>3, <2>4 DEF JointNext, jointVars, vars, broker, Reply, Send, ServiceStep
<1>3. \A i \in DOMAIN published : i \in DOMAIN published' /\ published'[i] = published[i]
  BY <1>1, <1>2
<1>4. QED BY <1>3 DEF HasPublished, PublishedOf

LEMMA PromptedStays ==
  ASSUME SagaInv, [JointNext]_jointVars, sent \subseteq sent', NEW o, NEW type, Prompted(o, type)
  PROVE  Prompted(o, type)'
<1>1. \A ev : HasPublished(o, ev) => HasPublished(o, ev)'
  BY PublishedGrows
<1>2. \A ev : HasSent(o, ev) => HasSent(o, ev)'
  BY DEF HasSent
<1>3. QED BY <1>1, <1>2, Zenon DEF Prompted

LEMMA StepConversation == SagaInv /\ Conversation /\ [JointNext]_jointVars => Conversation'
<1> SUFFICES ASSUME SagaInv, Conversation, [JointNext]_jointVars PROVE Conversation'
  OBVIOUS
<1>1. CASE sent' = sent
  <2>1. ASSUME NEW m \in sent PROVE Prompted(m.order, m.type)'
    BY <1>1, PromptedStays DEF Conversation
  <2>2. QED BY <1>1, <2>1 DEF Conversation
<1>2. ASSUME NEW m \in Inputs, Reply(m) PROVE Conversation'
  <2>1. sent' = sent \cup {m} /\ Prompted(m.order, m.type) /\ ~Settled(m.order, m.type)
    BY <1>2 DEF Reply
  <2>2. ASSUME NEW n \in sent' PROVE Prompted(n.order, n.type)'
    <3>1. Prompted(n.order, n.type)
      BY <2>1, <2>2 DEF Conversation
    <3>2. QED BY <2>1, <3>1, PromptedStays
  <2>3. ASSUME NEW n \in sent, n.order = m.order PROVE ~Exclusive(m, n) /\ ~Exclusive(n, m)
    BY <2>1, <2>3 DEF Settled, HasSent, Exclusive
  <2>4. ASSUME NEW n \in sent', NEW p \in sent', n.order = p.order, Exclusive(n, p) PROVE n = p
    BY <2>1, <2>3, <2>4 DEF Conversation
  <2>5. QED BY <2>1, <2>2, <2>4 DEF Conversation
<1>3. QED BY <1>1, <1>2 DEF JointNext, jointVars
LEMMA NoneLate == SagaInv /\ PaidInv /\ Conversation => NoFailureIsLate
<1> SUFFICES ASSUME SagaInv, PaidInv, Conversation, requests = 0,
                    NEW o \in Orders, orders[o].status \in FAILURE_STATUSES,
                    NEW i \in DOMAIN orders[o].history,
                    orders[o].history[i] = Denied(orders[o].status)
             PROVE  FALSE
  BY DEF NoFailureIsLate
<1>1. PICK row : row = orders[o]
  OBVIOUS
<1>2. PICK failure \in FAILURE_STATUSES : failure = row.status
  BY <1>1
<1>3. failure \in Reports /\ failure = Entry(failure)
  BY EntryOf DEF Reports, FAILURE_STATUSES
<1>4. Vouched(o, row)
  BY <1>1 DEF PaidInv, RowsVouched
<1>5. HasSent(o, failure)
  <2>1. HasRow(o)
    BY <1>1, <1>2 DEF HasRow, NoRow, FAILURE_STATUSES
  <2>2. row \in Order /\ IsCoherent(row)
    BY <1>1, <2>1 DEF SagaInv, TypeOK, RowsAreCoherent, HasRow, Row
  <2>3. row.history \in Seq(ServiceOrderStatus) /\ row.history # <<>>
        /\ row.history[Len(row.history)] = failure
    BY <1>2, <2>2 DEF Order, IsCoherent
  <2>4. Len(row.history) \in DOMAIN row.history
    BY <2>3
  <2>5. QED BY <1>3, <1>4, <2>3, <2>4 DEF Vouched
<1>6. PICK success \in Reports : /\ Entry(success) = Denied(failure) /\ success # failure
                                 /\ StageOf(success) = StageOf(failure) /\ StageOf(failure) > 0
  <2>1. CASE failure = "QUOTE_FAILED"
    <3>1. Denied(failure) = "QUOTE_APPROVED"
      BY <2>1 DEF Denied
    <3>2. "QUOTE_APPROVED" \in Reports /\ Entry("QUOTE_APPROVED") = "QUOTE_APPROVED"
      BY EntryOf DEF Reports
    <3>3. QED BY <2>1, <3>1, <3>2 DEF StageOf
  <2>2. CASE failure = "PAYMENT_FAILED"
    <3>1. Denied(failure) = "PAYMENT_CONFIRMED"
      BY <2>2 DEF Denied
    <3>2. "PAYMENT_CONFIRMED" \in Reports /\ Entry("PAYMENT_CONFIRMED") = "PAYMENT_CONFIRMED"
      BY EntryOf DEF Reports
    <3>3. QED BY <2>2, <3>1, <3>2 DEF StageOf
  <2>3. CASE failure = "EXECUTION_ENQUEUE_FAILED"
    <3>1. Denied(failure) = "EXECUTION_IN_PROGRESS"
      BY <2>3 DEF Denied
    <3>2. "EXECUTION_STARTED" \in Reports /\ Entry("EXECUTION_STARTED") = "EXECUTION_IN_PROGRESS"
      BY DEF Reports, Entry
    <3>3. QED BY <2>3, <3>1, <3>2 DEF StageOf
  <2>4. CASE failure = "EXECUTION_FAILED"
    <3>1. Denied(failure) = "COMPLETED"
      BY <2>4 DEF Denied
    <3>2. "EXECUTION_COMPLETED" \in Reports /\ Entry("EXECUTION_COMPLETED") = "COMPLETED"
      BY DEF Reports, Entry
    <3>3. QED BY <2>4, <3>1, <3>2 DEF StageOf
  <2>5. QED BY <2>1, <2>2, <2>3, <2>4 DEF FAILURE_STATUSES
<1>7. HasSent(o, success)
  BY <1>1, <1>2, <1>4, <1>6 DEF Vouched
<1>8. \A type : HasSent(o, type) /\ StageOf(type) > 0 => \E m \in Moves(o) : m.type = type
  BY DEF HasSent, Moves
<1>9. QED BY <1>5, <1>6, <1>7, <1>8, OneEnd DEF OnePerStage

\* Through crashes, redeliveries, echoes and any number of workers: an order that is saved
\* as failed had not passed the stage that failed.  The aggregate does not see to it (fail
\* looks at no stage); it holds because the history only records what was reported and
\* each stage is reported once.
THEOREM FailuresAreInTime == JointSpec => []NoFailureIsLate
<1>1. JointInit => Conversation
  BY DEF JointInit, Conversation
<1>2. QED BY <1>1, NoneLate, InitPaid, StepPaid, StepConversation, SagaInvariant, PartnersAreInputs,
             PTL DEF JointSpec

-----------------------------------------------------------------------------
(* What the steps leave true *)

\* The deployment's single worker replica.
OneWorker == \A v, w \in Workers : v = w

RowsAdvance == \A o \in Orders : HasRow(o) => HasRow(o)' /\ RowStage(o) <= RowStage(o)'

LEMMA StaleStays ==
  ASSUME RowsAdvance, NEW o, NEW type, Stale(o, type) PROVE Stale(o, type)'
<1>1. o \in Orders /\ HasRow(o)' /\ RowStage(o) <= RowStage(o)'
  BY DEF Stale, RowsAdvance, HasRow
<1>2. RowStage(o) \in 0 .. 5 /\ RowStage(o)' \in 0 .. 5
  BY StageBounds DEF RowStage
<1>3. QED BY <1>1, <1>2 DEF Stale

LEMMA ToldStays ==
  ASSUME RowsAdvance, sent \subseteq sent', NEW m, Told(m) PROVE Told(m)'
<1>1. CASE m \in sent
  BY <1>1 DEF Told
<1>2. CASE IsOwn(m) /\ Stale(m.order, m.type)
  <2>1. Stale(m.order, m.type)'
    BY <1>2, StaleStays
  <2>2. QED BY <1>2, <2>1 DEF Told, IsOwn
<1>3. QED BY <1>1, <1>2 DEF Told

LEMMA QueueStaysTold ==
  ASSUME RowsAdvance, sent \subseteq sent', QueueTold, UNCHANGED queue PROVE QueueTold'
<1>1. ASSUME NEW i \in DOMAIN queue PROVE Told(queue[i])'
  <2>1. PICK m : m = queue[i]
    OBVIOUS
  <2>2. Told(m)'
    BY <2>1, ToldStays DEF QueueTold
  <2>3. QED BY <2>1, <2>2 DEF Told, IsOwn, Stale
<1>2. QED BY <1>1 DEF QueueTold

LEMMA PublishedStaysStale ==
  ASSUME RowsAdvance, PublishedStale, UNCHANGED published PROVE PublishedStale'
<1>1. ASSUME NEW i \in DOMAIN published PROVE Stale(published[i].order, published[i].type)'
  <2>1. PICK o, type : o = published[i].order /\ type = published[i].type
    OBVIOUS
  <2>2. Stale(o, type)'
    BY <2>1, StaleStays DEF PublishedStale
  <2>3. QED BY <2>1, <2>2 DEF Stale
<1>2. QED BY <1>1 DEF PublishedStale

LEMMA RowsStay == ASSUME UNCHANGED orders PROVE RowsAdvance
BY StageBounds DEF RowsAdvance, HasRow, RowStage

\* Partners do not pretend to be the service.
LEMMA SentIsForeign ==
  ASSUME Conversation, NEW m \in sent
  PROVE  m \in Inputs /\ m \in Messages /\ ~IsOwn(m)
BY SagaConstants DEF Conversation, IsOwn

\* The queue keeps the partners' messages where they are.
OnlyEchoes ==
  /\ \A i \in DOMAIN queue : i \in DOMAIN queue' /\ queue'[i] = queue[i]
  /\ \A i \in DOMAIN queue' : i \in DOMAIN queue \/ queue'[i] \notin sent

\* A step of the worker that changes no row.
LEMMA WorkerSteps ==
  ASSUME OneWorker, SagaInv, Live, UNCHANGED <<orders, sent>>, OnlyEchoes, QueueTold',
         PublishedStale', ProcessedIsBehind',
         NEW w \in Workers, NEW j, Become(w, j), WorkerTold(j)',
         Handling(j) => Handling(job[w]) /\ j.msg = job[w].msg,
         Handling(job[w]) /\ ~Handling(j) => \A o : job[w].msg \notin Moves(o)
  PROVE  Live'
<1>1. job' = [job EXCEPT ![w] = IF j.phase = "idle" THEN Idle ELSE j] /\ DOMAIN job = Actors
  BY DEF Become, SagaInv, TypeOK
<1>2. w \in Actors /\ Threads \subseteq Actors /\ \A t \in Threads : t # w
  BY SagaConstants DEF Actors
<1>3. PICK k : k = job'[w]
  OBVIOUS
<1>4. k = (IF j.phase = "idle" THEN Idle ELSE j) /\ \A t \in Threads : job'[t] = job[t]
  BY <1>1, <1>2, <1>3
<1>5. Idle.phase = "idle"
  BY DEF Idle, Busy
<1>6. (Handling(k) <=> Handling(j)) /\ (Handling(k) => k.msg = j.msg)
  BY <1>4, <1>5 DEF Handling
<1>7. \A v \in Workers : v = w
  BY DEF OneWorker
<1>8. RowsTold'
  BY DEF Live, RowsTold, HasRow, Moves
<1>9. QueueSorted'
  <2> SUFFICES ASSUME NEW p \in DOMAIN queue', NEW q \in DOMAIN queue', p < q,
                      Comparable(queue'[p], queue'[q])
               PROVE  Before(queue'[p], queue'[q])
    BY DEF QueueSorted, Comparable, Before
  <2>1. /\ p \in DOMAIN queue /\ queue'[p] = queue[p]
        /\ q \in DOMAIN queue /\ queue'[q] = queue[q]
    BY DEF OnlyEchoes, Comparable
  <2>2. QED BY <2>1 DEF Live, QueueSorted
<1>10. WorkerAhead'
  <2> SUFFICES ASSUME Handling(k), NEW i \in DOMAIN queue', Comparable(k.msg, queue'[i])
               PROVE  Before(k.msg, queue'[i])
    BY <1>3, <1>7 DEF WorkerAhead, Handling, Comparable, Before
  <2>1. i \in DOMAIN queue /\ queue'[i] = queue[i]
    BY DEF OnlyEchoes, Comparable
  <2>2. Handling(job[w]) /\ k.msg = job[w].msg
    BY <1>6
  <2>3. QED BY <2>1, <2>2 DEF Live, WorkerAhead
<1>11. AwaitingIsAhead'
  <2> SUFFICES ASSUME NEW o \in Orders, NEW m \in Moves(o) PROVE Awaiting(m)' <=> Awaiting(m)
    BY DEF Live, AwaitingIsAhead, Moves, RowStage
  <2>1. (\E i \in DOMAIN queue' : queue'[i] = m) <=> (\E i \in DOMAIN queue : queue[i] = m)
    BY DEF OnlyEchoes, Moves
  <2>2. (\E v \in Workers : Handling(job[v])' /\ job'[v].msg = m) <=> (Handling(k) /\ k.msg = m)
    BY <1>3, <1>7 DEF Handling
  <2>3. (\E v \in Workers : Handling(job[v]) /\ job[v].msg = m) <=> (Handling(job[w]) /\ job[w].msg = m)
    BY <1>7
  <2>4. (Handling(k) /\ k.msg = m) <=> (Handling(job[w]) /\ job[w].msg = m)
    BY <1>6
  <2>5. QED BY <2>1, <2>2, <2>3, <2>4 DEF Awaiting
<1>12. WorkersTold'
  <2>1. WorkerTold(k)'
    BY <1>4, <1>5 DEF WorkerTold
  <2>2. QED BY <1>3, <1>7, <2>1 DEF WorkersTold, WorkerTold, Told, IsOwn
<1>13. ThreadsOpen'
  BY <1>4 DEF Live, ThreadsOpen, ThreadOpens, HasRow, At
<1>14. QED BY <1>8, <1>9, <1>10, <1>11, <1>12, <1>13 DEF Live

\* A step of a thread, which changes no row that is there.
LEMMA ThreadSteps ==
  ASSUME SagaInv, Live, UNCHANGED <<processed, sent>>, OnlyEchoes, QueueTold', PublishedStale',
         NEW t \in Threads, NEW j, Become(t, j), ThreadOpens(j)',
         \A u \in Threads \ {t} : At(u, "save") /\ j.phase = "save" => job[u].msg.order # j.msg.order,
         \A o \in Orders : HasRow(o) => orders'[o] = orders[o],
         \A o \in Orders : ~HasRow(o) /\ HasRow(o)' =>
           /\ orders'[o].status = "QUOTE_REQUESTED"
           /\ \A u \in Threads \ {t} : At(u, "save") => job[u].msg.order # o
  PROVE  Live'
<1>1. job' = [job EXCEPT ![t] = IF j.phase = "idle" THEN Idle ELSE j] /\ DOMAIN job = Actors
  BY DEF Become, SagaInv, TypeOK
<1>2. t \in Actors /\ Threads \subseteq Actors /\ Workers \subseteq Actors /\ \A w \in Workers : w # t
  BY SagaConstants DEF Actors
<1>3. PICK k : k = job'[t]
  OBVIOUS
<1>4. /\ k = (IF j.phase = "idle" THEN Idle ELSE j)
      /\ \A u \in Threads \ {t} : job'[u] = job[u]
      /\ \A w \in Workers : job'[w] = job[w]
  BY <1>1, <1>2, <1>3
<1>5. Idle.phase = "idle"
  BY DEF Idle, Busy
<1>6. \A m \in sent : /\ HasRow(m.order) /\ m.order \in Orders
                      /\ orders'[m.order] = orders[m.order] /\ HasRow(m.order)'
  BY DEF Live, RowsTold, HasRow
<1>7. RowsTold'
  <2>1. ASSUME NEW o \in Orders, HasRow(o)'
        PROVE  \/ orders'[o].status = "QUOTE_REQUESTED"
               \/ \E m \in Moves(o) : orders'[o].status = Reached(m.type)
    BY <2>1 DEF Live, RowsTold
  <2>2. QED BY <1>6, <2>1 DEF RowsTold, Moves
<1>8. QueueSorted'
  <2> SUFFICES ASSUME NEW p \in DOMAIN queue', NEW q \in DOMAIN queue', p < q,
                      Comparable(queue'[p], queue'[q])
               PROVE  Before(queue'[p], queue'[q])
    BY DEF QueueSorted, Comparable, Before
  <2>1. /\ p \in DOMAIN queue /\ queue'[p] = queue[p]
        /\ q \in DOMAIN queue /\ queue'[q] = queue[q]
    BY DEF OnlyEchoes, Comparable
  <2>2. QED BY <2>1 DEF Live, QueueSorted
<1>9. WorkerAhead'
  <2> SUFFICES ASSUME NEW w \in Workers, Handling(job[w]), NEW i \in DOMAIN queue',
                      Comparable(job[w].msg, queue'[i])
               PROVE  Before(job[w].msg, queue'[i])
    BY <1>4 DEF WorkerAhead, Handling, Comparable, Before
  <2>1. i \in DOMAIN queue /\ queue'[i] = queue[i]
    BY DEF OnlyEchoes, Comparable
  <2>2. QED BY <2>1 DEF Live, WorkerAhead
<1>10. AwaitingIsAhead'
  <2> SUFFICES ASSUME NEW o \in Orders, NEW m \in Moves(o)
               PROVE  (Awaiting(m)' <=> Awaiting(m)) /\ RowStage(o)' = RowStage(o)
    BY DEF Live, AwaitingIsAhead, Moves
  <2>1. (\E i \in DOMAIN queue' : queue'[i] = m) <=> (\E i \in DOMAIN queue : queue[i] = m)
    BY DEF OnlyEchoes, Moves
  <2>2. QED BY <1>4, <1>6, <2>1 DEF Awaiting, Moves, RowStage, Handling
<1>11. ProcessedIsBehind'
  BY <1>6 DEF Live, ProcessedIsBehind, RowStage
<1>12. WorkersTold'
  <2>1. RowsAdvance
    BY StageBounds DEF RowsAdvance, HasRow, RowStage
  <2>2. ASSUME NEW w \in Workers PROVE WorkerTold(job[w])'
    <3>1. PICK x : x = job[w] /\ x = job'[w] /\ WorkerTold(x)
      BY <1>4 DEF Live, WorkersTold
    <3>2. x.phase # "idle" => Told(x.msg)'
      BY <2>1, <3>1, ToldStays DEF WorkerTold
    <3>3. x.msg \in sent => orders'[x.msg.order] = orders[x.msg.order]
                            /\ RowStage(x.msg.order)' = RowStage(x.msg.order)
      BY <1>6 DEF RowStage
    <3>4. WorkerTold(x)'
      BY <3>1, <3>2, <3>3 DEF WorkerTold
    <3>5. QED BY <3>1, <3>4 DEF WorkerTold, Told, IsOwn
  <2>3. QED BY <2>2 DEF WorkersTold
<1>13. ThreadsOpen'
  <2>1. ASSUME NEW u \in Threads \ {t} PROVE ThreadOpens(job[u])'
    <3>1. PICK x : x = job[u] /\ x = job'[u] /\ ThreadOpens(x)
      BY <1>4 DEF Live, ThreadsOpen
    <3>2. x.phase = "save" => ~HasRow(x.msg.order)'
      BY <3>1 DEF ThreadOpens, HasRow, At
    <3>3. HasRow(x.msg.order) => HasRow(x.msg.order)'
      BY DEF HasRow
    <3>4. ThreadOpens(x)'
      BY <3>1, <3>2, <3>3 DEF ThreadOpens
    <3>5. QED BY <3>1, <3>4 DEF ThreadOpens
  <2>2. ThreadOpens(job[t])'
    <3>1. ThreadOpens(k)'
      BY <1>4, <1>5 DEF ThreadOpens
    <3>2. QED BY <1>3, <3>1 DEF ThreadOpens
  <2>3. ASSUME NEW u \in Threads \ {t}, At(u, "save")', At(t, "save")'
        PROVE  job'[u].msg.order # job'[t].msg.order
    BY <1>3, <1>4, <1>5, <2>3 DEF At
  <2>4. ASSUME NEW u \in Threads \ {t}, NEW v \in Threads \ {t}, At(u, "save")', At(v, "save")',
               job'[u].msg.order = job'[v].msg.order
        PROVE  u = v
    BY <1>4, <2>4 DEF At, Live, ThreadsOpen
  <2>5. QED BY <2>1, <2>2, <2>3, <2>4 DEF ThreadsOpen
<1>14. QED BY <1>7, <1>8, <1>9, <1>10, <1>11, <1>12, <1>13 DEF Live

-----------------------------------------------------------------------------
(* Each step keeps it *)

\* The row of a message the worker handles is in the status the message is for.
LEMMA InTime ==
  ASSUME OneWorker, PaidInv, requests = 0, Conversation, Live, NEW w \in Workers,
         Handling(job[w]), NEW o \in Orders, job[w].msg \in Moves(o)
  PROVE  HasRow(o) /\ orders[o].status = Awaited(job[w].msg.type)
<1>1. PICK m : m = job[w].msg
  OBVIOUS
<1>2. Preceded /\ OnePerStage
  BY EachFollows, OneEnd
<1>3. m \in sent /\ m.order = o /\ StageOf(m.type) > 0 /\ HasRow(o)
  BY <1>1 DEF Moves, Live, RowsTold
<1>4. StageOf(m.type) > RowStage(o)
  <2>1. Awaiting(m)
    BY <1>1 DEF Awaiting
  <2>2. QED BY <1>1, <2>1 DEF Live, AwaitingIsAhead
<1>5. \A n \in Moves(o) : StageOf(n.type) < StageOf(m.type) => StageOf(n.type) <= RowStage(o)
  <2> SUFFICES ASSUME NEW n \in Moves(o), StageOf(n.type) < StageOf(m.type), StageOf(n.type) > RowStage(o)
               PROVE  FALSE
    BY StageBounds DEF RowStage
  <2>1. Awaiting(n)
    BY DEF Live, AwaitingIsAhead
  <2>2. n # m
    BY StageBounds
  <2>3. PICK i \in DOMAIN queue : queue[i] = n
    BY <1>1, <2>1, <2>2 DEF Awaiting, OneWorker
  <2>4. Comparable(m, n)
    BY <1>3 DEF Comparable, Moves
  <2>5. Before(m, n)
    BY <1>1, <2>3, <2>4 DEF Live, WorkerAhead
  <2>6. QED BY <2>5, StageBounds DEF Before
<1>6. StageOf(m.type) \in 1 .. 5 /\ RowStage(o) \in 0 .. 5
  BY <1>3, StageBounds DEF RowStage
<1>7. StageOf(m.type) > 1 =>
        \E p \in Moves(o) : /\ StageOf(p.type) = StageOf(m.type) - 1
                            /\ Reached(p.type) = Awaited(m.type)
  BY <1>1, <1>2 DEF Preceded
<1>8. CASE orders[o].status = "QUOTE_REQUESTED"
  <2>1. RowStage(o) = 0
    BY <1>8 DEF RowStage, StatusStage
  <2>2. StageOf(m.type) = 1
    BY <1>5, <1>6, <1>7, <2>1
  <2>3. QED BY <1>1, <1>3, <1>8, <2>2, ReachedAwaited
<1>9. ASSUME NEW n \in Moves(o), orders[o].status = Reached(n.type)
      PROVE  orders[o].status = Awaited(m.type)
  <2>1. RowStage(o) = StageOf(n.type) /\ StageOf(n.type) \in 1 .. 5
    BY <1>9, ReachedStage, StageBounds DEF RowStage, Moves
  <2>2. PICK p \in Moves(o) : /\ StageOf(p.type) = StageOf(m.type) - 1
                              /\ Reached(p.type) = Awaited(m.type)
    BY <1>4, <1>6, <1>7, <2>1
  <2>3. StageOf(p.type) = StageOf(n.type)
    BY <1>4, <1>5, <1>6, <2>1, <2>2
  <2>4. p = n
    BY <1>2, <2>3 DEF OnePerStage
  <2>5. QED BY <1>9, <2>2, <2>4
<1>10. QED BY <1>1, <1>3, <1>8, <1>9 DEF Live, RowsTold

\* What a worker's use case makes of the message it handles.
CompletePayloads == \A m \in Inputs : RequiredKeys(m.type) \subseteq m.keys

LEMMA OutcomeOfMove ==
  ASSUME OneWorker, CompletePayloads, PaidInv, requests = 0, Conversation, Live,
         NEW w \in Workers, Handling(job[w]), NEW m, m = job[w].msg, m \in Moves(m.order),
         NEW row, row = orders[m.order]
  PROVE  /\ HasRow(m.order)
         /\ LET r == Apply(m.type, m.keys, row)
            IN  ~r.raises /\ r.order.status = Reached(m.type) /\ r.event = Answer(m.type)
<1>1. m \in sent /\ m \in Inputs /\ StageOf(m.type) > 0 /\ RequiredKeys(m.type) \subseteq m.keys
  BY DEF Moves, Conversation, CompletePayloads
<1>2. m.order \in Orders
  BY <1>1 DEF Live, RowsTold, HasRow
<1>3. HasRow(m.order) /\ row.status = Awaited(m.type)
  BY <1>2, InTime
<1>4. QED BY <1>1, <1>3, TakenInTime

LEMMA StagesInContract ==
  ASSUME NEW type, StageOf(type) > 0 PROVE type \in INTEGRATION_EVENT_TYPES
BY DEF StageOf, INTEGRATION_EVENT_TYPES

LEMMA PeersLoad ==
  ASSUME OneWorker, CompletePayloads, SagaInv, PaidInv, requests = 0, Conversation, Live,
         UNCHANGED sent, NEW w \in Workers, LoadAndApply(w)
  PROVE  Live'
<1>1. PICK m : m = job[w].msg
  OBVIOUS
<1>2. PICK row : row = orders[m.order]
  OBVIOUS
<1>3. PICK r : r = IF HasRow(m.order) THEN Apply(m.type, m.keys, row) ELSE Raise(NoRow)
  OBVIOUS
<1>4. PICK j : j = Busy(IF r.raises THEN "nack" ELSE "save", m, r.order, r.event) /\ Become(w, j)
  BY <1>1, <1>2, <1>3 DEF LoadAndApply, Failed
<1>5. /\ j.phase = IF r.raises THEN "nack" ELSE "save"
      /\ j.msg = m /\ j.copy = r.order /\ j.next = r.event
  BY <1>4 DEF Busy
<1>6. UNCHANGED <<orders, processed, queue, published>> /\ job[w].phase = "get"
  BY DEF LoadAndApply, tables, broker, At
<1>7. Told(m) /\ m.type \in INTEGRATION_EVENT_TYPES /\ Handling(job[w])
  BY <1>1, <1>6 DEF Live, WorkersTold, WorkerTold, Handling
<1>8. RowsAdvance /\ OnlyEchoes /\ QueueTold' /\ PublishedStale' /\ ProcessedIsBehind' /\ Told(m)'
  <2>1. RowsAdvance
    BY <1>6, RowsStay
  <2>2. OnlyEchoes
    BY <1>6 DEF OnlyEchoes
  <2>3. ProcessedIsBehind'
    BY <1>6 DEF Live, ProcessedIsBehind, RowStage
  <2>4. QED BY <1>6, <1>7, <2>1, <2>2, <2>3, QueueStaysTold, PublishedStaysStale, ToldStays DEF Live
<1>9. ASSUME WorkerTold(j)', j.phase # "save" => IsOwn(m) PROVE Live'
  <2>1. Handling(job[w]) /\ ~Handling(j) => \A o : job[w].msg \notin Moves(o)
    BY <1>1, <1>5, <1>9, SentIsForeign DEF Handling, Moves
  <2>2. QED BY <1>1, <1>4, <1>5, <1>6, <1>7, <1>8, <1>9, <2>1, WorkerSteps
<1>10. CASE m \notin sent
  <2>1. IsOwn(m) /\ Stale(m.order, m.type)
    BY <1>7, <1>10 DEF Told
  <2>2. r.raises
    <3>1. Apply(m.type, m.keys, row).raises
      BY <1>2, <2>1, EchoRaises DEF Stale, RowStage
    <3>2. QED BY <1>3, <2>1, <3>1 DEF Stale
  <2>3. WorkerTold(j)'
    BY <1>5, <1>8, <2>1, <2>2 DEF WorkerTold, IsOwn
  <2>4. QED BY <1>9, <2>1, <2>3
<1>11. CASE m \in sent /\ StageOf(m.type) = 0
  <2>1. m.type = "QUOTE_CREATED"
    <3>1. Prompted(m.order, m.type)
      BY <1>11 DEF Conversation
    <3>2. m.type \in {"QUOTE_CREATED", "EXECUTION_QUEUED"}
      BY <1>11, <3>1, PromptedTypes
    <3>3. QED BY <1>7, <3>2 DEF INTEGRATION_EVENT_TYPES
  <2>2. HasRow(m.order)
    BY <1>11 DEF Live, RowsTold
  <2>3. r = [raises |-> FALSE, order |-> row, event |-> NoEvent]
    BY <1>3, <2>1, <2>2, QuoteCreatedStays
  <2>4. j.phase = "save" /\ j.copy = row /\ j.next = NoEvent
    BY <1>5, <2>3
  <2>5. WorkerTold(j)'
    BY <1>2, <1>5, <1>6, <1>7, <1>8, <1>11, <2>4 DEF WorkerTold
  <2>6. QED BY <1>9, <2>4, <2>5
<1>12. CASE m \in Moves(m.order)
  <2>1. /\ HasRow(m.order)
        /\ LET x == Apply(m.type, m.keys, row)
           IN  ~x.raises /\ x.order.status = Reached(m.type) /\ x.event = Answer(m.type)
    BY <1>1, <1>2, <1>7, <1>12, OutcomeOfMove
  <2>2. ~r.raises /\ r.order.status = Reached(m.type) /\ r.event = Answer(m.type)
    BY <1>3, <2>1
  <2>3. j.phase = "save" /\ j.copy.status = Reached(m.type) /\ j.next = Answer(m.type)
    BY <1>5, <2>2
  <2>4. m \in sent /\ StageOf(m.type) > 0
    BY <1>12 DEF Moves
  <2>5. WorkerTold(j)'
    BY <1>5, <1>6, <1>7, <1>8, <2>3, <2>4 DEF WorkerTold
  <2>6. QED BY <1>9, <2>3, <2>5
<1>13. QED BY <1>10, <1>11, <1>12, StageBounds DEF Moves

LEMMA PeersSave ==
  ASSUME OneWorker, SagaInv, Conversation, Live, UNCHANGED sent, NEW w \in Workers, Save(w)
  PROVE  Live'
<1>1. PICK m : m = job[w].msg
  OBVIOUS
<1>2. PICK copy, next : copy = job[w].copy /\ next = job[w].next
  OBVIOUS
<1>3. PICK o : o = m.order
  OBVIOUS
<1>4. /\ job[w].phase = "save" /\ orders' = [orders EXCEPT ![o] = copy]
      /\ Goto(w, IF next = NoEvent THEN "mark" ELSE "publish")
      /\ UNCHANGED <<processed, queue, published>>
  BY <1>1, <1>2, <1>3 DEF Save, At, Handled, broker
<1>5. PICK j : j = Busy(IF next = NoEvent THEN "mark" ELSE "publish", m, copy, next) /\ Become(w, j)
  BY <1>1, <1>2, <1>4 DEF Goto
<1>6. /\ j.phase = IF next = NoEvent THEN "mark" ELSE "publish"
      /\ j.msg = m /\ j.copy = copy /\ j.next = next
  BY <1>5 DEF Busy
<1>7. WorkerTold(job[w]) /\ Handling(job[w])
  BY <1>4 DEF Live, WorkersTold, Handling
<1>8. m \in sent /\ m.type \in INTEGRATION_EVENT_TYPES /\ HasRow(o) /\ o \in Orders
  BY <1>1, <1>3, <1>4, <1>7 DEF WorkerTold, Live, RowsTold, HasRow
<1>9. orders \in [Orders -> Row] /\ copy \in Order /\ w \in Actors
  BY <1>1, <1>2, <1>3, <1>4 DEF SagaInv, TypeOK, JobOK, Actors
<1>10. OnlyEchoes
  BY <1>4 DEF OnlyEchoes
<1>11. CASE StageOf(m.type) = 0
  <2>1. copy = orders[o] /\ next = NoEvent
    BY <1>1, <1>2, <1>3, <1>4, <1>7, <1>11 DEF WorkerTold
  <2>2. UNCHANGED orders
    BY <1>4, <1>9, <2>1
  <2>3. RowsAdvance
    BY <2>2, RowsStay
  <2>4. QueueTold' /\ PublishedStale' /\ Told(m)'
    <3>1. Told(m)
      BY <1>8 DEF Told
    <3>2. QED BY <1>4, <2>3, <3>1, QueueStaysTold, PublishedStaysStale, ToldStays DEF Live
  <2>5. ProcessedIsBehind'
    BY <1>4, <2>2 DEF Live, ProcessedIsBehind, RowStage
  <2>6. WorkerTold(j)'
    <3>1. StageOf(m.type) <= RowStage(m.order)'
      BY <1>11, StageBounds DEF RowStage
    <3>2. QED BY <1>6, <1>8, <2>1, <2>4, <3>1 DEF WorkerTold
  <2>7. ~Handling(j) /\ \A p : job[w].msg \notin Moves(p)
    BY <1>1, <1>6, <1>11, <2>1 DEF Handling, Moves
  <2>8. QED BY <1>5, <1>10, <2>2, <2>4, <2>5, <2>6, <2>7, WorkerSteps
<1>12. CASE StageOf(m.type) > 0
  <2>1. copy.status = Reached(m.type) /\ next = Answer(m.type) /\ next # NoEvent
    BY <1>1, <1>2, <1>4, <1>7, <1>12, AnswerIsOwn, StageBounds DEF WorkerTold
  <2>2. /\ orders'[o] = copy /\ copy # NoRow
        /\ \A p \in Orders \ {o} : orders'[p] = orders[p]
    BY <1>4, <1>8, <1>9 DEF Order, NoRow, ServiceOrderStatus
  <2>3. RowStage(o)' = StageOf(m.type)
    BY <1>12, <2>1, <2>2, ReachedStage DEF RowStage
  <2>4. m \in Moves(o) /\ StageOf(m.type) > RowStage(o)
    <3>1. m \in Moves(o)
      BY <1>3, <1>8, <1>12 DEF Moves
    <3>2. Awaiting(m)
      BY <1>1, <1>7 DEF Awaiting
    <3>3. QED BY <1>8, <3>1, <3>2 DEF Live, AwaitingIsAhead
  <2>5. \A p \in Orders \ {o} : RowStage(p)' = RowStage(p) /\ (HasRow(p)' <=> HasRow(p))
    BY <2>2 DEF RowStage, HasRow
  <2>6. RowsAdvance
    <3>1. HasRow(o)' /\ RowStage(o) <= RowStage(o)'
      BY <1>8, <2>2, <2>3, <2>4, StageBounds DEF HasRow, RowStage
    <3>2. ASSUME NEW p \in Orders \ {o}, HasRow(p) PROVE HasRow(p)' /\ RowStage(p) <= RowStage(p)'
      BY <2>5, <3>2, StageBounds DEF RowStage
    <3>3. QED BY <3>1, <3>2 DEF RowsAdvance
  <2>7. RowsTold'
    <3>1. \A n \in sent : HasRow(n.order)'
      BY <2>6 DEF Live, RowsTold, RowsAdvance, HasRow
    <3>2. ASSUME NEW p \in Orders, HasRow(p)'
          PROVE  \/ orders'[p].status = "QUOTE_REQUESTED"
                 \/ \E n \in Moves(p) : orders'[p].status = Reached(n.type)
      <4>1. CASE p = o
        BY <2>1, <2>2, <2>4, <4>1
      <4>2. CASE p # o
        BY <2>2, <2>5, <3>2, <4>2 DEF Live, RowsTold
      <4>3. QED BY <4>1, <4>2
    <3>3. QED BY <3>1, <3>2 DEF RowsTold, Moves
  <2>8. QueueTold' /\ PublishedStale' /\ Told(m)'
    <3>1. Told(m)
      BY <1>8 DEF Told
    <3>2. QED BY <1>4, <2>6, <3>1, QueueStaysTold, PublishedStaysStale, ToldStays DEF Live
  <2>9. QueueSorted'
    BY <1>4 DEF Live, QueueSorted, Comparable, Before
  <2>10. PICK k : k = job'[w]
    OBVIOUS
  <2>11. k = j /\ ~Handling(k) /\ (\A v \in Workers : v = w) /\ \A t \in Threads : job'[t] = job[t]
    <3>1. job' = [job EXCEPT ![w] = j] /\ DOMAIN job = Actors
      BY <1>5, <1>6 DEF Become, SagaInv, TypeOK
    <3>2. QED BY <1>6, <1>9, <2>10, <3>1, SagaConstants DEF Handling, OneWorker, Actors
  <2>12. WorkerAhead'
    BY <2>10, <2>11 DEF WorkerAhead, Handling
  <2>13. AwaitingIsAhead'
    <3> SUFFICES ASSUME NEW p \in Orders, NEW n \in Moves(p)
                 PROVE  Awaiting(n)' <=> StageOf(n.type) > RowStage(p)'
      BY DEF AwaitingIsAhead, Moves
    <3>1. Awaiting(n)' <=> \E i \in DOMAIN queue : queue[i] = n
      BY <1>4, <2>10, <2>11 DEF Awaiting, Handling
    <3>2. Awaiting(n) <=> (n = m \/ \E i \in DOMAIN queue : queue[i] = n)
      BY <1>1, <1>7, <2>11 DEF Awaiting
    <3>3. Awaiting(n) <=> StageOf(n.type) > RowStage(p)
      BY DEF Live, AwaitingIsAhead
    <3>4. CASE p # o
      BY <1>3, <2>5, <3>1, <3>2, <3>3, <3>4 DEF Moves
    <3>5. CASE p = o
      <4>1. \A i \in DOMAIN queue : queue[i] = n => Before(m, n)
        BY <1>1, <1>3, <1>7, <1>8, <1>12, <3>5 DEF Live, WorkerAhead, Comparable, Moves
      <4>2. StageOf(n.type) > StageOf(m.type) => n # m /\ Awaiting(n)
        BY <2>4, <3>3, <3>5, StageBounds DEF RowStage
      <4>3. QED BY <2>3, <3>1, <3>2, <3>5, <4>1, <4>2, StageBounds DEF Before
    <3>6. QED BY <3>4, <3>5
  <2>14. ProcessedIsBehind'
    <3>1. ASSUME NEW n \in sent, n.id \in processed PROVE StageOf(n.type) <= RowStage(n.order)'
      <4>1. n.order \in Orders /\ StageOf(n.type) <= RowStage(n.order) /\ HasRow(n.order)
        BY <3>1 DEF Live, RowsTold, HasRow, ProcessedIsBehind
      <4>2. RowStage(n.order) <= RowStage(n.order)'
        BY <2>6, <4>1 DEF RowsAdvance
      <4>3. RowStage(n.order) \in 0 .. 5 /\ RowStage(n.order)' \in 0 .. 5 /\ StageOf(n.type) \in 0 .. 5
        BY StageBounds DEF RowStage
      <4>4. QED BY <4>1, <4>2, <4>3
    <3>2. QED BY <1>4, <3>1 DEF Live, ProcessedIsBehind
  <2>15. WorkersTold'
    <3>1. StageOf(m.type) <= RowStage(m.order)'
      BY <1>3, <2>3, StageBounds
    <3>2. WorkerTold(k)'
      BY <1>6, <1>8, <1>12, <2>1, <2>8, <2>11, <3>1 DEF WorkerTold
    <3>3. QED BY <2>10, <2>11, <3>2 DEF WorkersTold, WorkerTold, Told, IsOwn
  <2>16. ThreadsOpen'
    <3>1. ASSUME NEW t \in Threads PROVE ThreadOpens(job[t])'
      <4>1. PICK x : x = job[t] /\ x = job'[t] /\ ThreadOpens(x)
        BY <2>11 DEF Live, ThreadsOpen
      <4>2. HasRow(x.msg.order)' <=> HasRow(x.msg.order)
        BY <1>8, <2>5, <2>2 DEF HasRow
      <4>3. ThreadOpens(x)'
        BY <4>1, <4>2 DEF ThreadOpens
      <4>4. QED BY <4>1, <4>3 DEF ThreadOpens
    <3>2. QED BY <2>11, <3>1 DEF Live, ThreadsOpen, At
  <2>17. QED BY <2>7, <2>8, <2>9, <2>12, <2>13, <2>14, <2>15, <2>16 DEF Live
<1>13. QED BY <1>11, <1>12, StageBounds

\* The service appends an echo that comes too late to move its order.
LEMMA EchoAppended ==
  ASSUME SagaInv, Live, Conversation, UNCHANGED <<orders, sent>>, NEW x, IsOwn(x),
         Stale(x.order, x.type), queue' = Append(queue, x), published' = Append(published, x)
  PROVE  RowsAdvance /\ OnlyEchoes /\ QueueTold' /\ PublishedStale'
<1>1. queue \in Seq(Messages) /\ published \in Seq(Messages)
  BY DEF SagaInv, TypeOK
<1>2. /\ \A i \in DOMAIN queue : i \in DOMAIN queue' /\ queue'[i] = queue[i]
      /\ \A i \in DOMAIN queue' : i \in DOMAIN queue \/ queue'[i] = x
      /\ \A i \in DOMAIN published : i \in DOMAIN published' /\ published'[i] = published[i]
      /\ \A i \in DOMAIN published' : i \in DOMAIN published \/ published'[i] = x
  BY <1>1
<1>3. x \notin sent
  BY SentIsForeign
<1>4. RowsAdvance
  BY RowsStay
<1>5. ASSUME NEW i \in DOMAIN queue' PROVE Told(queue[i])'
  <2>1. PICK m : m = queue'[i]
    OBVIOUS
  <2>2. Told(m)
    BY <1>2, <2>1 DEF Live, QueueTold, Told
  <2>3. Told(m)'
    BY <1>4, <2>2, ToldStays
  <2>4. QED BY <2>1, <2>3 DEF Told, IsOwn, Stale
<1>6. ASSUME NEW i \in DOMAIN published' PROVE Stale(published[i].order, published[i].type)'
  <2>1. PICK m : m = published'[i]
    OBVIOUS
  <2>2. Stale(m.order, m.type)
    BY <1>2, <2>1 DEF Live, PublishedStale
  <2>3. Stale(m.order, m.type)'
    BY <1>4, <2>2, StaleStays
  <2>4. QED BY <2>1, <2>3 DEF Stale
<1>7. QED BY <1>2, <1>3, <1>4, <1>5, <1>6 DEF OnlyEchoes, QueueTold, PublishedStale

LEMMA PeersPublish ==
  ASSUME OneWorker, SagaInv, Conversation, Live, UNCHANGED sent, NEW w \in Workers, Publish(w)
  PROVE  Live'
<1>1. PICK m : m = job[w].msg
  OBVIOUS
<1>2. PICK j : j = Busy("mark", m, job[w].copy, job[w].next) /\ Become(w, j)
  BY <1>1 DEF Publish, Goto, Handled
<1>3. j.phase = "mark" /\ j.msg = m
  BY <1>2 DEF Busy
<1>4. /\ m \in sent /\ m.type \in INTEGRATION_EVENT_TYPES /\ StageOf(m.type) > 0
      /\ StageOf(m.type) <= RowStage(m.order) /\ job[w].next = Answer(m.type)
      /\ ~Handling(job[w])
  BY <1>1 DEF Publish, At, Live, WorkersTold, WorkerTold, Handling
<1>5. PICK x : x = Outgoing(job[w])
  OBVIOUS
<1>6. IsOwn(x) /\ x.order = m.order /\ x.type = Answer(m.type)
  BY <1>1, <1>4, <1>5 DEF Outgoing, IsOwn
<1>7. HasRow(m.order) /\ RowStage(m.order) \in 0 .. 5
  BY <1>4, StageBounds DEF Live, RowsTold, RowStage
<1>8. Stale(x.order, x.type)
  BY <1>4, <1>6, <1>7, AnswerIsOwn DEF Stale
<1>9. UNCHANGED <<orders, processed>>
  BY DEF Publish, tables
<1>10. RowsAdvance /\ OnlyEchoes /\ QueueTold' /\ PublishedStale'
  BY <1>5, <1>6, <1>8, <1>9, EchoAppended DEF Publish
<1>11. ProcessedIsBehind'
  BY <1>9 DEF Live, ProcessedIsBehind, RowStage
<1>12. WorkerTold(j)'
  BY <1>3, <1>4, <1>9 DEF WorkerTold, Told, RowStage
<1>13. QED BY <1>2, <1>3, <1>4, <1>9, <1>10, <1>11, <1>12, WorkerSteps DEF Handling

\* The calls that touch no row and no message.
LEMMA PeersRecord ==
  ASSUME OneWorker, SagaInv, Conversation, Live, UNCHANGED sent, NEW w \in Workers,
         IsProcessed(w) \/ MarkProcessed(w) \/ InsertProcessed(w) \/ Ack(w) \/ Nack(w)
  PROVE  Live'
<1>1. PICK m : m = job[w].msg
  OBVIOUS
<1>2. UNCHANGED <<orders, queue, published>>
  BY DEF IsProcessed, MarkProcessed, InsertProcessed, Ack, Nack, Settle, tables, broker
<1>3. WorkerTold(job[w])
  BY DEF Live, WorkersTold
<1>4. RowsAdvance /\ OnlyEchoes /\ QueueTold' /\ PublishedStale' /\ (Told(m) => Told(m)')
  <2>1. RowsAdvance
    BY <1>2, RowsStay
  <2>2. OnlyEchoes
    BY <1>2 DEF OnlyEchoes
  <2>3. QED BY <1>2, <2>1, <2>2, QueueStaysTold, PublishedStaysStale, ToldStays DEF Live
<1>5. RowStage(m.order)' = RowStage(m.order)
  BY <1>2 DEF RowStage
<1>6. ASSUME NEW phase, Goto(w, phase), phase \notin {"save", "publish", "mark", "nack"},
             phase # "idle" => job[w].phase # "idle" /\ job[w].phase # "nack",
             phase = "insert" => job[w].phase = "mark" /\ m.id \notin processed /\ UNCHANGED processed,
             Handling(job[w]) => phase \in {"get", "ack"},
             phase = "get" => Handling(job[w]), phase # "check",
             Handling(job[w]) /\ phase = "ack" => m.id \in processed,
             ProcessedIsBehind'
      PROVE  Live'
  <2>1. PICK j : j = Busy(phase, m, job[w].copy, job[w].next) /\ Become(w, j)
    BY <1>1, <1>6 DEF Goto
  <2>2. j.phase = phase /\ j.msg = m
    BY <2>1 DEF Busy
  <2>3. WorkerTold(j)'
    BY <1>1, <1>2, <1>3, <1>4, <1>5, <1>6, <2>2 DEF WorkerTold
  <2>4. ASSUME Handling(job[w]), ~Handling(j), NEW o, m \in Moves(o) PROVE FALSE
    <3>1. m \in sent /\ m.order = o /\ o \in Orders /\ m.id \in processed
      BY <1>6, <2>2, <2>4 DEF Moves, Live, RowsTold, HasRow, Handling
    <3>2. StageOf(m.type) <= RowStage(o)
      BY <3>1 DEF Live, ProcessedIsBehind
    <3>3. Awaiting(m)
      BY <1>1, <2>4 DEF Awaiting
    <3>4. StageOf(m.type) > RowStage(o)
      BY <2>4, <3>1, <3>3 DEF Live, AwaitingIsAhead
    <3>5. QED BY <3>2, <3>4, StageBounds DEF RowStage
  <2>5. Handling(j) => Handling(job[w]) /\ j.msg = job[w].msg
    BY <1>1, <1>6, <2>2 DEF Handling
  <2>6. QED BY <1>1, <1>2, <1>4, <1>6, <2>1, <2>3, <2>4, <2>5, WorkerSteps
<1>7. UNCHANGED processed => ProcessedIsBehind'
  BY <1>2 DEF Live, ProcessedIsBehind, RowStage
<1>8. CASE IsProcessed(w)
  <2>1. UNCHANGED processed /\ job[w].phase = "check"
        /\ Goto(w, IF m.id \in processed THEN "ack" ELSE "get")
    BY <1>1, <1>8 DEF IsProcessed, At, tables
  <2>2. CASE m.id \in processed
    BY <1>6, <1>7, <2>1, <2>2 DEF Handling
  <2>3. CASE m.id \notin processed
    BY <1>6, <1>7, <2>1, <2>3 DEF Handling
  <2>4. QED BY <2>2, <2>3
<1>9. CASE MarkProcessed(w)
  <2>1. UNCHANGED processed /\ job[w].phase = "mark"
        /\ Goto(w, IF m.id \in processed THEN "ack" ELSE "insert")
    BY <1>1, <1>9 DEF MarkProcessed, At, tables
  <2>2. CASE m.id \in processed
    BY <1>6, <1>7, <2>1, <2>2 DEF Handling
  <2>3. CASE m.id \notin processed
    BY <1>6, <1>7, <2>1, <2>3 DEF Handling
  <2>4. QED BY <2>2, <2>3
<1>10. CASE InsertProcessed(w)
  <2>1. processed' = processed \cup {m.id} /\ job[w].phase = "insert"
    BY <1>1, <1>10 DEF InsertProcessed, At
  <2>2. m.id \notin processed /\ m \in sent /\ StageOf(m.type) <= RowStage(m.order)
    BY <1>1, <1>3, <2>1 DEF WorkerTold
  <2>3. Goto(w, "ack")
    BY <1>1, <1>10, <2>2 DEF InsertProcessed
  <2>4. ASSUME NEW n \in sent, n.id \in processed' PROVE StageOf(n.type) <= RowStage(n.order)'
    <3>1. CASE n.id = m.id
      <4>1. n = m
        BY <2>2, <3>1, SagaConstants DEF Conversation
      <4>2. QED BY <1>5, <2>2, <4>1
    <3>2. CASE n.id \in processed
      BY <1>2, <3>2 DEF Live, ProcessedIsBehind, RowStage
    <3>3. QED BY <2>1, <2>4, <3>1, <3>2
  <2>5. ProcessedIsBehind'
    BY <2>1, <2>2, <2>4 DEF Live, ProcessedIsBehind
  <2>6. QED BY <1>6, <2>1, <2>3, <2>5 DEF Handling
<1>11. CASE Ack(w) \/ Nack(w)
  <2>1. UNCHANGED processed /\ Goto(w, "idle") /\ job[w].phase \in {"ack", "nack"}
    BY <1>11 DEF Ack, Nack, Settle, At, tables
  <2>2. QED BY <1>6, <1>7, <2>1 DEF Handling
<1>12. QED BY <1>8, <1>9, <1>10, <1>11

LEMMA PeersDeliver ==
  ASSUME OneWorker, SagaInv, Conversation, Live, UNCHANGED sent, NEW w \in Workers, Deliver(w)
  PROVE  Live'
<1>1. queue \in Seq(Messages) /\ queue # <<>> /\ queue' = Tail(queue) /\ job[w].phase = "idle"
      /\ UNCHANGED <<orders, processed, published>>
  BY DEF SagaInv, TypeOK, Deliver, At, tables
<1>2. PICK m : m = queue[1]
  OBVIOUS
<1>3. /\ 1 \in DOMAIN queue
      /\ \A i \in DOMAIN queue' : i + 1 \in DOMAIN queue /\ queue'[i] = queue[i + 1] /\ i \in Nat \ {0}
      /\ \A i \in DOMAIN queue \ {1} : i - 1 \in DOMAIN queue' /\ queue'[i - 1] = queue[i]
  BY <1>1
<1>4. PICK j : /\ j = Busy(IF m.type \in INTEGRATION_EVENT_TYPES THEN "check" ELSE "nack", m, NoRow, NoEvent)
               /\ Become(w, j)
  BY <1>1, <1>2 DEF Deliver
<1>5. j.phase = (IF m.type \in INTEGRATION_EVENT_TYPES THEN "check" ELSE "nack") /\ j.msg = m
  BY <1>4 DEF Busy
<1>6. job' = [job EXCEPT ![w] = j] /\ DOMAIN job = Actors /\ w \in Actors /\ Threads \subseteq Actors
  BY <1>4, <1>5 DEF Become, SagaInv, TypeOK, Actors
<1>7. (\A v \in Workers : v = w) /\ \A t \in Threads : t # w
  BY SagaConstants DEF OneWorker
<1>8. PICK k : k = job'[w]
  OBVIOUS
<1>9. k = j /\ (\A t \in Threads : job'[t] = job[t]) /\ ~Handling(job[w])
  BY <1>1, <1>6, <1>7, <1>8 DEF Handling
<1>10. RowsTold'
  BY <1>1 DEF Live, RowsTold, HasRow, Moves
<1>11. RowsAdvance /\ PublishedStale'
  BY <1>1, RowsStay, PublishedStaysStale DEF Live
<1>12. Told(m)' /\ QueueTold'
  <2>1. ASSUME NEW i \in DOMAIN queue' PROVE Told(queue[i])'
    <3>1. PICK x : x = queue'[i]
      OBVIOUS
    <3>2. Told(x)
      BY <1>3, <3>1 DEF Live, QueueTold
    <3>3. Told(x)'
      BY <1>11, <3>2, ToldStays
    <3>4. QED BY <3>1, <3>3 DEF Told, IsOwn, Stale
  <2>2. Told(m)
    BY <1>2, <1>3 DEF Live, QueueTold
  <2>3. QED BY <1>11, <2>1, <2>2, ToldStays DEF QueueTold
<1>13. QueueSorted'
  <2> SUFFICES ASSUME NEW p \in DOMAIN queue', NEW q \in DOMAIN queue', p < q,
                      Comparable(queue'[p], queue'[q])
               PROVE  Before(queue'[p], queue'[q])
    BY DEF QueueSorted, Comparable, Before
  <2>1. /\ p + 1 \in DOMAIN queue /\ q + 1 \in DOMAIN queue /\ p + 1 < q + 1
        /\ queue'[p] = queue[p + 1] /\ queue'[q] = queue[q + 1]
    BY <1>3
  <2>2. QED BY <2>1 DEF Live, QueueSorted
<1>14. WorkerAhead'
  <2> SUFFICES ASSUME NEW i \in DOMAIN queue', Comparable(m, queue'[i]) PROVE Before(m, queue'[i])
    BY <1>5, <1>7, <1>8, <1>9 DEF WorkerAhead, Comparable, Before
  <2>1. i + 1 \in DOMAIN queue /\ 1 < i + 1 /\ queue'[i] = queue[i + 1]
    BY <1>3
  <2>2. QED BY <1>2, <1>3, <2>1 DEF Live, QueueSorted
<1>15. AwaitingIsAhead'
  <2> SUFFICES ASSUME NEW o \in Orders, NEW n \in Moves(o) PROVE Awaiting(n)' <=> Awaiting(n)
    BY <1>1 DEF Live, AwaitingIsAhead, Moves, RowStage
  <2>1. Awaiting(n) <=> \E i \in DOMAIN queue : queue[i] = n
    BY <1>7, <1>9 DEF Awaiting
  <2>2. Awaiting(n)' <=> (Handling(k) /\ k.msg = n) \/ \E i \in DOMAIN queue' : queue'[i] = n
    BY <1>7, <1>8 DEF Awaiting, Handling
  <2>3. n = m => Handling(k)
    BY <1>5, <1>9, StagesInContract DEF Handling, Moves
  <2>4. (Handling(k) /\ k.msg = n) => n = m
    BY <1>5, <1>9
  <2>5. (\E i \in DOMAIN queue : queue[i] = n) <=> (n = m \/ \E i \in DOMAIN queue' : queue'[i] = n)
    BY <1>2, <1>3
  <2>6. n = m => Handling(k) /\ k.msg = n
    BY <1>5, <1>9, <2>3
  <2>7. QED BY <2>1, <2>2, <2>4, <2>5, <2>6
<1>16. ProcessedIsBehind'
  BY <1>1 DEF Live, ProcessedIsBehind, RowStage
<1>17. WorkersTold'
  <2>1. WorkerTold(j)'
    BY <1>5, <1>12 DEF WorkerTold
  <2>2. QED BY <1>7, <1>8, <1>9, <2>1 DEF WorkersTold, WorkerTold, Told, IsOwn
<1>18. ThreadsOpen'
  BY <1>1, <1>9 DEF Live, ThreadsOpen, ThreadOpens, HasRow, At
<1>19. QED BY <1>10, <1>11, <1>12, <1>13, <1>14, <1>15, <1>16, <1>17, <1>18 DEF Live

LEMMA PeersOpen ==
  ASSUME SagaInv, Conversation, Live, UNCHANGED sent, NEW t \in Threads, NEW o \in Orders, Open(t, o)
  PROVE  Live'
<1>1. UNCHANGED <<orders, processed, queue, published>> /\ IsFresh(o)
  BY DEF Open, tables, broker
<1>2. PICK copy : copy = Recorded(Opened, "QUOTE_REQUESTED")
  OBVIOUS
<1>3. copy.status = "QUOTE_REQUESTED"
  BY <1>2 DEF Recorded
<1>4. PICK j : j = Busy("save", ApiMessage(NoEvent, o), copy, "OS_OPENED") /\ Become(t, j)
  BY <1>2, OpeningOutcome DEF Open
<1>5. j.phase = "save" /\ j.msg.order = o /\ j.copy = copy /\ j.next = "OS_OPENED"
  BY <1>4 DEF Busy, ApiMessage
<1>6. OnlyEchoes /\ QueueTold' /\ PublishedStale'
  <2>1. RowsAdvance
    BY <1>1, RowsStay
  <2>2. QED BY <1>1, <2>1, QueueStaysTold, PublishedStaysStale DEF Live, OnlyEchoes
<1>7. ThreadOpens(j)'
  BY <1>1, <1>3, <1>5 DEF ThreadOpens, HasRow, IsFresh
<1>8. \A u \in Threads \ {t} : At(u, "save") => job[u].msg.order # o
  BY <1>1 DEF IsFresh
<1>9. QED BY <1>1, <1>4, <1>5, <1>6, <1>7, <1>8, ThreadSteps DEF HasRow

LEMMA PeersThreadSave ==
  ASSUME SagaInv, Conversation, Live, UNCHANGED sent, NEW t \in Threads, Save(t) PROVE Live'
<1>1. PICK m, copy, next : m = job[t].msg /\ copy = job[t].copy /\ next = job[t].next
  OBVIOUS
<1>2. ThreadOpens(job[t]) /\ job[t].phase = "save" /\ t \in Actors
  BY DEF Live, ThreadsOpen, Save, At, Actors
<1>3. ~HasRow(m.order) /\ copy.status = "QUOTE_REQUESTED" /\ next = "OS_OPENED"
  BY <1>1, <1>2 DEF ThreadOpens
<1>4. m.order \in Orders /\ orders \in [Orders -> Row] /\ copy \in Order
  BY <1>1, <1>2 DEF SagaInv, TypeOK, JobOK
<1>5. /\ orders' = [orders EXCEPT ![m.order] = copy] /\ Goto(t, "publish")
      /\ UNCHANGED <<processed, queue, published>>
  BY <1>1, <1>3 DEF Save, broker, NoEvent
<1>6. PICK j : j = Busy("publish", m, copy, next) /\ Become(t, j)
  BY <1>1, <1>5 DEF Goto
<1>7. j.phase = "publish" /\ j.msg = m /\ j.next = "OS_OPENED"
  BY <1>3, <1>6 DEF Busy
<1>8. /\ orders'[m.order] = copy /\ copy # NoRow
      /\ \A o \in Orders : HasRow(o) => orders'[o] = orders[o]
      /\ \A o \in Orders : ~HasRow(o) /\ HasRow(o)' => o = m.order
  BY <1>3, <1>4, <1>5 DEF Order, NoRow, ServiceOrderStatus, HasRow
<1>9. RowsAdvance
  BY <1>8, StageBounds DEF RowsAdvance, HasRow, RowStage
<1>10. OnlyEchoes /\ QueueTold' /\ PublishedStale'
  BY <1>5, <1>9, QueueStaysTold, PublishedStaysStale DEF Live, OnlyEchoes
<1>11. ThreadOpens(j)'
  BY <1>4, <1>7, <1>8 DEF ThreadOpens, HasRow
<1>12. \A u \in Threads \ {t} : At(u, "save") => job[u].msg.order # m.order
  BY <1>1, <1>2 DEF Live, ThreadsOpen, At
<1>13. QED BY <1>3, <1>5, <1>6, <1>7, <1>8, <1>10, <1>11, <1>12, ThreadSteps

LEMMA PeersThreadPublish ==
  ASSUME SagaInv, Conversation, Live, UNCHANGED sent, NEW t \in Threads, Publish(t) PROVE Live'
<1>1. PICK m : m = job[t].msg
  OBVIOUS
<1>2. HasRow(m.order) /\ job[t].next = "OS_OPENED"
  BY <1>1 DEF Live, ThreadsOpen, ThreadOpens, Publish, At
<1>3. PICK x : x = Outgoing(job[t])
  OBVIOUS
<1>4. IsOwn(x) /\ x.order = m.order /\ x.type = "OS_OPENED"
  BY <1>1, <1>2, <1>3 DEF Outgoing, IsOwn
<1>5. Stale(x.order, x.type)
  BY <1>2, <1>4 DEF Stale, OwnTypes
<1>6. UNCHANGED <<orders, processed>> /\ Goto(t, "idle")
  BY SagaConstants DEF Publish, tables, Handled
<1>7. RowsAdvance /\ OnlyEchoes /\ QueueTold' /\ PublishedStale'
  BY <1>3, <1>4, <1>5, <1>6, EchoAppended DEF Publish
<1>8. PICK j : j = Busy("idle", m, job[t].copy, job[t].next) /\ Become(t, j)
  BY <1>1, <1>6 DEF Goto
<1>9. j.phase = "idle"
  BY <1>8 DEF Busy
<1>10. ThreadOpens(j)'
  BY <1>9 DEF ThreadOpens
<1>11. QED BY <1>6, <1>7, <1>8, <1>9, <1>10, ThreadSteps DEF HasRow

\* Whatever prompts a message, its order was saved.
LEMMA PromptedHasRow ==
  ASSUME RowsTold, PublishedStale, NEW o, NEW type, Prompted(o, type) PROVE HasRow(o)
<1>1. \A ev : HasPublished(o, ev) => HasRow(o)
  BY DEF HasPublished, PublishedOf, PublishedStale, Stale
<1>2. \A ev : HasSent(o, ev) => HasRow(o)
  BY DEF HasSent, RowsTold
<1>3. type \in {"QUOTE_CREATED", "QUOTE_FAILED", "QUOTE_APPROVED", "PAYMENT_PREFERENCE_CREATED",
                "PAYMENT_CONFIRMED", "PAYMENT_FAILED", "EXECUTION_QUEUED", "EXECUTION_ENQUEUE_FAILED",
                "EXECUTION_STARTED", "EXECUTION_COMPLETED", "EXECUTION_FAILED"}
  BY DEF Prompted
<1>4. QED BY <1>1, <1>2, <1>3, PromptedBy

LEMMA PeersReply ==
  ASSUME SagaInv, PaidInv, requests = 0, Conversation, Conversation', Live, NEW m \in Inputs, Reply(m)
  PROVE  Live'
<1>1. /\ queue' = Append(queue, m) /\ sent' = sent \cup {m}
      /\ UNCHANGED <<orders, processed, published, job>>
  BY DEF Reply, Send, tables
<1>2. queue \in Seq(Messages)
  BY DEF SagaInv, TypeOK
<1>3. /\ \A i \in DOMAIN queue : i \in DOMAIN queue' /\ queue'[i] = queue[i]
      /\ \A i \in DOMAIN queue' : (i \in DOMAIN queue /\ i # Len(queue) + 1) \/ i = Len(queue) + 1
      /\ Len(queue) + 1 \in DOMAIN queue' /\ queue'[Len(queue) + 1] = m
      /\ \A i \in DOMAIN queue : i <= Len(queue) /\ i \in Nat
      /\ Len(queue) \in Nat
  BY <1>1, <1>2
<1>4. m \notin sent /\ ~IsOwn(m) /\ HasRow(m.order) /\ m.order \in Orders
  <2>1. HasRow(m.order)
    BY PromptedHasRow DEF Reply, Live
  <2>2. QED BY <2>1, SagaConstants DEF Reply, Settled, HasSent, IsOwn, HasRow
<1>5. \A n : Told(n) => n # m
  BY <1>4 DEF Told
<1>6. \A n \in sent : StageOf(m.type) > 0 /\ StageOf(n.type) > 0 /\ n.order = m.order =>
        StageOf(n.type) < StageOf(m.type)
  BY <1>4, RepliesRise DEF Moves
<1>7. RowsTold'
  BY <1>1, <1>4 DEF Live, RowsTold, HasRow, Moves
<1>8. RowsAdvance /\ PublishedStale'
  BY <1>1, RowsStay, PublishedStaysStale DEF Live
<1>9. QueueTold'
  <2>1. ASSUME NEW i \in DOMAIN queue' PROVE Told(queue[i])'
    <3>1. PICK n : n = queue'[i]
      OBVIOUS
    <3>2. CASE n = m
      BY <1>1, <3>1, <3>2 DEF Told
    <3>3. CASE n # m
      <4>1. Told(n)
        BY <1>3, <3>1, <3>3 DEF Live, QueueTold
      <4>2. Told(n)'
        BY <1>1, <1>8, <4>1, ToldStays
      <4>3. QED BY <3>1, <4>2 DEF Told, IsOwn, Stale
    <3>4. QED BY <3>2, <3>3
  <2>2. QED BY <2>1 DEF QueueTold
<1>10. QueueSorted'
  <2> SUFFICES ASSUME NEW p \in DOMAIN queue', NEW q \in DOMAIN queue', p < q,
                      Comparable(queue[p], queue[q])'
               PROVE  Before(queue'[p], queue'[q])
    BY DEF QueueSorted, Comparable, Before
  <2>1. p \in DOMAIN queue /\ queue'[p] = queue[p]
    BY <1>3
  <2>2. PICK n : n = queue[p] /\ Told(n)
    BY <2>1 DEF Live, QueueTold
  <2>3. n \in sent
    BY <1>1, <1>5, <2>1, <2>2 DEF Comparable
  <2>4. CASE q = Len(queue) + 1
    BY <1>3, <1>6, <2>1, <2>2, <2>3, <2>4 DEF Comparable, Before
  <2>5. CASE q \in DOMAIN queue
    <3>1. PICK x : x = queue[q] /\ x = queue'[q] /\ Told(x)
      BY <1>3, <2>5 DEF Live, QueueTold
    <3>2. Comparable(n, x)
      BY <1>1, <1>5, <2>1, <2>2, <2>3, <3>1 DEF Comparable
    <3>3. QED BY <2>1, <2>2, <2>5, <3>1, <3>2 DEF Live, QueueSorted
  <2>6. QED BY <1>3, <2>4, <2>5
<1>11. WorkerAhead'
  <2> SUFFICES ASSUME NEW w \in Workers, Handling(job[w]), NEW i \in DOMAIN queue',
                      Comparable(job[w].msg, queue[i])'
               PROVE  Before(job[w].msg, queue'[i])
    BY <1>1 DEF WorkerAhead, Handling, Comparable, Before
  <2>1. PICK n : n = job[w].msg /\ Told(n)
    BY DEF Live, WorkersTold, WorkerTold, Handling
  <2>2. n \in sent
    BY <1>1, <1>5, <2>1 DEF Comparable
  <2>3. CASE i = Len(queue) + 1
    BY <1>1, <1>3, <1>6, <2>1, <2>2, <2>3 DEF Comparable, Before
  <2>4. CASE i \in DOMAIN queue
    <3>1. PICK x : x = queue[i] /\ x = queue'[i] /\ Told(x)
      BY <1>3, <2>4 DEF Live, QueueTold
    <3>2. Comparable(n, x)
      BY <1>1, <1>5, <2>1, <2>2, <3>1 DEF Comparable
    <3>3. QED BY <2>1, <2>4, <3>1, <3>2 DEF Live, WorkerAhead
  <2>5. QED BY <1>3, <2>3, <2>4
<1>12. AwaitingIsAhead'
  <2>1. ASSUME NEW o \in Orders, NEW n \in Moves(o)
        PROVE  Awaiting(n)' <=> StageOf(n.type) > RowStage(o)'
    <3>1. n # m
      BY <1>4 DEF Moves
    <3>2. Awaiting(n)' <=> Awaiting(n)
      BY <1>1, <1>3, <3>1 DEF Awaiting
    <3>3. QED BY <1>1, <3>2 DEF Live, AwaitingIsAhead, RowStage
  <2>2. ASSUME StageOf(m.type) > 0
        PROVE  Awaiting(m)' /\ StageOf(m.type) > RowStage(m.order)'
    <3>1. Awaiting(m)'
      BY <1>3 DEF Awaiting
    <3>2. CASE orders[m.order].status = "QUOTE_REQUESTED"
      BY <1>1, <2>2, <3>1, <3>2 DEF RowStage, StatusStage
    <3>3. ASSUME NEW n \in Moves(m.order), orders[m.order].status = Reached(n.type)
          PROVE  StageOf(m.type) > RowStage(m.order)'
      BY <1>1, <1>6, <2>2, <3>3, ReachedStage, StageBounds DEF RowStage, Moves
    <3>4. QED BY <1>4, <3>1, <3>2, <3>3 DEF Live, RowsTold
  <2>3. QED BY <1>1, <1>4, <2>1, <2>2 DEF AwaitingIsAhead, Moves
<1>13. ProcessedIsBehind'
  <2>1. m.id \notin processed
    BY <1>4, SagaConstants DEF Live, ProcessedIsBehind, Conversation
  <2>2. QED BY <1>1, <2>1 DEF Live, ProcessedIsBehind, RowStage
<1>14. WorkersTold'
  <2>1. ASSUME NEW w \in Workers PROVE WorkerTold(job[w])'
    <3>1. PICK x : x = job[w] /\ x = job'[w] /\ WorkerTold(x)
      BY <1>1 DEF Live, WorkersTold
    <3>2. x.phase # "idle" => Told(x.msg)'
      BY <1>1, <1>8, <3>1, ToldStays DEF WorkerTold
    <3>3. WorkerTold(x)'
      BY <1>1, <3>1, <3>2 DEF WorkerTold, RowStage
    <3>4. QED BY <3>1, <3>3 DEF WorkerTold, Told, IsOwn
  <2>2. QED BY <2>1 DEF WorkersTold
<1>15. ThreadsOpen'
  BY <1>1 DEF Live, ThreadsOpen, ThreadOpens, HasRow, At
<1>16. QED BY <1>7, <1>8, <1>9, <1>10, <1>11, <1>12, <1>13, <1>14, <1>15 DEF Live

LEMMA PeersStutter == ASSUME Live, UNCHANGED jointVars PROVE Live'
<1>1. UNCHANGED <<orders, processed, queue, published, job, sent>>
  BY DEF jointVars, vars, tables, broker
<1>2. RowsTold' /\ QueueSorted' /\ WorkerAhead' /\ AwaitingIsAhead' /\ ProcessedIsBehind'
  BY <1>1 DEF Live, RowsTold, HasRow, Moves, QueueSorted, WorkerAhead, Handling, Comparable, Before,
              AwaitingIsAhead, Awaiting, ProcessedIsBehind, RowStage
<1>3. PublishedStale' /\ QueueTold' /\ WorkersTold' /\ ThreadsOpen'
  BY <1>1 DEF Live, PublishedStale, QueueTold, WorkersTold, ThreadsOpen, Told, IsOwn, Stale,
              WorkerTold, ThreadOpens, HasRow, RowStage, At
<1>4. QED BY <1>2, <1>3 DEF Live

LEMMA InitPeers == JointInit => PeersInv
<1> SUFFICES ASSUME JointInit PROVE PeersInv
  OBVIOUS
<1>1. /\ orders = [o \in Orders |-> NoRow] /\ processed = {} /\ queue = <<>> /\ published = <<>>
      /\ job = [a \in Actors |-> Idle] /\ sent = {}
  BY DEF JointInit, Init
<1>2. \A a \in Actors : job[a] = Idle /\ job[a].phase = "idle"
  BY <1>1 DEF Idle, Busy
<1>3. \A o : ~HasRow(o)
  BY <1>1 DEF HasRow
<1>4. Conversation
  BY <1>1 DEF Conversation
<1>5. RowsTold /\ PublishedStale /\ QueueTold /\ QueueSorted /\ AwaitingIsAhead /\ ProcessedIsBehind
  BY <1>1, <1>3 DEF RowsTold, PublishedStale, QueueTold, QueueSorted, AwaitingIsAhead, Moves,
                    ProcessedIsBehind
<1>6. WorkerAhead /\ WorkersTold /\ ThreadsOpen
  BY <1>2 DEF Actors, WorkerAhead, Handling, WorkersTold, WorkerTold, ThreadsOpen, ThreadOpens, At
<1>7. QED BY <1>4, <1>5, <1>6 DEF PeersInv, Live

LEMMA StepPeers ==
  ASSUME OneWorker, CompletePayloads
  PROVE  SagaInv /\ PaidInv /\ PeersInv /\ [JointNext]_jointVars => PeersInv'
<1> SUFFICES ASSUME SagaInv, PaidInv, PeersInv, [JointNext]_jointVars, Undisturbed' PROVE Live'
  BY StepConversation DEF PeersInv
<1>1. Conversation /\ Conversation'
  BY StepConversation DEF PeersInv
<1>2. faults \in Nat /\ requests \in Nat
  BY DEF SagaInv, TypeOK
<1>3. ASSUME NEW m \in Inputs, Reply(m) PROVE Live'
  <2>1. Undisturbed /\ requests = 0
    BY <1>3 DEF Undisturbed, Reply, Send
  <2>2. QED BY <1>1, <1>3, <2>1, PeersReply DEF PeersInv
<1>4. ASSUME NEW w \in Workers, WorkerStep(w), UNCHANGED sent PROVE Live'
  <2>1. UNCHANGED bounds
    BY <1>4 DEF WorkerStep, UseCaseStep, Deliver, IsProcessed, LoadAndApply, Save, Publish, MarkProcessed,
                InsertProcessed, Ack, Nack, Settle
  <2>2. Live /\ requests = 0
    BY <2>1 DEF Undisturbed, bounds, PeersInv
  <2>3. QED BY <1>1, <1>4, <2>2, PeersDeliver, PeersRecord, PeersLoad, PeersSave, PeersPublish
            DEF WorkerStep, UseCaseStep
<1>5. ASSUME NEW t \in Threads, Request(t), UNCHANGED sent PROVE Live'
  <2>1. ASSUME NEW type \in AdminTypes, NEW o \in OrderIds, PostEvent(t, type, o) PROVE FALSE
    BY <1>2, <2>1 DEF PostEvent, Undisturbed
  <2>2. ASSUME NEW o \in Orders, Open(t, o) PROVE Live'
    <3>1. Live
      BY <2>2 DEF Open, bounds, Undisturbed, PeersInv
    <3>2. QED BY <1>1, <1>5, <2>2, <3>1, PeersOpen
  <2>3. QED BY <1>5, <2>1, <2>2 DEF Request
<1>6. ASSUME NEW t \in Threads, UseCaseStep(t), UNCHANGED sent PROVE Live'
  <2>1. Live
    BY <1>6 DEF UseCaseStep, LoadAndApply, Save, Publish, bounds, Undisturbed, PeersInv
  <2>2. ~At(t, "get")
    BY <2>1 DEF Live, ThreadsOpen, ThreadOpens, At
  <2>3. QED BY <1>1, <1>6, <2>1, <2>2, PeersThreadSave, PeersThreadPublish DEF UseCaseStep, LoadAndApply
<1>7. CASE Fault
  BY <1>2, <1>7 DEF Fault, Crash, CallFails, ConnectionLost, BrokerRestart, Fails, Undisturbed
<1>8. CASE UNCHANGED jointVars
  <2>1. Undisturbed
    BY <1>8 DEF jointVars, vars, bounds, Undisturbed
  <2>2. QED BY <1>8, <2>1, PeersStutter DEF PeersInv
<1>9. QED BY <1>3, <1>4, <1>5, <1>6, <1>7, <1>8 DEF JointNext, ServiceStep

\* One worker, partners that keep to the flow and fill in their payloads, any number of
\* orders and of threads that open them: until something fails or an administrator posts
\* an event, the worker discards no message of theirs within the contract.  The echoes
\* that RABBITMQ_QUEUE returns to the service do not get in the way.
THEOREM PartnersAreHeard == ASSUME OneWorker, CompletePayloads PROVE JointSpec => []PeersAreHeard
<1>1. PeersInv => PeersAreHeard
  BY DEF PeersInv, Live, WorkersTold, WorkerTold, PeersAreHeard, At
<1>2. SagaInv /\ PaidInv /\ PeersInv /\ [JointNext]_jointVars => PeersInv'
  BY StepPeers
<1>3. QED BY <1>1, <1>2, InitPeers, InitPaid, StepPaid, SagaInvariant, PartnersAreInputs, PTL DEF JointSpec

\* What a partner waits for, and what keeps it from sending.
LEMMA Prompts ==
  ASSUME NEW o
  PROVE  /\ HasPublished(o, "OS_OPENED") => Prompted(o, "QUOTE_CREATED")
         /\ HasSent(o, "QUOTE_CREATED") => Prompted(o, "QUOTE_APPROVED")
         /\ HasSent(o, "QUOTE_APPROVED") => Prompted(o, "PAYMENT_PREFERENCE_CREATED")
         /\ HasSent(o, "PAYMENT_PREFERENCE_CREATED") => Prompted(o, "PAYMENT_CONFIRMED")
         /\ HasPublished(o, "EXECUTION_REQUESTED") => Prompted(o, "EXECUTION_ENQUEUE_FAILED")
         /\ HasSent(o, "EXECUTION_QUEUED") => Prompted(o, "EXECUTION_STARTED")
         /\ HasSent(o, "EXECUTION_STARTED") => Prompted(o, "EXECUTION_COMPLETED")
BY DEF Prompted

LEMMA SettledBy ==
  ASSUME NEW o
  PROVE  /\ Settled(o, "QUOTE_CREATED") => HasSent(o, "QUOTE_CREATED") \/ HasSent(o, "QUOTE_FAILED")
         /\ Settled(o, "QUOTE_APPROVED") => HasSent(o, "QUOTE_APPROVED")
         /\ Settled(o, "PAYMENT_PREFERENCE_CREATED") => HasSent(o, "PAYMENT_PREFERENCE_CREATED")
         /\ Settled(o, "PAYMENT_CONFIRMED") =>
              HasSent(o, "PAYMENT_CONFIRMED") \/ HasSent(o, "PAYMENT_FAILED")
         /\ Settled(o, "EXECUTION_ENQUEUE_FAILED") =>
              HasSent(o, "EXECUTION_QUEUED") \/ HasSent(o, "EXECUTION_ENQUEUE_FAILED")
         /\ Settled(o, "EXECUTION_STARTED") => HasSent(o, "EXECUTION_STARTED")
         /\ Settled(o, "EXECUTION_COMPLETED") =>
              HasSent(o, "EXECUTION_COMPLETED") \/ HasSent(o, "EXECUTION_FAILED")
BY DEF Settled, Alternatives

LEMMA PeersGoOn ==
  ASSUME SagaInv, SavedIsOwed, PeersInv PROVE OrdersCanGoOn
<1> SUFFICES ASSUME Undisturbed, Quiet, NEW o \in Orders, HasRow(o),
                    orders[o].status \notin TERMINAL_STATUSES
             PROVE  \E type \in INTEGRATION_EVENT_TYPES : Prompted(o, type) /\ ~Settled(o, type)
  BY DEF OrdersCanGoOn, EventTypes
<1>1. Live
  BY DEF PeersInv
<1>2. \A m \in Moves(o) : StageOf(m.type) <= RowStage(o)
  <2>1. \A m : ~Awaiting(m)
    BY DEF Quiet, Awaiting, Handling, Actors, At
  <2>2. QED BY <1>1, <2>1, StageBounds DEF Live, AwaitingIsAhead, RowStage
<1>3. \A type : StageOf(type) > RowStage(o) => ~HasSent(o, type)
  BY <1>2, StageBounds DEF HasSent, Moves, RowStage
<1>4. \A s : s = orders[o].status /\ Announces(s) # NoEvent => HasPublished(o, Announces(s))
  <2> SUFFICES ASSUME NEW s, s = orders[o].status, Announces(s) # NoEvent
               PROVE  HasPublished(o, Announces(s))
    OBVIOUS
  <2>1. PICK h : h = orders[o].history
    OBVIOUS
  <2>2. h \in Seq(ServiceOrderStatus) /\ h # <<>> /\ h[Len(h)] = s
    BY <2>1 DEF SagaInv, TypeOK, RowsAreCoherent, IsCoherent, HasRow, Row, Order
  <2>3. Len(h) \in DOMAIN h
    BY <2>2
  <2>4. \A a \in Actors : ~At(a, "publish")
    BY DEF Quiet, At
  <2>5. QED BY <2>1, <2>2, <2>3, <2>4 DEF SavedIsOwed, Undisturbed
<1>5. ASSUME NEW type \in INTEGRATION_EVENT_TYPES, Prompted(o, type), ~Settled(o, type)
      PROVE  \E x \in INTEGRATION_EVENT_TYPES : Prompted(o, x) /\ ~Settled(o, x)
  BY <1>5
<1>6. CASE orders[o].status = "QUOTE_REQUESTED"
  <2>1. RowStage(o) = 0
    BY <1>6, Zenon DEF RowStage, StatusStage
  <2>2. HasPublished(o, "OS_OPENED")
    <3>1. Announces("QUOTE_REQUESTED") = "OS_OPENED"
      BY Zenon DEF Announces, FAILURE_STATUSES
    <3>2. QED BY <1>4, <1>6, <3>1 DEF NoEvent
  <2>3. ~HasSent(o, "QUOTE_FAILED") /\ ~HasSent(o, "QUOTE_APPROVED")
    BY <1>3, <2>1 DEF StageOf
  <2>4. {"QUOTE_CREATED", "QUOTE_APPROVED"} \subseteq INTEGRATION_EVENT_TYPES
    BY DEF INTEGRATION_EVENT_TYPES
  <2>5. QED BY <1>5, <2>2, <2>3, <2>4, Prompts, SettledBy
<1>7. ASSUME NEW m \in Moves(o), orders[o].status = Reached(m.type)
      PROVE  \E type \in INTEGRATION_EVENT_TYPES : Prompted(o, type) /\ ~Settled(o, type)
  <2>1. HasSent(o, m.type) /\ StageOf(m.type) > 0 /\ RowStage(o) = StageOf(m.type)
    BY <1>7, ReachedStage DEF HasSent, Moves, RowStage
  <2>2. m.type \in {"QUOTE_APPROVED", "PAYMENT_PREFERENCE_CREATED", "PAYMENT_CONFIRMED",
                    "EXECUTION_STARTED"}
    BY <1>7, <2>1 DEF StageOf, Reached, TERMINAL_STATUSES, FAILURE_STATUSES
  <2>3. CASE m.type = "QUOTE_APPROVED"
    <3>1. ~HasSent(o, "PAYMENT_PREFERENCE_CREATED")
      BY <1>3, <2>1, <2>3 DEF StageOf
    <3>2. "PAYMENT_PREFERENCE_CREATED" \in INTEGRATION_EVENT_TYPES
      BY DEF INTEGRATION_EVENT_TYPES
    <3>3. QED BY <1>5, <2>1, <2>3, <3>1, <3>2, Prompts, SettledBy
  <2>4. CASE m.type = "PAYMENT_PREFERENCE_CREATED"
    <3>1. ~HasSent(o, "PAYMENT_CONFIRMED") /\ ~HasSent(o, "PAYMENT_FAILED")
      BY <1>3, <2>1, <2>4 DEF StageOf
    <3>2. "PAYMENT_CONFIRMED" \in INTEGRATION_EVENT_TYPES
      BY DEF INTEGRATION_EVENT_TYPES
    <3>3. QED BY <1>5, <2>1, <2>4, <3>1, <3>2, Prompts, SettledBy
  <2>5. CASE m.type = "PAYMENT_CONFIRMED"
    <3>1. ~HasSent(o, "EXECUTION_STARTED") /\ ~HasSent(o, "EXECUTION_ENQUEUE_FAILED")
      BY <1>3, <2>1, <2>5 DEF StageOf
    <3>2. orders[o].status = "EXECUTION_REQUESTED"
      BY <1>7, <2>5, ReachedAwaited
    <3>3. HasPublished(o, "EXECUTION_REQUESTED")
      <4>1. Announces("EXECUTION_REQUESTED") = "EXECUTION_REQUESTED"
        BY Zenon DEF Announces, FAILURE_STATUSES
      <4>2. QED BY <1>4, <3>2, <4>1 DEF NoEvent
    <3>4. {"EXECUTION_STARTED", "EXECUTION_ENQUEUE_FAILED"} \subseteq INTEGRATION_EVENT_TYPES
      BY DEF INTEGRATION_EVENT_TYPES
    <3>5. QED BY <1>5, <3>1, <3>3, <3>4, Prompts, SettledBy
  <2>6. CASE m.type = "EXECUTION_STARTED"
    <3>1. ~HasSent(o, "EXECUTION_COMPLETED") /\ ~HasSent(o, "EXECUTION_FAILED")
      BY <1>3, <2>1, <2>6 DEF StageOf
    <3>2. "EXECUTION_COMPLETED" \in INTEGRATION_EVENT_TYPES
      BY DEF INTEGRATION_EVENT_TYPES
    <3>3. QED BY <1>5, <2>1, <2>6, <3>1, <3>2, Prompts, SettledBy
  <2>7. QED BY <2>2, <2>3, <2>4, <2>5, <2>6
<1>8. QED BY <1>1, <1>6, <1>7 DEF Live, RowsTold

\* Under the same conditions no order gets stuck: whenever the service is at rest, a
\* partner can send the message each order that has not ended is waiting for.  What is
\* left of "every order ends" is that the partners do send and the processes do run.
THEOREM NobodyWaitsForEverybody ==
  ASSUME OneWorker, CompletePayloads PROVE JointSpec => []OrdersCanGoOn
<1>1. SagaInv /\ SavedIsOwed /\ PeersInv => OrdersCanGoOn
  BY PeersGoOn
<1>2. SagaInv /\ PaidInv /\ PeersInv /\ [JointNext]_jointVars => PeersInv'
  BY StepPeers
<1>3. QED BY <1>1, <1>2, InitPeers, InitPaid, StepPaid, SagaInvariant, SavedIsNeverForgotten,
             PartnersAreInputs, PTL DEF JointSpec
=============================================================================
