-------------------------- MODULE SoleWorkerProofs --------------------------
(***************************************************************************)
(* What one worker guarantees, the worker Deployment's single replica,     *)
(* while nobody posts events by hand: a history only grows, a stage is     *)
(* announced once and never before it is saved, and the service implements *)
(* OrderLifecycle, whatever is redelivered, reordered, lost or crashes.    *)
(*                                                                         *)
(* The argument is about ranks.  The entries of a history rise, and an     *)
(* event is announced for entries of one rank only; so a message whose     *)
(* answer is already out belongs to a stage the order has left, and the    *)
(* aggregate refuses it, be it a copy, a redelivery or the service's own   *)
(* echo.                                                                   *)
(***************************************************************************)
EXTENDS OwedProofs

\* The deployment under which SagaGuarantees states its second part.
Sole == (\A v, w \in Workers : v = w) /\ AdminTypes = {}

-----------------------------------------------------------------------------
(* Ranks *)

Rank(s) ==
  CASE s = "OPENED"                -> 1
    [] s = "QUOTE_REQUESTED"       -> 2
    [] s = "QUOTE_APPROVED"        -> 3
    [] s = "PAYMENT_PENDING"       -> 4
    [] s = "PAYMENT_CONFIRMED"     -> 5
    [] s = "EXECUTION_REQUESTED"   -> 6
    [] s = "EXECUTION_IN_PROGRESS" -> 7
    [] OTHER                       -> 8

\* The rank of the entries an event stands for.
EventRank(ev) ==
  CASE ev = "OS_OPENED"               -> 2
    [] ev = "QUOTE_APPROVED"          -> 3
    [] ev = "PAYMENT_PENDING"         -> 4
    [] ev = "EXECUTION_REQUESTED"     -> 6
    [] ev = "EXECUTION_STARTED"       -> 7
    [] OTHER                          -> 8

Rises(h) == \A j \in DOMAIN h : \A i \in 1 .. j - 1 : Rank(h[i]) < Rank(h[j])

LEMMA RankBounds == \A s : Rank(s) \in 1 .. 8
BY DEF Rank

LEMMA RankOfTerminal == \A s \in TERMINAL_STATUSES : Rank(s) = 8
BY DEF Rank, TERMINAL_STATUSES, FAILURE_STATUSES

LEMMA LifecycleRises ==
  ASSUME NEW s, NEW t, <<s, t>> \in Lifecycle PROVE Rank(s) < Rank(t)
<1>1. CASE /\ s \in ServiceOrderStatus \ TERMINAL_STATUSES
           /\ t \in FAILURE_STATUSES
  <2>1. Rank(t) = 8
    BY <1>1, RankOfTerminal DEF TERMINAL_STATUSES
  <2>2. Rank(s) \in 1 .. 7
    BY <1>1 DEF Rank, ServiceOrderStatus, TERMINAL_STATUSES, FAILURE_STATUSES
  <2>3. QED BY <2>1, <2>2
<1>2. CASE <<s, t>> \in Lifecycle \ (ServiceOrderStatus \ TERMINAL_STATUSES) \X FAILURE_STATUSES
  BY <1>2 DEF Lifecycle, Rank
<1>3. QED BY <1>1, <1>2

LEMMA AnnouncedRank ==
  ASSUME NEW s \in ServiceOrderStatus, Announces(s) # NoEvent
  PROVE  Rank(s) = EventRank(Announces(s))
<1>1. CASE s \in FAILURE_STATUSES
  <2>1. Announces(s) = "OS_COMPENSATION_REQUIRED"
    BY <1>1, Zenon DEF Announces, FAILURE_STATUSES
  <2>2. QED BY <1>1, <2>1, RankOfTerminal DEF EventRank, TERMINAL_STATUSES
<1>2. CASE s \notin FAILURE_STATUSES
  BY <1>2 DEF ServiceOrderStatus, FAILURE_STATUSES, Announces, Rank, EventRank, NoEvent
<1>3. QED BY <1>1, <1>2

\* Two entries of a history that rises stand for different events.
LEMMA OneEntryPerEvent ==
  ASSUME NEW h \in Seq(ServiceOrderStatus), Rises(h),
         NEW i \in DOMAIN h, NEW j \in DOMAIN h,
         Announces(h[i]) = Announces(h[j]), Announces(h[j]) # NoEvent
  PROVE  i = j
<1>1. h[i] \in ServiceOrderStatus /\ h[j] \in ServiceOrderStatus
  BY DEF Rises
<1>2. Rank(h[i]) = Rank(h[j])
  BY <1>1, AnnouncedRank
<1>3. DOMAIN h = 1 .. Len(h) /\ Len(h) \in Nat
  OBVIOUS
<1>4. Rank(h[i]) \in 1 .. 8 /\ Rank(h[j]) \in 1 .. 8
  BY RankBounds
<1>5. i < j => Rank(h[i]) < Rank(h[j])
  BY <1>3 DEF Rises
<1>6. j < i => Rank(h[j]) < Rank(h[i])
  BY <1>3 DEF Rises
<1>7. QED BY <1>2, <1>3, <1>4, <1>5, <1>6

-----------------------------------------------------------------------------
(* One move of an order *)

\* p has all the entries of o, and more.
Grown(o, p) ==
  /\ Rises(p.history)
  /\ Len(o.history) < Len(p.history)
  /\ \A k \in DOMAIN o.history : p.history[k] = o.history[k]

\* The step of the lifecycle from one status to another, and its event.
Tells(s, t, ev) ==
  \/ <<s, t, ev>> \in Promised!Advances
  \/ /\ s \notin Promised!Ends \cup {"none"}
     /\ t \in Promised!Failures
     /\ ev = "OS_COMPENSATION_REQUIRED"

MovesOn(o, p, ev) ==
  \/ p = o /\ ev = NoEvent
  \/ Grown(o, p) /\ Tells(o.status, p.status, ev) /\ ev = Announces(p.status) /\ ev # NoEvent

LEMMA RecordedGrows ==
  ASSUME NEW o \in Order, IsCoherent(o), Rises(o.history),
         NEW s \in ServiceOrderStatus, <<o.status, s>> \in Lifecycle
  PROVE  Grown(o, Recorded(o, s)) /\ Recorded(o, s).status = s
<1> DEFINE h == o.history
           g == Append(h, s)
<1>1. h \in Seq(ServiceOrderStatus) /\ Recorded(o, s).history = g /\ Recorded(o, s).status = s
  BY DEF Order, Recorded
<1>2. DOMAIN g = 1 .. Len(h) + 1 /\ DOMAIN h = 1 .. Len(h) /\ Len(h) \in Nat /\ Len(g) = Len(h) + 1
  BY <1>1
<1>3. \A k \in 1 .. Len(h) : g[k] = h[k]
  BY <1>1
<1>4. g[Len(h) + 1] = s
  BY <1>1
<1>5. Len(h) \in 1 .. Len(h) /\ h[Len(h)] = o.status
  BY <1>1 DEF IsCoherent
<1>6. Rank(o.status) < Rank(s) /\ \A t : Rank(t) \in 1 .. 8
  BY LifecycleRises, RankBounds
<1>7. Rises(h)
  OBVIOUS
<1> HIDE DEF h, g
<1>8. Rises(g)
  <2> SUFFICES ASSUME NEW j \in DOMAIN g, NEW i \in 1 .. j - 1
               PROVE  Rank(g[i]) < Rank(g[j])
    BY DEF Rises
  <2>1. CASE j # Len(h) + 1
    BY <2>1, <1>2, <1>3, <1>7 DEF Rises
  <2>2. CASE j = Len(h) + 1
    <3>1. i \in 1 .. Len(h) /\ g[i] = h[i] /\ g[j] = s
      BY <2>2, <1>2, <1>3, <1>4
    <3>2. i # Len(h) => i \in 1 .. Len(h) - 1
      <4>1. Len(h) \in Nat /\ i \in 1 .. Len(h)
        BY <3>1, <1>2
      <4>2. QED BY <4>1
    <3>3. Len(h) \in DOMAIN h
      BY <1>2, <1>5
    <3>4. i # Len(h) => Rank(h[i]) < Rank(h[Len(h)])
      BY <3>2, <3>3, <1>7, Zenon DEF Rises
    <3>5. Rank(h[i]) \in 1 .. 8 /\ Rank(o.status) \in 1 .. 8 /\ Rank(s) \in 1 .. 8
      BY <1>6
    <3>6. QED BY <3>1, <3>4, <3>5, <1>5, <1>6
  <2>3. QED BY <2>1, <2>2
<1>9. QED BY <1>1, <1>2, <1>3, <1>8 DEF Grown, h

LEMMA GrownTransitive ==
  ASSUME NEW o \in Order, NEW p \in Order, NEW q \in Order, Grown(o, p), Grown(p, q)
  PROVE  Grown(o, q)
<1>1. DOMAIN o.history = 1 .. Len(o.history) /\ DOMAIN p.history = 1 .. Len(p.history)
      /\ {Len(o.history), Len(p.history), Len(q.history)} \subseteq Nat
  BY DEF Order
<1>2. QED BY <1>1 DEF Grown

\* A method that demands one status and does not raise took a step of the lifecycle.
LEMMA StageGrows ==
  ASSUME NEW o \in Order, IsCoherent(o), Rises(o.history), NEW from, NEW to, NEW ev,
         to \in ServiceOrderStatus, <<from, to>> \in Lifecycle,
         ~Move(o, {from}, to, ev).raises
  PROVE  /\ Grown(o, Move(o, {from}, to, ev).order)
         /\ Move(o, {from}, to, ev).order.status = to
         /\ Move(o, {from}, to, ev).order \in Order
         /\ IsCoherent(Move(o, {from}, to, ev).order)
         /\ o.status = from
<1>1. o.status = from /\ Move(o, {from}, to, ev).order = Recorded(o, to)
  BY DEF Move, Raise
<1>2. QED BY <1>1, RecordedGrows, RecordedCoherent

LEMMA FailGrows ==
  ASSUME NEW o \in Order, IsCoherent(o), Rises(o.history), NEW s \in FAILURE_STATUSES,
         ~Fail(o, s).raises
  PROVE  /\ Grown(o, Fail(o, s).order)
         /\ Fail(o, s).order.status = s
         /\ o.status \in ServiceOrderStatus \ TERMINAL_STATUSES
<1>1. /\ o.status \in ServiceOrderStatus \ TERMINAL_STATUSES
      /\ Fail(o, s).order = Recorded(o, s)
  BY DEF Fail, Move, Raise
<1>2. s \in ServiceOrderStatus /\ <<o.status, s>> \in Lifecycle
  BY <1>1 DEF FAILURE_STATUSES, ServiceOrderStatus, Lifecycle
<1>3. QED BY <1>1, <1>2, RecordedGrows

\* A saga event that is accepted moves its order along the lifecycle, and QUOTE_CREATED
\* leaves it where it is.
LEMMA ApplyMovesOn ==
  ASSUME NEW o \in Order, IsCoherent(o), Rises(o.history), NEW type, NEW keys,
         ~Apply(type, keys, o).raises
  PROVE  MovesOn(o, Apply(type, keys, o).order, Apply(type, keys, o).event)
<1> DEFINE r == Apply(type, keys, o)
<1>0. r = Dispatch(type, o) /\ r.event = Answer(type)
  BY ApplyOutcome DEF Apply, Raise
<1>1. CASE type = "QUOTE_CREATED"
  <2>1. Dispatch(type, o).order = o /\ Answer(type) = NoEvent
    BY <1>1, Zenon DEF Dispatch, Answer, FAILURE_STATUSES
  <2>2. QED BY <1>0, <2>1 DEF MovesOn
<1>2. CASE type = "QUOTE_APPROVED"
  <2> DEFINE s == "QUOTE_APPROVED"
  <2>1. Dispatch(type, o) = MarkQuoteApproved(o) /\ Answer(type) = s
    BY <1>2, Zenon DEF Dispatch, Answer, FAILURE_STATUSES
  <2>2. Announces(s) = s
    BY DEF Announces, FAILURE_STATUSES
  <2>3. s \in ServiceOrderStatus /\ <<"QUOTE_REQUESTED", s>> \in Lifecycle
    BY DEF ServiceOrderStatus, Lifecycle
  <2>4. Grown(o, r.order) /\ r.order.status = s /\ o.status = "QUOTE_REQUESTED"
    BY <1>0, <2>1, <2>3, StageGrows DEF MarkQuoteApproved
  <2>5. Tells("QUOTE_REQUESTED", s, s)
    BY DEF Tells, Promised!Advances
  <2>6. QED BY <1>0, <2>1, <2>2, <2>4, <2>5 DEF MovesOn, NoEvent
<1>3. CASE type = "PAYMENT_PREFERENCE_CREATED"
  <2> DEFINE s == "PAYMENT_PENDING"
  <2>1. Dispatch(type, o) = MarkPaymentPending(o) /\ Answer(type) = s
    BY <1>3, Zenon DEF Dispatch, Answer, FAILURE_STATUSES
  <2>2. Announces(s) = s
    BY DEF Announces, FAILURE_STATUSES
  <2>3. s \in ServiceOrderStatus /\ <<"QUOTE_APPROVED", s>> \in Lifecycle
    BY DEF ServiceOrderStatus, Lifecycle
  <2>4. Grown(o, r.order) /\ r.order.status = s /\ o.status = "QUOTE_APPROVED"
    BY <1>0, <2>1, <2>3, StageGrows DEF MarkPaymentPending
  <2>5. Tells("QUOTE_APPROVED", s, s)
    BY DEF Tells, Promised!Advances
  <2>6. QED BY <1>0, <2>1, <2>2, <2>4, <2>5 DEF MovesOn, NoEvent
<1>4. CASE type = "PAYMENT_CONFIRMED"
  <2> DEFINE c == MarkPaymentConfirmed(o)
             s == "EXECUTION_REQUESTED"
  <2>1. Dispatch(type, o) = ConfirmAndRequest(o) /\ Answer(type) = s
    BY <1>4, Zenon DEF Dispatch, Answer, FAILURE_STATUSES
  <2>2. Announces(s) = s
    BY DEF Announces, FAILURE_STATUSES
  <2>3. /\ "PAYMENT_CONFIRMED" \in ServiceOrderStatus /\ s \in ServiceOrderStatus
        /\ <<"PAYMENT_PENDING", "PAYMENT_CONFIRMED">> \in Lifecycle
        /\ <<"PAYMENT_CONFIRMED", s>> \in Lifecycle
    BY DEF ServiceOrderStatus, Lifecycle
  <2>4. ~c.raises /\ r = RequestExecution(c.order) /\ ~RequestExecution(c.order).raises
    BY <1>0, <2>1 DEF ConfirmAndRequest
  <2>5. /\ Grown(o, c.order) /\ c.order \in Order /\ IsCoherent(c.order)
        /\ o.status = "PAYMENT_PENDING"
    BY <2>3, <2>4, StageGrows DEF MarkPaymentConfirmed
  <2>6. Rises(c.order.history)
    BY <2>5 DEF Grown
  <2> HIDE DEF c
  <2> HIDE DEF r
  <2>7. Grown(c.order, r.order) /\ r.order.status = s /\ r.order \in Order
    <3>1. ASSUME NEW d \in Order, IsCoherent(d), Rises(d.history), ~RequestExecution(d).raises
          PROVE  /\ Grown(d, RequestExecution(d).order)
                 /\ RequestExecution(d).order.status = s
                 /\ RequestExecution(d).order \in Order
      <4>1. RequestExecution(d) = Move(d, {"PAYMENT_CONFIRMED"}, s, s)
        BY DEF RequestExecution
      <4>2. s \in ServiceOrderStatus /\ <<"PAYMENT_CONFIRMED", s>> \in Lifecycle
        BY <2>3
      <4>3. QED BY <3>1, <4>1, <4>2, StageGrows
    <3>2. QED BY <2>4, <2>5, <2>6, <3>1
  <2>8. Grown(o, r.order)
    BY <2>5, <2>7, GrownTransitive
  <2>9. Tells("PAYMENT_PENDING", s, s)
    BY DEF Tells, Promised!Advances
  <2>10. MovesOn(o, r.order, r.event)
    BY <1>0, <2>1, <2>2, <2>5, <2>7, <2>8, <2>9 DEF MovesOn, NoEvent
  <2>11. QED BY <2>10 DEF r
<1>5. CASE type = "EXECUTION_STARTED"
  <2> DEFINE s == "EXECUTION_IN_PROGRESS"
  <2>1. Dispatch(type, o) = MarkExecutionStarted(o) /\ Answer(type) = "EXECUTION_STARTED"
    BY <1>5, Zenon DEF Dispatch, Answer, FAILURE_STATUSES
  <2>2. Announces(s) = "EXECUTION_STARTED"
    BY DEF Announces, FAILURE_STATUSES
  <2>3. s \in ServiceOrderStatus /\ <<"EXECUTION_REQUESTED", s>> \in Lifecycle
    BY DEF ServiceOrderStatus, Lifecycle
  <2>4. Grown(o, r.order) /\ r.order.status = s /\ o.status = "EXECUTION_REQUESTED"
    BY <1>0, <2>1, <2>3, StageGrows DEF MarkExecutionStarted
  <2>5. Tells("EXECUTION_REQUESTED", s, "EXECUTION_STARTED")
    BY DEF Tells, Promised!Advances
  <2>6. QED BY <1>0, <2>1, <2>2, <2>4, <2>5 DEF MovesOn, NoEvent
<1>6. CASE type = "EXECUTION_COMPLETED"
  <2> DEFINE s == "COMPLETED"
  <2>1. Dispatch(type, o) = Complete(o) /\ Answer(type) = "OS_COMPLETED"
    BY <1>6, Zenon DEF Dispatch, Answer, FAILURE_STATUSES
  <2>2. Announces(s) = "OS_COMPLETED"
    BY DEF Announces, FAILURE_STATUSES
  <2>3. s \in ServiceOrderStatus /\ <<"EXECUTION_IN_PROGRESS", s>> \in Lifecycle
    BY DEF ServiceOrderStatus, Lifecycle
  <2>4. Grown(o, r.order) /\ r.order.status = s /\ o.status = "EXECUTION_IN_PROGRESS"
    BY <1>0, <2>1, <2>3, StageGrows DEF Complete
  <2>5. Tells("EXECUTION_IN_PROGRESS", s, "OS_COMPLETED")
    BY DEF Tells, Promised!Advances
  <2>6. QED BY <1>0, <2>1, <2>2, <2>4, <2>5 DEF MovesOn, NoEvent
<1>7. CASE type \in FAILURE_STATUSES
  <2>1. Dispatch(type, o) = Fail(o, type) /\ Answer(type) = "OS_COMPENSATION_REQUIRED"
    BY <1>7, Zenon DEF Dispatch, Answer, FAILURE_STATUSES
  <2>2. Announces(type) = "OS_COMPENSATION_REQUIRED"
    BY <1>7, Zenon DEF Announces, FAILURE_STATUSES
  <2>4. /\ Grown(o, r.order) /\ r.order.status = type
        /\ o.status \in ServiceOrderStatus \ TERMINAL_STATUSES
    BY <1>7, <1>0, <2>1, FailGrows
  <2>5. Tells(o.status, type, "OS_COMPENSATION_REQUIRED")
    BY <1>7, <2>4 DEF Tells, Promised!Ends, Promised!Failures, FAILURE_STATUSES,
       TERMINAL_STATUSES, ServiceOrderStatus
  <2>6. QED BY <1>0, <2>1, <2>2, <2>4, <2>5 DEF MovesOn, NoEvent
<1>8. CASE type \notin {"QUOTE_CREATED", "QUOTE_APPROVED", "PAYMENT_PREFERENCE_CREATED",
                        "PAYMENT_CONFIRMED", "EXECUTION_STARTED", "EXECUTION_COMPLETED"}
                       \cup FAILURE_STATUSES
  <2>1. Dispatch(type, o) = Raise(o)
    BY <1>8, Zenon DEF Dispatch, FAILURE_STATUSES
  <2>2. QED BY <1>0, <2>1 DEF Raise
<1>9. QED BY <1>1, <1>2, <1>3, <1>4, <1>5, <1>6, <1>7, <1>8

\* Of the events that stand for a stage, an order can only accept one that answers itself.
LEMMA EchoAnswersItself ==
  ASSUME NEW s \in ServiceOrderStatus, NEW type, type = Announces(s), type # NoEvent,
         NEW o, NEW keys, ~Apply(type, keys, o).raises
  PROVE  Answer(type) = type
<1>1. type \in {"OS_OPENED", "QUOTE_APPROVED", "PAYMENT_PENDING", "EXECUTION_REQUESTED",
                "EXECUTION_STARTED", "OS_COMPLETED", "OS_COMPENSATION_REQUIRED"}
  BY DEF ServiceOrderStatus, FAILURE_STATUSES, Announces
<1>2. type \in {"QUOTE_APPROVED", "EXECUTION_STARTED"} => Answer(type) = type
  BY DEF Answer, FAILURE_STATUSES
<1>3. type \in {"OS_OPENED", "PAYMENT_PENDING", "EXECUTION_REQUESTED", "OS_COMPLETED",
                "OS_COMPENSATION_REQUIRED"} => Dispatch(type, o) = Raise(o)
  BY DEF Dispatch, FAILURE_STATUSES
<1>4. ~Dispatch(type, o).raises /\ Raise(o).raises
  BY DEF Apply, Raise
<1>5. QED BY <1>1, <1>2, <1>3, <1>4

-----------------------------------------------------------------------------
(* The inductive invariant *)

RowsRise == \A o \in Orders : Rises(orders[o].history)

Says(pub, o, ev) == \E i \in DOMAIN pub : pub[i].order = o /\ pub[i].type = ev

Mentions(pub, o) == \E i \in DOMAIN pub : pub[i].order = o

\* Nobody speaks of an order the service has not announced, and an own event is one
\* that was published.
Known(m, pub) ==
  /\ m.order \in Orders => Mentions(pub, m.order)
  /\ IsOwn(m) => Says(pub, m.order, m.type)

QueueKnown == \A i \in DOMAIN queue : Known(queue[i], published)

\* What an actor with a changed order knows about the tables and the exchange.
ActorOK(a, j, ord, pub) ==
  /\ a \in Workers /\ j.phase # "idle" => Known(j.msg, pub)
  /\ a \in Threads => j.phase \in {"idle", "save", "publish"}
  /\ j.phase \in {"save", "publish"} =>
       /\ a \in Workers => ~IsOwn(j.msg)
       /\ a \in Threads => ~Mentions(pub, j.msg.order)
       /\ j.next # NoEvent => ~Says(pub, j.msg.order, j.next)
  /\ j.phase = "save" => MovesOn(ord[j.msg.order], j.copy, j.next)
  /\ j.phase = "publish" => ord[j.msg.order] = j.copy /\ j.next = Announces(j.copy.status)

ActorsOK == \A a \in Actors : ActorOK(a, job[a], orders, published)

\* No two actors hold the same order.
Alone ==
  \A a, b \in Actors :
    Holds(a) /\ Holds(b) /\ job[a].msg.order = job[b].msg.order => a = b

SoleInv ==
  /\ RowsRise
  /\ AnnouncedIsSaved
  /\ AnnouncedOnce
  /\ QueueKnown
  /\ ActorsOK
  /\ Alone

LEMMA InitSole == Init => SoleInv
<1> SUFFICES ASSUME Init PROVE SoleInv
  OBVIOUS
<1>1. RowsRise
  BY DEF Init, RowsRise, NoRow, Rises
<1>2. AnnouncedIsSaved /\ AnnouncedOnce /\ QueueKnown
  BY DEF Init, AnnouncedIsSaved, AnnouncedOnce, PublishedOf, QueueKnown
<1>3. \A a \in Actors : job[a] = Idle /\ Idle.phase = "idle"
  BY DEF Init, Idle, Busy
<1>4. ActorsOK /\ Alone
  BY <1>3 DEF ActorsOK, ActorOK, Alone, Holds
<1>5. QED BY <1>1, <1>2, <1>4 DEF SoleInv

\* An announced order has a row.
LEMMA MentionedHasRow ==
  ASSUME SagaInv, AnnouncedIsSaved, NEW o \in Orders, Mentions(published, o) PROVE HasRow(o)
BY DEF Mentions, AnnouncedIsSaved, HasRow, NoRow

\* An event that is out stands for a saved entry.
LEMMA SaidIsSaved ==
  ASSUME AnnouncedIsSaved, NEW o, NEW ev, Says(published, o, ev)
  PROVE  \E k \in DOMAIN orders[o].history : ev = Announces(orders[o].history[k])
BY DEF Says, AnnouncedIsSaved

\* What an order moves on to has not been announced.
LEMMA MoveIsNew ==
  ASSUME SagaInv, AnnouncedIsSaved, NEW o \in Orders, NEW p \in Order, IsCoherent(p),
         NEW ev, ev # NoEvent, MovesOn(orders[o], p, ev)
  PROVE  ~Says(published, o, ev)
<1> SUFFICES ASSUME Says(published, o, ev) PROVE FALSE
  OBVIOUS
<1>1. PICK k \in DOMAIN orders[o].history : ev = Announces(orders[o].history[k])
  BY SaidIsSaved
<1>2. Grown(orders[o], p) /\ ev = Announces(p.status)
  BY DEF MovesOn
<1>3. orders[o].history \in Seq(ServiceOrderStatus) /\ p.history \in Seq(ServiceOrderStatus)
  BY DEF SagaInv, TypeOK, Row, Order, NoRow
<1>4. k \in 1 .. Len(orders[o].history) /\ Len(orders[o].history) < Len(p.history)
      /\ p.history[k] = orders[o].history[k]
  BY <1>2, <1>3 DEF Grown
<1>5. k \in DOMAIN p.history /\ Len(p.history) \in DOMAIN p.history /\ k < Len(p.history)
  BY <1>3, <1>4
<1>6. p.history[Len(p.history)] = p.status
  BY DEF IsCoherent
<1>7. k = Len(p.history)
  BY <1>1, <1>2, <1>3, <1>4, <1>5, <1>6, OneEntryPerEvent DEF Grown
<1>8. QED BY <1>5, <1>7

-----------------------------------------------------------------------------
(* Steps that change neither the rows nor what is published *)

LEMMA SoleUnmoved ==
  ASSUME SoleInv, UNCHANGED <<orders, published, job>>, QueueKnown' PROVE SoleInv'
BY DEF SoleInv, RowsRise, AnnouncedIsSaved, AnnouncedOnce, PublishedOf, ActorsOK, Alone, Holds

\* One actor goes on, and what it goes on with is sound and held by nobody else.
LEMMA SoleKeeps ==
  ASSUME SagaInv, SoleInv, NEW a \in Actors, NEW j, Become(a, j),
         UNCHANGED <<orders, published>>, QueueKnown',
         ActorOK(a, j, orders, published),
         j.phase \in {"save", "publish"} =>
           \A b \in Actors \ {a} : Holds(b) => job[b].msg.order # j.msg.order
  PROVE  SoleInv'
<1>1. PICK k : k = IF j.phase = "idle" THEN Idle ELSE j
  OBVIOUS
<1>2. Idle.phase = "idle"
  BY DEF Idle, Busy
<1>3. ActorOK(a, k, orders, published)
  <2>1. CASE j.phase = "idle"
    BY <1>1, <1>2, <2>1 DEF ActorOK
  <2>2. CASE j.phase # "idle"
    BY <1>1, <2>2
  <2>3. QED BY <2>1, <2>2
<1>4. k.phase \in {"save", "publish"} => k = j
  BY <1>1, <1>2
<1>5. \A b \in Actors : job'[b] = IF b = a THEN k ELSE job[b]
  BY <1>1 DEF Become, SagaInv, TypeOK
<1>6. ActorsOK'
  BY <1>3, <1>5 DEF SoleInv, ActorsOK
<1>7. Alone'
  <2>1. \A b \in Actors \ {a} : Holds(b)' => Holds(b) /\ job'[b] = job[b]
    BY <1>5 DEF Holds
  <2>2. Holds(a)' => job'[a] = j /\ j.phase \in {"save", "publish"}
    BY <1>4, <1>5 DEF Holds
  <2>3. QED BY <2>1, <2>2 DEF SoleInv, Alone
<1>8. (RowsRise /\ AnnouncedIsSaved /\ AnnouncedOnce)'
  BY DEF SoleInv, RowsRise, AnnouncedIsSaved, AnnouncedOnce, PublishedOf
<1>9. QED BY <1>6, <1>7, <1>8 DEF SoleInv

\* An actor that holds nothing after its step.
LEMMA SoleGoto ==
  ASSUME SagaInv, SoleInv, NEW a \in Actors, NEW phase, Goto(a, phase),
         phase \notin {"save", "publish"}, job[a].phase # "idle" \/ phase = "idle",
         a \in Threads => phase = "idle",
         UNCHANGED <<orders, published>>, QueueKnown'
  PROVE  SoleInv'
<1> DEFINE j == Busy(phase, job[a].msg, job[a].copy, job[a].next)
<1>1. Become(a, j) /\ j.phase = phase /\ j.msg = job[a].msg
  BY DEF Goto, Busy
<1>2. ActorOK(a, job[a], orders, published)
  BY DEF SoleInv, ActorsOK
<1> HIDE DEF j
<1>3. ActorOK(a, j, orders, published)
  BY <1>1, <1>2 DEF ActorOK
<1>4. QED BY <1>1, <1>3, SoleKeeps

LEMMA QueueStays ==
  ASSUME SoleInv, UNCHANGED <<queue, published>> PROVE QueueKnown'
BY DEF SoleInv, QueueKnown

\* A message that goes back to the queue is as well known as the others.
LEMMA QueueTakesBack ==
  ASSUME SagaInv, SoleInv, UnsettledInv, NEW w \in Workers, Requeue(w), UNCHANGED published
  PROVE  QueueKnown'
<1>1. \A i \in DOMAIN queue : Known(queue[i], published)
  BY DEF SoleInv, QueueKnown
<1>2. queue \in Seq(Messages) /\ w \in Actors /\ job[w].msg \in Messages
  BY DEF SagaInv, TypeOK, Actors, Job
<1>3. CASE ~unacked[w]
  BY <1>1, <1>3 DEF Requeue, QueueKnown
<1>4. CASE unacked[w]
  <2>1. Known(job[w].msg, published)
    BY <1>2, <1>4 DEF UnsettledInv, SoleInv, ActorsOK, ActorOK
  <2>2. PICK m \in Messages : m = job[w].msg
    BY <1>2
  <2>3. queue' = <<m>> \o queue
    BY <1>4, <2>2 DEF Requeue
  <2>4. \A i \in DOMAIN queue' : queue'[i] = m \/ \E k \in DOMAIN queue : queue'[i] = queue[k]
    <3> TAKE i \in DOMAIN queue'
    <3>1. Len(<<m>>) = 1 /\ <<m>>[1] = m /\ <<m>> \in Seq(Messages)
      OBVIOUS
    <3>2. i \in 1 .. 1 + Len(queue) /\ Len(queue) \in Nat
      BY <1>2, <2>3, <3>1
    <3>3. CASE i = 1
      BY <1>2, <2>3, <3>1, <3>3
    <3>4. CASE i # 1
      <4>1. i - 1 \in 1 .. Len(queue) /\ queue'[i] = queue[i - 1]
        BY <1>2, <2>3, <3>1, <3>2, <3>4
      <4>2. QED BY <4>1, <1>2
    <3>5. QED BY <3>3, <3>4
  <2>5. QED BY <1>1, <2>1, <2>2, <2>4 DEF QueueKnown
<1>5. QED BY <1>3, <1>4

LEMMA SoleDeliver ==
  ASSUME SagaInv, SoleInv, NEW w \in Workers, Deliver(w) PROVE SoleInv'
<1>1. /\ queue \in Seq(Messages) /\ queue # <<>> /\ queue' = Tail(queue)
      /\ UNCHANGED <<orders, published>>
  BY DEF SagaInv, TypeOK, Deliver, tables
<1>2. \A i \in DOMAIN queue : Known(queue[i], published)
  BY DEF SoleInv, QueueKnown
<1>3. Known(Head(queue), published)
  BY <1>1, <1>2
<1>4. QueueKnown'
  <2>1. \A i \in DOMAIN Tail(queue) : i + 1 \in DOMAIN queue /\ Tail(queue)[i] = queue[i + 1]
    BY <1>1
  <2>2. QED BY <1>1, <1>2, <2>1 DEF QueueKnown
<1>5. PICK phase \in {"check", "nack"} : Become(w, Busy(phase, Head(queue), NoRow, NoEvent))
  BY DEF Deliver
<1> DEFINE j == Busy(phase, Head(queue), NoRow, NoEvent)
<1>6. w \in Actors /\ w \notin Threads
  BY SagaConstants DEF Actors
<1>7. j.phase = phase /\ j.msg = Head(queue)
  BY DEF Busy
<1> HIDE DEF j
<1>8. ActorOK(w, j, orders, published) /\ j.phase \notin {"save", "publish"}
  BY <1>3, <1>5, <1>6, <1>7 DEF ActorOK
<1>9. Become(w, j)
  BY <1>5 DEF j
<1>10. QED BY <1>1, <1>4, <1>6, <1>8, <1>9, SoleKeeps

\* The worker looks at processed_events, or settles its message.
LEMMA SoleRecords ==
  ASSUME SagaInv, SoleInv, NEW w \in Workers,
         IsProcessed(w) \/ MarkProcessed(w) \/ InsertProcessed(w) \/ Ack(w) \/ Nack(w)
  PROVE  SoleInv'
<1>1. w \in Actors /\ w \notin Threads
  BY SagaConstants DEF Actors
<1>2. UNCHANGED <<orders, published, queue>>
  BY DEF IsProcessed, MarkProcessed, InsertProcessed, Ack, Nack, Settle, tables, broker
<1>3. PICK phase \in {"ack", "nack", "get", "insert", "idle"} :
        Goto(w, phase) /\ (job[w].phase # "idle" \/ phase = "idle")
  BY DEF IsProcessed, MarkProcessed, InsertProcessed, Ack, Nack, Settle, At
<1>4. QED BY <1>1, <1>2, <1>3, QueueStays, SoleGoto

-----------------------------------------------------------------------------
(* The use cases *)

\* What the worker has loaded and changed is a stage nobody has announced: a copy of
\* an event, a redelivery and an echo are all refused here.
LEMMA SoleLoad ==
  ASSUME Sole, SagaInv, SoleInv, NEW a \in Actors, LoadAndApply(a) PROVE SoleInv'
<1> DEFINE m == job[a].msg
           o == m.order
           r == IF HasRow(o) THEN Apply(m.type, m.keys, orders[o]) ELSE Raise(NoRow)
           j == Busy(IF r.raises THEN Failed(a) ELSE "save", m, r.order, r.event)
<1>1. Become(a, j) /\ At(a, "get") /\ UNCHANGED <<orders, published, queue>>
  BY DEF LoadAndApply, tables, broker
<1>2. a \in Workers /\ a \notin Threads /\ Known(m, published)
  <2>1. ActorOK(a, job[a], orders, published)
    BY DEF SoleInv, ActorsOK
  <2>2. job[a].phase = "get"
    BY <1>1 DEF At
  <2>3. a \notin Threads
    BY <2>1, <2>2 DEF ActorOK
  <2>4. a \in Workers
    BY <2>3 DEF Actors
  <2>5. QED BY <2>1, <2>2, <2>3, <2>4 DEF ActorOK
<1>3. QueueKnown'
  BY <1>1, QueueStays
<1>4. j.msg = m /\ j.copy = r.order /\ j.next = r.event
      /\ j.phase = IF r.raises THEN "nack" ELSE "save"
  BY <1>2 DEF Busy, Failed
<1>5. CASE r.raises
  <2>1. ActorOK(a, j, orders, published) /\ j.phase \notin {"save", "publish"}
    BY <1>2, <1>4, <1>5 DEF ActorOK
  <2> HIDE DEF j
  <2>2. QED BY <1>1, <1>3, <2>1, SoleKeeps
<1>6. CASE ~r.raises
  <2>1. o \in Orders /\ HasRow(o) /\ r = Apply(m.type, m.keys, orders[o])
    BY <1>6 DEF HasRow, Raise
  <2>2. orders[o] \in Order /\ IsCoherent(orders[o]) /\ Rises(orders[o].history)
    BY <2>1 DEF SagaInv, TypeOK, RowsAreCoherent, HasRow, Row, SoleInv, RowsRise
  <2>3. MovesOn(orders[o], r.order, r.event)
    BY <1>6, <2>1, <2>2, ApplyMovesOn
  <2>4. r.order \in Order /\ IsCoherent(r.order) /\ r.event = Answer(m.type)
    BY <1>6, <2>1, <2>2, ApplyOutcome DEF IsOutcome
  <2>5. r.event # NoEvent => ~Says(published, o, r.event)
    <3> HIDE DEF r, o
    <3>1. QED BY <2>1, <2>3, <2>4, MoveIsNew DEF SoleInv
  <2>6. ~IsOwn(m)
    <3> SUFFICES ASSUME IsOwn(m) PROVE FALSE
      OBVIOUS
    <3>1. Says(published, o, m.type)
      BY <1>2 DEF Known
    <3>2. m.type # NoEvent
      <4>1. \A i \in DOMAIN published : published[i].type \in INTEGRATION_EVENT_TYPES
        BY DEF SagaInv, TypeOK
      <4>2. QED BY <3>1, <4>1 DEF Says, INTEGRATION_EVENT_TYPES, NoEvent
    <3>3. PICK k \in DOMAIN orders[o].history : m.type = Announces(orders[o].history[k])
      BY <3>1, SaidIsSaved DEF SoleInv
    <3>4. orders[o].history[k] \in ServiceOrderStatus
      BY <2>2 DEF Order
    <3>5. Answer(m.type) = m.type
      <4>1. ~Apply(m.type, m.keys, orders[o]).raises
        BY <1>6, <2>1
      <4>2. QED BY <3>2, <3>3, <3>4, <4>1, EchoAnswersItself
    <3>6. QED BY <2>4, <2>5, <3>1, <3>2, <3>5
  <2>7. \A b \in Actors \ {a} : Holds(b) => job[b].msg.order # o
    <3> SUFFICES ASSUME NEW b \in Actors \ {a}, Holds(b) PROVE job[b].msg.order # o
      OBVIOUS
    <3>1. b \in Threads
      BY <1>2 DEF Sole, Actors
    <3>2. ~Mentions(published, job[b].msg.order)
      BY <3>1 DEF SoleInv, ActorsOK, ActorOK, Holds
    <3>3. QED BY <1>2, <2>1, <3>2 DEF Known
  <2> HIDE DEF r
  <2>8. ActorOK(a, j, orders, published)
    BY <1>2, <1>4, <1>6, <2>3, <2>5, <2>6 DEF ActorOK
  <2>9. QED
    <3> HIDE DEF j
    <3>1. QED BY <1>1, <1>3, <1>4, <2>7, <2>8, SoleKeeps
<1>7. QED BY <1>5, <1>6

LEMMA TwoEntries ==
  ASSUME NEW S, NEW x \in S, NEW y \in S, NEW h, h = Append(<<x>>, y)
  PROVE  Len(h) = 2 /\ DOMAIN h = 1 .. 2 /\ h[1] = x /\ h[2] = y
<1>1. PICK g \in Seq(S) : g = <<x>>
  OBVIOUS
<1>2. Len(g) = 1 /\ g[1] = x
  BY <1>1
<1>3. h = Append(g, y)
  BY <1>1
<1>4. QED BY <1>2, <1>3

LEMMA OpeningMovesOn == MovesOn(NoRow, Recorded(Opened, "QUOTE_REQUESTED"), "OS_OPENED")
<1> DEFINE p == Recorded(Opened, "QUOTE_REQUESTED")
<1>1. p.status = "QUOTE_REQUESTED" /\ p.history = Append(<<"OPENED">>, "QUOTE_REQUESTED")
  <2>1. Opened.history = <<"OPENED">>
    BY DEF Opened
  <2>2. QED BY <2>1 DEF Recorded
<1>2. /\ Len(p.history) = 2 /\ DOMAIN p.history = 1 .. 2
      /\ p.history[1] = "OPENED" /\ p.history[2] = "QUOTE_REQUESTED"
  <2> HIDE DEF p
  <2>1. "OPENED" \in ServiceOrderStatus /\ "QUOTE_REQUESTED" \in ServiceOrderStatus
    BY DEF ServiceOrderStatus
  <2>2. QED BY <1>1, <2>1, TwoEntries
<1>3. Rank("OPENED") = 1 /\ Rank("QUOTE_REQUESTED") = 2
  BY DEF Rank
<1>4. Announces("QUOTE_REQUESTED") = "OS_OPENED"
  BY DEF Announces, FAILURE_STATUSES
<1> HIDE DEF p
<1>5. Rises(p.history)
  <2>1. \A j \in 1 .. 2 : \A i \in 1 .. j - 1 : i = 1 /\ j = 2
    OBVIOUS
  <2>2. QED BY <1>2, <1>3, <2>1 DEF Rises
<1>6. Grown(NoRow, p)
  <2>1. NoRow.history = <<>> /\ Len(NoRow.history) = 0 /\ DOMAIN NoRow.history = {}
    BY DEF NoRow
  <2>2. Len(p.history) = 2
    BY <1>2
  <2>3. QED BY <1>5, <2>1, <2>2 DEF Grown
<1>7. Tells("none", "QUOTE_REQUESTED", "OS_OPENED") /\ NoRow.status = "none"
  BY DEF Tells, Promised!Advances, NoRow
<1>8. QED BY <1>1, <1>4, <1>6, <1>7 DEF MovesOn, p, NoEvent

LEMMA SoleOpen ==
  ASSUME SagaInv, SoleInv, NEW t \in Threads, NEW o \in Orders, Open(t, o) PROVE SoleInv'
<1> DEFINE new == Recorded(Opened, "QUOTE_REQUESTED")
           j == Busy("save", ApiMessage(NoEvent, o), new, "OS_OPENED")
<1>1. Become(t, j) /\ UNCHANGED <<orders, published, queue>>
  BY OpeningOutcome DEF Open, tables, broker
<1>2. /\ t \in Actors /\ t \notin Workers
      /\ orders[o] = NoRow
      /\ \A u \in Threads : At(u, "save") => job[u].msg.order # o
  BY SagaConstants DEF Open, Actors, IsFresh
<1>3. ~Mentions(published, o)
  BY <1>2, MentionedHasRow DEF SoleInv, HasRow
<1>4. ~Says(published, o, "OS_OPENED")
  BY <1>3 DEF Says, Mentions
<1>5. \A b \in Actors \ {t} : Holds(b) => job[b].msg.order # o
  <2> SUFFICES ASSUME NEW b \in Actors, Holds(b), job[b].msg.order = o PROVE FALSE
    OBVIOUS
  <2>1. ActorOK(b, job[b], orders, published)
    BY DEF SoleInv, ActorsOK
  <2>2. CASE b \in Workers
    BY <1>3, <2>1, <2>2 DEF ActorOK, Known, Holds
  <2>3. CASE b \in Threads
    <3>1. At(b, "publish")
      BY <1>2, <2>3 DEF Holds, At
    <3>2. job[b].copy = NoRow
      BY <1>2, <2>1, <3>1 DEF ActorOK, At
    <3>3. job[b].copy \in Order
      BY DEF SagaInv, JobOK, Holds
    <3>4. QED BY <3>2, <3>3 DEF NoRow, Order, ServiceOrderStatus
  <2>4. QED BY <2>2, <2>3 DEF Actors
<1>6. j.phase = "save" /\ j.msg.order = o /\ j.copy = new /\ j.next = "OS_OPENED"
  BY DEF Busy, ApiMessage
<1>7. QueueKnown'
  BY <1>1, QueueStays
<1>8. MovesOn(NoRow, new, "OS_OPENED")
  BY OpeningMovesOn
<1> HIDE DEF j, new
<1>9. ActorOK(t, j, orders, published)
  BY <1>2, <1>3, <1>4, <1>6, <1>8 DEF ActorOK
<1>10. QED BY <1>1, <1>2, <1>5, <1>6, <1>7, <1>9, SoleKeeps

\* The row becomes the copy, which has every entry the row had.
LEMMA SoleSave ==
  ASSUME SagaInv, SoleInv, NEW a \in Actors, Save(a) PROVE SoleInv'
<1>1. PICK k : k = job[a]
  OBVIOUS
<1> DEFINE o == k.msg.order
<1>2. /\ k.phase = "save" /\ o \in Orders /\ k.copy \in Order /\ IsCoherent(k.copy)
      /\ orders' = [orders EXCEPT ![o] = k.copy]
      /\ UNCHANGED <<published, queue>>
  BY <1>1 DEF Save, At, SagaInv, JobOK, broker
<1>3. ActorOK(a, k, orders, published) /\ MovesOn(orders[o], k.copy, k.next)
  BY <1>1, <1>2 DEF SoleInv, ActorsOK, ActorOK
<1>4. QueueKnown' /\ orders \in [Orders -> Row] /\ DOMAIN job = Actors
  BY <1>2, QueueStays DEF SagaInv, TypeOK
<1>5. CASE k.next = NoEvent
  <2>1. orders' = orders
    BY <1>2, <1>3, <1>4, <1>5 DEF MovesOn
  <2>2. Goto(a, Handled(a)) /\ Handled(a) \in {"mark", "idle"}
    BY <1>1, <1>5 DEF Save, Handled
  <2>3. a \in Threads => Handled(a) = "idle"
    BY SagaConstants DEF Handled
  <2>4. QED BY <1>1, <1>2, <1>4, <2>1, <2>2, <2>3, SoleGoto
<1>6. CASE k.next # NoEvent
  <2>1. PICK j : j = Busy("publish", k.msg, k.copy, k.next)
    OBVIOUS
  <2>2. j.phase = "publish" /\ j.msg = k.msg /\ j.copy = k.copy /\ j.next = k.next
    BY <2>1 DEF Busy
  <2>3. \A b \in Actors : job'[b] = IF b = a THEN j ELSE job[b]
    BY <1>1, <1>4, <1>6, <2>1, <2>2 DEF Save, Goto, Become
  <2>4. Grown(orders[o], k.copy) /\ k.next = Announces(k.copy.status)
    BY <1>3, <1>6 DEF MovesOn
  <2>5. \A p \in Orders : orders'[p] = IF p = o THEN k.copy ELSE orders[p]
    BY <1>2, <1>4
  <2>6. RowsRise'
    BY <2>4, <2>5 DEF SoleInv, RowsRise, Grown
  <2>7. AnnouncedIsSaved'
    <3> SUFFICES ASSUME NEW i \in DOMAIN published
                 PROVE  \E n \in DOMAIN orders'[published[i].order].history :
                          published[i].type = Announces(orders'[published[i].order].history[n])
      BY <1>2 DEF AnnouncedIsSaved
    <3> DEFINE p == published[i].order
    <3>1. PICK n \in DOMAIN orders[p].history :
            published[i].type = Announces(orders[p].history[n])
      BY DEF SoleInv, AnnouncedIsSaved
    <3>2. CASE p = o
      <4>0. orders[o] \in Order \cup {NoRow} /\ NoRow.history \in Seq(ServiceOrderStatus)
        BY <1>2, <1>4 DEF Row, NoRow
      <4>1. /\ orders[o].history \in Seq(ServiceOrderStatus)
            /\ k.copy.history \in Seq(ServiceOrderStatus)
        BY <1>2, <4>0 DEF Order
      <4>2. n \in DOMAIN k.copy.history /\ k.copy.history[n] = orders[o].history[n]
        BY <2>4, <3>1, <3>2, <4>1 DEF Grown
      <4>3. QED BY <1>2, <2>5, <3>1, <3>2, <4>2
    <3>3. CASE p # o
      <4>1. orders'[p] = orders[p]
        BY <1>2, <1>4, <3>3
      <4>2. QED BY <3>1, <4>1
    <3>4. QED BY <3>2, <3>3
  <2>8. AnnouncedOnce'
    BY <1>2 DEF SoleInv, AnnouncedOnce, PublishedOf
  <2>9. \A b \in Actors \ {a} : Holds(b) => job[b].msg.order \in Orders /\ job[b].msg.order # o
    BY <1>1, <1>2 DEF SoleInv, Alone, Holds, SagaInv, JobOK
  <2>10. ActorsOK'
    <3>1. ASSUME NEW b \in Actors PROVE ActorOK(b, job'[b], orders', published')
      <4>1. CASE b = a
        BY <1>2, <1>3, <2>2, <2>3, <2>4, <2>5, <4>1 DEF ActorOK
      <4>2. CASE b # a
        <5>1. ActorOK(b, job[b], orders, published)
          BY DEF SoleInv, ActorsOK
        <5>2. Holds(b) => orders'[job[b].msg.order] = orders[job[b].msg.order]
          BY <2>5, <2>9, <4>2
        <5>3. QED BY <1>2, <2>3, <4>2, <5>1, <5>2 DEF ActorOK, Holds
      <4>3. QED BY <4>1, <4>2
    <3>2. QED BY <3>1 DEF ActorsOK
  <2>11. Alone'
    <3>1. \A b \in Actors : Holds(b)' => Holds(b) /\ job'[b].msg = job[b].msg
      BY <1>1, <1>2, <2>2, <2>3 DEF Holds
    <3>2. QED BY <3>1 DEF SoleInv, Alone
  <2>12. QED BY <1>4, <2>6, <2>7, <2>8, <2>10, <2>11 DEF SoleInv
<1>7. QED BY <1>5, <1>6

\* What is published stands for the status the row has by now, for the first time.
LEMMA SolePublish ==
  ASSUME SagaInv, SoleInv, NEW a \in Actors, Publish(a) PROVE SoleInv'
<1>1. PICK k : k = job[a]
  OBVIOUS
<1>2. PICK m : m = Outgoing(k)
  OBVIOUS
<1> DEFINE o == k.msg.order
<1>3. /\ k.phase = "publish" /\ o \in Orders /\ k.copy \in Order /\ IsCoherent(k.copy)
      /\ k.next # NoEvent
      /\ published' = Append(published, m) /\ queue' = Append(queue, m)
      /\ UNCHANGED orders
  BY <1>1, <1>2 DEF Publish, At, SagaInv, JobOK, tables
<1>4. /\ ActorOK(a, k, orders, published)
      /\ orders[o] = k.copy /\ k.next = Announces(k.copy.status)
      /\ ~Says(published, o, k.next)
  BY <1>1, <1>3 DEF SoleInv, ActorsOK, ActorOK
<1>5. m.order = o /\ m.type = k.next
  BY <1>2 DEF Outgoing
<1>6. published \in Seq(Messages) /\ queue \in Seq(Messages) /\ DOMAIN job = Actors
  BY DEF SagaInv, TypeOK
<1>7. /\ DOMAIN published' = DOMAIN published \cup {Len(published) + 1}
      /\ \A i \in DOMAIN published : published'[i] = published[i]
      /\ published'[Len(published) + 1] = m
  BY <1>3, <1>6
<1>8. /\ DOMAIN queue' = DOMAIN queue \cup {Len(queue) + 1}
      /\ \A i \in DOMAIN queue : queue'[i] = queue[i]
      /\ queue'[Len(queue) + 1] = m
  BY <1>3, <1>6
<1>9. PICK phase \in {"mark", "idle"} : Goto(a, phase) /\ (a \in Threads => phase = "idle")
  BY SagaConstants DEF Publish, Handled
<1>10. PICK j : /\ j.phase \in {"mark", "idle"} /\ (a \in Threads => j.phase = "idle")
                /\ j.phase # "idle" => j.msg = k.msg
                /\ \A b \in Actors : job'[b] = IF b = a THEN j ELSE job[b]
  <2>1. job' = [job EXCEPT ![a] = IF phase = "idle" THEN Idle
                                                    ELSE Busy(phase, k.msg, k.copy, k.next)]
    BY <1>1, <1>9 DEF Goto, Become, Busy
  <2>2. Idle.phase = "idle" /\ Busy(phase, k.msg, k.copy, k.next).phase = phase
        /\ Busy(phase, k.msg, k.copy, k.next).msg = k.msg
    BY DEF Idle, Busy
  <2>3. \A b \in Actors : job'[b] = IF b = a THEN IF phase = "idle" THEN Idle
                                              ELSE Busy(phase, k.msg, k.copy, k.next)
                                             ELSE job[b]
    BY <1>6, <2>1
  <2>4. QED BY <1>9, <2>2, <2>3
<1>11. \A n, ev : Says(published', n, ev) <=> Says(published, n, ev) \/ (n = o /\ ev = k.next)
  BY <1>5, <1>7 DEF Says
<1>12. \A n : Mentions(published', n) <=> Mentions(published, n) \/ n = o
  BY <1>5, <1>7 DEF Mentions
<1>13. \A n : Known(n, published) => Known(n, published')
  BY <1>11, <1>12 DEF Known
<1>14. Known(m, published')
  BY <1>5, <1>11, <1>12 DEF Known
<1>15. QueueKnown'
  BY <1>8, <1>13, <1>14 DEF SoleInv, QueueKnown
<1>16. RowsRise'
  BY <1>3 DEF SoleInv, RowsRise
<1>17. AnnouncedIsSaved'
  <2>1. \E n \in DOMAIN orders[m.order].history : m.type = Announces(orders[m.order].history[n])
    <3>1. Len(k.copy.history) \in DOMAIN k.copy.history
          /\ k.copy.history[Len(k.copy.history)] = k.copy.status
      BY <1>3 DEF Order, IsCoherent
    <3>2. QED BY <1>4, <1>5, <3>1
  <2>2. QED BY <1>3, <1>7, <2>1 DEF SoleInv, AnnouncedIsSaved
<1>18. AnnouncedOnce'
  <2> SUFFICES ASSUME NEW i \in DOMAIN published', NEW n \in DOMAIN published',
                      published'[i].order = published'[n].order,
                      published'[i].order \in Orders,
                      published'[i].type = published'[n].type
               PROVE  i = n
    BY DEF AnnouncedOnce, PublishedOf
  <2>1. CASE i \in DOMAIN published /\ n \in DOMAIN published
    BY <1>7, <2>1 DEF SoleInv, AnnouncedOnce, PublishedOf
  <2>2. CASE i \in DOMAIN published /\ n = Len(published) + 1
    BY <1>4, <1>5, <1>7, <2>2 DEF Says
  <2>3. CASE n \in DOMAIN published /\ i = Len(published) + 1
    BY <1>4, <1>5, <1>7, <2>3 DEF Says
  <2>4. QED BY <1>7, <2>1, <2>2, <2>3
<1>19. \A b \in Actors \ {a} : Holds(b) => job[b].msg.order # o
  BY <1>1, <1>3 DEF SoleInv, Alone, Holds
<1>20. ActorsOK'
  <2>1. ASSUME NEW b \in Actors PROVE ActorOK(b, job'[b], orders', published')
    <3>1. CASE b = a
      <4>1. a \in Workers => Known(k.msg, published)
        BY <1>3, <1>4 DEF ActorOK
      <4>2. QED BY <1>10, <1>13, <3>1, <4>1 DEF ActorOK
    <3>2. CASE b # a
      <4>1. ActorOK(b, job[b], orders, published) /\ job'[b] = job[b]
        BY <1>10, <3>2 DEF SoleInv, ActorsOK
      <4>2. Holds(b) => job[b].msg.order # o
        BY <1>19, <3>2
      <4>3. QED BY <1>3, <1>11, <1>12, <1>13, <4>1, <4>2 DEF ActorOK, Holds
    <3>3. QED BY <3>1, <3>2
  <2>2. QED BY <2>1 DEF ActorsOK
<1>21. Alone'
  <2>1. \A b \in Actors : Holds(b)' => Holds(b) /\ job'[b] = job[b]
    BY <1>10 DEF Holds
  <2>2. QED BY <2>1 DEF SoleInv, Alone
<1>22. QED BY <1>15, <1>16, <1>17, <1>18, <1>20, <1>21 DEF SoleInv

-----------------------------------------------------------------------------
(* The faults, and the step *)

LEMMA SoleFault ==
  ASSUME SagaInv, SoleInv, UnsettledInv, Fault PROVE SoleInv'
<1>1. UNCHANGED <<orders, published>>
  BY DEF Fault, Crash, CallFails, ConnectionLost, BrokerRestart, tables, broker
<1>2. ASSUME NEW a \in Actors, Crash(a) PROVE SoleInv'
  <2>1. QueueKnown'
    BY <1>1, <1>2, QueueStays, QueueTakesBack DEF Crash
  <2>2. Goto(a, "idle")
    BY <1>2 DEF Crash
  <2>3. QED BY <1>1, <2>1, <2>2, SoleGoto
<1>3. ASSUME NEW a \in Actors, CallFails(a) PROVE SoleInv'
  <2>1. QueueKnown'
    BY <1>3, QueueStays DEF CallFails, broker
  <2>2. Goto(a, Failed(a)) /\ job[a].phase # "idle"
    BY <1>3 DEF CallFails
  <2>3. Failed(a) \in {"nack", "idle"} /\ (a \in Threads => Failed(a) = "idle")
    BY SagaConstants DEF Failed
  <2>4. QED BY <1>1, <2>1, <2>2, <2>3, SoleGoto
<1>4. ASSUME NEW w \in Workers, ConnectionLost(w) PROVE SoleInv'
  BY <1>1, <1>4, QueueTakesBack, SoleUnmoved DEF ConnectionLost
<1>5. CASE BrokerRestart
  BY <1>1, <1>5, SoleUnmoved DEF BrokerRestart, QueueKnown
<1>6. QED BY <1>2, <1>3, <1>4, <1>5 DEF Fault

LEMMA SoleSend ==
  ASSUME SagaInv, SoleInv, NEW m \in Inputs, Send(m) PROVE SoleInv'
<1>1. queue \in Seq(Messages) /\ queue' = Append(queue, m) /\ UNCHANGED <<orders, published, job>>
  BY DEF SagaInv, TypeOK, Send, tables
<1>2. Known(m, published)
  BY SagaConstants DEF Send, Announced, Known, Mentions, IsOwn
<1>3. \A i \in DOMAIN queue' : queue'[i] = m \/ (i \in DOMAIN queue /\ queue'[i] = queue[i])
  BY <1>1
<1>4. QueueKnown'
  BY <1>1, <1>2, <1>3 DEF SoleInv, QueueKnown
<1>5. QED BY <1>1, <1>4, SoleUnmoved

LEMMA StepSole ==
  ASSUME Sole PROVE SagaInv /\ UnsettledInv /\ SoleInv /\ [Next]_vars => SoleInv'
<1> SUFFICES ASSUME SagaInv, UnsettledInv, SoleInv, [Next]_vars PROVE SoleInv'
  OBVIOUS
<1>1. ASSUME NEW m \in Inputs, Send(m) PROVE SoleInv'
  BY <1>1, SoleSend
<1>2. ASSUME NEW a \in Actors, UseCaseStep(a) PROVE SoleInv'
  BY <1>2, SoleLoad, SoleSave, SolePublish DEF UseCaseStep
<1>3. ASSUME NEW w \in Workers, WorkerStep(w) PROVE SoleInv'
  <2>1. w \in Actors
    BY DEF Actors
  <2>2. QED BY <1>2, <1>3, <2>1, SoleDeliver, SoleRecords DEF WorkerStep
<1>4. ASSUME NEW t \in Threads, Request(t) PROVE SoleInv'
  BY <1>4, SoleOpen DEF Request, Sole
<1>5. CASE Fault
  BY <1>5, SoleFault
<1>6. CASE UNCHANGED vars
  <2>1. UNCHANGED <<orders, published, queue, job>>
    BY <1>6 DEF vars, tables, broker
  <2>2. QED BY <2>1, QueueStays, SoleUnmoved
<1>7. QED BY <1>1, <1>2, <1>3, <1>4, <1>5, <1>6 DEF Next, Actors

LEMMA SoleInvariant == ASSUME Sole PROVE Spec => []SoleInv
<1>1. SagaInv /\ UnsettledInv /\ SoleInv /\ [Next]_vars => SoleInv'
  BY StepSole
<1>2. QED BY <1>1, InitSole, SagaInvariant, AnswerInvariant, PTL DEF Spec

-----------------------------------------------------------------------------
(* What follows *)

\* One worker announces a stage of an order once, however often a message is delivered,
\* whatever crashes in between.
THEOREM NothingIsAnnouncedTwice == ASSUME Sole PROVE Spec => []AnnouncedOnce
<1>1. SoleInv => AnnouncedOnce
  BY DEF SoleInv
<1>2. QED BY <1>1, SoleInvariant, PTL

\* What one worker announces is in the database, then and ever after.
THEOREM NothingIsAnnouncedUnsaved == ASSUME Sole PROVE Spec => []AnnouncedIsSaved
<1>1. SoleInv => AnnouncedIsSaved
  BY DEF SoleInv
<1>2. QED BY <1>1, SoleInvariant, PTL

\* One worker never changes an order on account of its own event, which the publisher's
\* binding puts into the queue the worker reads.
THEOREM EchoesMoveNothing == ASSUME Sole PROVE Spec => []EchoesAreRefused
<1>1. SoleInv => EchoesAreRefused
  BY DEF SoleInv, ActorsOK, ActorOK, EchoesAreRefused, Holds, Actors
<1>2. QED BY <1>1, SoleInvariant, PTL

\* Only a save writes a row.
LEMMA RowsChangeBySave ==
  ASSUME [Next]_vars, orders' # orders PROVE \E a \in Actors : Save(a)
<1>1. ASSUME NEW a \in Actors, UseCaseStep(a) PROVE Save(a)
  BY <1>1 DEF UseCaseStep, LoadAndApply, Publish, tables
<1>2. ASSUME NEW w \in Workers, WorkerStep(w) PROVE \E a \in Actors : Save(a)
  BY <1>1, <1>2 DEF WorkerStep, Deliver, IsProcessed, MarkProcessed, InsertProcessed,
     Ack, Nack, Settle, tables, Actors
<1>3. ~\E m \in Inputs : Send(m)
  BY DEF Send, tables
<1>4. ~\E t \in Threads : Request(t)
  BY DEF Request, Open, PostEvent, tables
<1>5. ~Fault
  BY DEF Fault, Crash, CallFails, ConnectionLost, BrokerRestart, tables
<1>6. ~UNCHANGED vars
  BY DEF vars, tables
<1>7. QED BY <1>1, <1>2, <1>3, <1>4, <1>5, <1>6 DEF Next, Actors

\* A sequence that has all the entries of another, in place, starts with it.
LEMMA PrefixKept ==
  ASSUME NEW S, NEW g \in Seq(S), NEW h \in Seq(S), Len(g) <= Len(h),
         \A k \in DOMAIN g : h[k] = g[k]
  PROVE  SubSeq(h, 1, Len(g)) = g
<1>1. Len(g) \in Nat /\ Len(h) \in Nat /\ DOMAIN g = 1 .. Len(g)
  OBVIOUS
<1>2. SubSeq(h, 1, Len(g)) \in Seq(S) /\ Len(SubSeq(h, 1, Len(g))) = Len(g)
  BY <1>1
<1>3. \A k \in 1 .. Len(g) : SubSeq(h, 1, Len(g))[k] = h[k]
  BY <1>1
<1>4. QED BY <1>1, <1>2, <1>3

\* One worker never cuts or rewrites a saved history, so a terminal status is final.
THEOREM HistoryIsKept == ASSUME Sole PROVE Spec => HistoryOnlyGrows
<1> DEFINE Kept(o) == HasRow(o) =>
             LET before == orders[o].history
                 after  == orders'[o].history
             IN  Len(before) <= Len(after) /\ SubSeq(after, 1, Len(before)) = before
<1>1. ASSUME SagaInv, SoleInv, [Next]_vars, NEW o \in Orders, HasRow(o) PROVE Kept(o)
  <2>1. orders[o] \in Order /\ orders[o].history \in Seq(ServiceOrderStatus)
    BY <1>1 DEF SagaInv, TypeOK, HasRow, Row, Order
  <2>2. CASE orders'[o] = orders[o]
    BY <2>1, <2>2, PrefixKept
  <2>3. CASE orders'[o] # orders[o]
    <3>1. PICK a \in Actors : Save(a)
      BY <1>1, <2>3, RowsChangeBySave
    <3>2. o = job[a].msg.order /\ orders'[o] = job[a].copy
      BY <1>1, <2>3, <3>1 DEF Save, SagaInv, TypeOK
    <3>3. job[a].copy \in Order /\ MovesOn(orders[o], job[a].copy, job[a].next)
      BY <1>1, <3>1, <3>2 DEF Save, At, SagaInv, JobOK, SoleInv, ActorsOK, ActorOK
    <3>4. Grown(orders[o], job[a].copy)
      BY <2>3, <3>2, <3>3 DEF MovesOn
    <3>5. job[a].copy.history \in Seq(ServiceOrderStatus)
      BY <3>3 DEF Order
    <3>6. Len(orders[o].history) <= Len(job[a].copy.history)
          /\ \A k \in DOMAIN orders[o].history : job[a].copy.history[k] = orders[o].history[k]
      BY <2>1, <3>4, <3>5 DEF Grown
    <3>7. QED BY <2>1, <3>2, <3>5, <3>6, PrefixKept
  <2>4. QED BY <2>2, <2>3
<1>2. SagaInv /\ SoleInv /\ [Next]_vars => [\A o \in Orders : Kept(o)]_vars
  BY <1>1
<1>3. QED BY <1>2, SagaInvariant, SoleInvariant, PTL DEF Spec, HistoryOnlyGrows

-----------------------------------------------------------------------------
(* The service implements the lifecycle it promises *)

Saying(a, o) == At(a, "publish") /\ job[a].msg.order = o

\* What the actors other than a are about to announce of o.
Rest(a, o) == {job[b].next : b \in {c \in Actors \ {a} : Saying(c, o)}}

LEMMA PendingSplit ==
  ASSUME NEW a \in Actors, NEW o
  PROVE  /\ Pending(o) = Rest(a, o) \cup (IF Saying(a, o) THEN {job[a].next} ELSE {})
         /\ Pending(o)' = Rest(a, o)' \cup (IF Saying(a, o)' THEN {job'[a].next} ELSE {})
BY DEF Pending, Rest, Saying

LEMMA RestKept ==
  ASSUME NEW a \in Actors, NEW o, \A b \in Actors \ {a} : job'[b] = job[b]
  PROVE  Rest(a, o)' = Rest(a, o)
BY DEF Rest, Saying, At

\* Nobody else speaks for an order that an actor holds.
LEMMA RestEmpty ==
  ASSUME Alone, NEW a \in Actors, Holds(a) PROVE Rest(a, job[a].msg.order) = {}
BY DEF Alone, Rest, Saying, Holds, At

LEMMA PromisedInit == Init => Promised!Init
<1> SUFFICES ASSUME Init PROVE Promised!Init
  OBVIOUS
<1>1. \A o \in Orders : orders[o].status = "none"
  BY DEF Init, NoRow
<1>2. \A o \in Orders : Pending(o) = {}
  BY DEF Init, Pending, At, Idle, Busy
<1>3. \A o \in Orders : {published[i].type : i \in PublishedOf(o)} = {}
  BY DEF Init, PublishedOf
<1>4. QED BY <1>1, <1>2, <1>3 DEF Promised!Init

\* A step that starts no announcement and ends none.
LEMMA PromisedStutter ==
  ASSUME UNCHANGED <<orders, published>>, NEW a \in Actors,
         \A b \in Actors \ {a} : job'[b] = job[b], ~At(a, "publish"), ~At(a, "publish")'
  PROVE  UNCHANGED Promised!vars
<1>1. \A o \in Orders : Pending(o)' = Pending(o)
  BY PendingSplit, RestKept DEF Saying
<1>2. \A o \in Orders : orders'[o].status = orders[o].status
  OBVIOUS
<1>3. \A o \in Orders :
        {published'[i].type : i \in PublishedOf(o)'} = {published[i].type : i \in PublishedOf(o)}
  BY DEF PublishedOf
<1>4. QED BY <1>1, <1>2, <1>3 DEF Promised!vars

\* An actor that holds an order speaks for it alone, and for no other order.
LEMMA PendingOfHeld ==
  ASSUME SoleInv, NEW a \in Actors, Holds(a), \A b \in Actors \ {a} : job'[b] = job[b],
         NEW o, o = job[a].msg.order, At(a, "publish")' => job'[a].msg.order = o
  PROVE  /\ Pending(o) = IF At(a, "publish") THEN {job[a].next} ELSE {}
         /\ Pending(o)' = IF At(a, "publish")' THEN {job'[a].next} ELSE {}
         /\ \A p \in Orders \ {o} : Pending(p)' = Pending(p)
<1>1. o = job[a].msg.order
  OBVIOUS
<1>2. Rest(a, o) = {} /\ Rest(a, o)' = {}
  BY <1>1, RestEmpty, RestKept DEF SoleInv
<1>3. \A p : Saying(a, p) <=> At(a, "publish") /\ p = o
  BY <1>1 DEF Saying
<1>4. \A p : Saying(a, p)' <=> At(a, "publish")' /\ p = o
  BY <1>1 DEF Saying
<1>5. \A p \in Orders \ {o} : Pending(p)' = Pending(p)
  <2> TAKE p \in Orders \ {o}
  <2>1. ~Saying(a, p) /\ ~Saying(a, p)'
    BY <1>3, <1>4
  <2>2. Pending(p) = Rest(a, p) /\ Pending(p)' = Rest(a, p)'
    BY <2>1, PendingSplit
  <2>3. QED BY <2>2, RestKept
<1>6. Pending(o) = IF At(a, "publish") THEN {job[a].next} ELSE {}
  BY <1>2, <1>3, PendingSplit
<1>7. Pending(o)' = IF At(a, "publish")' THEN {job'[a].next} ELSE {}
  BY <1>2, <1>4, PendingSplit
<1>8. QED BY <1>5, <1>6, <1>7

\* An actor that dies or fails before it publishes takes its event with it.
LEMMA PromisedForget ==
  ASSUME SagaInv, SoleInv, UNCHANGED <<orders, published>>, NEW a \in Actors,
         \A b \in Actors \ {a} : job'[b] = job[b], At(a, "publish"), ~At(a, "publish")'
  PROVE  Promised!Next
<1>1. PICK o \in Orders : o = job[a].msg.order
  BY DEF SagaInv, JobOK, At
<1>2. PICK ev : ev = job[a].next
  OBVIOUS
<1>3. Holds(a)
  BY DEF Holds, At
<1>4. /\ Pending(o) = {ev} /\ Pending(o)' = {}
      /\ \A p \in Orders \ {o} : Pending(p)' = Pending(p)
  BY <1>1, <1>2, <1>3, PendingOfHeld
<1>5. [p \in Orders |-> Pending(p)'] = [[p \in Orders |-> Pending(p)] EXCEPT ![o] = @ \ {ev}]
  BY <1>4
<1>6. [p \in Orders |-> orders'[p].status] = [p \in Orders |-> orders[p].status]
  OBVIOUS
<1>7. [p \in Orders |-> {published'[i].type : i \in PublishedOf(p)'}]
      = [p \in Orders |-> {published[i].type : i \in PublishedOf(p)}]
  BY DEF PublishedOf
<1>8. ev \in [p \in Orders |-> Pending(p)][o]
  BY <1>4
<1>9. Promised!Forget(o)
  BY <1>5, <1>6, <1>7, <1>8 DEF Promised!Forget
<1>10. QED BY <1>9 DEF Promised!Next

\* A save moves the order and decides the event that its holder publishes next.
LEMMA PromisedMove ==
  ASSUME SagaInv, SoleInv, NEW a \in Actors, Save(a), job[a].next # NoEvent
  PROVE  Promised!Next
<1>1. PICK k : k = job[a]
  OBVIOUS
<1>2. PICK o \in Orders : o = k.msg.order
  BY <1>1 DEF SagaInv, JobOK, Save, At
<1>3. PICK ev : ev = k.next
  OBVIOUS
<1>4. PICK s : s = k.copy.status
  OBVIOUS
<1>5. /\ k.phase = "save" /\ orders' = [orders EXCEPT ![o] = k.copy]
      /\ UNCHANGED published /\ Goto(a, "publish")
  BY <1>1, <1>2 DEF Save, At, broker
<1>6. job' = [job EXCEPT ![a] = Busy("publish", k.msg, k.copy, k.next)]
  BY <1>1, <1>5 DEF Goto, Become, Busy
<1>7. /\ \A b \in Actors \ {a} : job'[b] = job[b]
      /\ job'[a].phase = "publish" /\ job'[a].msg = k.msg /\ job'[a].next = ev
  BY <1>3, <1>6 DEF SagaInv, TypeOK, Busy
<1>8. MovesOn(orders[o], k.copy, ev) /\ ev # NoEvent
  BY <1>1, <1>2, <1>3, <1>5 DEF SoleInv, ActorsOK, ActorOK
<1>9. Tells(orders[o].status, s, ev)
  BY <1>4, <1>8 DEF MovesOn
<1>10. Holds(a) /\ ~At(a, "publish") /\ At(a, "publish")'
  BY <1>1, <1>5, <1>7 DEF Holds, At
<1>11. /\ Pending(o) = {} /\ Pending(o)' = {ev}
       /\ \A p \in Orders \ {o} : Pending(p)' = Pending(p)
  BY <1>1, <1>2, <1>7, <1>10, PendingOfHeld
<1>12. [p \in Orders |-> Pending(p)'] = [[p \in Orders |-> Pending(p)] EXCEPT ![o] = @ \cup {ev}]
  BY <1>11
<1>13. [p \in Orders |-> orders'[p].status] = [[p \in Orders |-> orders[p].status] EXCEPT ![o] = s]
  BY <1>4, <1>5 DEF SagaInv, TypeOK
<1>14. [p \in Orders |-> {published'[i].type : i \in PublishedOf(p)'}]
       = [p \in Orders |-> {published[i].type : i \in PublishedOf(p)}]
  BY <1>5 DEF PublishedOf
<1>15. Promised!Moves(o, s, ev)
  BY <1>12, <1>13, <1>14 DEF Promised!Moves
<1>16. Promised!Advance(o) \/ Promised!Fail(o)
  <2>1. CASE <<orders[o].status, s, ev>> \in Promised!Advances
    <3>1. PICK step \in Promised!Advances : step = <<orders[o].status, s, ev>>
      BY <2>1
    <3>2. step[1] = [p \in Orders |-> orders[p].status][o] /\ step[2] = s /\ step[3] = ev
      BY <3>1
    <3>3. QED BY <1>15, <3>1, <3>2 DEF Promised!Advance
  <2>2. CASE <<orders[o].status, s, ev>> \notin Promised!Advances
    <3>1. /\ [p \in Orders |-> orders[p].status][o] \notin Promised!Ends \cup {"none"}
          /\ s \in Promised!Failures /\ ev = "OS_COMPENSATION_REQUIRED"
      BY <1>9, <2>2 DEF Tells
    <3>2. QED BY <1>15, <3>1 DEF Promised!Fail
  <2>3. QED BY <2>1, <2>2
<1>17. QED BY <1>16 DEF Promised!Next

\* A publish announces what was decided, for the first time.
LEMMA PromisedAnnounce ==
  ASSUME SagaInv, SoleInv, NEW a \in Actors, Publish(a) PROVE Promised!Next
<1>1. PICK k : k = job[a]
  OBVIOUS
<1>2. PICK o \in Orders : o = k.msg.order
  BY <1>1 DEF SagaInv, JobOK, Publish, At
<1>3. PICK ev : ev = k.next
  OBVIOUS
<1>4. PICK m : m = Outgoing(k)
  OBVIOUS
<1>5. /\ k.phase = "publish" /\ published' = Append(published, m) /\ UNCHANGED orders
      /\ m.order = o /\ m.type = ev
  BY <1>1, <1>2, <1>3, <1>4 DEF Publish, At, tables, Outgoing
<1>6. /\ \A b \in Actors \ {a} : job'[b] = job[b]
      /\ job'[a].phase # "publish"
  <2>1. PICK phase \in {"mark", "idle"} : Goto(a, phase)
    BY DEF Publish, Handled
  <2>2. PICK j : Become(a, j) /\ j.phase = phase
    BY <2>1 DEF Goto, Busy
  <2>3. Idle.phase = "idle"
    BY DEF Idle, Busy
  <2>4. QED BY <2>1, <2>2, <2>3 DEF Become, SagaInv, TypeOK
<1>7. ~Says(published, o, ev)
  <2>1. ActorOK(a, k, orders, published) /\ k.next # NoEvent
    BY <1>1, <1>5 DEF SoleInv, ActorsOK, SagaInv, JobOK
  <2>2. QED BY <1>2, <1>3, <1>5, <2>1 DEF ActorOK
<1>8. Holds(a) /\ At(a, "publish") /\ ~At(a, "publish")'
  BY <1>1, <1>5, <1>6 DEF Holds, At
<1>9. /\ Pending(o) = {ev} /\ Pending(o)' = {}
      /\ \A p \in Orders \ {o} : Pending(p)' = Pending(p)
  BY <1>1, <1>2, <1>3, <1>6, <1>8, PendingOfHeld
<1>10. [p \in Orders |-> Pending(p)'] = [[p \in Orders |-> Pending(p)] EXCEPT ![o] = @ \ {ev}]
  BY <1>9
<1>11. [p \in Orders |-> orders'[p].status] = [p \in Orders |-> orders[p].status]
  BY <1>5
<1> DEFINE Told(p) == {published[i].type : i \in PublishedOf(p)}
           ToldNext(p) == {published'[i].type : i \in PublishedOf(p)'}
<1>12. \A p \in Orders : ToldNext(p) = IF p = o THEN Told(p) \cup {ev} ELSE Told(p)
  <2>1. published \in Seq(Messages)
    BY DEF SagaInv, TypeOK
  <2>2. /\ DOMAIN published' = DOMAIN published \cup {Len(published) + 1}
        /\ \A i \in DOMAIN published : published'[i] = published[i]
        /\ published'[Len(published) + 1] = m
        /\ Len(published) + 1 \notin DOMAIN published
    BY <1>5, <2>1
  <2>3. \A p \in Orders :
          PublishedOf(p)' = IF p = o THEN PublishedOf(p) \cup {Len(published) + 1}
                                     ELSE PublishedOf(p)
    BY <1>5, <2>2 DEF PublishedOf
  <2>4. \A p \in Orders : \A i \in PublishedOf(p) : published'[i] = published[i]
    BY <2>2 DEF PublishedOf
  <2>5. ToldNext(o) = Told(o) \cup {ev}
    <3>1. ToldNext(o) = {published'[i].type : i \in PublishedOf(o) \cup {Len(published) + 1}}
      BY <2>3
    <3>2. \A i \in PublishedOf(o) : published'[i].type = published[i].type
      BY <2>4
    <3>3. published'[Len(published) + 1].type = ev
      BY <1>5, <2>2
    <3>4. QED BY <3>1, <3>2, <3>3
  <2>6. \A p \in Orders \ {o} : ToldNext(p) = Told(p)
    <3> TAKE p \in Orders \ {o}
    <3>1. PublishedOf(p)' = PublishedOf(p)
      BY <2>3
    <3>2. \A i \in PublishedOf(p) : published'[i].type = published[i].type
      BY <2>4
    <3>3. QED BY <3>1, <3>2
  <2> HIDE DEF Told, ToldNext
  <2>7. QED BY <2>5, <2>6
<1>13. [p \in Orders |-> ToldNext(p)] = [[p \in Orders |-> Told(p)] EXCEPT ![o] = @ \cup {ev}]
  <2> HIDE DEF Told, ToldNext
  <2>1. QED BY <1>12
<1>14. ev \in [p \in Orders |-> Pending(p)][o] \ [p \in Orders |-> Told(p)][o]
  BY <1>7, <1>9 DEF Says, PublishedOf
<1>15. Promised!Announce(o)
  BY <1>10, <1>11, <1>13, <1>14 DEF Promised!Announce
<1>16. QED BY <1>15 DEF Promised!Next

\* Whatever an actor does besides, it takes no order further and announces nothing.
LEMMA PromisedElse ==
  ASSUME SagaInv, SoleInv, UNCHANGED <<orders, published>>, NEW a \in Actors, NEW j,
         Become(a, j), j.phase # "publish"
  PROVE  Promised!Next \/ UNCHANGED Promised!vars
<1>1. Idle.phase = "idle"
  BY DEF Idle, Busy
<1>2. (\A b \in Actors \ {a} : job'[b] = job[b]) /\ ~At(a, "publish")'
  BY <1>1 DEF Become, At, SagaInv, TypeOK
<1>3. QED BY <1>2, PromisedForget, PromisedStutter

LEMMA PromisedGoto ==
  ASSUME SagaInv, SoleInv, UNCHANGED <<orders, published>>, NEW a \in Actors, NEW phase,
         Goto(a, phase), phase # "publish"
  PROVE  Promised!Next \/ UNCHANGED Promised!vars
<1>1. PICK j : Become(a, j) /\ j.phase = phase
  BY DEF Goto, Busy
<1>2. QED BY <1>1, PromisedElse

LEMMA PromisedUseCase ==
  ASSUME SagaInv, SoleInv, NEW a \in Actors, UseCaseStep(a)
  PROVE  Promised!Next \/ UNCHANGED Promised!vars
<1>1. CASE LoadAndApply(a)
  <2>1. PICK j : Become(a, j) /\ j.phase \in {Failed(a), "save"}
    BY <1>1 DEF LoadAndApply, Busy
  <2>2. UNCHANGED <<orders, published>> /\ j.phase # "publish"
    BY <1>1, <2>1 DEF LoadAndApply, Failed, tables, broker
  <2>3. QED BY <2>1, <2>2, PromisedElse
<1>2. CASE Save(a) /\ job[a].next = NoEvent
  <2>1. Goto(a, Handled(a)) /\ Handled(a) # "publish" /\ UNCHANGED published
    BY <1>2 DEF Save, Handled, broker
  <2>2. /\ job[a].msg.order \in Orders
        /\ MovesOn(orders[job[a].msg.order], job[a].copy, job[a].next)
    BY <1>2 DEF Save, At, SagaInv, JobOK, SoleInv, ActorsOK, ActorOK
  <2>3. UNCHANGED orders
    BY <1>2, <2>2 DEF Save, MovesOn, SagaInv, TypeOK
  <2>4. QED BY <2>1, <2>3, PromisedGoto
<1>3. QED BY <1>1, <1>2, PromisedMove, PromisedAnnounce DEF UseCaseStep

LEMMA PromisedStep ==
  ASSUME AdminTypes = {}, SagaInv, SoleInv, [Next]_vars
  PROVE  Promised!Next \/ UNCHANGED Promised!vars
<1>1. ASSUME UNCHANGED <<orders, published, job>> PROVE UNCHANGED Promised!vars
  BY <1>1 DEF Promised!vars, Pending, At, PublishedOf
<1>2. ASSUME NEW m \in Inputs, Send(m) PROVE UNCHANGED Promised!vars
  BY <1>1, <1>2 DEF Send, tables
<1>3. ASSUME NEW w \in Workers, WorkerStep(w) PROVE Promised!Next \/ UNCHANGED Promised!vars
  <2>1. w \in Actors
    BY DEF Actors
  <2>2. CASE Deliver(w)
    <3>1. PICK j : Become(w, j) /\ j.phase \in {"check", "nack"}
      BY <2>2 DEF Deliver, Busy
    <3>2. UNCHANGED <<orders, published>>
      BY <2>2 DEF Deliver, tables
    <3>3. QED BY <2>1, <3>1, <3>2, PromisedElse
  <2>3. CASE IsProcessed(w) \/ MarkProcessed(w) \/ InsertProcessed(w) \/ Ack(w) \/ Nack(w)
    <3>1. PICK phase \in {"ack", "nack", "get", "insert", "idle"} : Goto(w, phase)
      BY <2>3 DEF IsProcessed, MarkProcessed, InsertProcessed, Ack, Nack, Settle
    <3>2. UNCHANGED <<orders, published>>
      BY <2>3 DEF IsProcessed, MarkProcessed, InsertProcessed, Ack, Nack, Settle, tables, broker
    <3>3. QED BY <2>1, <3>1, <3>2, PromisedGoto
  <2>4. QED BY <1>3, <2>1, <2>2, <2>3, PromisedUseCase DEF WorkerStep
<1>4. ASSUME NEW t \in Threads, NEW o \in Orders, Open(t, o)
      PROVE  Promised!Next \/ UNCHANGED Promised!vars
  <2>1. PICK j : Become(t, j) /\ j.phase = "save"
    BY <1>4 DEF Open, Busy
  <2>2. t \in Actors /\ UNCHANGED <<orders, published>>
    BY <1>4 DEF Open, Actors, tables, broker
  <2>3. QED BY <2>1, <2>2, PromisedElse
<1>5. ASSUME NEW a \in Actors, Crash(a) \/ CallFails(a)
      PROVE  Promised!Next \/ UNCHANGED Promised!vars
  <2>1. PICK phase \in {"nack", "idle"} : Goto(a, phase)
    BY <1>5 DEF Crash, CallFails, Failed
  <2>2. UNCHANGED <<orders, published>>
    BY <1>5 DEF Crash, CallFails, tables, broker
  <2>3. QED BY <2>1, <2>2, PromisedGoto
<1>6. ASSUME BrokerRestart \/ \E w \in Workers : ConnectionLost(w)
      PROVE  UNCHANGED Promised!vars
  BY <1>1, <1>6 DEF BrokerRestart, ConnectionLost, tables
<1>7. CASE UNCHANGED vars
  BY <1>1, <1>7 DEF vars, tables, broker
<1>8. QED BY <1>2, <1>3, <1>4, <1>5, <1>6, <1>7, PromisedUseCase
          DEF Next, Request, Fault, Actors

\* One worker, and any number of threads that open orders, implement OrderLifecycle: an
\* order moves along the saga, each move is announced at most once, and an end is final.
THEOREM ServiceImplementsLifecycle == ASSUME Sole PROVE Spec => ImplementsLifecycle
<1>1. SagaInv /\ SoleInv /\ [Next]_vars => [Promised!Next]_(Promised!vars)
  BY PromisedStep DEF Sole
<1>2. QED BY <1>1, PromisedInit, SagaInvariant, SoleInvariant, PTL
          DEF Spec, ImplementsLifecycle, Promised!Spec
=============================================================================
