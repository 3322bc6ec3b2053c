----------------------------- MODULE ApiProofs -----------------------------
(***************************************************************************)
(* Theorems about ApiReplica, for any number of threads, orders, customers *)
(* and requests: its types, the evidence of both publishers, the lock and  *)
(* the refinement of EvidenceLog, what clients are shown.                  *)
(***************************************************************************)
EXTENDS ApiGuarantees, FiniteSetTheorems, SequenceTheorems, TLAPS

-----------------------------------------------------------------------------
(* The aggregate *)

IsResult(r) ==
  /\ r.raises \in BOOLEAN
  /\ r.order \in Order
  /\ r.event \in INTEGRATION_EVENT_TYPES \cup {NoEvent}

LEMMA MoveType ==
  ASSUME NEW o \in Order, NEW from, NEW to \in ServiceOrderStatus, NEW ev \in INTEGRATION_EVENT_TYPES
  PROVE  IsResult(Move(o, from, to, ev))
<1>1. o.history \in Seq(ServiceOrderStatus)
  BY DEF Order
<1>2. Recorded(o, to) \in Order
  BY <1>1 DEF Recorded, Order
<1>3. QED BY <1>2 DEF Move, Raise, IsResult

LEMMA StageType ==
  ASSUME NEW o \in Order
  PROVE  /\ IsResult(MarkQuoteApproved(o)) /\ IsResult(MarkPaymentPending(o))
         /\ IsResult(MarkPaymentConfirmed(o)) /\ IsResult(RequestExecution(o))
         /\ IsResult(MarkExecutionStarted(o)) /\ IsResult(Complete(o))
         /\ IsResult(RequestQuote(o))
<1>1. {"QUOTE_REQUESTED", "QUOTE_APPROVED", "PAYMENT_PENDING", "PAYMENT_CONFIRMED", "EXECUTION_REQUESTED",
       "EXECUTION_IN_PROGRESS", "COMPLETED"} \subseteq ServiceOrderStatus
  BY DEF ServiceOrderStatus
<1>2. {"OS_OPENED", "QUOTE_APPROVED", "PAYMENT_PENDING", "PAYMENT_CONFIRMED", "EXECUTION_REQUESTED",
       "EXECUTION_STARTED", "OS_COMPLETED"} \subseteq INTEGRATION_EVENT_TYPES
  BY DEF INTEGRATION_EVENT_TYPES
<1>3. QED BY <1>1, <1>2, MoveType
          DEF MarkQuoteApproved, MarkPaymentPending, MarkPaymentConfirmed, RequestExecution,
              MarkExecutionStarted, Complete, RequestQuote

LEMMA DispatchType ==
  ASSUME NEW o \in Order, NEW type
  PROVE  IsResult(Dispatch(type, o))
<1>1. IsResult([raises |-> FALSE, order |-> o, event |-> NoEvent]) /\ IsResult(Raise(o))
  BY DEF IsResult, Raise
<1>2. IsResult(ConfirmAndRequest(o))
  <2>1. MarkPaymentConfirmed(o).order \in Order
    BY StageType DEF IsResult
  <2>2. QED BY <2>1, StageType DEF ConfirmAndRequest
<1>3. CASE type \in FAILURE_STATUSES
  <2>1. type \in ServiceOrderStatus /\ "OS_COMPENSATION_REQUIRED" \in INTEGRATION_EVENT_TYPES
    BY <1>3 DEF FAILURE_STATUSES, ServiceOrderStatus, INTEGRATION_EVENT_TYPES
  <2>2. IsResult(Fail(o, type))
    BY <2>1, MoveType DEF Fail
  <2>3. Dispatch(type, o) = Fail(o, type)
    BY <1>3, Zenon DEF Dispatch, FAILURE_STATUSES
  <2>4. QED BY <2>2, <2>3
<1>4. CASE type \notin FAILURE_STATUSES
  <2>1. Dispatch(type, o) \in
          {[raises |-> FALSE, order |-> o, event |-> NoEvent], Raise(o), MarkQuoteApproved(o),
           MarkPaymentPending(o), ConfirmAndRequest(o), MarkExecutionStarted(o), Complete(o)}
    <3>1. CASE type = "QUOTE_CREATED"
      BY <1>4, <3>1, Zenon DEF Dispatch
    <3>2. CASE type = "QUOTE_APPROVED"
      BY <1>4, <3>2, Zenon DEF Dispatch
    <3>3. CASE type = "PAYMENT_PREFERENCE_CREATED"
      BY <1>4, <3>3, Zenon DEF Dispatch
    <3>4. CASE type = "PAYMENT_CONFIRMED"
      BY <1>4, <3>4, Zenon DEF Dispatch
    <3>5. CASE type = "EXECUTION_STARTED"
      BY <1>4, <3>5, Zenon DEF Dispatch
    <3>6. CASE type = "EXECUTION_COMPLETED"
      BY <1>4, <3>6, Zenon DEF Dispatch
    <3>7. CASE type \notin {"QUOTE_CREATED", "QUOTE_APPROVED", "PAYMENT_PREFERENCE_CREATED",
                            "PAYMENT_CONFIRMED", "EXECUTION_STARTED", "EXECUTION_COMPLETED"}
      BY <1>4, <3>7, Zenon DEF Dispatch
    <3>8. QED BY <3>1, <3>2, <3>3, <3>4, <3>5, <3>6, <3>7
  <2>2. QED BY <1>1, <1>2, <2>1, StageType
<1>5. QED BY <1>3, <1>4

-----------------------------------------------------------------------------
(* Types *)

\* What a thread holds: it works on an order of the service, which exists while it
\* changes the shared object, and it has an order to save.
TaskOK(k) ==
  /\ k.phase \in {"check", "status", "history", "save", "lock", "send", "append"} => k.on \in Orders
  /\ k.phase \in {"check", "status", "history", "lock", "send", "append"} => store[k.on] # NoOrder
  /\ k.phase \in {"check", "status", "history"} => kind = "memory"
  /\ k.phase \in {"lock", "send"} => kind = "real"
  /\ k.phase \in {"status", "history"} => k.copy \in Order
  /\ k.phase = "save" => k.copy \in Order \/ (kind = "memory" /\ store[k.on] # NoOrder)

TypeInv == TypeOK /\ \A t \in Threads : TaskOK(task[t])

LEMMA NoOrderIsNone == NoOrder \notin Order
BY DEF NoOrder, Order, ServiceOrderStatus

\* Of the repository only the orders that exist matter to the others.
LEMMA TasksStay ==
  ASSUME TypeInv, UNCHANGED kind, NEW t \in Threads, NEW k \in Task,
         \A o \in Orders : store[o] # NoOrder => store'[o] # NoOrder,
         task' = [task EXCEPT ![t] = k], TaskOK(k)'
  PROVE  task' \in [Threads -> Task] /\ \A u \in Threads : TaskOK(task[u])'
<1>1. task \in [Threads -> Task] /\ \A u \in Threads : TaskOK(task[u])
  BY DEF TypeInv, TypeOK
<1>2. ASSUME NEW u \in Threads PROVE TaskOK(task[u])'
  <2>1. CASE u = t
    <3>1. task'[u] = k
      BY <1>1, <2>1
    <3>2. QED BY <3>1 DEF TaskOK
  <2>2. CASE u # t
    <3>1. task'[u] = task[u]
      BY <1>1, <2>2
    <3>2. QED BY <1>1, <3>1 DEF TaskOK
  <2>3. QED BY <2>1, <2>2
<1>3. QED BY <1>1, <1>2

RowsOK ==
  /\ store \in [Orders -> SomeOrder]
  /\ owner \in [Orders -> Customers \cup {Blank}]
  /\ stored \in [Orders -> SUBSET Order]

EvidenceOK ==
  /\ lock \in Threads \cup {Free}
  /\ messages \in Seq(Nat) /\ returned \in Seq(Nat) /\ drained \in Seq(Nat)
  /\ taken \subseteq Nat /\ exposed \subseteq Nat

TasksOK == task \in [Threads -> Task] /\ \A u \in Threads : TaskOK(task[u])

AnswersOK == answer \in [Threads -> Answer]

BoundsOK == requests \in Nat /\ faults \in Nat

KindOK == kind \in {"memory", "real"}

LEMMA TypeParts == TypeInv <=> KindOK /\ RowsOK /\ EvidenceOK /\ TasksOK /\ AnswersOK /\ BoundsOK
BY DEF TypeInv, TypeOK, KindOK, RowsOK, EvidenceOK, TasksOK, AnswersOK, BoundsOK

LEMMA TypePartsNext ==
  KindOK' /\ RowsOK' /\ EvidenceOK' /\ TasksOK' /\ AnswersOK' /\ BoundsOK' => TypeInv'
BY DEF TypeInv, TypeOK, KindOK, RowsOK, EvidenceOK, TasksOK, AnswersOK, BoundsOK

LEMMA RowsKept == ASSUME RowsOK, UNCHANGED rows PROVE RowsOK'
BY DEF RowsOK, rows

LEMMA EvidenceKept == ASSUME EvidenceOK, UNCHANGED evidence PROVE EvidenceOK'
BY DEF EvidenceOK, evidence

LEMMA WaitingType == Waiting \in Task /\ NoAnswer \in Answer /\ Waiting.phase = "idle"
BY DEF Waiting, Working, Task, NoAnswer, Answer, Phases, Principals, Ids, SomeOrder

LEMMA WorkingType ==
  ASSUME NEW phase \in Phases, NEW n \in Nat, NEW who \in Principals,
         NEW type \in AdminTypes \cup {NoEvent}, NEW o \in Ids
  PROVE  /\ Working(phase, n, who, type, o) \in Task
         /\ Working(phase, n, who, type, o).phase = phase
         /\ Working(phase, n, who, type, o).on = o
BY DEF Working, Task, SomeOrder

LEMMA OnPath ==
  ASSUME NEW k \in Task, NEW o \in Ids
  PROVE  [k EXCEPT !.path = o] \in Task /\ [k EXCEPT !.path = o].phase = k.phase
BY DEF Task

LEMMA WithEvent ==
  ASSUME NEW k \in Task, NEW c \in Order, NEW e \in INTEGRATION_EVENT_TYPES \cup {NoEvent}
  PROVE  LET n == [k EXCEPT !.copy = c, !.next = e]
         IN  n \in Task /\ n.phase = k.phase /\ n.on = k.on /\ n.copy = c
BY DEF Task, SomeOrder

\* A thread that ends its request waits for the next.
LEMMA EndsTypes ==
  ASSUME TypeInv, UNCHANGED kind, NEW t \in Threads, NEW r \in Answer, Ends(t, r),
         \A o \in Orders : store[o] # NoOrder => store'[o] # NoOrder
  PROVE  TasksOK' /\ AnswersOK'
<1>1. Waiting \in Task /\ Waiting.phase = "idle"
  BY WaitingType
<1>2. task' = [task EXCEPT ![t] = Waiting]
  BY DEF Ends
<1> DEFINE k == Waiting
<1> HIDE DEF k
<1>3. task' \in [Threads -> Task] /\ \A u \in Threads : TaskOK(task[u])'
  <2>1. k \in Task /\ k.phase = "idle" /\ task' = [task EXCEPT ![t] = k]
    BY <1>1, <1>2 DEF k
  <2>2. TaskOK(k)'
    BY <2>1 DEF TaskOK
  <2>3. QED BY <2>1, <2>2, TasksStay
<1>4. QED BY <1>3 DEF TypeInv, TypeOK, Ends, TasksOK, AnswersOK

LEMMA RaisesTypes ==
  ASSUME TypeInv, UNCHANGED kind, NEW t \in Threads, Raises(t),
         \A o \in Orders : store[o] # NoOrder => store'[o] # NoOrder
  PROVE  TasksOK' /\ AnswersOK'
BY WaitingType, EndsTypes DEF Raises

LEMMA ShowsTypes ==
  ASSUME TypeInv, UNCHANGED kind, NEW t \in Threads, NEW who \in Principals, NEW o \in Ids,
         NEW shown \in SomeOrder, Shows(t, who, o, shown),
         \A p \in Orders : store[p] # NoOrder => store'[p] # NoOrder
  PROVE  TasksOK' /\ AnswersOK'
<1>1. [who |-> who, on |-> o, shown |-> shown] \in Answer
  BY DEF Answer
<1>2. QED BY <1>1, EndsTypes DEF Shows

\* A request starts with work that is sound on the repository as it is.
LEMMA StartsTypes ==
  ASSUME TypeInv, UNCHANGED <<kind, store>>, NEW t \in Threads, NEW k \in Task, Starts(t, k),
         k.phase \in {"save", "load", "drain"},
         k.phase = "save" => k.on \in Orders /\ k.copy \in Order
  PROVE  TasksOK' /\ AnswersOK'
<1>1. task' = [task EXCEPT ![t] = k]
  BY DEF Starts
<1>2. TasksOK'
  <2>1. TaskOK(k)'
    BY DEF TaskOK
  <2>2. QED BY <1>1, <2>1, TasksStay DEF TasksOK
<1>3. QED BY <1>2, WaitingType DEF Starts, AnswersOK, TypeInv, TypeOK

LEMMA GotoTypes ==
  ASSUME TypeInv, UNCHANGED <<kind, answer>>, NEW t \in Threads, NEW k \in Task,
         task' = [task EXCEPT ![t] = k], TaskOK(k)',
         \A o \in Orders : store[o] # NoOrder => store'[o] # NoOrder
  PROVE  TasksOK' /\ AnswersOK'
<1>1. TasksOK'
  BY TasksStay DEF TasksOK
<1>2. QED BY <1>1 DEF AnswersOK, TypeInv, TypeOK

-----------------------------------------------------------------------------
LEMMA TypeRequest ==
  ASSUME TypeInv, NEW t \in Threads, Request(t) PROVE TypeInv'
<1>0. KindOK /\ RowsOK /\ EvidenceOK /\ TasksOK /\ AnswersOK /\ BoundsOK
  BY TypeParts
<1>1. PICK who \in Principals :
        \/ \E c \in Customers : OpenServiceOrder(t, who, c)
        \/ \E o \in Ids : GetServiceOrder(t, who, o)
        \/ \E type \in AdminTypes, path \in Orders, named \in Ids \cup {"absent"}, correlation \in Ids :
              PostEvent(t, who, type, path, named, correlation)
        \/ DrainEvents(t, who)
  BY DEF Request
<1>2. Receive(t)
  BY <1>1 DEF OpenServiceOrder, GetServiceOrder, PostEvent, DrainEvents
<1>3. KindOK' /\ EvidenceOK' /\ BoundsOK' /\ requests' \in Nat /\ UNCHANGED kind
  BY <1>0, <1>2, EvidenceKept DEF Receive, KindOK, BoundsOK
<1>4. ASSUME NEW c \in Customers, OpenServiceOrder(t, who, c) PROVE TypeInv'
  <2>1. CASE who \in Customers /\ who # c
    <3>1. Raises(t) /\ UNCHANGED rows
      BY <1>4, <2>1 DEF OpenServiceOrder
    <3>2. QED BY <1>0, <1>3, <3>1, RowsKept, RaisesTypes, TypePartsNext DEF rows
  <2>2. CASE ~(who \in Customers /\ who # c)
    <3> DEFINE opening == RequestQuote(Opened)
    <3>1. PICK o \in Orders :
            /\ Starts(t, [Working("save", requests', who, NoEvent, o) EXCEPT
                            !.copy = opening.order, !.next = opening.event])
            /\ owner' = [owner EXCEPT ![o] = c]
            /\ UNCHANGED <<store, stored>>
      BY <1>4, <2>2 DEF OpenServiceOrder
    <3>2. Opened \in Order
      BY DEF Opened, Order, ServiceOrderStatus
    <3>3. opening.order \in Order /\ opening.event \in INTEGRATION_EVENT_TYPES \cup {NoEvent}
      BY <3>2, StageType DEF IsResult
    <3> HIDE DEF opening
    <3> DEFINE k == [Working("save", requests', who, NoEvent, o) EXCEPT
                       !.copy = opening.order, !.next = opening.event]
    <3>4. k \in Task /\ k.phase = "save" /\ k.on = o /\ k.copy = opening.order
      <4> DEFINE w == Working("save", requests', who, NoEvent, o)
      <4>1. w \in Task /\ w.phase = "save" /\ w.on = o
        BY <1>3, WorkingType DEF Phases, Ids
      <4> HIDE DEF w
      <4> DEFINE n == [w EXCEPT !.copy = opening.order, !.next = opening.event]
      <4>2. n \in Task /\ n.phase = "save" /\ n.on = o /\ n.copy = opening.order
        <5>1. n \in Task /\ n.phase = w.phase /\ n.on = w.on /\ n.copy = opening.order
          BY ONLY <3>3, <4>1, WithEvent
        <5>2. QED BY <4>1, <5>1
      <4>3. QED BY <4>2 DEF w
    <3> HIDE DEF k
    <3>5. TasksOK' /\ AnswersOK'
      BY <1>3, <3>1, <3>3, <3>4, StartsTypes DEF k
    <3>6. RowsOK'
      BY <1>0, <3>1 DEF RowsOK
    <3>7. QED BY <1>3, <3>5, <3>6, TypePartsNext
  <2>3. QED BY <2>1, <2>2
<1>5. ASSUME UNCHANGED rows, TasksOK' /\ AnswersOK' PROVE TypeInv'
  BY <1>0, <1>3, <1>5, RowsKept, TypePartsNext
<1>6. ASSUME NEW o \in Ids, GetServiceOrder(t, who, o) PROVE TypeInv'
  <2>1. UNCHANGED rows
    BY <1>6 DEF GetServiceOrder
  <2>2. CASE Raises(t)
    BY <1>3, <1>5, <2>1, <2>2, RaisesTypes DEF rows
  <2>3. CASE Exists(o) /\ Shows(t, who, o, store[o])
    <3>1. store[o] \in SomeOrder
      BY <1>0, <2>3 DEF RowsOK, Exists
    <3>2. QED BY <1>3, <1>5, <2>1, <2>3, <3>1, ShowsTypes DEF rows
  <2>4. Raises(t) \/ (Exists(o) /\ Shows(t, who, o, store[o]))
    BY <1>6, Zenon DEF GetServiceOrder
  <2>5. QED BY <2>2, <2>3, <2>4
<1>7. ASSUME NEW type \in AdminTypes, NEW path \in Orders, NEW named \in Ids \cup {"absent"},
             NEW correlation \in Ids, PostEvent(t, who, type, path, named, correlation)
      PROVE  TypeInv'
  <2>1. UNCHANGED rows
    BY <1>7 DEF PostEvent
  <2>2. CASE who # Admin
    BY <1>3, <1>5, <1>7, <2>1, <2>2, RaisesTypes DEF PostEvent, rows
  <2>3. CASE who = Admin
    <3> DEFINE on == Target(path, named, correlation)
    <3>1. on \in Ids
      BY Zenon DEF Target, Ids
    <3> HIDE DEF on
    <3> DEFINE k == [Working("load", requests', who, type, on) EXCEPT !.path = path]
    <3>2. k \in Task /\ k.phase = "load"
      BY <1>3, <3>1, WorkingType, OnPath DEF Phases, Ids
    <3>3. Starts(t, k)
      BY <1>7, <2>3 DEF PostEvent, on
    <3> HIDE DEF k
    <3>4. QED BY <1>3, <1>5, <2>1, <3>2, <3>3, StartsTypes DEF rows
  <2>4. QED BY <2>2, <2>3
<1>8. CASE DrainEvents(t, who)
  <2>1. UNCHANGED rows
    BY <1>8 DEF DrainEvents
  <2>2. CASE who # Admin
    BY <1>3, <1>5, <1>8, <2>1, <2>2, RaisesTypes DEF DrainEvents, rows
  <2>3. CASE who = Admin
    <3> DEFINE k == Working("drain", requests', who, NoEvent, Blank)
    <3>1. k \in Task /\ k.phase = "drain"
      BY <1>3 DEF Working, Task, Phases, Ids, SomeOrder
    <3>2. Starts(t, k)
      BY <1>8, <2>3 DEF DrainEvents
    <3> HIDE DEF k
    <3>3. QED BY <1>3, <1>5, <2>1, <3>1, <3>2, StartsTypes DEF rows
  <2>4. QED BY <2>2, <2>3
<1>9. QED BY <1>1, <1>4, <1>6, <1>7, <1>8

-----------------------------------------------------------------------------
\* What a thread holds after Goto, and after a method of the order was called.
LEMMA GotoTask ==
  ASSUME NEW t \in Threads, task \in [Threads -> Task], NEW p \in Phases, Goto(t, p)
  PROVE  \E k \in Task : /\ k.phase = p /\ k.on = task[t].on /\ k.copy = task[t].copy
                         /\ task' = [task EXCEPT ![t] = k]
<1>1. PICK h \in Task : h = task[t]
  OBVIOUS
<1> DEFINE k == [h EXCEPT !.phase = p]
<1>2. k \in Task /\ k.phase = p /\ k.on = h.on /\ k.copy = h.copy
  BY DEF Task
<1>3. task' = [task EXCEPT ![t] = k]
  BY <1>1 DEF Goto
<1>4. QED BY <1>1, <1>2, <1>3

Called(t, p, c, e) == task' = [task EXCEPT ![t].phase = p, ![t].copy = c, ![t].next = e]

LEMMA CalledTask ==
  ASSUME NEW t \in Threads, task \in [Threads -> Task], NEW p \in Phases,
         NEW c \in Order, NEW e \in INTEGRATION_EVENT_TYPES \cup {NoEvent},
         Called(t, p, c, e)
  PROVE  \E k \in Task : /\ k.phase = p /\ k.on = task[t].on /\ k.copy = c
                         /\ task' = [task EXCEPT ![t] = k]
<1>1. PICK h \in Task : h = task[t]
  OBVIOUS
<1> DEFINE k == [h EXCEPT !.phase = p, !.copy = c, !.next = e]
<1>2. k \in Task /\ k.phase = p /\ k.on = h.on /\ k.copy = c
  BY DEF Task, SomeOrder
<1>3. task' = [task EXCEPT ![t] = k]
  BY <1>1 DEF Called
<1>4. QED BY <1>1, <1>2, <1>3

LEMMA TypeLoad ==
  ASSUME TypeInv, NEW t \in Threads, Load(t) PROVE TypeInv'
<1>0. KindOK /\ RowsOK /\ EvidenceOK /\ TasksOK /\ AnswersOK /\ BoundsOK /\ task \in [Threads -> Task]
  BY TypeParts DEF TasksOK
<1>1. KindOK' /\ RowsOK' /\ EvidenceOK' /\ BoundsOK' /\ UNCHANGED kind
  BY <1>0, RowsKept, EvidenceKept DEF Load, KindOK, BoundsOK, bounds
<1>2. UNCHANGED store /\ "save" \in Phases /\ "check" \in Phases
  BY DEF Load, rows, Phases
<1> DEFINE o == task[t].on
           outcome == Dispatch(task[t].type, store[o])
<1>3. \/ Raises(t)
      \/ Exists(o) /\ kind = "memory" /\ Goto(t, "check") /\ UNCHANGED answer
      \/ /\ Exists(o)
         /\ task' = [task EXCEPT ![t].phase = "save", ![t].copy = outcome.order, ![t].next = outcome.event]
         /\ UNCHANGED answer
  BY Zenon DEF Load
<1>4. CASE Raises(t)
  BY <1>1, <1>2, <1>4, RaisesTypes, TypePartsNext
<1>5. ASSUME Exists(o) PROVE o \in Orders /\ store[o] \in Order /\ store[o] # NoOrder
  BY <1>0, <1>5 DEF Exists, RowsOK, SomeOrder
<1>6. CASE Exists(o) /\ kind = "memory" /\ Goto(t, "check") /\ UNCHANGED answer
  <2>1. PICK k \in Task : k.phase = "check" /\ k.on = o /\ task' = [task EXCEPT ![t] = k]
    BY <1>0, <1>2, <1>6, GotoTask
  <2>2. TaskOK(k)'
    BY <1>1, <1>2, <1>5, <1>6, <2>1 DEF TaskOK
  <2>3. TasksOK' /\ AnswersOK'
    BY <1>1, <1>2, <1>6, <2>1, <2>2, GotoTypes
  <2>4. QED BY <1>1, <2>3, TypePartsNext
<1>7. CASE /\ Exists(o)
           /\ task' = [task EXCEPT ![t].phase = "save", ![t].copy = outcome.order, ![t].next = outcome.event]
           /\ UNCHANGED answer
  <2>1. IsResult(outcome)
    BY <1>5, <1>7, DispatchType
  <2>2. PICK c \in Order, e \in INTEGRATION_EVENT_TYPES \cup {NoEvent} :
          c = outcome.order /\ e = outcome.event
    BY <2>1 DEF IsResult
  <2>3. Called(t, "save", c, e)
    BY <1>7, <2>2 DEF Called
  <2>4. PICK k \in Task : k.phase = "save" /\ k.on = o /\ k.copy = c
                         /\ task' = [task EXCEPT ![t] = k]
    BY <1>0, <1>2, <2>3, CalledTask
  <2>5. TaskOK(k)'
    BY <1>5, <1>7, <2>2, <2>4 DEF TaskOK
  <2>6. TasksOK' /\ AnswersOK'
    BY <1>1, <1>2, <1>7, <2>4, <2>5, GotoTypes
  <2>7. QED BY <1>1, <2>6, TypePartsNext
<1>8. QED BY <1>3, <1>4, <1>6, <1>7

LEMMA NextMoveType ==
  ASSUME NEW t \in Threads, store[task[t].on] \in Order PROVE IsResult(NextMove(t))
<1> DEFINE now == store[task[t].on]
<1>1. IsResult(MarkPaymentConfirmed(now)) /\ IsResult(RequestExecution(now))
      /\ IsResult(Dispatch(task[t].type, now))
  BY StageType, DispatchType
<1>2. NextMove(t) \in {MarkPaymentConfirmed(now), RequestExecution(now), Dispatch(task[t].type, now)}
  BY Zenon DEF NextMove
<1>3. QED BY <1>1, <1>2

LEMMA TypeCheck ==
  ASSUME TypeInv, NEW t \in Threads, Check(t) PROVE TypeInv'
<1>0. KindOK /\ RowsOK /\ EvidenceOK /\ TasksOK /\ AnswersOK /\ BoundsOK /\ task \in [Threads -> Task]
  BY TypeParts DEF TasksOK
<1>1. KindOK' /\ RowsOK' /\ EvidenceOK' /\ BoundsOK' /\ UNCHANGED kind
  BY <1>0, RowsKept, EvidenceKept DEF Check, KindOK, BoundsOK, bounds
<1>2. UNCHANGED store /\ "save" \in Phases /\ "status" \in Phases
  BY DEF Check, rows, Phases
<1> DEFINE o == task[t].on
           move == NextMove(t)
<1>3. o \in Orders /\ store[o] # NoOrder /\ store[o] \in Order /\ kind = "memory"
  BY <1>0 DEF TasksOK, TaskOK, Check, At, RowsOK, SomeOrder
<1>4. IsResult(move)
  BY <1>3, NextMoveType
<1>5. \/ Raises(t)
      \/ Goto(t, "save") /\ UNCHANGED answer
      \/ /\ task' = [task EXCEPT ![t].phase = "status", ![t].copy = move.order, ![t].next = move.event]
         /\ UNCHANGED answer
  BY Zenon DEF Check
<1>6. CASE Raises(t)
  BY <1>1, <1>2, <1>6, RaisesTypes, TypePartsNext
<1>7. CASE Goto(t, "save") /\ UNCHANGED answer
  <2>1. PICK k \in Task : k.phase = "save" /\ k.on = o /\ task' = [task EXCEPT ![t] = k]
    BY <1>0, <1>2, <1>7, GotoTask
  <2>2. TaskOK(k)'
    BY <1>1, <1>2, <1>3, <2>1 DEF TaskOK
  <2>3. TasksOK' /\ AnswersOK'
    BY <1>1, <1>2, <1>7, <2>1, <2>2, GotoTypes
  <2>4. QED BY <1>1, <2>3, TypePartsNext
<1>8. CASE /\ task' = [task EXCEPT ![t].phase = "status", ![t].copy = move.order, ![t].next = move.event]
           /\ UNCHANGED answer
  <2>1. PICK c \in Order, e \in INTEGRATION_EVENT_TYPES \cup {NoEvent} :
          c = move.order /\ e = move.event
    BY <1>4 DEF IsResult
  <2>2. Called(t, "status", c, e)
    BY <1>8, <2>1 DEF Called
  <2>3. PICK k \in Task : k.phase = "status" /\ k.on = o /\ k.copy = c
                         /\ task' = [task EXCEPT ![t] = k]
    BY <1>0, <1>2, <2>2, CalledTask
  <2>4. TaskOK(k)'
    BY <1>1, <1>2, <1>3, <2>3 DEF TaskOK
  <2>5. TasksOK' /\ AnswersOK'
    BY <1>1, <1>2, <1>8, <2>3, <2>4, GotoTypes
  <2>6. QED BY <1>1, <2>5, TypePartsNext
<1>9. QED BY <1>5, <1>6, <1>7, <1>8
\* Putting an order leaves the orders there, and the types.
LEMMA PutRows ==
  ASSUME RowsOK, NEW o \in Orders, NEW s \in Order, Put(o, s), UNCHANGED owner
  PROVE  RowsOK' /\ store'[o] # NoOrder /\ \A p \in Orders : store[p] # NoOrder => store'[p] # NoOrder
BY NoOrderIsNone DEF RowsOK, Put, SomeOrder

LEMMA TypeSetStatus ==
  ASSUME TypeInv, NEW t \in Threads, SetStatus(t) PROVE TypeInv'
<1>0. KindOK /\ RowsOK /\ EvidenceOK /\ TasksOK /\ AnswersOK /\ BoundsOK /\ task \in [Threads -> Task]
  BY TypeParts DEF TasksOK
<1>1. KindOK' /\ EvidenceOK' /\ BoundsOK' /\ UNCHANGED kind /\ "history" \in Phases
  BY <1>0, EvidenceKept DEF SetStatus, KindOK, BoundsOK, bounds, Phases
<1>2. PICK h \in Task : h = task[t]
  BY <1>0
<1>3. h.on \in Orders /\ store[h.on] \in Order /\ h.copy \in Order /\ kind = "memory"
  BY <1>0, <1>2 DEF TasksOK, TaskOK, SetStatus, At, RowsOK, SomeOrder
<1>4. PICK s \in Order : s = [store[h.on] EXCEPT !.status = h.copy.status]
  BY <1>3 DEF Order
<1>5. Put(h.on, s)
  BY <1>2, <1>4 DEF SetStatus
<1>6. RowsOK' /\ store'[h.on] # NoOrder /\ \A p \in Orders : store[p] # NoOrder => store'[p] # NoOrder
  BY <1>0, <1>3, <1>5, PutRows DEF SetStatus
<1>7. PICK k \in Task : k.phase = "history" /\ k.on = h.on /\ k.copy = h.copy
                       /\ task' = [task EXCEPT ![t] = k]
  BY <1>0, <1>1, <1>2, GotoTask DEF SetStatus
<1>8. TaskOK(k)'
  BY <1>1, <1>3, <1>6, <1>7 DEF TaskOK
<1>9. TasksOK' /\ AnswersOK'
  BY <1>1, <1>6, <1>7, <1>8, GotoTypes DEF SetStatus
<1>10. QED BY <1>1, <1>6, <1>9, TypePartsNext

LEMMA TypeAppendHistory ==
  ASSUME TypeInv, NEW t \in Threads, AppendHistory(t) PROVE TypeInv'
<1>0. KindOK /\ RowsOK /\ EvidenceOK /\ TasksOK /\ AnswersOK /\ BoundsOK /\ task \in [Threads -> Task]
  BY TypeParts DEF TasksOK
<1>1. KindOK' /\ EvidenceOK' /\ BoundsOK' /\ UNCHANGED kind /\ {"check", "save"} \subseteq Phases
  BY <1>0, EvidenceKept DEF AppendHistory, KindOK, BoundsOK, bounds, Phases
<1>2. PICK h \in Task : h = task[t]
  BY <1>0
<1>3. h.on \in Orders /\ store[h.on] \in Order /\ h.copy \in Order /\ kind = "memory"
  BY <1>0, <1>2 DEF TasksOK, TaskOK, AppendHistory, At, RowsOK, SomeOrder
<1>4. PICK s \in Order : s = [store[h.on] EXCEPT !.history = Append(@, h.copy.status)]
  <2>1. PICK n \in Order : n = store[h.on]
    BY <1>3
  <2>2. Append(n.history, h.copy.status) \in Seq(ServiceOrderStatus)
    BY <1>3 DEF Order
  <2>3. [n EXCEPT !.history = Append(@, h.copy.status)] \in Order
    BY <2>2 DEF Order
  <2>4. QED BY <2>1, <2>3
<1>5. Put(h.on, s)
  BY <1>2, <1>4 DEF AppendHistory
<1>6. RowsOK' /\ store'[h.on] # NoOrder /\ \A p \in Orders : store[p] # NoOrder => store'[p] # NoOrder
  BY <1>0, <1>3, <1>5, PutRows DEF AppendHistory
<1>7. PICK k \in Task : k.phase \in {"check", "save"} /\ k.on = h.on /\ k.copy = h.copy
                       /\ task' = [task EXCEPT ![t] = k]
  <2>1. PICK again \in BOOLEAN : again = (h.type = "PAYMENT_CONFIRMED" /\ ~h.second)
    OBVIOUS
  <2> DEFINE k == [h EXCEPT !.phase = IF again THEN "check" ELSE "save", !.second = again]
  <2>2. k \in Task /\ k.phase \in {"check", "save"} /\ k.on = h.on /\ k.copy = h.copy
    BY <1>1 DEF Task
  <2>3. task' = [task EXCEPT ![t] = k]
    BY <1>2, <2>1 DEF AppendHistory
  <2>4. QED BY <2>2, <2>3
<1>8. TaskOK(k)'
  BY <1>1, <1>3, <1>6, <1>7 DEF TaskOK
<1>9. TasksOK' /\ AnswersOK'
  BY <1>1, <1>6, <1>7, <1>8, GotoTypes DEF AppendHistory
<1>10. QED BY <1>1, <1>6, <1>9, TypePartsNext
LEMMA AnswersTypes ==
  ASSUME TypeInv, UNCHANGED kind, NEW t \in Threads, NEW s \in SomeOrder, Answers(t, s),
         \A p \in Orders : store[p] # NoOrder => store'[p] # NoOrder
  PROVE  TasksOK' /\ AnswersOK'
<1>1. PICK h \in Task : h = task[t]
  BY DEF TypeInv, TypeOK
<1>2. h.who \in Principals /\ h.on \in Ids /\ Shows(t, h.who, h.on, s)
  BY <1>1 DEF Task, Answers
<1>3. QED BY <1>2, ShowsTypes

LEMMA TypeSave ==
  ASSUME TypeInv, NEW t \in Threads, Save(t) PROVE TypeInv'
<1>0. KindOK /\ RowsOK /\ EvidenceOK /\ TasksOK /\ AnswersOK /\ BoundsOK /\ task \in [Threads -> Task]
  BY TypeParts DEF TasksOK
<1>1. KindOK' /\ EvidenceOK' /\ BoundsOK' /\ UNCHANGED <<kind, owner>> /\ {"lock", "append"} \subseteq Phases
  BY <1>0, EvidenceKept DEF Save, KindOK, BoundsOK, bounds, Phases
<1>2. PICK h \in Task : h = task[t]
  BY <1>0
<1> DEFINE new == kind = "real" \/ ~Exists(h.on)
<1>3. h.on \in Orders /\ (h.copy \in Order \/ (kind = "memory" /\ store[h.on] # NoOrder))
  BY <1>0, <1>2 DEF TasksOK, TaskOK, Save, At
<1>4. /\ IF new THEN Put(h.on, h.copy) ELSE UNCHANGED <<store, stored>>
      /\ \/ Answers(t, IF new THEN h.copy ELSE store[h.on])
         \/ Goto(t, Published) /\ UNCHANGED answer
  BY <1>2 DEF Save
<1>5. RowsOK' /\ store'[h.on] # NoOrder /\ \A p \in Orders : store[p] # NoOrder => store'[p] # NoOrder
  <2>1. CASE new
    <3>1. h.copy \in Order
      BY <1>0, <1>3, <2>1 DEF Exists, KindOK
    <3>2. QED BY <1>0, <1>1, <1>3, <1>4, <2>1, <3>1, PutRows
  <2>2. CASE ~new
    BY <1>0, <1>1, <1>4, <2>2 DEF Exists, RowsOK
  <2>3. QED BY <2>1, <2>2
<1>6. CASE Answers(t, IF new THEN h.copy ELSE store[h.on])
  <2>1. PICK s \in SomeOrder : s = IF new THEN h.copy ELSE store[h.on]
    BY <1>0, <1>3 DEF RowsOK, SomeOrder, Exists, KindOK
  <2>2. Answers(t, s)
    BY <1>6, <2>1
  <2>3. TasksOK' /\ AnswersOK'
    BY <1>1, <1>5, <2>2, AnswersTypes
  <2>4. QED BY <1>1, <1>5, <2>3, TypePartsNext
<1>7. CASE Goto(t, Published) /\ UNCHANGED answer
  <2>1. PICK ph \in Phases : ph = Published /\ ph \in {"lock", "append"} /\ (ph = "lock" => kind = "real")
    BY <1>1 DEF Published
  <2>2. PICK k \in Task : k.phase = ph /\ k.on = h.on /\ task' = [task EXCEPT ![t] = k]
    BY <1>0, <1>2, <1>7, <2>1, GotoTask
  <2>3. TaskOK(k)'
    BY <1>1, <1>3, <1>5, <2>1, <2>2 DEF TaskOK
  <2>4. TasksOK' /\ AnswersOK'
    BY <1>1, <1>5, <1>7, <2>2, <2>3, GotoTypes
  <2>5. QED BY <1>1, <1>5, <2>4, TypePartsNext
<1>8. QED BY <1>4, <1>6, <1>7

\* The steps of the publisher that go on: they leave the orders and the answers.
LEMMA PublisherGoes ==
  ASSUME TypeInv, NEW t \in Threads, NEW p \in {"send", "append"}, Goto(t, p),
         task[t].phase \in {"lock", "send"},
         UNCHANGED <<kind, rows, answer>>, EvidenceOK', BoundsOK'
  PROVE  TypeInv'
<1>0. KindOK /\ RowsOK /\ EvidenceOK /\ TasksOK /\ AnswersOK /\ BoundsOK /\ task \in [Threads -> Task]
  BY TypeParts DEF TasksOK
<1>1. KindOK' /\ RowsOK' /\ UNCHANGED <<kind, store>> /\ p \in Phases
  BY <1>0, RowsKept DEF KindOK, Phases, rows
<1>2. task[t].on \in Orders /\ store[task[t].on] # NoOrder /\ kind = "real"
  BY <1>0 DEF TasksOK, TaskOK
<1>3. PICK k \in Task : k.phase = p /\ k.on = task[t].on /\ task' = [task EXCEPT ![t] = k]
  BY <1>0, <1>1, GotoTask
<1>4. TaskOK(k)'
  BY <1>1, <1>2, <1>3 DEF TaskOK
<1>5. TasksOK' /\ AnswersOK'
  BY <1>1, <1>3, <1>4, GotoTypes
<1>6. QED BY <1>1, <1>5, TypePartsNext

LEMMA TypeAcquire ==
  ASSUME TypeInv, NEW t \in Threads, Acquire(t) PROVE TypeInv'
<1>1. EvidenceOK' /\ BoundsOK'
  BY TypeParts DEF EvidenceOK, BoundsOK, Acquire, bounds
<1>2. QED BY <1>1, PublisherGoes DEF Acquire, At

LEMMA TypeSent ==
  ASSUME TypeInv, NEW t \in Threads, BasicPublish(t) \/ SendIsLost(t) PROVE TypeInv'
<1>1. Sent(t)
  BY DEF BasicPublish, SendIsLost
<1>2. PICK n \in Nat : n = task[t].nr
  BY DEF TypeInv, TypeOK, Task
<1>3. EvidenceOK' /\ BoundsOK'
  <2>1. UNCHANGED taken \/ taken' = taken \cup {n}
    BY <1>2 DEF BasicPublish, SendIsLost
  <2>2. UNCHANGED faults \/ faults' = faults + 1
    BY DEF BasicPublish, SendIsLost
  <2>3. returned' = Append(returned, n) /\ UNCHANGED <<lock, messages, drained, exposed, requests>>
    BY <1>1, <1>2 DEF Sent
  <2>4. QED BY <2>1, <2>2, <2>3, TypeParts DEF EvidenceOK, BoundsOK
<1>4. QED BY <1>1, <1>3, PublisherGoes DEF Sent, At

LEMMA TypeAppendMessage ==
  ASSUME TypeInv, NEW t \in Threads, AppendMessage(t) PROVE TypeInv'
<1>0. KindOK /\ RowsOK /\ EvidenceOK /\ TasksOK /\ AnswersOK /\ BoundsOK /\ task \in [Threads -> Task]
  BY TypeParts DEF TasksOK
<1>1. KindOK' /\ RowsOK' /\ BoundsOK' /\ UNCHANGED <<kind, store>>
  BY <1>0, RowsKept DEF AppendMessage, KindOK, BoundsOK, bounds, rows
<1>2. PICK h \in Task : h = task[t] /\ h.nr \in Nat /\ h.copy \in SomeOrder
  BY <1>0 DEF Task
<1>3. EvidenceOK'
  <2>1. messages' \in Seq(Nat)
    BY <1>0, <1>2 DEF AppendMessage, EvidenceOK
  <2>2. CASE kind = "real"
    <3>1. lock' = Free /\ UNCHANGED <<taken, returned, drained, exposed>>
      BY <2>2 DEF AppendMessage
    <3>2. QED BY <1>0, <2>1, <3>1 DEF EvidenceOK
  <2>3. CASE kind # "real"
    <3>1. returned' \in Seq(Nat) /\ UNCHANGED <<lock, taken, drained>>
      <4>1. returned' = Append(returned, h.nr) /\ UNCHANGED <<lock, taken, drained>>
        BY <1>2, <2>3 DEF AppendMessage
      <4>2. QED BY <1>0, <1>2, <4>1 DEF EvidenceOK
    <3>2. exposed' \subseteq Nat
      BY <1>0, <1>2, <2>3 DEF AppendMessage, EvidenceOK
    <3>3. QED BY <1>0, <2>1, <3>1, <3>2 DEF EvidenceOK
  <2>4. QED BY <2>2, <2>3
<1>4. h.on \in Orders
  BY <1>0, <1>2 DEF TasksOK, TaskOK, AppendMessage, At
<1>5. PICK s \in SomeOrder : s = Show(t)
  BY <1>0, <1>2, <1>4 DEF Show, RowsOK
<1>6. Answers(t, s)
  BY <1>5 DEF AppendMessage
<1>7. TasksOK' /\ AnswersOK'
  BY <1>1, <1>6, AnswersTypes
<1>8. QED BY <1>1, <1>3, <1>7, TypePartsNext

LEMMA TypeDrain ==
  ASSUME TypeInv, NEW t \in Threads, CopyMessages(t) \/ ClearMessages(t) PROVE TypeInv'
<1>0. KindOK /\ RowsOK /\ EvidenceOK /\ TasksOK /\ AnswersOK /\ BoundsOK /\ task \in [Threads -> Task]
  BY TypeParts DEF TasksOK
<1>1. KindOK' /\ RowsOK' /\ BoundsOK' /\ UNCHANGED <<kind, store>> /\ "clear" \in Phases
  BY <1>0, RowsKept DEF CopyMessages, ClearMessages, KindOK, BoundsOK, bounds, Phases, rows
<1>2. PICK h \in Task : h = task[t] /\ h.list \in Seq(Nat)
  BY <1>0 DEF Task
<1>3. EvidenceOK'
  <2>1. CASE CopyMessages(t)
    BY <1>0, <2>1 DEF CopyMessages, EvidenceOK
  <2>2. CASE ClearMessages(t)
    <3>1. drained' \in Seq(Nat) /\ messages' \in Seq(Nat)
      BY <1>0, <1>2, <2>2 DEF ClearMessages, EvidenceOK
    <3>2. lock' \in Threads \cup {Free} /\ UNCHANGED <<taken, returned, exposed>>
      BY <1>0, <2>2 DEF ClearMessages, EvidenceOK
    <3>3. QED BY <1>0, <3>1, <3>2 DEF EvidenceOK
  <2>3. QED BY <2>1, <2>2
<1>4. CASE CopyMessages(t)
  <2>1. PICK l \in Seq(Nat) : l = messages
    BY <1>0 DEF EvidenceOK
  <2> DEFINE k == [h EXCEPT !.phase = "clear", !.list = l]
  <2>2. k \in Task /\ k.phase = "clear" /\ task' = [task EXCEPT ![t] = k]
    BY <1>1, <1>2, <1>4, <2>1 DEF Task, CopyMessages
  <2> HIDE DEF k
  <2>3. TaskOK(k)'
    BY <2>2 DEF TaskOK
  <2>4. TasksOK' /\ AnswersOK'
    BY <1>1, <1>4, <2>2, <2>3, GotoTypes DEF CopyMessages
  <2>5. QED BY <1>1, <1>3, <2>4, TypePartsNext
<1>5. CASE ClearMessages(t)
  BY <1>1, <1>3, <1>5, RaisesTypes, TypePartsNext DEF ClearMessages
<1>6. QED BY <1>4, <1>5

LEMMA TypeCallFails ==
  ASSUME TypeInv, NEW t \in Threads, CallFails(t) PROVE TypeInv'
<1>0. KindOK /\ RowsOK /\ EvidenceOK /\ TasksOK /\ AnswersOK /\ BoundsOK
  BY TypeParts
<1>1. KindOK' /\ RowsOK' /\ BoundsOK' /\ UNCHANGED <<kind, store>>
  BY <1>0, RowsKept DEF CallFails, KindOK, BoundsOK, rows
<1>2. task[t].nr \in Nat
  BY DEF TypeInv, TypeOK, Task
<1>3. EvidenceOK'
  BY <1>0, <1>2 DEF CallFails, EvidenceOK
<1>4. QED BY <1>1, <1>3, RaisesTypes, TypePartsNext DEF CallFails

LEMMA TypeCloseFails ==
  ASSUME TypeInv, NEW t \in Threads, CloseFails(t) PROVE TypeInv'
<1>0. KindOK /\ RowsOK /\ EvidenceOK /\ TasksOK /\ AnswersOK /\ BoundsOK
  BY TypeParts
<1>1. KindOK' /\ RowsOK' /\ BoundsOK' /\ UNCHANGED <<kind, store>>
  BY <1>0, RowsKept DEF CloseFails, KindOK, BoundsOK, rows
<1>2. task[t].nr \in Nat
  BY DEF TypeInv, TypeOK, Task
<1>3. EvidenceOK'
  BY <1>0, <1>2 DEF CloseFails, EvidenceOK
<1>4. QED BY <1>1, <1>3, RaisesTypes, TypePartsNext DEF CloseFails

LEMMA TypeInvHolds == Spec => []TypeInv
<1>1. Init => TypeInv
  <2> SUFFICES ASSUME Init PROVE TypeInv
    OBVIOUS
  <2>1. <<>> \in Seq(Nat)
    OBVIOUS
  <2>2. KindOK /\ RowsOK /\ EvidenceOK /\ BoundsOK
    BY <2>1 DEF Init, KindOK, RowsOK, EvidenceOK, BoundsOK, SomeOrder
  <2>3. TasksOK /\ AnswersOK
    BY WaitingType DEF Init, TasksOK, TaskOK, AnswersOK
  <2>4. QED BY <2>2, <2>3, TypeParts
<1>2. TypeInv /\ [Next]_vars => TypeInv'
  <2> SUFFICES ASSUME TypeInv, [Next]_vars PROVE TypeInv'
    OBVIOUS
  <2>1. CASE UNCHANGED vars
    BY <2>1 DEF vars, rows, evidence, bounds, TypeInv, TypeOK, TaskOK
  <2>2. CASE Next
    <3>1. PICK t \in Threads : Request(t) \/ ThreadStep(t) \/ Fault(t)
      BY <2>2 DEF Next
    <3>2. CASE ThreadStep(t)
      BY <3>2, TypeLoad, TypeCheck, TypeSetStatus, TypeAppendHistory, TypeSave, TypeAcquire,
         TypeSent, TypeAppendMessage, TypeDrain DEF ThreadStep
    <3>3. CASE Fault(t)
      BY <3>3, TypeSent, TypeCallFails, TypeCloseFails DEF Fault
    <3>4. QED BY <3>1, <3>2, <3>3, TypeRequest
  <2>3. QED BY <2>1, <2>2
<1>3. QED BY <1>1, <1>2, PTL DEF Spec

\* The repository holds orders, the publisher numbers, and a thread works on an order
\* that is there: nothing it saves, announces or answers is missing.
THEOREM ReplicaTypes == Spec => []TypeOK
<1>1. TypeInv => TypeOK
  BY DEF TypeInv
<1>2. QED BY <1>1, TypeInvHolds, PTL

-----------------------------------------------------------------------------
(* The evidence of the real publisher *)

\* Phases inside "with self._lock".
Held == {"send", "append", "clear"}

\* Who is inside holds the lock, and a drain that copied the list still has it all:
\* the missing half of EvidenceIsExact.
LockInv ==
  kind = "real" =>
    /\ \A t \in Threads : task[t].phase \in Held <=> lock = t
    /\ \A t \in Threads : task[t].phase = "clear" => task[t].list = messages
    /\ returned = drained \o messages \o InFlight

\* The publisher does nothing, and a thread outside the lock stays outside.
LEMMA OutsideKeeps ==
  ASSUME TypeInv, TypeInv', LockInv, UNCHANGED <<kind, lock, messages, returned, drained>>, NEW t \in Threads,
         \A u \in Threads \ {t} : task'[u] = task[u],
         task[t].phase \notin Held, task'[t].phase \notin Held
  PROVE  LockInv'
<1> SUFFICES ASSUME kind = "real" PROVE LockInv'
  BY DEF LockInv
<1>1. \A u \in Threads : task'[u].phase \in Held <=> lock' = u
  BY DEF LockInv
<1>2. \A u \in Threads : task'[u].phase = "clear" => task'[u].list = messages'
  BY DEF LockInv, Held
<1>3. InFlight' = InFlight
  <2>1. lock \in Threads \cup {Free} /\ lock' = lock
    BY DEF TypeInv, TypeOK
  <2>2. CASE lock = Free
    BY <2>1, <2>2 DEF InFlight
  <2>3. CASE lock \in Threads
    BY <2>1, <2>3 DEF InFlight, At, LockInv
  <2>4. QED BY <2>1, <2>2, <2>3
<1>4. QED BY <1>1, <1>2, <1>3 DEF LockInv

LEMMA Listing ==
  ASSUME NEW d \in Seq(Nat), NEW m \in Seq(Nat), NEW n \in Nat
  PROVE  /\ d \o m \o <<>> = d \o m
         /\ Append(d \o m, n) = d \o m \o <<n>>
         /\ d \o Append(m, n) = d \o m \o <<n>>
         /\ d \o <<>> = d
<1>1. d \o m \in Seq(Nat) /\ <<n>> \in Seq(Nat)
  OBVIOUS
<1>2. Append(m, n) = m \o <<n>> /\ Append(d \o m, n) = d \o m \o <<n>>
  BY <1>1, AppendIsConcat
<1>3. d \o (m \o <<n>>) = (d \o m) \o <<n>>
  BY <1>1, ConcatAssociative
<1>4. QED BY <1>1, <1>2, <1>3, ConcatEmptySeq

\* What is in a longer list.
LEMMA EntriesMore ==
  ASSUME NEW s \in Seq(Nat), NEW r \in Seq(Nat), NEW n \in Nat
  PROVE  /\ Entries(Append(s, n)) = Entries(s) \cup {n}
         /\ Entries(s \o r) = Entries(s) \cup Entries(r)
         /\ Entries(<<>>) = {}
<1>1. Entries(<<>>) = {}
  BY DEF Entries
<1>2. Entries(Append(s, n)) = Entries(s) \cup {n}
  <2>1. Len(s) + 1 \in DOMAIN Append(s, n) /\ Append(s, n)[Len(s) + 1] = n
    OBVIOUS
  <2>2. \A i \in DOMAIN s : i \in DOMAIN Append(s, n) /\ Append(s, n)[i] = s[i]
    OBVIOUS
  <2>3. \A i \in DOMAIN Append(s, n) : i \in DOMAIN s \/ i = Len(s) + 1
    OBVIOUS
  <2>4. QED BY <2>1, <2>2, <2>3 DEF Entries
<1>3. Entries(s \o r) = Entries(s) \cup Entries(r)
  <2>1. Len(s \o r) = Len(s) + Len(r) /\ Len(s) \in Nat /\ Len(r) \in Nat
    OBVIOUS
  <2>2. \A i \in DOMAIN s : i \in DOMAIN (s \o r) /\ (s \o r)[i] = s[i]
    OBVIOUS
  <2>3. \A i \in DOMAIN r : Len(s) + i \in DOMAIN (s \o r) /\ (s \o r)[Len(s) + i] = r[i]
    OBVIOUS
  <2>4. \A i \in DOMAIN (s \o r) : i \in DOMAIN s \/ (i - Len(s) \in DOMAIN r /\ (s \o r)[i] = r[i - Len(s)])
    OBVIOUS
  <2>5. Entries(s) \subseteq Entries(s \o r)
    BY <2>2 DEF Entries
  <2>6. Entries(r) \subseteq Entries(s \o r)
    BY <2>3 DEF Entries
  <2>7. Entries(s \o r) \subseteq Entries(s) \cup Entries(r)
    BY <2>4 DEF Entries
  <2>8. QED BY <2>5, <2>6, <2>7
<1>4. QED BY <1>1, <1>2, <1>3

\* What a step of t does to the tasks: the others keep theirs, t enters a phase.
Enters(t, phases) ==
  /\ \A u \in Threads \ {t} : task'[u] = task[u]
  /\ task'[t].phase \in phases

LEMMA EndsEnters ==
  ASSUME task \in [Threads -> Task], NEW t \in Threads, NEW r, Ends(t, r)
  PROVE  Enters(t, {"idle"})
BY DEF Ends, Enters, Waiting, Working

LEMMA StartsEnters ==
  ASSUME task \in [Threads -> Task], NEW t \in Threads, NEW k, Starts(t, k)
  PROVE  Enters(t, {k.phase})
BY DEF Starts, Enters

LEMMA GotoEnters ==
  ASSUME task \in [Threads -> Task], NEW t \in Threads, NEW p, Goto(t, p)
  PROVE  Enters(t, {p})
<1>1. task[t] \in Task
  OBVIOUS
<1>2. QED BY <1>1 DEF Goto, Enters, Task

LEMMA RequestEnters ==
  ASSUME TypeInv, NEW t \in Threads, Request(t)
  PROVE  /\ UNCHANGED <<kind, evidence>> /\ task[t].phase = "idle"
         /\ \E p \in {"idle", "save", "load", "drain"} : p # "clear" /\ Enters(t, {p})
<1>0. task \in [Threads -> Task]
  BY DEF TypeInv, TypeOK
<1>1. UNCHANGED <<kind, evidence>> /\ task[t].phase = "idle"
  BY DEF Request, OpenServiceOrder, GetServiceOrder, PostEvent, DrainEvents, Receive, At
<1>2. PICK who \in Principals :
        \/ \E c \in Customers : OpenServiceOrder(t, who, c)
        \/ \E o \in Ids : GetServiceOrder(t, who, o)
        \/ \E type \in AdminTypes, path \in Orders, named \in Ids \cup {"absent"}, correlation \in Ids :
              PostEvent(t, who, type, path, named, correlation)
        \/ DrainEvents(t, who)
  BY DEF Request
<1>3. Enters(t, {"idle"}) \/ Enters(t, {"save"}) \/ Enters(t, {"load"}) \/ Enters(t, {"drain"})
  <2>1. ASSUME Raises(t) PROVE Enters(t, {"idle"})
    BY <1>0, <2>1, EndsEnters DEF Raises
  <2>2. ASSUME NEW c \in Customers, OpenServiceOrder(t, who, c)
        PROVE  Enters(t, {"idle"}) \/ Enters(t, {"save"})
    <3>1. Raises(t) \/ \E o \in Orders :
            Starts(t, [Working("save", requests', who, NoEvent, o) EXCEPT
                         !.copy = RequestQuote(Opened).order, !.next = RequestQuote(Opened).event])
      BY <2>2 DEF OpenServiceOrder
    <3>2. ASSUME NEW o \in Orders,
                 Starts(t, [Working("save", requests', who, NoEvent, o) EXCEPT
                              !.copy = RequestQuote(Opened).order, !.next = RequestQuote(Opened).event])
          PROVE  Enters(t, {"save"})
      BY <1>0, <3>2 DEF Starts, Enters, Working
    <3>3. QED BY <2>1, <3>1, <3>2
  <2>3. ASSUME NEW o \in Ids, GetServiceOrder(t, who, o) PROVE Enters(t, {"idle"})
    <3>1. Raises(t) \/ Shows(t, who, o, store[o])
      BY <2>3, Zenon DEF GetServiceOrder
    <3>2. QED BY <1>0, <2>1, <3>1, EndsEnters DEF Shows
  <2>4. ASSUME NEW type \in AdminTypes, NEW path \in Orders, NEW named \in Ids \cup {"absent"},
               NEW correlation \in Ids, PostEvent(t, who, type, path, named, correlation)
        PROVE  Enters(t, {"idle"}) \/ Enters(t, {"load"})
    <3>1. CASE Raises(t)
      BY <2>1, <3>1
    <3>2. CASE Starts(t, [Working("load", requests', who, type, Target(path, named, correlation))
                            EXCEPT !.path = path])
      BY <1>0, <3>2 DEF Starts, Enters, Working
    <3>3. QED BY <2>4, <3>1, <3>2 DEF PostEvent
  <2>5. ASSUME DrainEvents(t, who) PROVE Enters(t, {"idle"}) \/ Enters(t, {"drain"})
    <3>1. CASE Raises(t)
      BY <2>1, <3>1
    <3>2. CASE Starts(t, Working("drain", requests', who, NoEvent, Blank))
      BY <1>0, <3>2 DEF Starts, Enters, Working
    <3>3. QED BY <2>5, <3>1, <3>2 DEF DrainEvents
  <2>6. QED BY <1>2, <2>2, <2>3, <2>4, <2>5
<1>4. QED BY <1>1, <1>3

LEMMA LockRequest ==
  ASSUME TypeInv, TypeInv', LockInv, NEW t \in Threads, Request(t)
  PROVE  LockInv'
BY RequestEnters, OutsideKeeps DEF Enters, Held, evidence

LEMMA LockUseCase ==
  ASSUME TypeInv, TypeInv', LockInv, NEW t \in Threads, Load(t) \/ Check(t) \/ Save(t)
  PROVE  LockInv'
<1>0. task \in [Threads -> Task]
  BY DEF TypeInv, TypeOK
<1> SUFFICES ASSUME kind = "real" PROVE LockInv'
  BY DEF LockInv, Load, Check, Save
<1>1. UNCHANGED <<kind, evidence>> /\ task[t].phase \in {"load", "check", "save"}
  BY DEF Load, Check, Save, At
<1>2. CASE Load(t)
  <2>1. Raises(t) \/ \E c, e : Called(t, "save", c, e)
    BY <1>2, Zenon DEF Load, Called
  <2>2. ASSUME NEW c, NEW e, Called(t, "save", c, e) PROVE Enters(t, {"save"})
    BY <1>0, <2>2 DEF Called, Enters, Task
  <2>3. Enters(t, {"idle"}) \/ Enters(t, {"save"})
    BY <1>0, <2>1, <2>2, EndsEnters DEF Raises
  <2>4. QED BY <1>1, <2>3, OutsideKeeps DEF Enters, Held, evidence
<1>3. CASE Check(t)
  <2>1. FALSE
    BY <1>3 DEF TypeInv, TaskOK, Check, At
  <2>2. QED BY <2>1
<1>4. CASE Save(t)
  <2>1. Goto(t, "lock") \/ \E r : Ends(t, r)
    BY <1>4 DEF Save, Published, Answers, Shows
  <2>2. Enters(t, {"idle"}) \/ Enters(t, {"lock"})
    BY <1>0, <2>1, EndsEnters, GotoEnters
  <2>3. QED BY <1>1, <2>2, OutsideKeeps DEF Enters, Held, evidence
<1>5. QED BY <1>2, <1>3, <1>4

LEMMA LockAcquire ==
  ASSUME TypeInv, TypeInv', LockInv, NEW t \in Threads, Acquire(t)
  PROVE  LockInv'
<1> SUFFICES ASSUME kind = "real" PROVE LockInv'
  BY DEF LockInv, Acquire
<1>0. task \in [Threads -> Task]
  BY DEF TypeInv, TypeOK
<1>1. lock = Free /\ lock' = t /\ UNCHANGED <<kind, messages, returned, drained>>
  BY DEF Acquire
<1>2. Enters(t, {"send"})
  BY <1>0, GotoEnters DEF Acquire
<1>3. \A u \in Threads : task'[u].phase \in Held <=> lock' = u
  BY <1>1, <1>2, ReplicaConstants DEF LockInv, Enters, Held
<1>4. \A u \in Threads : task'[u].phase = "clear" => task'[u].list = messages'
  BY <1>1, <1>2 DEF LockInv, Enters
<1>5. InFlight = <<>> /\ InFlight' = <<>>
  BY <1>1, <1>2 DEF InFlight, At, Enters
<1>6. QED BY <1>1, <1>3, <1>4, <1>5 DEF LockInv

LEMMA LockSent ==
  ASSUME TypeInv, TypeInv', LockInv, NEW t \in Threads, Sent(t)
  PROVE  LockInv'
<1> SUFFICES ASSUME kind = "real" PROVE LockInv'
  BY DEF LockInv, Sent
<1>0. task \in [Threads -> Task] /\ messages \in Seq(Nat) /\ drained \in Seq(Nat)
  BY DEF TypeInv, TypeOK
<1>1. UNCHANGED <<kind, lock, messages, drained>> /\ task[t].phase = "send"
  BY DEF Sent, At
<1>2. lock = t /\ t # Free
  BY <1>1, ReplicaConstants DEF LockInv, Held
<1>3. Enters(t, {"append"})
  BY <1>0, GotoEnters DEF Sent
<1>4. PICK n \in Nat : n = task[t].nr
  BY <1>0 DEF Task
<1>5. returned' = Append(returned, n) /\ task'[t].nr = n
  BY <1>0, <1>4 DEF Sent, Goto, Task
<1>6. InFlight = <<>> /\ InFlight' = <<n>>
  BY <1>1, <1>2, <1>3, <1>5 DEF InFlight, At, Enters
<1>7. returned' = drained' \o messages' \o InFlight'
  <2>1. returned = drained \o messages
    BY <1>0, <1>6, Listing DEF LockInv
  <2>2. Append(drained \o messages, n) = drained \o messages \o <<n>>
    BY <1>0, Listing
  <2>3. QED BY <1>1, <1>5, <1>6, <2>1, <2>2
<1>8. \A u \in Threads : task'[u].phase \in Held <=> lock' = u
  BY <1>1, <1>2, <1>3 DEF LockInv, Enters, Held
<1>9. \A u \in Threads : task'[u].phase = "clear" => task'[u].list = messages'
  BY <1>1, <1>3 DEF LockInv, Enters
<1>10. QED BY <1>7, <1>8, <1>9 DEF LockInv

LEMMA LockAppendMessage ==
  ASSUME TypeInv, TypeInv', LockInv, NEW t \in Threads, AppendMessage(t) \/ CloseFails(t)
  PROVE  LockInv'
<1> SUFFICES ASSUME kind = "real" PROVE LockInv'
  BY DEF LockInv, AppendMessage, CloseFails
<1>0. task \in [Threads -> Task] /\ messages \in Seq(Nat) /\ drained \in Seq(Nat)
  BY DEF TypeInv, TypeOK
<1>1. UNCHANGED <<kind, returned, drained>> /\ task[t].phase = "append" /\ lock' = Free
  BY DEF AppendMessage, CloseFails, At
<1>2. lock = t /\ t # Free
  BY <1>1, ReplicaConstants DEF LockInv, Held
<1>3. Enters(t, {"idle"})
  BY <1>0, EndsEnters DEF AppendMessage, CloseFails, Raises, Answers, Shows
<1>4. PICK n \in Nat : n = task[t].nr
  BY <1>0 DEF Task
<1>5. messages' = Append(messages, n)
  BY <1>4 DEF AppendMessage, CloseFails
<1>6. InFlight = <<n>> /\ InFlight' = <<>>
  BY <1>1, <1>2, <1>4 DEF InFlight, At
<1>7. returned' = drained' \o messages' \o InFlight'
  <2>1. Append(messages, n) \in Seq(Nat)
    BY <1>0
  <2>2. returned' = drained \o messages \o <<n>>
    BY <1>1, <1>6 DEF LockInv
  <2>3. drained \o messages' \o <<>> = drained \o messages'
    BY <1>0, <1>5, <2>1, Listing
  <2>4. QED BY <1>0, <1>1, <1>4, <1>5, <1>6, <2>2, <2>3, Listing
<1>8. \A u \in Threads : task'[u].phase \in Held <=> lock' = u
  BY <1>1, <1>2, <1>3, ReplicaConstants DEF LockInv, Enters, Held
<1>9. \A u \in Threads : task'[u].phase = "clear" => task'[u].list = messages'
  BY <1>2, <1>3 DEF LockInv, Enters, Held
<1>10. QED BY <1>7, <1>8, <1>9 DEF LockInv

LEMMA LockCopyMessages ==
  ASSUME TypeInv, TypeInv', LockInv, NEW t \in Threads, CopyMessages(t)
  PROVE  LockInv'
<1> SUFFICES ASSUME kind = "real" PROVE LockInv'
  BY DEF LockInv, CopyMessages
<1>0. task \in [Threads -> Task]
  BY DEF TypeInv, TypeOK
<1>1. UNCHANGED <<kind, returned, drained, messages>> /\ lock = Free /\ lock' = t
  BY DEF CopyMessages
<1>2. Enters(t, {"clear"}) /\ task'[t].list = messages
  BY <1>0 DEF CopyMessages, Enters, Task
<1>3. \A u \in Threads : task'[u].phase \in Held <=> lock' = u
  BY <1>1, <1>2, ReplicaConstants DEF LockInv, Enters, Held
<1>4. \A u \in Threads : task'[u].phase = "clear" => task'[u].list = messages'
  BY <1>1, <1>2 DEF LockInv, Enters
<1>5. InFlight = <<>> /\ InFlight' = <<>>
  BY <1>1, <1>2 DEF InFlight, At, Enters
<1>6. QED BY <1>1, <1>3, <1>4, <1>5 DEF LockInv

LEMMA LockClearMessages ==
  ASSUME TypeInv, TypeInv', LockInv, NEW t \in Threads, ClearMessages(t)
  PROVE  LockInv'
<1> SUFFICES ASSUME kind = "real" PROVE LockInv'
  BY DEF LockInv, ClearMessages
<1>0. task \in [Threads -> Task] /\ messages \in Seq(Nat) /\ drained \in Seq(Nat)
  BY DEF TypeInv, TypeOK
<1>1. UNCHANGED <<kind, returned>> /\ task[t].phase = "clear" /\ lock' = Free /\ messages' = <<>>
  BY DEF ClearMessages, At
<1>2. lock = t /\ t # Free /\ task[t].list = messages
  BY <1>1, ReplicaConstants DEF LockInv, Held
<1>3. Enters(t, {"idle"})
  BY <1>0, EndsEnters DEF ClearMessages, Raises
<1>4. drained' = drained \o messages
  BY <1>2 DEF ClearMessages
<1>5. InFlight = <<>> /\ InFlight' = <<>>
  BY <1>1, <1>2 DEF InFlight, At
<1>6. returned' = drained' \o messages' \o InFlight'
  <2>1. drained \o messages \in Seq(Nat) /\ <<>> \in Seq(Nat)
    BY <1>0
  <2>2. returned' = drained \o messages
    BY <1>0, <1>1, <1>5, Listing DEF LockInv
  <2>3. (drained \o messages) \o <<>> \o <<>> = drained \o messages
    BY <2>1, Listing
  <2>4. QED BY <1>1, <1>4, <1>5, <2>2, <2>3
<1>7. \A u \in Threads : task'[u].phase \in Held <=> lock' = u
  BY <1>1, <1>2, <1>3, ReplicaConstants DEF LockInv, Enters, Held
<1>8. \A u \in Threads : task'[u].phase = "clear" => task'[u].list = messages'
  BY <1>2, <1>3 DEF LockInv, Enters, Held
<1>9. QED BY <1>6, <1>7, <1>8 DEF LockInv

\* An exception inside the lock is one before the message is listed.
LEMMA LockCallFails ==
  ASSUME TypeInv, TypeInv', LockInv, NEW t \in Threads, CallFails(t)
  PROVE  LockInv'
<1>0. task \in [Threads -> Task]
  BY DEF TypeInv, TypeOK
<1>1. UNCHANGED <<kind, messages, returned, drained>> /\ kind = "real"
  BY DEF CallFails
<1>2. Enters(t, {"idle"})
  BY <1>0, EndsEnters DEF CallFails, Raises
<1>3. CASE task[t].phase = "send"
  <2>1. lock = t /\ lock' = Free /\ t # Free
    BY <1>1, <1>3, ReplicaConstants DEF LockInv, Held, CallFails, At
  <2>2. InFlight = <<>> /\ InFlight' = <<>>
    BY <1>3, <2>1 DEF InFlight, At
  <2>3. \A u \in Threads : task'[u].phase \in Held <=> lock' = u
    BY <1>1, <1>2, <2>1, ReplicaConstants DEF LockInv, Enters, Held
  <2>4. \A u \in Threads : task'[u].phase = "clear" => task'[u].list = messages'
    BY <1>1, <1>2 DEF LockInv, Enters
  <2>5. QED BY <1>1, <2>2, <2>3, <2>4 DEF LockInv
<1>4. CASE task[t].phase # "send"
  <2>1. UNCHANGED lock /\ task[t].phase \in {"load", "save"}
    BY <1>4 DEF CallFails, At
  <2>2. QED BY <1>1, <1>2, <2>1, OutsideKeeps DEF Enters, Held, evidence
<1>5. QED BY <1>3, <1>4

LEMMA LockHolds == Spec => []LockInv
<1>1. Init => LockInv
  <2> SUFFICES ASSUME Init PROVE LockInv
    OBVIOUS
  <2>1. InFlight = <<>>
    BY DEF Init, InFlight
  <2>2. <<>> \o <<>> \o <<>> = <<>>
    OBVIOUS
  <2>3. \A t \in Threads : task[t].phase = "idle" /\ lock # t
    BY ReplicaConstants DEF Init, Waiting, Working
  <2>4. QED BY <2>1, <2>2, <2>3 DEF Init, LockInv, Held
<1>2. TypeInv /\ TypeInv' /\ LockInv /\ [Next]_vars => LockInv'
  <2> SUFFICES ASSUME TypeInv, TypeInv', LockInv, [Next]_vars PROVE LockInv'
    OBVIOUS
  <2>1. CASE UNCHANGED vars
    BY <2>1 DEF vars, evidence, LockInv, InFlight, At
  <2>2. CASE Next
    <3>1. PICK t \in Threads : Request(t) \/ ThreadStep(t) \/ Fault(t)
      BY <2>2 DEF Next
    <3>2. CASE SetStatus(t) \/ AppendHistory(t)
      <4>1. kind = "memory" /\ UNCHANGED kind
        BY <3>2 DEF TypeInv, TaskOK, SetStatus, AppendHistory, At
      <4>2. QED BY <4>1 DEF LockInv
    <3>3. CASE ThreadStep(t)
      BY <3>2, <3>3, LockUseCase, LockAcquire, LockSent, LockAppendMessage,
         LockCopyMessages, LockClearMessages DEF ThreadStep, BasicPublish
    <3>4. CASE Fault(t)
      BY <3>4, LockSent, LockCallFails, LockAppendMessage DEF Fault, SendIsLost
    <3>5. QED BY <3>1, <3>3, <3>4, LockRequest
  <2>3. QED BY <2>1, <2>2
<1>3. QED BY <1>1, <1>2, TypeInvHolds, PTL DEF Spec

\* The real publisher's list and its drains are the messages whose basic_publish returned,
\* in that order, for any number of threads, whatever fails inside the lock.
THEOREM EvidenceIsWhatWasSent == Spec => []EvidenceIsExact
<1>1. LockInv => EvidenceIsExact
  BY DEF LockInv, EvidenceIsExact
<1>2. QED BY <1>1, LockHolds, PTL

\* Who has the lock is between taking it and giving it back, so no other thread waits
\* for it in vain, for any number of threads and whatever fails.
THEOREM TheLockComesBack == Spec => []WaitersAreServed
<1>1. TypeInv /\ LockInv => WaitersAreServed
  <2> SUFFICES ASSUME TypeInv, LockInv, NEW t \in Threads, lock # Free,
                      At(t, "lock") \/ (At(t, "drain") /\ kind = "real")
               PROVE  lock # t /\ task[lock].phase \in {"send", "append", "clear"}
    BY DEF WaitersAreServed
  <2>1. kind = "real"
    BY DEF TypeInv, TaskOK, At
  <2>2. lock \in Threads /\ task[t].phase \notin Held
    BY DEF TypeInv, TypeOK, At, Held
  <2>3. QED BY <2>1, <2>2 DEF LockInv, Held
<1>2. QED BY <1>1, LockHolds, TypeInvHolds, PTL

-----------------------------------------------------------------------------
(* The real publisher is a log *)

Active(t) == task[t].phase # "idle"

\* The messages that have been sent, with or without success.
Used == taken \cup Entries(returned)

\* A message has the number of its request.  In real mode the requests that run have
\* numbers of their own, and none that has been sent but for the one being listed.
NumberInv ==
  /\ requests <= MaxRequests
  /\ kind = "real" =>
       /\ \A t \in Threads : Active(t) => task[t].nr \in 1..requests
       /\ \A t, u \in Threads : t # u /\ Active(t) /\ Active(u) => task[t].nr # task[u].nr
       /\ \A t \in Threads : Active(t) /\ ~At(t, "append") => task[t].nr \notin Used
       /\ Used \subseteq 1..requests

\* Thread t goes on with its request or ends it, and ends it once its message is listed.
Carries(t) ==
  /\ \A u \in Threads \ {t} : task'[u] = task[u]
  /\ \/ task'[t].phase = "idle"
     \/ task'[t].nr = task[t].nr /\ task[t].phase # "append"

LEMMA EndsCarries ==
  ASSUME task \in [Threads -> Task], NEW t \in Threads, NEW r, Ends(t, r) PROVE Carries(t)
BY EndsEnters DEF Enters, Carries

LEMMA GotoCarries ==
  ASSUME task \in [Threads -> Task], NEW t \in Threads, NEW p, Goto(t, p), task[t].phase # "append"
  PROVE  Carries(t)
<1>1. task[t] \in Task
  OBVIOUS
<1>2. QED BY <1>1 DEF Goto, Carries, Task

LEMMA CarryKeepsNumbers ==
  ASSUME NumberInv, NEW t \in Threads, Carries(t), Active(t),
         UNCHANGED <<kind, requests, taken, returned>>
  PROVE  NumberInv'
BY DEF NumberInv, Carries, Active, At, Used

\* A thread that sends its message is done with its number.
LEMMA SendKeepsNumbers ==
  ASSUME NumberInv, kind = "real", UNCHANGED <<kind, requests>>, NEW t \in Threads, Active(t),
         \A u \in Threads \ {t} : task'[u] = task[u],
         task'[t].phase = "idle" \/ (task'[t].phase = "append" /\ task'[t].nr = task[t].nr),
         Used' \subseteq Used \cup {task[t].nr}
  PROVE  NumberInv'
<1>1. task[t].nr \in 1..requests /\ \A u \in Threads \ {t} : Active(u) => task[u].nr # task[t].nr
  BY DEF NumberInv
<1>2. /\ \A u \in Threads : Active(u)' => task'[u].nr \in 1..requests'
      /\ \A u, v \in Threads : u # v /\ Active(u)' /\ Active(v)' => task'[u].nr # task'[v].nr
  BY <1>1 DEF NumberInv, Active
<1>3. ASSUME NEW u \in Threads, Active(u)', ~At(u, "append")' PROVE task'[u].nr \notin Used'
  <2>1. u # t /\ task'[u] = task[u]
    BY <1>3 DEF Active, At
  <2>2. QED BY <1>1, <1>3, <2>1 DEF NumberInv, Active, At
<1>4. Used' \subseteq 1..requests'
  BY <1>1 DEF NumberInv
<1>5. QED BY <1>2, <1>3, <1>4 DEF NumberInv

\* A new request takes the next number, or answers at once.
LEMMA RequestNumbers ==
  ASSUME TypeInv, NEW t \in Threads, Request(t)
  PROVE  /\ requests < MaxRequests /\ requests' = requests + 1 /\ UNCHANGED <<kind, taken, returned>>
         /\ \A u \in Threads \ {t} : task'[u] = task[u]
         /\ task'[t].phase = "idle" \/ task'[t].nr = requests'
<1>0. task \in [Threads -> Task]
  BY DEF TypeInv, TypeOK
<1>1. PICK who \in Principals :
        \/ \E c \in Customers : OpenServiceOrder(t, who, c)
        \/ \E o \in Ids : GetServiceOrder(t, who, o)
        \/ \E type \in AdminTypes, path \in Orders, named \in Ids \cup {"absent"}, correlation \in Ids :
              PostEvent(t, who, type, path, named, correlation)
        \/ DrainEvents(t, who)
  BY DEF Request
<1>2. Receive(t)
  BY <1>1 DEF OpenServiceOrder, GetServiceOrder, PostEvent, DrainEvents
<1>3. (\E r : Ends(t, r)) \/ \E k : Starts(t, k) /\ k.nr = requests'
  <2>1. ASSUME NEW c \in Customers, OpenServiceOrder(t, who, c)
        PROVE  Raises(t) \/ \E k : Starts(t, k) /\ k.nr = requests'
    <3>1. Raises(t) \/ \E o \in Orders :
            Starts(t, [Working("save", requests', who, NoEvent, o) EXCEPT
                         !.copy = RequestQuote(Opened).order, !.next = RequestQuote(Opened).event])
      BY <2>1 DEF OpenServiceOrder
    <3>2. \A o : [Working("save", requests', who, NoEvent, o) EXCEPT
                    !.copy = RequestQuote(Opened).order, !.next = RequestQuote(Opened).event].nr
                 = requests'
      BY DEF Working
    <3>3. QED BY <3>1, <3>2
  <2>2. ASSUME NEW o \in Ids, GetServiceOrder(t, who, o) PROVE \E r : Ends(t, r)
    <3>1. Raises(t) \/ Shows(t, who, o, store[o])
      BY <2>2, Zenon DEF GetServiceOrder
    <3>2. QED BY <3>1 DEF Raises, Shows
  <2>3. ASSUME NEW type \in AdminTypes, NEW path \in Orders, NEW named \in Ids \cup {"absent"},
               NEW correlation \in Ids, PostEvent(t, who, type, path, named, correlation)
        PROVE  Raises(t) \/ \E k : Starts(t, k) /\ k.nr = requests'
    <3>1. \A o : [Working("load", requests', who, type, o) EXCEPT !.path = path].nr = requests'
      BY DEF Working
    <3>2. QED BY <2>3, <3>1 DEF PostEvent
  <2>4. ASSUME DrainEvents(t, who) PROVE Raises(t) \/ \E k : Starts(t, k) /\ k.nr = requests'
    <3>1. Working("drain", requests', who, NoEvent, Blank).nr = requests'
      BY DEF Working
    <3>2. QED BY <2>4, <3>1 DEF DrainEvents
  <2>5. QED BY <1>1, <2>1, <2>2, <2>3, <2>4 DEF Raises
<1>4. CASE \E r : Ends(t, r)
  BY <1>0, <1>2, <1>4, EndsEnters DEF Enters, Receive, evidence
<1>5. CASE \E k : Starts(t, k) /\ k.nr = requests'
  BY <1>0, <1>2, <1>5 DEF Starts, Receive, evidence
<1>6. QED BY <1>3, <1>4, <1>5

LEMMA NumberRequest ==
  ASSUME TypeInv, NumberInv, NEW t \in Threads, Request(t) PROVE NumberInv'
<1>1. requests \in Nat /\ requests < MaxRequests /\ requests' = requests + 1 /\ MaxRequests \in Nat
  BY RequestNumbers, ReplicaConstants DEF TypeInv, TypeOK
<1>2. UNCHANGED <<kind, Used>> /\ \A u \in Threads \ {t} : task'[u] = task[u]
  BY RequestNumbers DEF Used
<1>3. task'[t].phase = "idle" \/ task'[t].nr = requests + 1
  BY <1>1, RequestNumbers
<1>4. ASSUME kind = "real"
      PROVE  /\ \A u \in Threads : Active(u)' => task'[u].nr \in 1..requests'
             /\ \A u, v \in Threads : u # v /\ Active(u)' /\ Active(v)' => task'[u].nr # task'[v].nr
             /\ \A u \in Threads : Active(u)' /\ ~At(u, "append")' => task'[u].nr \notin Used
             /\ Used \subseteq 1..requests'
  <2>1. \A u \in Threads \ {t} : Active(u)' => Active(u) /\ task'[u].nr = task[u].nr /\ task[u].nr \in 1..requests
    BY <1>2, <1>4 DEF NumberInv, Active
  <2>2. Used \subseteq 1..requests
    BY <1>4 DEF NumberInv
  <2>3. \A u \in Threads : Active(u)' => task'[u].nr \in 1..requests'
    BY <1>1, <1>3, <2>1 DEF Active
  <2>4. \A u, v \in Threads : u # v /\ Active(u)' /\ Active(v)' => task'[u].nr # task'[v].nr
    <3> SUFFICES ASSUME NEW u \in Threads, NEW v \in Threads, u # v, Active(u)', Active(v)'
                 PROVE  task'[u].nr # task'[v].nr
      OBVIOUS
    <3>1. CASE u = t
      BY <1>1, <1>3, <2>1, <3>1 DEF Active
    <3>2. CASE v = t
      BY <1>1, <1>3, <2>1, <3>2 DEF Active
    <3>3. CASE u # t /\ v # t
      BY <1>4, <2>1, <3>3 DEF NumberInv
    <3>4. QED BY <3>1, <3>2, <3>3
  <2>5. ASSUME NEW u \in Threads, Active(u)', ~At(u, "append")' PROVE task'[u].nr \notin Used
    <3>1. CASE u = t
      BY <1>1, <1>3, <2>2, <2>5, <3>1 DEF Active
    <3>2. CASE u # t
      BY <1>2, <1>4, <2>1, <2>5, <3>2 DEF NumberInv, At
    <3>3. QED BY <3>1, <3>2
  <2>6. QED BY <1>1, <2>2, <2>3, <2>4, <2>5
<1>5. QED BY <1>1, <1>2, <1>4 DEF NumberInv

LEMMA NumberSent ==
  ASSUME TypeInv, NumberInv, NEW t \in Threads, BasicPublish(t) \/ SendIsLost(t), kind = "real"
  PROVE  NumberInv'
<1>0. task \in [Threads -> Task] /\ returned \in Seq(Nat)
  BY DEF TypeInv, TypeOK
<1>1. Sent(t) /\ UNCHANGED <<kind, requests>>
  BY DEF BasicPublish, SendIsLost, Sent
<1>2. PICK n \in Nat : n = task[t].nr
  BY <1>0 DEF Task
<1>3. Used' \subseteq Used \cup {n}
  <2>1. Entries(returned') = Entries(returned) \cup {n}
    BY <1>0, <1>1, <1>2, EntriesMore DEF Sent
  <2>2. taken' \subseteq taken \cup {n}
    BY <1>2 DEF BasicPublish, SendIsLost
  <2>3. QED BY <2>1, <2>2 DEF Used
<1>4. /\ \A u \in Threads \ {t} : task'[u] = task[u]
      /\ task'[t].phase = "append" /\ task'[t].nr = n
  BY <1>0, <1>1, <1>2 DEF Sent, Goto, Task
<1>5. Active(t)
  BY <1>1 DEF Sent, At, Active
<1>6. QED BY <1>1, <1>2, <1>3, <1>4, <1>5, SendKeepsNumbers

LEMMA NumberCallFails ==
  ASSUME TypeInv, NumberInv, NEW t \in Threads, CallFails(t), kind = "real"
  PROVE  NumberInv'
<1>1. \A u \in Threads \ {t} : task'[u] = task[u]
  BY EndsEnters DEF CallFails, Raises, Enters, TypeInv, TypeOK
<1>2. task'[t].phase = "idle"
  BY EndsEnters DEF CallFails, Raises, Enters, TypeInv, TypeOK
<1>3. Used' \subseteq Used \cup {task[t].nr} /\ UNCHANGED <<kind, requests>>
  BY DEF CallFails, Used
<1>4. QED BY <1>1, <1>2, <1>3, SendKeepsNumbers DEF CallFails, Active

LEMMA NumberThread ==
  ASSUME TypeInv, NumberInv, NEW t \in Threads, kind = "real",
         ThreadStep(t) \/ Fault(t)
  PROVE  NumberInv'
<1>0. task \in [Threads -> Task] /\ task[t] \in Task
  BY DEF TypeInv, TypeOK
<1>1. ~Check(t) /\ ~SetStatus(t) /\ ~AppendHistory(t)
  BY DEF TypeInv, TaskOK, Check, SetStatus, AppendHistory, At
<1>2. CASE Load(t)
  <2>1. Raises(t) \/ \E c, e : Called(t, "save", c, e)
    BY <1>2, Zenon DEF Load, Called
  <2>2. ASSUME NEW c, NEW e, Called(t, "save", c, e) PROVE Carries(t)
    BY <1>0, <1>2, <2>2 DEF Called, Carries, Task, Load, At
  <2>3. Carries(t)
    BY <1>0, <2>1, <2>2, EndsCarries DEF Raises
  <2>4. QED BY <1>2, <2>3, CarryKeepsNumbers DEF Load, Active, At, evidence, bounds
<1>3. CASE Save(t)
  <2>1. Goto(t, "lock") \/ \E r : Ends(t, r)
    BY <1>3 DEF Save, Published, Answers, Shows
  <2>2. QED BY <1>0, <1>3, <2>1, EndsCarries, GotoCarries, CarryKeepsNumbers
            DEF Save, Active, At, evidence, bounds
<1>4. CASE Acquire(t)
  BY <1>0, <1>4, GotoCarries, CarryKeepsNumbers DEF Acquire, Active, At, bounds
<1>5. CASE AppendMessage(t)
  <2>1. Carries(t)
    BY <1>0, <1>5, EndsCarries DEF AppendMessage, Answers, Shows
  <2>2. QED BY <1>5, <2>1, CarryKeepsNumbers DEF AppendMessage, Active, At, bounds
<1>6. CASE CopyMessages(t)
  <2>1. Carries(t)
    BY <1>0, <1>6 DEF CopyMessages, Carries, Task, At
  <2>2. QED BY <1>6, <2>1, CarryKeepsNumbers DEF CopyMessages, Active, At, bounds
<1>7. CASE ClearMessages(t) \/ CloseFails(t)
  <2>1. Carries(t)
    BY <1>0, <1>7, EndsCarries DEF ClearMessages, CloseFails, Raises
  <2>2. QED BY <1>7, <2>1, CarryKeepsNumbers DEF ClearMessages, CloseFails, Active, At, bounds
<1>8. QED BY <1>1, <1>2, <1>3, <1>4, <1>5, <1>6, <1>7, NumberSent, NumberCallFails DEF ThreadStep, Fault

LEMMA NumbersHold == Spec => []NumberInv
<1>1. Init => NumberInv
  BY ReplicaConstants DEF Init, NumberInv, Waiting, Working, Active, Used, Entries
<1>2. TypeInv /\ NumberInv /\ [Next]_vars => NumberInv'
  <2> SUFFICES ASSUME TypeInv, NumberInv, [Next]_vars PROVE NumberInv'
    OBVIOUS
  <2>1. CASE UNCHANGED vars
    BY <2>1 DEF vars, evidence, bounds, NumberInv, Active, At, Used
  <2>2. CASE Next
    <3>1. PICK t \in Threads : Request(t) \/ ThreadStep(t) \/ Fault(t)
      BY <2>2 DEF Next
    <3>2. CASE Request(t)
      BY <3>2, NumberRequest
    <3>3. CASE kind = "real" /\ (ThreadStep(t) \/ Fault(t))
      BY <3>3, NumberThread
    <3>4. CASE kind # "real" /\ (ThreadStep(t) \/ Fault(t))
      BY <3>4 DEF NumberInv, ThreadStep, Load, Check, SetStatus, AppendHistory, Save, Acquire, BasicPublish,
         AppendMessage, CopyMessages, ClearMessages, Fault, SendIsLost, CallFails, CloseFails, Sent, bounds
    <3>5. QED BY <3>1, <3>2, <3>3, <3>4
  <2>3. QED BY <2>1, <2>2
<1>3. QED BY <1>1, <1>2, TypeInvHolds, PTL DEF Spec

\* x is the log that m and the message in flight f make; d is what was handed over.
Follows(x, d, m, f) == x = m \o f /\ d \o x = d \o m \o f

LEMMA LogFollows ==
  ASSUME NEW S, NEW d \in Seq(S), NEW m \in Seq(S), NEW f \in Seq(S)
  PROVE  \E x \in Seq(S) : Follows(x, d, m, f)
<1>1. m \o f \in Seq(S)
  OBVIOUS
<1>2. (d \o m) \o f = d \o (m \o f)
  BY ConcatAssociative
<1>3. QED BY <1>1, <1>2, Zenon DEF Follows

LEMMA SameRest ==
  ASSUME NEW S, NEW d \in Seq(S), NEW x \in Seq(S), NEW y \in Seq(S), d \o x = d \o y
  PROVE  x = y
BY ConcatSimplifications

LEMMA InFlightType ==
  ASSUME TypeInv PROVE InFlight \in Seq(Nat)
<1>0. task \in [Threads -> Task] /\ <<>> \in Seq(Nat)
  BY DEF TypeInv, TypeOK
<1>1. CASE lock # Free /\ At(lock, "append")
  <2>1. task[lock].nr \in Nat
    BY <1>0, <1>1 DEF TypeInv, TypeOK, Task
  <2>2. QED BY <1>1, <2>1 DEF InFlight
<1>2. CASE ~(lock # Free /\ At(lock, "append"))
  BY <1>0, <1>2 DEF InFlight
<1>3. QED BY <1>1, <1>2

LEMMA InFlightTypeNext == TypeInv' => (InFlight \in Seq(Nat))'
<1>1. TypeInv => InFlight \in Seq(Nat)
  BY InFlightType
<1>2. QED BY <1>1, PTL

\* The evidence changes only where a message is sent or a drain empties the list: what was
\* sent and not handed over is determined by the lock's invariant.
LEMMA EvidenceStays ==
  ASSUME TypeInv, TypeInv', LockInv, LockInv', kind = "real", UNCHANGED <<kind, returned, drained>>
  PROVE  UNCHANGED <<Log, Handed>>
<1>0. /\ task \in [Threads -> Task] /\ task' \in [Threads -> Task]
      /\ drained \in Seq(Nat) /\ messages \in Seq(Nat) /\ messages' \in Seq(Nat)
  BY DEF TypeInv, TypeOK
<1>1. InFlight \in Seq(Nat)
  BY InFlightType
<1>2. InFlight' \in Seq(Nat)
  BY InFlightTypeNext
<1>3. drained \o messages \o InFlight = drained \o messages' \o InFlight'
  BY DEF LockInv
<1>4. PICK x \in Seq(Nat) : Follows(x, drained, messages, InFlight)
  BY <1>0, <1>1, LogFollows, Zenon
<1>5. PICK y \in Seq(Nat) : Follows(y, drained, messages', InFlight')
  BY <1>0, <1>2, LogFollows, Zenon
<1>6. drained \o x = drained \o y
  BY <1>3, <1>4, <1>5, Zenon DEF Follows
<1>7. x = y
  BY <1>0, <1>6, SameRest, Zenon
<1>8. messages \o InFlight = messages' \o InFlight'
  BY <1>4, <1>5, <1>7, Zenon DEF Follows
<1>9. QED BY <1>8 DEF Log, Handed

\* A message about to be sent is new to the log and to RabbitMQ.
LEMMA MessageIsNew ==
  ASSUME TypeInv, LockInv, NumberInv, NEW t \in Threads, At(t, "send"), kind = "real"
  PROVE  /\ InFlight = <<>> /\ Log = messages
         /\ task[t].nr \in 1..MaxRequests /\ Evidence!New(task[t].nr)
<1>0. task \in [Threads -> Task] /\ messages \in Seq(Nat) /\ drained \in Seq(Nat)
  BY DEF TypeInv, TypeOK
<1>1. InFlight = <<>>
  BY ReplicaConstants DEF LockInv, Held, InFlight, At
<1>2. Log = messages /\ Handed = drained
  <2>1. messages \o <<>> = messages
    BY <1>0, ConcatEmptySeq
  <2>2. QED BY <1>1, <2>1 DEF Log, Handed
<1>3. PICK n \in Nat : n = task[t].nr
  BY <1>0 DEF Task
<1>4. returned = drained \o messages
  BY <1>0, <1>1, Listing DEF LockInv
<1>5. n \notin Used /\ n \in 1..MaxRequests
  BY <1>3, ReplicaConstants DEF NumberInv, Active, At, TypeInv, TypeOK
<1>6. n \notin taken /\ n \notin Entries(drained) /\ n \notin Entries(messages)
  BY <1>0, <1>4, <1>5, EntriesMore DEF Used
<1>7. Evidence!New(n)
  BY <1>2, <1>6 DEF Evidence!New, Entries
<1>8. QED BY <1>1, <1>2, <1>3, <1>5, <1>7

\* basic_publish returns: the log has the message, and RabbitMQ too unless it was lost.
LEMMA SendIsPublish ==
  ASSUME TypeInv, LockInv, NumberInv, NEW t \in Threads, BasicPublish(t) \/ SendIsLost(t),
         kind = "real"
  PROVE  Evidence!Next
<1>0. task \in [Threads -> Task] /\ messages \in Seq(Nat)
  BY DEF TypeInv, TypeOK
<1>1. Sent(t) /\ UNCHANGED <<kind, lock, messages, drained>> /\ At(t, "send")
  BY DEF BasicPublish, SendIsLost, Sent
<1>2. lock = t /\ t # Free
  BY <1>1, ReplicaConstants DEF LockInv, Held, At
<1>3. PICK n \in Nat : n = task[t].nr
  BY <1>0 DEF Task
<1>4. InFlight' = <<n>>
  <2>1. task'[t].phase = "append" /\ task'[t].nr = n
    BY <1>0, <1>1, <1>3 DEF Sent, Goto, Task
  <2>2. QED BY <1>1, <1>2, <2>1 DEF InFlight, At
<1>5. Log' = Append(Log, n) /\ UNCHANGED Handed
  <2>1. messages \o <<n>> = Append(messages, n)
    BY <1>0, <1>3, AppendIsConcat
  <2>2. QED BY <1>1, <1>4, <2>1, MessageIsNew DEF Log, Handed
<1>6. n \in 1..MaxRequests /\ Evidence!New(n)
  BY <1>1, <1>3, MessageIsNew
<1>7. CASE BasicPublish(t)
  <2>1. taken' = taken \cup {n} /\ UNCHANGED faults
    BY <1>3, <1>7 DEF BasicPublish
  <2>2. Evidence!Publish(n)
    BY <1>5, <1>6, <2>1 DEF Evidence!Publish
  <2>3. QED BY <1>6, <2>2 DEF Evidence!Next
<1>8. CASE SendIsLost(t)
  <2>1. UNCHANGED taken /\ faults' = faults + 1
    BY <1>8 DEF SendIsLost
  <2>2. Evidence!FailToPublish(n)
    BY <1>5, <1>6, <2>1 DEF Evidence!FailToPublish
  <2>3. QED BY <1>6, <2>2 DEF Evidence!Next
<1>9. QED BY <1>7, <1>8

\* An exception leaves the list; RabbitMQ may have the message.
LEMMA FailureIsFailure ==
  ASSUME TypeInv, TypeInv', LockInv, LockInv', NumberInv, NEW t \in Threads,
         CallFails(t) \/ CloseFails(t), kind = "real"
  PROVE  Evidence!Next
<1>1. UNCHANGED <<kind, returned, drained>> /\ faults' = faults + 1
  BY DEF CallFails, CloseFails
<1>2. UNCHANGED <<Log, Handed>>
  BY <1>1, EvidenceStays
<1>3. CASE UNCHANGED taken
  BY <1>1, <1>2, <1>3 DEF Evidence!Next, Evidence!Fail
<1>4. CASE ~UNCHANGED taken
  <2>1. At(t, "send") /\ taken' = taken \cup {task[t].nr}
    BY <1>4 DEF CallFails, CloseFails
  <2>2. task[t].nr \in 1..MaxRequests /\ Evidence!New(task[t].nr)
    BY <2>1, MessageIsNew
  <2>3. Evidence!FailToPublish(task[t].nr)
    BY <1>1, <1>2, <2>1, <2>2 DEF Evidence!FailToPublish
  <2>4. QED BY <2>2, <2>3 DEF Evidence!Next
<1>5. QED BY <1>3, <1>4

\* A drain answers all that was published since the last.
LEMMA ClearIsDrain ==
  ASSUME TypeInv, LockInv, NEW t \in Threads, ClearMessages(t), kind = "real"
  PROVE  Evidence!Next \/ UNCHANGED Evidence!vars
<1>0. messages \in Seq(Nat) /\ drained \in Seq(Nat)
  BY DEF TypeInv, TypeOK
<1>1. UNCHANGED <<kind, taken, faults>> /\ task[t].phase = "clear" /\ messages' = <<>> /\ lock' = Free
  BY DEF ClearMessages, At, bounds
<1>2. lock = t /\ t # Free /\ task[t].list = messages
  BY <1>1, ReplicaConstants DEF LockInv, Held
<1>3. drained' = drained \o messages
  BY <1>2 DEF ClearMessages
<1>4. InFlight = <<>> /\ InFlight' = <<>>
  BY <1>1, <1>2 DEF InFlight, At
<1>5. Log = messages /\ Handed = drained /\ Log' = <<>> /\ Handed' = drained \o messages
  <2>1. messages \o <<>> = messages /\ <<>> \o <<>> = <<>>
    BY <1>0, ConcatEmptySeq
  <2>2. QED BY <1>1, <1>3, <1>4, <2>1 DEF Log, Handed
<1>6. CASE messages = <<>>
  <2>1. drained \o messages = drained
    BY <1>0, <1>6, ConcatEmptySeq
  <2>2. QED BY <1>1, <1>5, <1>6, <2>1 DEF Evidence!vars
<1>7. CASE messages # <<>>
  BY <1>1, <1>5, <1>7 DEF Evidence!Next, Evidence!Drain
<1>8. QED BY <1>6, <1>7

\* In real mode the publisher is a log: a basic_publish that returns appends its message, a
\* drain hands the whole of it over, and nothing else that a thread does, alone or between
\* the steps of others, adds to the evidence or takes from it.  RabbitMQ's messages part
\* from the log's only in a step that fails, by the message of that step.
THEOREM PublisherImplementsLog == Spec => ImplementsEvidenceLog
<1>1. Init => Evidence!Init
  <2>1. Init => InFlight = <<>> /\ messages = <<>> /\ drained = <<>> /\ taken = {} /\ faults = 0
    BY DEF Init, InFlight
  <2>2. <<>> \o <<>> = <<>>
    OBVIOUS
  <2>3. QED BY <2>1, <2>2 DEF Evidence!Init, Log, Handed
<1>2. TypeInv /\ TypeInv' /\ LockInv /\ LockInv' /\ NumberInv /\ [Next]_vars => [Evidence!Next]_(Evidence!vars)
  <2> SUFFICES ASSUME TypeInv, TypeInv', LockInv, LockInv', NumberInv, [Next]_vars
               PROVE  Evidence!Next \/ UNCHANGED Evidence!vars
    OBVIOUS
  <2>1. CASE UNCHANGED vars
    BY <2>1 DEF vars, evidence, bounds, Log, Handed, InFlight, At, Evidence!vars
  <2>2. CASE Next
    <3>1. PICK t \in Threads : Request(t) \/ ThreadStep(t) \/ Fault(t)
      BY <2>2 DEF Next
    <3>2. UNCHANGED kind
      BY <3>1 DEF Request, OpenServiceOrder, GetServiceOrder, PostEvent, DrainEvents, Receive,
         ThreadStep, Load, Check, SetStatus, AppendHistory, Save, Acquire, BasicPublish, AppendMessage,
         CopyMessages, ClearMessages, Fault, SendIsLost, CallFails, CloseFails, Sent
    <3>3. CASE BasicPublish(t) \/ SendIsLost(t)
      <4>1. kind = "real"
        BY <3>3 DEF TypeInv, TaskOK, BasicPublish, SendIsLost, Sent, At
      <4>2. QED BY <3>3, <4>1, SendIsPublish
    <3>4. CASE CallFails(t) \/ CloseFails(t)
      BY <3>4, FailureIsFailure DEF CallFails, CloseFails
    <3>5. CASE kind = "real" /\ ClearMessages(t)
      BY <3>5, ClearIsDrain
    <3>6. CASE ~Fault(t) /\ ~BasicPublish(t) /\ (kind # "real" \/ ~ClearMessages(t))
      <4>1. UNCHANGED <<taken, faults>>
        BY <3>1, <3>6 DEF evidence, bounds, Request, OpenServiceOrder, GetServiceOrder, PostEvent, DrainEvents,
           Receive, ThreadStep, Load, Check, SetStatus, AppendHistory, Save, Acquire, AppendMessage,
           CopyMessages, ClearMessages
      <4>2. CASE kind # "real"
        BY <3>2, <4>1, <4>2 DEF Log, Handed, Evidence!vars
      <4>3. CASE kind = "real"
        <5>1. UNCHANGED <<returned, drained>>
          BY <3>1, <3>6, <4>3 DEF evidence, Request, OpenServiceOrder, GetServiceOrder, PostEvent, DrainEvents,
             Receive, ThreadStep, Load, Check, SetStatus, AppendHistory, Save, Acquire, AppendMessage, CopyMessages
        <5>2. UNCHANGED <<Log, Handed>>
          BY <3>2, <4>3, <5>1, EvidenceStays
        <5>3. QED BY <4>1, <5>2 DEF Evidence!vars
      <4>4. QED BY <4>2, <4>3
    <3>7. QED BY <3>3, <3>4, <3>5, <3>6 DEF Fault
  <2>3. QED BY <2>1, <2>2
<1>3. QED BY <1>1, <1>2, TypeInvHolds, LockHolds, NumbersHold, PTL DEF Spec, ImplementsEvidenceLog, Evidence!Spec

-----------------------------------------------------------------------------
(* What the evidence is worth *)

\* What RabbitMQ has and basic_publish did not return for, and the reverse.
Apart(a, b) == (a \ b) \cup (b \ a)

LEMMA ApartGrows ==
  ASSUME NEW a, NEW b, NEW n, NEW x \in {a, a \cup {n}}, NEW y \in {b, b \cup {n}},
         IsFiniteSet(Apart(a, b))
  PROVE  /\ IsFiniteSet(Apart(x, y))
         /\ Cardinality(Apart(x, y)) <= Cardinality(Apart(a, b)) + 1
         /\ x = a \cup {n} /\ y = b \cup {n} => Cardinality(Apart(x, y)) <= Cardinality(Apart(a, b))
<1>1. Apart(x, y) \subseteq Apart(a, b) \cup {n}
  BY DEF Apart
<1>2. /\ IsFiniteSet(Apart(a, b) \cup {n})
      /\ Cardinality(Apart(a, b) \cup {n}) <= Cardinality(Apart(a, b)) + 1
  <2>1. PICK p : p = Apart(a, b) /\ IsFiniteSet(p)
    OBVIOUS
  <2>2. Cardinality(p) \in Nat
    BY <2>1, FS_CardinalityType
  <2>3. IsFiniteSet(p \cup {n}) /\ Cardinality(p \cup {n}) = IF n \in p THEN Cardinality(p) ELSE Cardinality(p) + 1
    BY <2>1, FS_AddElement
  <2>4. QED BY <2>1, <2>2, <2>3
<1>3. /\ IsFiniteSet(Apart(x, y))
      /\ Cardinality(Apart(x, y)) <= Cardinality(Apart(a, b) \cup {n})
  BY <1>1, <1>2, FS_Subset
<1>4. x = a \cup {n} /\ y = b \cup {n} => Cardinality(Apart(x, y)) <= Cardinality(Apart(a, b))
  <2>1. x = a \cup {n} /\ y = b \cup {n} => Apart(x, y) \subseteq Apart(a, b)
    BY DEF Apart
  <2>2. QED BY <2>1, FS_Subset
<1>5. Cardinality(Apart(x, y)) \in Nat /\ Cardinality(Apart(a, b)) \in Nat
      /\ Cardinality(Apart(a, b) \cup {n}) \in Nat
  BY <1>2, <1>3, FS_CardinalityType
<1>6. QED BY <1>2, <1>3, <1>4, <1>5

ErrorInv ==
  kind = "real" => /\ IsFiniteSet(Apart(taken, Entries(returned)))
                   /\ Cardinality(Apart(taken, Entries(returned))) <= faults

\* One message is sent, or none: both have it, or a failure parts them.
LEMMA ErrorStep ==
  ASSUME TypeInv, ErrorInv, kind = "real", NEW n \in Nat,
         taken' \in {taken, taken \cup {n}}, returned' \in {returned, Append(returned, n)},
         UNCHANGED kind,
         \/ faults' = faults + 1
         \/ UNCHANGED faults /\ taken' = taken \cup {n} /\ returned' = Append(returned, n)
  PROVE  ErrorInv'
<1>1. returned \in Seq(Nat) /\ faults \in Nat
  BY DEF TypeInv, TypeOK
<1>2. Entries(Append(returned, n)) = Entries(returned) \cup {n}
  BY <1>1, EntriesMore
<1>3. PICK a, b, x, y : a = taken /\ b = Entries(returned) /\ x = taken' /\ y = Entries(returned')
  OBVIOUS
<1>4. x \in {a, a \cup {n}} /\ y \in {b, b \cup {n}} /\ IsFiniteSet(Apart(a, b))
  BY <1>2, <1>3 DEF ErrorInv
<1>5. Cardinality(Apart(a, b)) \in Nat /\ Cardinality(Apart(a, b)) <= faults
  BY <1>3, <1>4, FS_CardinalityType DEF ErrorInv
<1>6. IsFiniteSet(Apart(x, y)) /\ Cardinality(Apart(x, y)) <= faults'
  <2>1. IsFiniteSet(Apart(x, y)) /\ Cardinality(Apart(x, y)) \in Nat
    BY <1>4, ApartGrows, FS_CardinalityType
  <2>2. CASE faults' = faults + 1
    <3>1. Cardinality(Apart(x, y)) <= Cardinality(Apart(a, b)) + 1
      BY <1>4, ApartGrows
    <3>2. QED BY <1>1, <1>5, <2>1, <2>2, <3>1
  <2>3. CASE UNCHANGED faults /\ taken' = taken \cup {n} /\ returned' = Append(returned, n)
    <3>1. x = a \cup {n} /\ y = b \cup {n}
      BY <1>2, <1>3, <2>3
    <3>2. Cardinality(Apart(x, y)) <= Cardinality(Apart(a, b))
      BY <1>4, <3>1, ApartGrows
    <3>3. QED BY <1>1, <1>5, <2>1, <2>3, <3>2
  <2>4. QED BY <2>1, <2>2, <2>3
<1>7. QED BY <1>3, <1>6 DEF ErrorInv

\* The evidence of the real publisher and what RabbitMQ has differ by at most one message
\* for each call or connection that failed, for any number of threads and failures.
THEOREM FaultsAloneErr == Spec => []EvidenceErrsByFaults
<1>1. Init => ErrorInv
  <2> SUFFICES ASSUME Init PROVE ErrorInv
    OBVIOUS
  <2>1. taken = {} /\ Entries(returned) = {} /\ faults = 0
    BY DEF Init, Entries
  <2>2. Apart(taken, Entries(returned)) = {}
    BY <2>1 DEF Apart
  <2>3. QED BY <2>1, <2>2, FS_EmptySet DEF ErrorInv
<1>2. TypeInv /\ ErrorInv /\ [Next]_vars => ErrorInv'
  <2> SUFFICES ASSUME TypeInv, ErrorInv, [Next]_vars PROVE ErrorInv'
    OBVIOUS
  <2>1. CASE UNCHANGED vars
    BY <2>1 DEF vars, evidence, bounds, ErrorInv
  <2>2. CASE Next
    <3>1. PICK t \in Threads : Request(t) \/ ThreadStep(t) \/ Fault(t)
      BY <2>2 DEF Next
    <3>2. UNCHANGED kind
      BY <3>1 DEF Request, OpenServiceOrder, GetServiceOrder, PostEvent, DrainEvents, Receive,
         ThreadStep, Load, Check, SetStatus, AppendHistory, Save, Acquire, BasicPublish, AppendMessage,
         CopyMessages, ClearMessages, Fault, SendIsLost, CallFails, CloseFails, Sent
    <3>3. CASE kind # "real"
      BY <3>2, <3>3 DEF ErrorInv
    <3>4. CASE kind = "real" /\ (BasicPublish(t) \/ Fault(t))
      <4>1. PICK n \in Nat : n = task[t].nr
        BY DEF TypeInv, TypeOK, Task
      <4>2. taken' \in {taken, taken \cup {n}} /\ returned' \in {returned, Append(returned, n)}
        BY <3>4, <4>1 DEF BasicPublish, Fault, SendIsLost, CallFails, CloseFails, Sent
      <4>3. \/ faults' = faults + 1
            \/ UNCHANGED faults /\ taken' = taken \cup {n} /\ returned' = Append(returned, n)
        BY <3>4, <4>1 DEF BasicPublish, Fault, SendIsLost, CallFails, CloseFails, Sent
      <4>4. QED BY <3>2, <3>4, <4>1, <4>2, <4>3, ErrorStep
    <3>5. CASE kind = "real" /\ ~BasicPublish(t) /\ ~Fault(t)
      <4>1. UNCHANGED <<taken, returned, faults>>
        BY <3>1, <3>5 DEF evidence, bounds, Request, OpenServiceOrder, GetServiceOrder, PostEvent,
           DrainEvents, Receive, ThreadStep, Load, Check, SetStatus, AppendHistory, Save, Acquire,
           AppendMessage, CopyMessages, ClearMessages
      <4>2. QED BY <3>2, <4>1 DEF ErrorInv
    <3>6. QED BY <3>3, <3>4, <3>5
  <2>3. QED BY <2>1, <2>2
<1>3. TypeInv /\ LockInv /\ ErrorInv => EvidenceErrsByFaults
  <2> SUFFICES ASSUME TypeInv, LockInv, ErrorInv, kind = "real"
               PROVE  Cardinality(Errors) <= faults
    BY DEF EvidenceErrsByFaults
  <2>1. InFlight \in Seq(Nat) /\ drained \in Seq(Nat) /\ messages \in Seq(Nat)
    BY InFlightType DEF TypeInv, TypeOK
  <2>2. Entries(returned) = Entries(drained) \cup Entries(messages) \cup Entries(InFlight)
    <3>1. drained \o messages \in Seq(Nat)
      BY <2>1
    <3>2. Entries((drained \o messages) \o InFlight) = Entries(drained \o messages) \cup Entries(InFlight)
      BY <2>1, <3>1, EntriesMore
    <3>3. Entries(drained \o messages) = Entries(drained) \cup Entries(messages)
      BY <2>1, EntriesMore
    <3>4. returned = drained \o messages \o InFlight
      BY DEF LockInv
    <3>5. QED BY <3>2, <3>3, <3>4
  <2>3. Listed \cup Entries(InFlight) = Entries(returned)
    BY <2>2 DEF Listed
  <2>4. Errors = Apart(taken, Entries(returned))
    BY <2>3 DEF Errors, Apart
  <2>5. QED BY <2>4 DEF ErrorInv
<1>4. QED BY <1>1, <1>2, <1>3, TypeInvHolds, LockHolds, PTL DEF Spec

-----------------------------------------------------------------------------
(* What clients are shown *)

RowsKnown == \A o \in Orders : store[o] # NoOrder => store[o] \in stored[o]

\* A customer's request is about an order of that customer; what is announced in real
\* mode is in the table.
TaskMine(k) ==
  /\ k.who \in Customers => k.on \in Orders /\ owner[k.on] = k.who
  /\ kind = "real" /\ k.phase \in {"lock", "send", "append"} => k.copy \in stored[k.on]

AnswerMine(a) ==
  a.on # Blank =>
    /\ a.on \in Orders /\ store[a.on] # NoOrder
    /\ a.who \in Customers => owner[a.on] = a.who
    /\ kind = "real" => a.shown \in stored[a.on]

ClientInv ==
  /\ RowsKnown
  /\ \A t \in Threads : TaskMine(task[t]) /\ AnswerMine(answer[t])

\* Orders stay, and so does the customer of one that a client or a thread knows.
RowsGrow ==
  \A o \in Orders :
    /\ store[o] # NoOrder => store'[o] # NoOrder
    /\ stored[o] \subseteq stored'[o]
    /\ store[o] # NoOrder \/ (\E t \in Threads : task[t].on = o) => owner'[o] = owner[o]

LEMMA MineStays ==
  ASSUME TypeInv, ClientInv, UNCHANGED kind, RowsGrow, RowsKnown', NEW t \in Threads,
         \A u \in Threads \ {t} : task'[u] = task[u] /\ answer'[u] = answer[u],
         TaskMine(task[t])', AnswerMine(answer[t])'
  PROVE  ClientInv'
<1>1. ASSUME NEW u \in Threads PROVE TaskMine(task[u])' /\ AnswerMine(answer[u])'
  <2>1. CASE u = t
    BY <2>1
  <2>2. CASE u # t
    <3>1. TaskMine(task[u]) /\ AnswerMine(answer[u]) /\ task'[u] = task[u] /\ answer'[u] = answer[u]
      BY <2>2 DEF ClientInv
    <3>2. TaskMine(task[u])'
      <4>1. PICK k \in Task : k = task[u]
        BY DEF TypeInv, TypeOK
      <4>2. k.phase \in {"lock", "send", "append"} => k.on \in Orders
        BY <4>1 DEF TypeInv, TaskOK
      <4>3. QED BY <3>1, <4>1, <4>2 DEF TaskMine, RowsGrow
    <3>3. AnswerMine(answer[u])'
      BY <3>1 DEF AnswerMine, RowsGrow
    <3>4. QED BY <3>2, <3>3
  <2>3. QED BY <2>1, <2>2
<1>2. QED BY <1>1 DEF ClientInv

LEMMA SameRows ==
  ASSUME ClientInv, UNCHANGED rows PROVE RowsGrow /\ RowsKnown'
BY DEF ClientInv, RowsGrow, RowsKnown, rows

LEMMA PutGrows ==
  ASSUME TypeInv, ClientInv, NEW o \in Orders, NEW s \in Order, Put(o, s), UNCHANGED owner
  PROVE  RowsGrow /\ RowsKnown' /\ s \in stored'[o] /\ store'[o] = s /\ s # NoOrder
BY NoOrderIsNone DEF TypeInv, TypeOK, ClientInv, RowsGrow, RowsKnown, Put

\* The last step of a request.
LEMMA MineEnds ==
  ASSUME TypeInv, ClientInv, UNCHANGED kind, RowsGrow, RowsKnown', NEW t \in Threads,
         NEW r, Ends(t, r), AnswerMine(r)'
  PROVE  ClientInv'
<1>1. task \in [Threads -> Task] /\ answer \in [Threads -> Answer]
  BY DEF TypeInv, TypeOK
<1>2. task'[t] = Waiting /\ answer'[t] = r
  BY <1>1 DEF Ends
<1>3. \A u \in Threads \ {t} : task'[u] = task[u] /\ answer'[u] = answer[u]
  BY <1>1 DEF Ends
<1>4. TaskMine(task[t])'
  BY <1>2, ReplicaConstants DEF TaskMine, Waiting, Working
<1>5. AnswerMine(answer[t])'
  BY <1>2 DEF AnswerMine
<1>6. QED BY <1>3, <1>4, <1>5, MineStays

LEMMA MineRaises ==
  ASSUME TypeInv, ClientInv, UNCHANGED kind, RowsGrow, RowsKnown', NEW t \in Threads, Raises(t)
  PROVE  ClientInv'
BY MineEnds DEF Raises, AnswerMine, NoAnswer

\* A step that goes on with the same order for the same client.
LEMMA MineGoes ==
  ASSUME TypeInv, ClientInv, UNCHANGED <<kind, answer>>, RowsGrow, RowsKnown', NEW t \in Threads,
         \A u \in Threads \ {t} : task'[u] = task[u],
         task'[t].who = task[t].who, task'[t].on = task[t].on,
         kind = "real" /\ task'[t].phase \in {"lock", "send", "append"} =>
           task'[t].copy \in stored'[task[t].on]
  PROVE  ClientInv'
<1>1. TaskMine(task[t])'
  BY DEF ClientInv, TaskMine, RowsGrow
<1>2. AnswerMine(answer[t])'
  BY DEF ClientInv, AnswerMine, RowsGrow
<1>3. QED BY <1>1, <1>2, MineStays

LEMMA MineStarts ==
  ASSUME TypeInv, ClientInv, UNCHANGED kind, RowsGrow, RowsKnown', NEW t \in Threads,
         NEW k, Starts(t, k), k.phase \in {"save", "load", "drain"},
         k.who \in Customers => k.on \in Orders /\ owner'[k.on] = k.who
  PROVE  ClientInv'
<1>1. task \in [Threads -> Task] /\ answer \in [Threads -> Answer]
  BY DEF TypeInv, TypeOK
<1>2. task'[t] = k /\ answer'[t] = NoAnswer
  BY <1>1 DEF Starts
<1>3. \A u \in Threads \ {t} : task'[u] = task[u] /\ answer'[u] = answer[u]
  BY <1>1 DEF Starts
<1>4. TaskMine(task[t])'
  BY <1>2 DEF TaskMine
<1>5. AnswerMine(answer[t])'
  BY <1>2 DEF AnswerMine, NoAnswer
<1>6. QED BY <1>3, <1>4, <1>5, MineStays
LEMMA MineRequest ==
  ASSUME TypeInv, ClientInv, NEW t \in Threads, Request(t) PROVE ClientInv'
<1>1. PICK who \in Principals :
        \/ \E c \in Customers : OpenServiceOrder(t, who, c)
        \/ \E o \in Ids : GetServiceOrder(t, who, o)
        \/ \E type \in AdminTypes, path \in Orders, named \in Ids \cup {"absent"}, correlation \in Ids :
              PostEvent(t, who, type, path, named, correlation)
        \/ DrainEvents(t, who)
  BY DEF Request
<1>2. UNCHANGED kind
  BY <1>1 DEF OpenServiceOrder, GetServiceOrder, PostEvent, DrainEvents, Receive
<1>3. ASSUME NEW c \in Customers, OpenServiceOrder(t, who, c) PROVE ClientInv'
  <2>1. CASE who \in Customers /\ who # c
    <3>1. Raises(t) /\ UNCHANGED rows
      BY <1>3, <2>1 DEF OpenServiceOrder
    <3>2. QED BY <1>2, <3>1, SameRows, MineRaises
  <2>2. CASE ~(who \in Customers /\ who # c)
    <3> DEFINE opening == RequestQuote(Opened)
    <3>1. PICK o \in Orders :
            /\ Fresh(o)
            /\ Starts(t, [Working("save", requests', who, NoEvent, o) EXCEPT
                            !.copy = opening.order, !.next = opening.event])
            /\ owner' = [owner EXCEPT ![o] = c]
            /\ UNCHANGED <<store, stored>>
      BY <1>3, <2>2 DEF OpenServiceOrder
    <3> HIDE DEF opening
    <3>2. owner'[o] = c
      BY <3>1 DEF TypeInv, TypeOK
    <3>3. RowsGrow /\ RowsKnown'
      BY <3>1 DEF TypeInv, TypeOK, ClientInv, RowsGrow, RowsKnown, Fresh
    <3>4. PICK k : k = [Working("save", requests', who, NoEvent, o) EXCEPT
                          !.copy = opening.order, !.next = opening.event]
      OBVIOUS
    <3>5. k.phase = "save" /\ k.who = who /\ k.on = o
      BY <3>4 DEF Working
    <3>6. QED BY <1>2, <2>2, <3>1, <3>2, <3>3, <3>4, <3>5, MineStarts
  <2>3. QED BY <2>1, <2>2
<1>4. ASSUME NEW o \in Ids, GetServiceOrder(t, who, o) PROVE ClientInv'
  <2>1. RowsGrow /\ RowsKnown' /\ UNCHANGED rows
    BY <1>4, SameRows DEF GetServiceOrder
  <2>2. CASE Raises(t)
    BY <1>2, <2>1, <2>2, MineRaises
  <2>3. CASE Exists(o) /\ (who \in Customers => owner[o] = who) /\ Shows(t, who, o, store[o])
    <3>1. PICK r : r = [who |-> who, on |-> o, shown |-> store[o]]
      OBVIOUS
    <3>2. Ends(t, r)
      BY <2>3, <3>1 DEF Shows
    <3>3. AnswerMine(r)'
      BY <2>1, <2>3, <3>1 DEF AnswerMine, Exists, rows, ClientInv, RowsKnown
    <3>4. QED BY <1>2, <2>1, <3>2, <3>3, MineEnds
  <2>4. Raises(t) \/ (Exists(o) /\ (who \in Customers => owner[o] = who) /\ Shows(t, who, o, store[o]))
    BY <1>4, Zenon DEF GetServiceOrder
  <2>5. QED BY <2>2, <2>3, <2>4
<1>5. ASSUME NEW type \in AdminTypes, NEW path \in Orders, NEW named \in Ids \cup {"absent"},
             NEW correlation \in Ids, PostEvent(t, who, type, path, named, correlation)
      PROVE  ClientInv'
  <2>1. RowsGrow /\ RowsKnown'
    BY <1>5, SameRows DEF PostEvent
  <2>2. CASE who # Admin
    BY <1>2, <1>5, <2>1, <2>2, MineRaises DEF PostEvent
  <2>3. CASE who = Admin
    <3>1. PICK k : k = [Working("load", requests', who, type, Target(path, named, correlation))
                          EXCEPT !.path = path]
      OBVIOUS
    <3>2. k.phase = "load" /\ k.who = Admin
      BY <2>3, <3>1 DEF Working
    <3>3. Starts(t, k)
      BY <1>5, <2>3, <3>1 DEF PostEvent
    <3>4. QED BY <1>2, <2>1, <3>2, <3>3, MineStarts, ReplicaConstants
  <2>4. QED BY <2>2, <2>3
<1>6. CASE DrainEvents(t, who)
  <2>1. RowsGrow /\ RowsKnown'
    BY <1>6, SameRows DEF DrainEvents
  <2>2. CASE who # Admin
    BY <1>2, <1>6, <2>1, <2>2, MineRaises DEF DrainEvents
  <2>3. CASE who = Admin
    <3>1. PICK k : k = Working("drain", requests', who, NoEvent, Blank)
      OBVIOUS
    <3>2. k.phase = "drain" /\ k.who = Admin
      BY <2>3, <3>1 DEF Working
    <3>3. Starts(t, k)
      BY <1>6, <2>3, <3>1 DEF DrainEvents
    <3>4. QED BY <1>2, <2>1, <3>2, <3>3, MineStarts, ReplicaConstants
  <2>4. QED BY <2>2, <2>3
<1>7. QED BY <1>1, <1>3, <1>4, <1>5, <1>6

LEMMA MineLoad ==
  ASSUME TypeInv, ClientInv, NEW t \in Threads, Load(t) PROVE ClientInv'
<1>0. task \in [Threads -> Task] /\ task[t] \in Task
  BY DEF TypeInv, TypeOK
<1>1. RowsGrow /\ RowsKnown' /\ UNCHANGED kind
  BY SameRows DEF Load
<1>2. \/ Raises(t)
      \/ Goto(t, "check") /\ UNCHANGED answer
      \/ (\E c, e : Called(t, "save", c, e)) /\ UNCHANGED answer
  BY Zenon DEF Load, Called
<1>3. CASE Goto(t, "check") /\ UNCHANGED answer
  <2>1. Enters(t, {"check"}) /\ task'[t].who = task[t].who /\ task'[t].on = task[t].on
    BY <1>0, <1>3, GotoEnters DEF Goto, Task
  <2>2. QED BY <1>1, <1>3, <2>1, MineGoes DEF Enters
<1>4. ASSUME NEW c, NEW e, Called(t, "save", c, e), UNCHANGED answer PROVE ClientInv'
  <2>1. Enters(t, {"save"}) /\ task'[t].who = task[t].who /\ task'[t].on = task[t].on
    BY <1>0, <1>4 DEF Called, Enters, Task
  <2>2. QED BY <1>1, <1>4, <2>1, MineGoes DEF Enters
<1>5. QED BY <1>1, <1>2, <1>3, <1>4, MineRaises

LEMMA MineCheck ==
  ASSUME TypeInv, ClientInv, NEW t \in Threads, Check(t) PROVE ClientInv'
<1>0. task \in [Threads -> Task] /\ task[t] \in Task
  BY DEF TypeInv, TypeOK
<1>1. RowsGrow /\ RowsKnown' /\ UNCHANGED kind
  BY SameRows DEF Check
<1>2. \/ Raises(t)
      \/ Goto(t, "save") /\ UNCHANGED answer
      \/ (\E c, e : Called(t, "status", c, e)) /\ UNCHANGED answer
  BY Zenon DEF Check, Called
<1>3. CASE Goto(t, "save") /\ UNCHANGED answer
  <2>1. Enters(t, {"save"}) /\ task'[t].who = task[t].who /\ task'[t].on = task[t].on
    BY <1>0, <1>3, GotoEnters DEF Goto, Task
  <2>2. QED BY <1>1, <1>3, <2>1, MineGoes DEF Enters
<1>4. ASSUME NEW c, NEW e, Called(t, "status", c, e), UNCHANGED answer PROVE ClientInv'
  <2>1. Enters(t, {"status"}) /\ task'[t].who = task[t].who /\ task'[t].on = task[t].on
    BY <1>0, <1>4 DEF Called, Enters, Task
  <2>2. QED BY <1>1, <1>4, <2>1, MineGoes DEF Enters
<1>5. QED BY <1>1, <1>2, <1>3, <1>4, MineRaises

\* The shared object, in memory mode: both steps put the changed object back.
LEMMA MineMoves ==
  ASSUME TypeInv, ClientInv, NEW t \in Threads, SetStatus(t) \/ AppendHistory(t) PROVE ClientInv'
<1>0. task \in [Threads -> Task] /\ task[t] \in Task
  BY DEF TypeInv, TypeOK
<1>1. PICK h \in Task : h = task[t]
  BY <1>0
<1>2. h.on \in Orders /\ store[h.on] \in Order /\ h.copy \in Order /\ kind = "memory"
  BY <1>1 DEF TypeInv, TypeOK, TaskOK, SetStatus, AppendHistory, At, SomeOrder
<1>3. PICK n \in Order : n = store[h.on]
  BY <1>2
<1>4. PICK s \in Order : Put(h.on, s)
  <2>1. CASE SetStatus(t)
    <3>1. [n EXCEPT !.status = h.copy.status] \in Order
      BY <1>2 DEF Order
    <3>2. QED BY <1>1, <1>3, <2>1, <3>1 DEF SetStatus
  <2>2. CASE AppendHistory(t)
    <3>1. Append(n.history, h.copy.status) \in Seq(ServiceOrderStatus)
      BY <1>2 DEF Order
    <3>2. [n EXCEPT !.history = Append(@, h.copy.status)] \in Order
      BY <3>1 DEF Order
    <3>3. QED BY <1>1, <1>3, <2>2, <3>2 DEF AppendHistory
  <2>3. QED BY <2>1, <2>2
<1>5. UNCHANGED <<kind, answer, owner>>
  BY DEF SetStatus, AppendHistory
<1>6. RowsGrow /\ RowsKnown'
  BY <1>2, <1>4, <1>5, PutGrows
<1>7. /\ \A u \in Threads \ {t} : task'[u] = task[u]
      /\ task'[t].who = task[t].who /\ task'[t].on = task[t].on
  BY <1>0 DEF SetStatus, AppendHistory, Goto, Task
<1>8. QED BY <1>2, <1>5, <1>6, <1>7, MineGoes

LEMMA MineSave ==
  ASSUME TypeInv, ClientInv, NEW t \in Threads, Save(t) PROVE ClientInv'
<1>0. task \in [Threads -> Task] /\ task[t] \in Task
  BY DEF TypeInv, TypeOK
<1>1. PICK h \in Task : h = task[t]
  BY <1>0
<1> DEFINE new == kind = "real" \/ ~Exists(h.on)
<1>2. h.on \in Orders /\ (h.copy \in Order \/ (kind = "memory" /\ store[h.on] # NoOrder))
  BY <1>1 DEF TypeInv, TaskOK, Save, At
<1>3. /\ IF new THEN Put(h.on, h.copy) ELSE UNCHANGED <<store, stored>>
      /\ \/ Answers(t, IF new THEN h.copy ELSE store[h.on])
         \/ Goto(t, Published) /\ UNCHANGED answer
      /\ UNCHANGED <<kind, owner>>
  BY <1>1 DEF Save
<1>4. /\ RowsGrow /\ RowsKnown' /\ store'[h.on] # NoOrder
      /\ new => h.copy \in stored'[h.on]
      /\ ~new => store[h.on] \in stored'[h.on]
  <2>1. CASE new
    <3>1. h.copy \in Order
      BY <1>2, <2>1 DEF Exists, TypeInv, TypeOK
    <3>2. QED BY <1>2, <1>3, <2>1, <3>1, PutGrows
  <2>2. CASE ~new
    <3>1. UNCHANGED rows
      BY <1>3, <2>2 DEF rows
    <3>2. QED BY <1>2, <2>2, <3>1, SameRows DEF Exists, rows, ClientInv, RowsKnown
  <2>3. QED BY <2>1, <2>2
<1>5. CASE Answers(t, IF new THEN h.copy ELSE store[h.on])
  <2>1. PICK r : r = [who |-> h.who, on |-> h.on, shown |-> IF new THEN h.copy ELSE store[h.on]]
    OBVIOUS
  <2>2. Ends(t, r)
    BY <1>1, <1>5, <2>1 DEF Answers, Shows
  <2>3. h.who \in Customers => owner'[h.on] = h.who
    BY <1>1, <1>3 DEF ClientInv, TaskMine
  <2>4. AnswerMine(r)'
    BY <1>2, <1>4, <2>1, <2>3 DEF AnswerMine
  <2>5. QED BY <1>3, <1>4, <2>2, <2>4, MineEnds
<1>6. CASE Goto(t, Published) /\ UNCHANGED answer
  <2>1. /\ \A u \in Threads \ {t} : task'[u] = task[u]
        /\ task'[t].who = h.who /\ task'[t].on = h.on /\ task'[t].copy = h.copy
    BY <1>0, <1>1, <1>6 DEF Goto, Task
  <2>2. kind = "real" => h.copy \in stored'[h.on]
    BY <1>4
  <2>3. QED BY <1>1, <1>3, <1>4, <1>6, <2>1, <2>2, MineGoes
<1>7. QED BY <1>3, <1>5, <1>6
LEMMA MinePublisher ==
  ASSUME TypeInv, ClientInv, NEW t \in Threads, Acquire(t) \/ Sent(t) \/ CopyMessages(t)
  PROVE  ClientInv'
<1>0. task \in [Threads -> Task] /\ task[t] \in Task
  BY DEF TypeInv, TypeOK
<1>1. RowsGrow /\ RowsKnown' /\ UNCHANGED <<kind, answer, rows>>
  BY SameRows DEF Acquire, Sent, CopyMessages
<1>2. /\ \A u \in Threads \ {t} : task'[u] = task[u]
      /\ task'[t].who = task[t].who /\ task'[t].on = task[t].on
      /\ \/ task'[t].phase = "clear"
         \/ task[t].phase \in {"lock", "send"} /\ task'[t].copy = task[t].copy
  BY <1>0 DEF Acquire, Sent, CopyMessages, Goto, Task, At
<1>3. kind = "real" /\ task'[t].phase \in {"lock", "send", "append"} =>
        task'[t].copy \in stored'[task[t].on]
  BY <1>1, <1>2 DEF ClientInv, TaskMine, rows
<1>4. QED BY <1>1, <1>2, <1>3, MineGoes

LEMMA MineAppendMessage ==
  ASSUME TypeInv, ClientInv, NEW t \in Threads, AppendMessage(t) PROVE ClientInv'
<1>1. RowsGrow /\ RowsKnown' /\ UNCHANGED <<kind, rows>>
  BY SameRows DEF AppendMessage
<1>2. PICK h \in Task : h = task[t]
  BY DEF TypeInv, TypeOK
<1>3. h.on \in Orders /\ store[h.on] # NoOrder
  BY <1>2 DEF TypeInv, TaskOK, AppendMessage, At
<1>4. PICK r : r = [who |-> h.who, on |-> h.on, shown |-> Show(t)]
  OBVIOUS
<1>5. Ends(t, r)
  BY <1>2, <1>4 DEF AppendMessage, Answers, Shows
<1>6. kind = "real" => Show(t) \in stored[h.on]
  BY <1>2 DEF Show, ClientInv, TaskMine, AppendMessage, At
<1>7. AnswerMine(r)'
  BY <1>1, <1>2, <1>3, <1>4, <1>6 DEF AnswerMine, ClientInv, TaskMine, rows
<1>8. QED BY <1>1, <1>5, <1>7, MineEnds

LEMMA ClientInvHolds == Spec => []ClientInv
<1>1. Init => ClientInv
  BY ReplicaConstants DEF Init, ClientInv, RowsKnown, TaskMine, AnswerMine, Waiting, Working, NoAnswer
<1>2. TypeInv /\ ClientInv /\ [Next]_vars => ClientInv'
  <2> SUFFICES ASSUME TypeInv, ClientInv, [Next]_vars PROVE ClientInv'
    OBVIOUS
  <2>1. CASE UNCHANGED vars
    BY <2>1 DEF vars, rows, ClientInv, RowsKnown, TaskMine, AnswerMine
  <2>2. CASE Next
    <3>1. PICK t \in Threads : Request(t) \/ ThreadStep(t) \/ Fault(t)
      BY <2>2 DEF Next
    <3>2. CASE ClearMessages(t) \/ CallFails(t) \/ CloseFails(t)
      BY <3>2, SameRows, MineRaises DEF ClearMessages, CallFails, CloseFails
    <3>3. CASE ThreadStep(t)
      BY <3>2, <3>3, MineLoad, MineCheck, MineMoves, MineSave, MinePublisher, MineAppendMessage
         DEF ThreadStep, BasicPublish
    <3>4. CASE SendIsLost(t)
      BY <3>4, MinePublisher DEF SendIsLost
    <3>5. QED BY <3>1, <3>2, <3>3, <3>4, MineRequest DEF Fault
  <2>3. QED BY <2>1, <2>2
<1>3. QED BY <1>1, <1>2, TypeInvHolds, PTL DEF Spec

\* A customer is shown only orders opened for that customer, however requests overlap.
THEOREM OwnersAlone == Spec => []CustomersSeeTheirOwn
<1>1. ClientInv => CustomersSeeTheirOwn
  BY DEF ClientInv, AnswerMine, CustomersSeeTheirOwn
<1>2. QED BY <1>1, ClientInvHolds, PTL

\* In real mode what a client is shown was in the table, whatever failed after the save
\* and whichever thread saved the order next.
THEOREM ShownIsStored == Spec => []ShownWasStored
<1>1. ClientInv => ShownWasStored
  BY DEF ClientInv, AnswerMine, ShownWasStored
<1>2. QED BY <1>1, ClientInvHolds, PTL

-----------------------------------------------------------------------------
(* The shared objects of memory mode *)

\* What came before is kept.
Grows(before, after) ==
  Len(before) <= Len(after) /\ SubSeq(after, 1, Len(before)) = before

LEMMA GrowsBy ==
  ASSUME NEW h \in Seq(ServiceOrderStatus), NEW x \in ServiceOrderStatus
  PROVE  Grows(h, h) /\ Grows(h, Append(h, x)) /\ Grows(<<>>, h)
<1>1. Grows(h, h)
  BY DEF Grows
<1>2. SubSeq(Append(h, x), 1, Len(h)) = h
  OBVIOUS
<1>3. SubSeq(h, 1, 0) = <<>>
  OBVIOUS
<1>4. QED BY <1>1, <1>2, <1>3 DEF Grows

LEMMA HistoryOf ==
  ASSUME NEW s \in SomeOrder PROVE s.history \in Seq(ServiceOrderStatus)
<1>1. CASE s \in Order
  BY <1>1 DEF Order
<1>2. CASE s = NoOrder
  <2>1. s.history = <<>>
    BY <1>2 DEF NoOrder
  <2>2. QED BY <2>1
<1>3. QED BY <1>1, <1>2 DEF SomeOrder

\* No entry of a shared order's history is lost or rewritten, also when several threads
\* run its methods at the same time.
THEOREM HistoriesGrow == Spec => SharedHistoryGrows
<1> DEFINE G == kind = "memory" => \A o \in Orders : Grows(store[o].history, store'[o].history)
<1>1. TypeInv /\ TypeInv' /\ [Next]_vars => G
  <2> SUFFICES ASSUME TypeInv, TypeInv', [Next]_vars, kind = "memory", NEW o \in Orders
               PROVE  Grows(store[o].history, store'[o].history)
    OBVIOUS
  <2>0. store[o].history \in Seq(ServiceOrderStatus) /\ store'[o].history \in Seq(ServiceOrderStatus)
    <3>1. store[o] \in SomeOrder /\ store'[o] \in SomeOrder
      BY DEF TypeInv, TypeOK
    <3>2. QED BY <3>1, HistoryOf
  <2>1. CASE store'[o] = store[o]
    BY <2>0, <2>1, GrowsBy DEF ServiceOrderStatus
  <2>2. CASE store'[o] # store[o]
    <3>1. PICK t \in Threads : SetStatus(t) \/ AppendHistory(t) \/ Save(t)
      <4>1. Next
        BY <2>2 DEF vars, rows
      <4>2. PICK t \in Threads : Request(t) \/ ThreadStep(t) \/ Fault(t)
        BY <4>1 DEF Next
      <4>3. ASSUME UNCHANGED store PROVE FALSE
        BY <2>2, <4>3
      <4>4. Request(t) => UNCHANGED store
        BY DEF Request, OpenServiceOrder, GetServiceOrder, PostEvent, DrainEvents, rows
      <4>5. /\ Load(t) => UNCHANGED store
            /\ Check(t) => UNCHANGED store
            /\ Acquire(t) => UNCHANGED store
            /\ BasicPublish(t) => UNCHANGED store
            /\ AppendMessage(t) => UNCHANGED store
            /\ CopyMessages(t) => UNCHANGED store
            /\ ClearMessages(t) => UNCHANGED store
            /\ Fault(t) => UNCHANGED store
        BY DEF Fault, SendIsLost, CallFails, CloseFails, Sent, Load, Check, Acquire, BasicPublish, AppendMessage, CopyMessages,
               ClearMessages, rows
      <4>6. QED BY <4>2, <4>3, <4>4, <4>5 DEF ThreadStep
    <3>2. PICK h \in Task : h = task[t]
      BY DEF TypeInv, TypeOK
    <3>3. store \in [Orders -> SomeOrder]
      BY DEF TypeInv, TypeOK
    <3>4. CASE SetStatus(t)
      <4>1. h.on = o /\ store'[o] = [store[o] EXCEPT !.status = h.copy.status]
        BY <2>2, <3>2, <3>3, <3>4 DEF SetStatus, Put
      <4>2. store[o] \in Order
        BY <3>2, <3>4, <4>1 DEF TypeInv, TypeOK, TaskOK, SetStatus, At, SomeOrder
      <4>3. PICK n \in Order : n = store[o]
        BY <4>2
      <4>4. [n EXCEPT !.status = h.copy.status].history = n.history
        BY DEF Order
      <4>5. store'[o].history = store[o].history
        BY <4>1, <4>3, <4>4
      <4>6. QED BY <2>0, <4>5, GrowsBy DEF ServiceOrderStatus
    <3>5. CASE AppendHistory(t)
      <4>1. h.on = o /\ store'[o] = [store[o] EXCEPT !.history = Append(@, h.copy.status)]
        BY <2>2, <3>2, <3>3, <3>5 DEF AppendHistory, Put
      <4>2. store[o] \in Order /\ h.copy.status \in ServiceOrderStatus
        BY <3>2, <3>5, <4>1 DEF TypeInv, TypeOK, TaskOK, AppendHistory, At, SomeOrder, Order
      <4>3. store'[o].history = Append(store[o].history, h.copy.status)
        BY <4>1, <4>2 DEF Order
      <4>4. QED BY <2>0, <4>2, <4>3, GrowsBy
    <3>6. CASE Save(t)
      <4>1. h.on = o /\ ~Exists(o)
        BY <2>2, <3>2, <3>3, <3>6 DEF Save, Put
      <4>2. store[o].history = <<>>
        BY <4>1 DEF Exists, NoOrder
      <4>3. QED BY <2>0, <4>2, GrowsBy DEF ServiceOrderStatus
    <3>7. QED BY <3>1, <3>4, <3>5, <3>6
  <2>3. QED BY <2>1, <2>2
<1>2. TypeInv /\ TypeInv' /\ [Next]_vars =>
        [kind = "memory" => \A o \in Orders :
           LET before == store[o].history
               after  == store'[o].history
           IN  Len(before) <= Len(after) /\ SubSeq(after, 1, Len(before)) = before]_vars
  BY <1>1 DEF Grows
<1>3. QED BY <1>2, TypeInvHolds, PTL DEF Spec, SharedHistoryGrows

-----------------------------------------------------------------------------
(* The unlocked list of memory mode *)

\* A drain that has its copy misses only what was appended since.
RaceInv ==
  kind = "memory" =>
    /\ Entries(returned) \subseteq Entries(messages) \cup Entries(drained) \cup exposed
    /\ \A t \in Threads : At(t, "clear") => Entries(messages) \subseteq Entries(task[t].list) \cup exposed

LEMMA RaceKept ==
  ASSUME RaceInv, UNCHANGED <<kind, messages, returned, drained, exposed>>, NEW t \in Threads,
         \A u \in Threads \ {t} : task'[u] = task[u], task'[t].phase # "clear"
  PROVE  RaceInv'
BY DEF RaceInv, At

LEMMA RaceAppend ==
  ASSUME TypeInv, RaceInv, NEW t \in Threads, AppendMessage(t), kind = "memory" PROVE RaceInv'
<1>0. task \in [Threads -> Task] /\ messages \in Seq(Nat) /\ returned \in Seq(Nat)
  BY DEF TypeInv, TypeOK
<1>1. PICK n \in Nat : n = task[t].nr
  BY <1>0 DEF Task
<1>2. /\ messages' = Append(messages, n) /\ returned' = Append(returned, n)
      /\ exposed' = IF Draining THEN exposed \cup {n} ELSE exposed
      /\ UNCHANGED <<kind, drained>>
  BY <1>1 DEF AppendMessage
<1>3. Entries(messages') = Entries(messages) \cup {n} /\ Entries(returned') = Entries(returned) \cup {n}
  BY <1>0, <1>2, EntriesMore
<1>4. Enters(t, {"idle"})
  BY <1>0, EndsEnters DEF AppendMessage, Answers, Shows
<1>5. Entries(returned') \subseteq Entries(messages') \cup Entries(drained') \cup exposed'
  BY <1>2, <1>3 DEF RaceInv
<1>6. ASSUME NEW u \in Threads, task'[u].phase = "clear"
      PROVE  Entries(messages') \subseteq Entries(task'[u].list) \cup exposed'
  <2>1. task'[u] = task[u] /\ At(u, "clear")
    BY <1>4, <1>6 DEF Enters, At
  <2>2. exposed' = exposed \cup {n}
    BY <1>2, <2>1 DEF Draining
  <2>3. QED BY <1>3, <2>1, <2>2 DEF RaceInv
<1>7. QED BY <1>5, <1>6 DEF RaceInv, At

LEMMA RaceDrain ==
  ASSUME TypeInv, RaceInv, NEW t \in Threads, CopyMessages(t) \/ ClearMessages(t), kind = "memory"
  PROVE  RaceInv'
<1>0. task \in [Threads -> Task] /\ messages \in Seq(Nat) /\ returned \in Seq(Nat)
      /\ drained \in Seq(Nat)
  BY DEF TypeInv, TypeOK
<1>1. CASE CopyMessages(t)
  <2>1. UNCHANGED <<kind, messages, returned, drained, exposed>>
    BY <1>1 DEF CopyMessages
  <2>2. task'[t].list = messages /\ \A u \in Threads \ {t} : task'[u] = task[u]
    BY <1>0, <1>1 DEF CopyMessages, Task
  <2>3. ASSUME NEW u \in Threads, task'[u].phase = "clear"
        PROVE  Entries(messages') \subseteq Entries(task'[u].list) \cup exposed'
    BY <2>1, <2>2, <2>3 DEF RaceInv, At
  <2>4. QED BY <2>1, <2>3 DEF RaceInv, At
<1>2. CASE ClearMessages(t)
  <2>1. PICK l \in Seq(Nat) : l = task[t].list
    BY <1>0 DEF Task
  <2>2. UNCHANGED <<kind, returned, exposed>> /\ messages' = <<>> /\ drained' = drained \o l /\ At(t, "clear")
    BY <1>2, <2>1 DEF ClearMessages
  <2>3. Entries(messages') = {} /\ Entries(drained') = Entries(drained) \cup Entries(l)
    BY <1>0, <2>2, EntriesMore
  <2>4. QED BY <2>1, <2>2, <2>3 DEF RaceInv
<1>3. QED BY <1>1, <1>2

\* Memory mode loses a message to a drain only if it was appended between that drain's
\* copy and its clear, for any number of threads that publish and drain.
THEOREM RacesAloneLose == Spec => []OnlyRacesLose
<1>1. Init => RaceInv
  BY DEF Init, RaceInv, Entries, At, Waiting, Working
<1>2. TypeInv /\ RaceInv /\ [Next]_vars => RaceInv'
  <2> SUFFICES ASSUME TypeInv, RaceInv, [Next]_vars PROVE RaceInv'
    OBVIOUS
  <2>0. task \in [Threads -> Task]
    BY DEF TypeInv, TypeOK
  <2>1. CASE UNCHANGED vars
    BY <2>1 DEF vars, evidence, RaceInv, At
  <2>2. CASE Next
    <3>1. PICK t \in Threads : Request(t) \/ ThreadStep(t) \/ Fault(t)
      BY <2>2 DEF Next
    <3>2. CASE kind # "memory"
      BY <3>1, <3>2 DEF RaceInv, Request, OpenServiceOrder, GetServiceOrder, PostEvent, DrainEvents, Receive,
         ThreadStep, Load, Check, SetStatus, AppendHistory, Save, Acquire, BasicPublish, AppendMessage,
         CopyMessages, ClearMessages, Fault, SendIsLost, CallFails, CloseFails, Sent
    <3>3. CASE kind = "memory" /\ ThreadStep(t)
      <4>1. ~Acquire(t) /\ ~BasicPublish(t)
        BY <3>3 DEF TypeInv, TaskOK, Acquire, BasicPublish, Sent, At
      <4>2. CASE AppendMessage(t) \/ CopyMessages(t) \/ ClearMessages(t)
        BY <3>3, <4>2, RaceAppend, RaceDrain
      <4>3. ASSUME UNCHANGED <<kind, evidence>>, \E p : p # "clear" /\ Enters(t, {p}) PROVE RaceInv'
        BY <4>3, RaceKept DEF evidence, Enters
      <4>4. CASE Load(t)
        <5>1. Raises(t) \/ Goto(t, "check") \/ \E c, e : Called(t, "save", c, e)
          BY <4>4, Zenon DEF Load, Called
        <5>2. ASSUME NEW c, NEW e, Called(t, "save", c, e) PROVE Enters(t, {"save"})
          BY <2>0, <5>2 DEF Called, Enters, Task
        <5>3. QED BY <2>0, <4>3, <4>4, <5>1, <5>2, EndsEnters, GotoEnters DEF Raises, Load
      <4>5. CASE Check(t)
        <5>1. Raises(t) \/ Goto(t, "save") \/ \E c, e : Called(t, "status", c, e)
          BY <4>5, Zenon DEF Check, Called
        <5>2. ASSUME NEW c, NEW e, Called(t, "status", c, e) PROVE Enters(t, {"status"})
          BY <2>0, <5>2 DEF Called, Enters, Task
        <5>3. QED BY <2>0, <4>3, <4>5, <5>1, <5>2, EndsEnters, GotoEnters DEF Raises, Check
      <4>6. CASE SetStatus(t)
        BY <2>0, <4>3, <4>6, GotoEnters DEF SetStatus
      <4>7. CASE AppendHistory(t)
        <5>1. Enters(t, {"check"}) \/ Enters(t, {"save"})
          BY <2>0, <4>7 DEF AppendHistory, Enters, Task
        <5>2. QED BY <4>3, <4>7, <5>1 DEF AppendHistory
      <4>8. CASE Save(t)
        <5>1. Goto(t, "append") \/ \E r : Ends(t, r)
          BY <3>3, <4>8 DEF Save, Published, Answers, Shows
        <5>2. QED BY <2>0, <4>3, <4>8, <5>1, EndsEnters, GotoEnters DEF Save
      <4>9. QED BY <3>3, <4>1, <4>2, <4>4, <4>5, <4>6, <4>7, <4>8 DEF ThreadStep
    <3>4. CASE kind = "memory" /\ Request(t)
      <4>1. UNCHANGED <<kind, evidence>> /\ \E p : p # "clear" /\ Enters(t, {p})
        BY <3>4, RequestEnters
      <4>2. QED BY <4>1, RaceKept DEF evidence, Enters
    <3>5. kind = "memory" => ~Fault(t)
      BY DEF TypeInv, TaskOK, Fault, SendIsLost, CallFails, CloseFails, Sent, At
    <3>6. QED BY <3>1, <3>2, <3>3, <3>4, <3>5
  <2>3. QED BY <2>1, <2>2
<1>3. RaceInv => OnlyRacesLose
  BY DEF RaceInv, OnlyRacesLose, Listed, Entries
<1>4. QED BY <1>1, <1>2, <1>3, TypeInvHolds, PTL DEF Spec
=============================================================================
