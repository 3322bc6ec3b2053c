--------------------------- MODULE RegistryProofs ---------------------------
(***************************************************************************)
(* The registry, for any number of ids, values and request threads.  The   *)
(* unique columns are inductive by themselves: a write that could collide  *)
(* is refused by the table, whatever the look-ups before it saw.  The rest *)
(* goes through two ideas: every step is one of seven (EveryStep), and     *)
(* what a request has checked stays in the written rows (OrderPath,        *)
(* OwnerPath, FreshInv).  Together they give the refinement of Directory:  *)
(* the step that ends a request is the one in which it takes effect.       *)
(***************************************************************************)
EXTENDS RegistryGuarantees, TLAPS

KeysInv == DOMAIN rows = Ids /\ KeysAreUnique

\* A write of values that no other row holds keeps the columns unique; this is
\* the effect of Insert and Update when the table accepts them.
LEMMA WriteKeepsKeys ==
  ASSUME KeysInv, NEW i \in Ids, NEW r,
         ~Taken(i, UniqueColumns(i, r)), Write(i, r)
  PROVE  KeysInv'
<1>1. rows' = [rows EXCEPT ![i] = r] /\ DOMAIN rows' = Ids
  BY DEF KeysInv, Write
<1>2. \A j \in Ids : rows'[j] = IF j = i THEN r ELSE rows[j]
  BY <1>1 DEF KeysInv
<1>3. \A j \in Ids \ {i} : HasRow(j)' =>
        UniqueColumns(j, rows[j]) \cap UniqueColumns(i, r) = {}
  BY <1>2 DEF Taken, HasRow
<1>4. SUFFICES ASSUME NEW j \in Ids, NEW k \in Ids, j # k, HasRow(j)', HasRow(k)'
               PROVE  UniqueColumns(j, rows'[j]) \cap UniqueColumns(k, rows'[k]) = {}
  BY <1>1, Zenon DEF KeysInv, KeysAreUnique, UniqueColumns, Ids
<1>5. CASE j = i
  <2>1. UniqueColumns(k, rows'[k]) = UniqueColumns(k, rows[k])
    BY <1>2, <1>4, <1>5
  <2>2. UniqueColumns(j, rows'[j]) = UniqueColumns(i, r)
    BY <1>2, <1>5
  <2> QED
    BY <1>3, <1>4, <1>5, <2>1, <2>2
<1>6. CASE k = i
  <2>1. UniqueColumns(j, rows'[j]) = UniqueColumns(j, rows[j])
    BY <1>2, <1>4, <1>6
  <2>2. UniqueColumns(k, rows'[k]) = UniqueColumns(i, r)
    BY <1>2, <1>6
  <2> QED
    BY <1>3, <1>4, <1>6, <2>1, <2>2
<1>7. CASE j # i /\ k # i
  <2>1. rows'[j] = rows[j] /\ rows'[k] = rows[k]
    BY <1>2, <1>7
  <2>2. HasRow(j) /\ HasRow(k)
    BY <1>4, <2>1 DEF HasRow
  <2> QED
    BY <1>4, <2>1, <2>2 DEF KeysInv, KeysAreUnique
<1> QED
  BY <1>5, <1>6, <1>7

\* A step that leaves the tables alone keeps the columns unique.
LEMMA SameRowsKeepKeys ==
  ASSUME KeysInv, UNCHANGED rows
  PROVE  KeysInv'
BY DEF KeysInv, KeysAreUnique, HasRow, UniqueColumns, Ids

\* A deleted row holds no value: Delete keeps the columns unique.
LEMMA DeleteKeepsKeys ==
  ASSUME KeysInv, NEW i \in Ids, rows' = [rows EXCEPT ![i] = NoRow]
  PROVE  KeysInv'
<1>1. DOMAIN rows' = Ids /\ \A j \in Ids : rows'[j] = IF j = i THEN NoRow ELSE rows[j]
  BY DEF KeysInv
<1>2. SUFFICES ASSUME NEW j \in Ids, NEW k \in Ids, j # k, HasRow(j)', HasRow(k)'
               PROVE  UniqueColumns(j, rows'[j]) \cap UniqueColumns(k, rows'[k]) = {}
  BY <1>1, Zenon DEF KeysInv, KeysAreUnique, UniqueColumns, Ids
<1>3. rows'[j] = rows[j] /\ rows'[k] = rows[k] /\ HasRow(j) /\ HasRow(k)
  BY <1>1, <1>2 DEF HasRow
<1> QED
  BY <1>2, <1>3 DEF KeysInv, KeysAreUnique

\* No e-mail, CPF/CNPJ, plate or login is ever in two rows, however many
\* requests passed the look-ups of the use cases together.
THEOREM NoValueTwice == Spec => []KeysAreUnique
<1>1. Init => KeysInv
  BY DEF Init, KeysInv, KeysAreUnique, HasRow
<1>2. ASSUME KeysInv, [Next]_vars PROVE KeysInv'
  <2>1. CASE UNCHANGED rows
    BY <1>2, <2>1, SameRowsKeepKeys
  <2>2. ASSUME NEW t \in Threads, NEW ids \in SUBSET Ids, Insert(t, ids)
        PROVE  KeysInv'
    <3>1. request[t].on \in Ids
      BY <2>2 DEF Insert
    <3> QED
      BY <1>2, <2>1, <2>2, <3>1, WriteKeepsKeys DEF Insert
  <2>3. ASSUME NEW t \in Threads, NEW ids \in SUBSET Ids, Update(t, ids)
        PROVE  KeysInv'
    <3> DEFINE i == request[t].on
               r == request[t].row
    <3>1. i \in Ids
      BY <2>3 DEF Update
    <3>2. CASE HasRow(i) /\ ~Taken(i, UniqueColumns(i, r))
      <4>1. Write(i, r)
        BY <2>3, <3>2, Zenon DEF Update
      <4> QED
        BY <1>2, <3>1, <3>2, <4>1, WriteKeepsKeys
    <3>3. CASE ~HasRow(i) \/ Taken(i, UniqueColumns(i, r))
      <4>1. UNCHANGED rows
        BY <2>3, <3>3, Zenon DEF Update
      <4> QED
        BY <2>1, <4>1
    <3> QED
      BY <3>2, <3>3
  <2>4. ASSUME NEW t \in Threads, NEW ids \in SUBSET Ids, Delete(t, ids)
        PROVE  KeysInv'
    BY <1>2, <2>4, DeleteKeepsKeys DEF Delete
  <2>5. ASSUME NEW t \in Threads, Requests(t)
        PROVE  KeysInv'
    BY <2>1, <2>4, <2>5
       DEF Requests, CreateCustomer, UpdateCustomer, DeleteCustomer, CreateVehicle,
           UpdateVehicle, DeleteVehicle, RegisterAdmin, OpenOrder, Receive, Ids
  <2>6. ASSUME NEW t \in Threads, RepositoryCalls(t)
        PROVE  KeysInv'
    BY <2>1, <2>2, <2>3, <2>6
       DEF RepositoryCalls, Load, GetOwner, CheckCustomer, CheckVehicle,
           FindCustomerByCpfCnpj, FindCustomerByEmail, FindVehicleByPlate,
           FindAdminByEmail, Find, SaveCustomer, SaveVehicle, SaveAdmin, SaveOrder,
           UpdateCustomerRow, UpdateVehicleRow, Ids
  <2> QED
    BY <1>2, <2>1, <2>5, <2>6 DEF Next, vars
<1>3. KeysInv => KeysAreUnique
  BY DEF KeysInv
<1> QED
  BY <1>1, <1>2, <1>3, PTL DEF Spec

-----------------------------------------------------------------------------
(***************************************************************************)
(* Types, and how a step changes the requests of the threads.              *)
(***************************************************************************)

Columns == {"cpf_cnpj", "email", "plate", "login"}

CallNames == Columns \cup {"owner", "load", "customer", "vehicle", "insert", "update"}

AllRows == CustomerRow \cup VehicleRow \cup AdminRow \cup OrderRow \cup {NoRow}

RequestType == [on : Ids \cup {Unknown}, row : AllRows, calls : Seq(CallNames)]

Answers == {"none", "done", "refused", "missing", "error"}

TablesTyped ==
  /\ DOMAIN rows = Ids
  /\ \A i \in Ids : rows[i] \in RowsOf(i) \cup {NoRow}
  /\ \A w \in written : w[1] \in Ids /\ w[2] \in RowsOf(w[1])

RequestsTyped ==
  /\ request \in [Threads -> RequestType]
  /\ \A t \in Threads :
       Idle(t) \/ (request[t].on \in Ids /\ request[t].row \in RowsOf(request[t].on))

CountersTyped == answer \in [Threads -> Answers] /\ received \in Nat

TypeInv == TablesTyped /\ RequestsTyped /\ CountersTyped

\* Thread t's request becomes this one; the other threads keep theirs.
Turn(t, i, r, c) == request' = [request EXCEPT ![t] = [on |-> i, row |-> r, calls |-> c]]

\* The look-ups of any set of columns are calls of find_by_*.
LEMMA LookUpsAreFinds ==
  ASSUME NEW columns
  PROVE  LookUps(columns) \in Seq(Columns)
<1> DEFINE ask(c) == IF \E k \in columns : k[1] = c THEN <<c>> ELSE <<>>
<1>1. ASSUME NEW c \in Columns PROVE ask(c) \in Seq(Columns)
  <2>1. <<c>> \in Seq(Columns) /\ <<>> \in Seq(Columns)
    OBVIOUS
  <2> QED
    BY <2>1, Zenon
<1>2. LookUps(columns) = ask("cpf_cnpj") \o ask("email") \o ask("plate") \o ask("login")
  BY DEF LookUps
<1>3. ask("cpf_cnpj") \in Seq(Columns) /\ ask("email") \in Seq(Columns)
      /\ ask("plate") \in Seq(Columns) /\ ask("login") \in Seq(Columns)
  <2> HIDE DEF ask
  <2> QED
    BY <1>1 DEF Columns
<1> HIDE DEF ask
<1> QED
  BY <1>2, <1>3

\* Sequences of some calls are sequences of more calls.
LEMMA FindsAreCalls ==
  ASSUME NEW s \in Seq(Columns)
  PROVE  s \in Seq(CallNames)
BY DEF Columns, CallNames

LEMMA ReceiveTurns ==
  ASSUME TypeInv, NEW t \in Threads, NEW i, NEW r, NEW c, Receive(t, i, r, c)
  PROVE  /\ Turn(t, i, r, c)
         /\ \A u \in Threads : answer'[u] = IF u = t THEN "none" ELSE answer[u]
         /\ answer' \in [Threads -> Answers]
BY DEF TypeInv, RequestsTyped, CountersTyped, Receive, Turn, Answers

LEMMA ContinueTurns ==
  ASSUME TypeInv, NEW t \in Threads, NEW c, Continue(t, c)
  PROVE  Turn(t, request[t].on, request[t].row, c) /\ UNCHANGED answer
<1>1. request[t] \in RequestType /\ DOMAIN request = Threads
  BY DEF TypeInv, RequestsTyped
<1>2. request' = [request EXCEPT ![t].calls = c]
  BY DEF Continue
<1>3. [request[t] EXCEPT !.calls = c]
        = [on |-> request[t].on, row |-> request[t].row, calls |-> c]
  BY <1>1 DEF RequestType
<1> QED
  BY <1>1, <1>2, <1>3 DEF Turn, Continue

LEMMA FinishTurns ==
  ASSUME TypeInv, NEW t \in Threads, NEW how \in Answers, Finish(t, how)
  PROVE  /\ Turn(t, request[t].on, request[t].row, <<>>)
         /\ \A u \in Threads : answer'[u] = IF u = t THEN how ELSE answer[u]
         /\ answer' \in [Threads -> Answers]
<1>1. request[t] \in RequestType /\ DOMAIN request = Threads
  BY DEF TypeInv, RequestsTyped
<1>2. request' = [request EXCEPT ![t].calls = <<>>]
  BY DEF Finish
<1>3. [request[t] EXCEPT !.calls = <<>>]
        = [on |-> request[t].on, row |-> request[t].row, calls |-> <<>>]
  BY <1>1 DEF RequestType
<1>4. answer \in [Threads -> Answers] /\ answer' = [answer EXCEPT ![t] = how]
  BY DEF TypeInv, CountersTyped, Finish
<1> QED
  BY <1>1, <1>2, <1>3, <1>4 DEF Turn

\* The rows each kind of id has are rows.
LEMMA RowsAreRows ==
  ASSUME NEW i
  PROVE  RowsOf(i) \subseteq AllRows
BY Zenon DEF RowsOf, AllRows

\* What each thread's request is after a turn.
LEMMA AfterTurn ==
  ASSUME TypeInv, NEW t \in Threads, NEW i, NEW r, NEW c, Turn(t, i, r, c)
  PROVE  /\ request'[t].on = i /\ request'[t].row = r /\ request'[t].calls = c
         /\ \A u \in Threads : u # t => request'[u] = request[u]
BY DEF TypeInv, RequestsTyped, Turn

\* A request for an id and one of its rows is a request a thread can carry out.
LEMMA TurnTypes ==
  ASSUME TypeInv, NEW t \in Threads, NEW i, NEW r, NEW c \in Seq(CallNames),
         (i \in Ids /\ r \in RowsOf(i))
           \/ (c = <<>> /\ i \in Ids \cup {Unknown} /\ r \in AllRows),
         Turn(t, i, r, c)
  PROVE  RequestsTyped'
<1>1. [on |-> i, row |-> r, calls |-> c] \in RequestType
  <2>1. r \in AllRows /\ i \in Ids \cup {Unknown}
    BY RowsAreRows
  <2> QED
    BY <2>1 DEF RequestType
<1>2. request' \in [Threads -> RequestType]
  BY <1>1 DEF TypeInv, RequestsTyped, Turn
<1>3. ASSUME NEW u \in Threads
      PROVE  request'[u].calls = <<>>
               \/ (request'[u].on \in Ids /\ request'[u].row \in RowsOf(request'[u].on))
  BY AfterTurn DEF TypeInv, RequestsTyped, Idle
<1> QED
  BY <1>2, <1>3 DEF RequestsTyped, Idle, RequestType, Ids, AllRows, RowsOf,
     CustomerRow, VehicleRow, AdminRow, OrderRow, CallNames, Columns

-----------------------------------------------------------------------------
(***************************************************************************)
(* The seven ways a step can go, whichever use case takes it.              *)
(***************************************************************************)

UpdateTail(i, s) == (IF i \in Vehicles THEN <<"owner">> ELSE <<>>) \o s \o <<"update">>

\* The calls a new request has to make: a creation's end with its insert.
FirstCalls(i, c) ==
  \/ Known(i) /\ i \notin ServiceOrders /\ c = <<"load">>
  \/ Fresh(i) /\ i \in ServiceOrders /\ c = <<"customer", "vehicle", "insert">>
  \/ Fresh(i) /\ i \in Vehicles /\ \E s \in Seq(Columns) : c = <<"owner">> \o s \o <<"insert">>
  \/ Fresh(i) /\ i \in Customers \cup Admins /\ \E s \in Seq(Columns) : c = s \o <<"insert">>

Asks(t) ==
  \E i \in Ids : \E r \in RowsOf(i), c \in Seq(CallNames) :
    FirstCalls(i, c) /\ Receive(t, i, r, c)

Still(t, c) ==
  /\ ~Idle(t)
  /\ Turn(t, request[t].on, request[t].row, c)
  /\ UNCHANGED <<rows, written, received>>

Loads(t) ==
  /\ Calls(t, "load")
  /\ UNCHANGED answer
  /\ \E s \in Seq(Columns) : Still(t, UpdateTail(request[t].on, s))

\* A check passes: what it looked for is in the tables now.
Passes(t) ==
  /\ Still(t, Tail(request[t].calls))
  /\ UNCHANGED answer
  /\ Head(request[t].calls) \in Columns \cup {"owner", "customer", "vehicle"}
  /\ Calls(t, "owner") => HasRow(request[t].row.owner)
  /\ Calls(t, "customer") =>
       HasRow(request[t].row.customer) /\ rows[request[t].row.customer].active
  /\ Calls(t, "vehicle") =>
       /\ HasRow(request[t].row.vehicle)
       /\ rows[request[t].row.vehicle].owner = request[t].row.customer

\* Why a request may end without writing...
Reason(t, how) ==
  \/ Taken(request[t].on, UniqueColumns(request[t].on, request[t].row))
  \/ Calls(t, "customer") \/ Calls(t, "vehicle")
  \/ /\ how \notin {"refused", "error"}
     /\ \/ (Calls(t, "load") \/ Calls(t, "update")) /\ ~HasRow(request[t].on)
        \/ Calls(t, "owner") /\ ~HasRow(request[t].row.owner)

\* ...and that it ends only for such a reason.
Ends(t, how) ==
  /\ Still(t, <<>>)
  /\ answer' = [answer EXCEPT ![t] = how]
  /\ Reason(t, how)

Writes(t) ==
  /\ Calls(t, "insert") \/ (Calls(t, "update") /\ HasRow(request[t].on))
  /\ request[t].on \in Ids
  /\ ~Taken(request[t].on, UniqueColumns(request[t].on, request[t].row))
  /\ Turn(t, request[t].on, request[t].row, <<>>)
  /\ answer' = [answer EXCEPT ![t] = "done"]
  /\ Write(request[t].on, request[t].row)
  /\ UNCHANGED received

Removes(t) ==
  \E i \in Ids, how \in Answers \ {"refused", "error"} :
    /\ rows' = [rows EXCEPT ![i] = NoRow]
    /\ answer' = [answer EXCEPT ![t] = how]
    /\ UNCHANGED <<written, request>>
    /\ received' = received + 1

Step(t) ==
  \/ Asks(t) \/ Loads(t) \/ Passes(t) \/ Writes(t) \/ Removes(t)
  \/ \E how \in Answers : Ends(t, how)

\* No id belongs to two tables, so each has the rows of its own.
LEMMA TablesApart ==
  /\ \A i \in Customers : RowsOf(i) = CustomerRow /\ i \in Ids /\ i \notin ServiceOrders
  /\ \A i \in Vehicles : RowsOf(i) = VehicleRow /\ i \in Ids /\ i \notin ServiceOrders
  /\ \A i \in Admins : RowsOf(i) = AdminRow /\ i \in Ids /\ i \notin ServiceOrders
  /\ \A i \in ServiceOrders : RowsOf(i) = OrderRow /\ i \in Ids
<1>1. ASSUME NEW i \in Customers
      PROVE  i \notin Vehicles /\ i \notin Admins /\ i \notin ServiceOrders /\ i \in Ids
  BY RegistryConstants DEF Ids
<1>2. ASSUME NEW i \in Vehicles
      PROVE  i \notin Customers /\ i \notin Admins /\ i \notin ServiceOrders /\ i \in Ids
  BY RegistryConstants DEF Ids
<1>3. ASSUME NEW i \in Admins
      PROVE  i \notin Customers /\ i \notin Vehicles /\ i \notin ServiceOrders /\ i \in Ids
  BY RegistryConstants DEF Ids
<1>4. ASSUME NEW i \in ServiceOrders
      PROVE  i \notin Customers /\ i \notin Vehicles /\ i \notin Admins /\ i \in Ids
  BY RegistryConstants DEF Ids
<1>5. ASSUME NEW i \in Customers PROVE RowsOf(i) = CustomerRow
  BY <1>1, Zenon DEF RowsOf
<1>6. ASSUME NEW i \in Vehicles PROVE RowsOf(i) = VehicleRow
  BY <1>2, Zenon DEF RowsOf
<1>7. ASSUME NEW i \in Admins PROVE RowsOf(i) = AdminRow
  BY <1>3, Zenon DEF RowsOf
<1>8. ASSUME NEW i \in ServiceOrders PROVE RowsOf(i) = OrderRow
  BY <1>4, Zenon DEF RowsOf
<1> QED
  BY <1>1, <1>2, <1>3, <1>4, <1>5, <1>6, <1>7, <1>8

\* The calls a use case starts with are calls.
LEMMA FirstCallsAreCalls ==
  ASSUME NEW i, NEW c, FirstCalls(i, c)
  PROVE  c \in Seq(CallNames)
<1>1. /\ <<"load">> \in Seq(CallNames) /\ <<"owner">> \in Seq(CallNames)
      /\ <<"insert">> \in Seq(CallNames)
      /\ <<"customer", "vehicle", "insert">> \in Seq(CallNames)
  BY DEF CallNames
<1>2. ASSUME NEW s \in Seq(Columns)
      PROVE  /\ s \o <<"insert">> \in Seq(CallNames)
             /\ <<"owner">> \o s \o <<"insert">> \in Seq(CallNames)
  <2>1. s \in Seq(CallNames)
    BY FindsAreCalls
  <2> QED
    BY <1>1, <2>1
<1> QED
  BY <1>1, <1>2, Zenon DEF FirstCalls

LEMMA UpdateTailIsCalls ==
  ASSUME NEW i, NEW s \in Seq(Columns)
  PROVE  UpdateTail(i, s) \in Seq(CallNames)
<1>1. <<"owner">> \in Seq(CallNames) /\ <<>> \in Seq(CallNames)
      /\ <<"update">> \in Seq(CallNames)
  BY DEF CallNames
<1> QED
  BY <1>1, FindsAreCalls DEF UpdateTail

LEMMA RequestsAreSteps ==
  ASSUME TypeInv, NEW t \in Threads, Requests(t)
  PROVE  Step(t)
<1> SUFFICES ASSUME ~Removes(t) PROVE Asks(t)
  BY DEF Step
<1>1. ASSUME NEW i \in Ids, NEW r \in RowsOf(i), NEW c, FirstCalls(i, c), Receive(t, i, r, c)
      PROVE  Asks(t)
  BY <1>1, FirstCallsAreCalls DEF Asks
<1>2. CASE CreateCustomer(t)
  <2>1. PICK i \in Customers, r \in CustomerRow :
          Fresh(i) /\ Receive(t, i, r, LookUps(UniqueColumns(i, r)) \o <<"insert">>)
    BY <1>2 DEF CreateCustomer
  <2>2. FirstCalls(i, LookUps(UniqueColumns(i, r)) \o <<"insert">>)
    BY <2>1, LookUpsAreFinds DEF FirstCalls
  <2>3. i \in Ids /\ r \in RowsOf(i)
    BY TablesApart
  <2> QED
    BY <1>1, <2>1, <2>2, <2>3
<1>3. CASE CreateVehicle(t)
  <2>1. PICK i \in Vehicles, r \in VehicleRow :
          Fresh(i) /\ Receive(t, i, r, <<"owner">> \o LookUps(UniqueColumns(i, r)) \o <<"insert">>)
    BY <1>3 DEF CreateVehicle
  <2>2. FirstCalls(i, <<"owner">> \o LookUps(UniqueColumns(i, r)) \o <<"insert">>)
    BY <2>1, LookUpsAreFinds DEF FirstCalls
  <2>3. i \in Ids /\ r \in RowsOf(i)
    BY TablesApart
  <2> QED
    BY <1>1, <2>1, <2>2, <2>3
<1>4. CASE RegisterAdmin(t)
  <2>1. PICK i \in Admins, r \in AdminRow :
          Fresh(i) /\ Receive(t, i, r, LookUps(UniqueColumns(i, r)) \o <<"insert">>)
    BY <1>4 DEF RegisterAdmin
  <2>2. FirstCalls(i, LookUps(UniqueColumns(i, r)) \o <<"insert">>)
    BY <2>1, LookUpsAreFinds DEF FirstCalls
  <2>3. i \in Ids /\ r \in RowsOf(i)
    BY TablesApart
  <2> QED
    BY <1>1, <2>1, <2>2, <2>3
<1>5. CASE OpenOrder(t)
  <2>1. PICK i \in ServiceOrders, r \in OrderRow :
          Fresh(i) /\ Receive(t, i, r, <<"customer", "vehicle", "insert">>)
    BY <1>5 DEF OpenOrder
  <2>2. FirstCalls(i, <<"customer", "vehicle", "insert">>)
    BY <2>1 DEF FirstCalls
  <2>3. i \in Ids /\ r \in RowsOf(i)
    BY TablesApart
  <2> QED
    BY <1>1, <2>1, <2>2, <2>3
<1>6. CASE UpdateCustomer(t)
  <2>1. PICK i \in Customers, r \in CustomerRow : Known(i) /\ Receive(t, i, r, <<"load">>)
    BY <1>6 DEF UpdateCustomer
  <2>2. i \in Ids /\ i \notin ServiceOrders
    BY TablesApart
  <2>3. r \in RowsOf(i) /\ FirstCalls(i, <<"load">>)
    BY <2>1, <2>2, TablesApart DEF FirstCalls
  <2> QED
    BY <1>1, <2>1, <2>2, <2>3
<1>7. CASE UpdateVehicle(t)
  <2>1. PICK i \in Vehicles, r \in VehicleRow : Known(i) /\ Receive(t, i, r, <<"load">>)
    BY <1>7 DEF UpdateVehicle
  <2>2. i \in Ids /\ i \notin ServiceOrders
    BY TablesApart
  <2>3. r \in RowsOf(i) /\ FirstCalls(i, <<"load">>)
    BY <2>1, <2>2, TablesApart DEF FirstCalls
  <2> QED
    BY <1>1, <2>1, <2>2, <2>3
<1>8. ASSUME NEW ids \in SUBSET Ids, Delete(t, ids) PROVE FALSE
  BY <1>8 DEF Delete, Removes, Answers
<1> QED
  BY <1>2, <1>3, <1>4, <1>5, <1>6, <1>7, <1>8
     DEF Requests, DeleteCustomer, DeleteVehicle, Ids

\* A request with calls left and what its next call is.
LEMMA NextCall ==
  ASSUME TypeInv, NEW t \in Threads, ~Idle(t)
  PROVE  /\ request[t].calls \in Seq(CallNames) /\ request[t].calls # <<>>
         /\ Head(request[t].calls) \in CallNames
         /\ Tail(request[t].calls) \in Seq(CallNames)
         /\ request[t].on \in Ids /\ request[t].row \in RowsOf(request[t].on)
<1>1. request[t].calls \in Seq(CallNames)
  BY DEF TypeInv, RequestsTyped, RequestType
<1> QED
  BY <1>1 DEF TypeInv, RequestsTyped, Idle

LEMMA FinishEnds ==
  ASSUME TypeInv, NEW t \in Threads, NEW how \in Answers, ~Idle(t), Finish(t, how),
         UNCHANGED <<rows, written, received>>, Reason(t, how)
  PROVE  Ends(t, how)
BY FinishTurns DEF Ends, Still, Finish

LEMMA ContinuePasses ==
  ASSUME TypeInv, NEW t \in Threads, NEW c, Calls(t, c), c \in Columns \cup {"owner"},
         Continue(t, Tail(request[t].calls)), UNCHANGED <<rows, written, received>>,
         c = "owner" => HasRow(request[t].row.owner)
  PROVE  Passes(t)
<1>1. ~Idle(t) /\ Head(request[t].calls) = c
  BY DEF Calls
<1>2. c # "customer" /\ c # "vehicle"
  BY DEF Columns
<1> QED
  BY <1>1, <1>2, ContinueTurns DEF Passes, Still, Calls

LEMMA WriteWrites ==
  ASSUME TypeInv, NEW t \in Threads, request[t].on \in Ids,
         Calls(t, "insert") \/ (Calls(t, "update") /\ HasRow(request[t].on)),
         ~Taken(request[t].on, UniqueColumns(request[t].on, request[t].row)),
         Finish(t, "done"), Write(request[t].on, request[t].row), UNCHANGED received
  PROVE  Writes(t)
BY FinishTurns DEF Writes, Finish, Answers

LEMMA LoadIsStep ==
  ASSUME TypeInv, NEW t \in Threads, Load(t)
  PROVE  Step(t)
<1> DEFINE changed == UniqueColumns(request[t].on, request[t].row)
                        \ UniqueColumns(request[t].on, rows[request[t].on])
           c == UpdateTail(request[t].on, LookUps(changed))
<1>1. ~Idle(t) /\ UNCHANGED <<rows, written, received>> /\ Calls(t, "load")
  BY DEF Load, Calls
<1>2. CASE HasRow(request[t].on)
  <2>1. Continue(t, c)
    BY <1>2 DEF Load, UpdateTail
  <2>2. Turn(t, request[t].on, request[t].row, c) /\ UNCHANGED answer
    BY <2>1, ContinueTurns
  <2> QED
    BY <1>1, <2>2, LookUpsAreFinds DEF Step, Loads, Still
<1>3. CASE ~HasRow(request[t].on)
  <2>1. Finish(t, "missing") /\ "missing" \in Answers
    BY <1>3 DEF Load, Answers
  <2>2. Ends(t, "missing")
    BY <1>1, <1>3, <2>1, FinishEnds DEF Reason
  <2> QED
    BY <2>1, <2>2 DEF Step
<1> QED
  BY <1>2, <1>3

LEMMA GetOwnerIsStep ==
  ASSUME TypeInv, NEW t \in Threads, GetOwner(t)
  PROVE  Step(t)
<1>1. ~Idle(t) /\ UNCHANGED <<rows, written, received>> /\ Calls(t, "owner")
  BY DEF GetOwner, Calls
<1>2. CASE HasRow(request[t].row.owner)
  BY <1>1, <1>2, ContinuePasses DEF GetOwner, Step
<1>3. CASE ~HasRow(request[t].row.owner)
  <2>1. Finish(t, "missing") /\ "missing" \in Answers
    BY <1>3 DEF GetOwner, Answers
  <2> QED
    BY <1>1, <1>3, <2>1, FinishEnds DEF Step, Reason
<1> QED
  BY <1>2, <1>3

LEMMA FindIsStep ==
  ASSUME TypeInv, NEW t \in Threads, NEW column \in Columns, Find(t, column)
  PROVE  Step(t)
<1> DEFINE mine == {k \in UniqueColumns(request[t].on, request[t].row) : k[1] = column}
<1>1. ~Idle(t) /\ UNCHANGED <<rows, written, received>> /\ Calls(t, column)
  BY DEF Find, Calls
<1>2. CASE Taken(request[t].on, mine)
  <2>1. Finish(t, "refused") /\ "refused" \in Answers
    BY <1>2 DEF Find, Answers
  <2>2. Taken(request[t].on, UniqueColumns(request[t].on, request[t].row))
    BY <1>2 DEF Taken
  <2> QED
    BY <1>1, <2>1, <2>2, FinishEnds DEF Step, Reason
<1>3. CASE ~Taken(request[t].on, mine)
  <2>1. Continue(t, Tail(request[t].calls)) /\ column # "owner"
    BY <1>3 DEF Find, Columns
  <2> QED
    BY <1>1, <2>1, ContinuePasses DEF Step
<1> QED
  BY <1>2, <1>3

LEMMA CheckCustomerIsStep ==
  ASSUME TypeInv, NEW t \in Threads, CheckCustomer(t)
  PROVE  Step(t)
<1> DEFINE c == request[t].row.customer
<1>1. ~Idle(t) /\ UNCHANGED <<rows, written, received>> /\ Calls(t, "customer")
  BY Zenon DEF CheckCustomer, Calls
<1>2. CASE ~HasRow(c)
  <2>1. Finish(t, "missing")
    BY <1>2, Zenon DEF CheckCustomer
  <2> QED
    BY <1>1, <2>1, FinishEnds DEF Step, Reason, Answers
<1>3. CASE HasRow(c) /\ ~rows[c].active
  <2>1. Finish(t, "refused")
    BY <1>3, Zenon DEF CheckCustomer
  <2> QED
    BY <1>1, <2>1, FinishEnds DEF Step, Reason, Answers
<1>4. CASE HasRow(c) /\ rows[c].active
  <2>1. Continue(t, Tail(request[t].calls))
    BY <1>4, Zenon DEF CheckCustomer
  <2>2. Turn(t, request[t].on, request[t].row, Tail(request[t].calls)) /\ UNCHANGED answer
    BY <2>1, ContinueTurns
  <2> QED
    BY <1>1, <1>4, <2>2 DEF Step, Passes, Still, Calls
<1> QED
  BY <1>2, <1>3, <1>4

LEMMA CheckVehicleIsStep ==
  ASSUME TypeInv, NEW t \in Threads, CheckVehicle(t)
  PROVE  Step(t)
<1> DEFINE v == request[t].row.vehicle
           own == rows[v].owner = request[t].row.customer
<1>1. ~Idle(t) /\ UNCHANGED <<rows, written, received>> /\ Calls(t, "vehicle")
  BY Zenon DEF CheckVehicle, Calls
<1>2. CASE ~HasRow(v)
  <2>1. Finish(t, "missing")
    BY <1>2, Zenon DEF CheckVehicle
  <2> QED
    BY <1>1, <2>1, FinishEnds DEF Step, Reason, Answers
<1>3. CASE HasRow(v) /\ ~own
  <2>1. Finish(t, "refused")
    BY <1>3, Zenon DEF CheckVehicle
  <2> QED
    BY <1>1, <2>1, FinishEnds DEF Step, Reason, Answers
<1>4. CASE HasRow(v) /\ own
  <2>1. Continue(t, Tail(request[t].calls))
    BY <1>4, Zenon DEF CheckVehicle
  <2>2. Turn(t, request[t].on, request[t].row, Tail(request[t].calls)) /\ UNCHANGED answer
    BY <2>1, ContinueTurns
  <2> QED
    BY <1>1, <1>4, <2>2 DEF Step, Passes, Still, Calls
<1> QED
  BY <1>2, <1>3, <1>4

LEMMA InsertIsStep ==
  ASSUME TypeInv, NEW t \in Threads, NEW ids \in SUBSET Ids, Insert(t, ids)
  PROVE  Step(t)
<1> DEFINE taken == Taken(request[t].on, UniqueColumns(request[t].on, request[t].row))
<1>1. ~Idle(t) /\ Calls(t, "insert") /\ request[t].on \in Ids /\ UNCHANGED received
  BY DEF Insert, Calls
<1>2. CASE taken
  <2>1. Finish(t, "error") /\ UNCHANGED <<rows, written>>
    BY <1>2 DEF Insert
  <2> QED
    BY <1>1, <1>2, <2>1, FinishEnds DEF Step, Reason, Answers
<1>3. CASE ~taken
  <2>1. Finish(t, "done") /\ Write(request[t].on, request[t].row)
    BY <1>3 DEF Insert
  <2> QED
    BY <1>1, <1>3, <2>1, WriteWrites DEF Step
<1> QED
  BY <1>2, <1>3

LEMMA UpdateIsStep ==
  ASSUME TypeInv, NEW t \in Threads, NEW ids \in SUBSET Ids, Update(t, ids)
  PROVE  Step(t)
<1> DEFINE taken == Taken(request[t].on, UniqueColumns(request[t].on, request[t].row))
           there == HasRow(request[t].on)
<1>1. ~Idle(t) /\ Calls(t, "update") /\ request[t].on \in Ids /\ UNCHANGED received
  <2>1. Calls(t, "update") /\ request[t].on \in ids /\ UNCHANGED received
    BY Zenon DEF Update
  <2> QED
    BY <2>1 DEF Calls
<1>2. CASE ~there
  <2>1. Finish(t, "done") /\ UNCHANGED <<rows, written>>
    BY <1>2, Zenon DEF Update
  <2> QED
    BY <1>1, <1>2, <2>1, FinishEnds DEF Step, Reason, Answers
<1>3. CASE there /\ taken
  <2>1. Finish(t, "error") /\ UNCHANGED <<rows, written>>
    BY <1>3, Zenon DEF Update
  <2> QED
    BY <1>1, <1>3, <2>1, FinishEnds DEF Step, Reason, Answers
<1>4. CASE there /\ ~taken
  <2>1. Finish(t, "done") /\ Write(request[t].on, request[t].row)
    BY <1>4, Zenon DEF Update
  <2> QED
    BY <1>1, <1>4, <2>1, WriteWrites DEF Step
<1> QED
  BY <1>2, <1>3, <1>4

\* Every step of the registry is one of the seven.
LEMMA EveryStep ==
  ASSUME TypeInv, [Next]_vars
  PROVE  UNCHANGED vars \/ \E t \in Threads : Step(t)
<1>1. ASSUME NEW t \in Threads, RepositoryCalls(t)
      PROVE  Step(t)
  <2>1. \A c \in {"cpf_cnpj", "email", "plate", "login"} : Find(t, c) => Step(t)
    BY FindIsStep DEF Columns
  <2>2. \A ids \in {Customers, Vehicles, Admins, ServiceOrders} :
          (Insert(t, ids) \/ Update(t, ids)) => Step(t)
    BY InsertIsStep, UpdateIsStep DEF Ids
  <2> QED
    BY <1>1, <2>1, <2>2, LoadIsStep, GetOwnerIsStep, CheckCustomerIsStep, CheckVehicleIsStep
       DEF RepositoryCalls, FindCustomerByCpfCnpj, FindCustomerByEmail, FindVehicleByPlate,
           FindAdminByEmail, SaveCustomer, SaveVehicle, SaveAdmin, SaveOrder,
           UpdateCustomerRow, UpdateVehicleRow
<1> QED
  BY <1>1, RequestsAreSteps DEF Next

\* RowsOf and the row types are the same in the next state: they name constants.
LEMMA WriteTypes ==
  ASSUME TypeInv, NEW i \in Ids, NEW r \in RowsOf(i), Write(i, r)
  PROVE  TablesTyped'
<1>1. /\ DOMAIN rows' = Ids
      /\ \A j \in Ids : rows'[j] = IF j = i THEN r ELSE rows[j]
      /\ written' = written \cup {<<i, r>>}
  BY DEF TypeInv, TablesTyped, Write
<1>2. \A j \in Ids : rows'[j] \in RowsOf(j) \cup {NoRow}
  BY <1>1 DEF TypeInv, TablesTyped
<1>3. \A w \in written' : w[1] \in Ids /\ w[2] \in RowsOf(w[1])
  BY <1>1 DEF TypeInv, TablesTyped
<1> QED
  BY <1>1, <1>2, <1>3 DEF TablesTyped

LEMMA TypeStep ==
  ASSUME TypeInv, NEW t \in Threads, Step(t)
  PROVE  TypeInv'
<1> DEFINE on == request[t].on
           row == request[t].row
<1>0. <<>> \in Seq(CallNames)
  OBVIOUS
<1>1. ASSUME NEW c \in Seq(CallNames), Still(t, c)
      PROVE  TablesTyped' /\ RequestsTyped' /\ received' \in Nat
  <2>1. on \in Ids /\ row \in RowsOf(on)
    BY <1>1, NextCall DEF Still
  <2>2. RequestsTyped'
    BY <1>1, <2>1, TurnTypes DEF Still
  <2> QED
    BY <1>1, <2>2 DEF Still, TypeInv, TablesTyped, CountersTyped
<1>2. CASE Asks(t)
  <2>1. PICK i \in Ids : \E r \in RowsOf(i), c \in Seq(CallNames) :
          FirstCalls(i, c) /\ Receive(t, i, r, c)
    BY <1>2 DEF Asks
  <2>2. PICK r \in RowsOf(i), c \in Seq(CallNames) : Receive(t, i, r, c)
    BY <2>1
  <2>3. RequestsTyped' /\ answer' \in [Threads -> Answers]
    BY <2>2, ReceiveTurns, TurnTypes
  <2>4. received' \in Nat /\ UNCHANGED <<rows, written>>
    BY <2>2 DEF Receive, TypeInv, CountersTyped
  <2> QED
    BY <2>3, <2>4 DEF TypeInv, TablesTyped, CountersTyped
<1>3. CASE Loads(t)
  BY <1>1, <1>3, UpdateTailIsCalls DEF Loads, TypeInv, CountersTyped
<1>4. CASE Passes(t)
  BY <1>1, <1>4, NextCall DEF Passes, Still, TypeInv, CountersTyped
<1>5. ASSUME NEW how \in Answers, Ends(t, how)
      PROVE  TypeInv'
  <2>1. answer' \in [Threads -> Answers]
    BY <1>5 DEF Ends, TypeInv, CountersTyped
  <2>2. Still(t, <<>>)
    BY <1>5 DEF Ends
  <2> QED
    BY <1>0, <1>1, <2>1, <2>2 DEF TypeInv, CountersTyped
<1>6. CASE Writes(t)
  <2>1. ~Idle(t) /\ on \in Ids
    BY <1>6 DEF Writes, Calls
  <2>2. row \in RowsOf(on)
    BY <2>1, NextCall
  <2>3. TablesTyped'
    BY <1>6, <2>1, <2>2, WriteTypes DEF Writes
  <2>4. RequestsTyped'
    BY <1>0, <1>6, <2>1, <2>2, TurnTypes DEF Writes
  <2> QED
    BY <1>6, <2>3, <2>4 DEF Writes, TypeInv, CountersTyped, Answers
<1>7. CASE Removes(t)
  <2>1. PICK i \in Ids, how \in Answers \ {"refused", "error"} :
          rows' = [rows EXCEPT ![i] = NoRow] /\ answer' = [answer EXCEPT ![t] = how]
    BY <1>7 DEF Removes
  <2>2. UNCHANGED <<written, request>> /\ received' = received + 1
    BY <1>7 DEF Removes
  <2>3. TablesTyped'
    BY <2>1, <2>2 DEF TypeInv, TablesTyped
  <2>4. RequestsTyped'
    BY <2>2 DEF TypeInv, RequestsTyped, Idle
  <2> QED
    BY <2>1, <2>2, <2>3, <2>4 DEF TypeInv, CountersTyped
<1> QED
  BY <1>2, <1>3, <1>4, <1>5, <1>6, <1>7 DEF Step

LEMMA TypeNext ==
  ASSUME TypeInv, [Next]_vars
  PROVE  TypeInv'
<1>1. CASE UNCHANGED vars
  BY <1>1 DEF vars, TypeInv, TablesTyped, RequestsTyped, CountersTyped, Idle
<1> QED
  BY <1>1, EveryStep, TypeStep

LEMMA TypeStart == Init => TypeInv
<1> SUFFICES ASSUME Init PROVE TypeInv
  OBVIOUS
<1>1. TablesTyped
  BY DEF Init, TablesTyped
<1>2. [on |-> Unknown, row |-> NoRow, calls |-> <<>>] \in RequestType
  BY DEF RequestType, AllRows
<1>3. RequestsTyped
  BY <1>2 DEF Init, RequestsTyped, Idle
<1> QED
  BY <1>1, <1>3 DEF Init, TypeInv, CountersTyped, Answers

LEMMA TypesHold == Spec => []TypeInv
BY TypeStart, TypeNext, PTL DEF Spec

\* Each table holds rows of its own kind and each thread a request it can carry
\* out, for any number of ids, values and threads.
THEOREM RegistryTypes == Spec => []TypeOK
<1>1. TypeInv => TypeOK
  BY DEF TypeInv, TablesTyped, RequestsTyped, CountersTyped, Answers, TypeOK
<1> QED
  BY <1>1, TypesHold, PTL

-----------------------------------------------------------------------------
(***************************************************************************)
(* Owners, orders and refusals: what a request has passed was true when it *)
(* passed it, and the written rows remember it.                            *)
(***************************************************************************)

Registered(W, c) == \E w \in W : w[1] = c

WasActive(W, c) == \E w \in W : w[1] = c /\ w[2].active

WasOwned(W, v, c) == \E w \in W : w[1] = v /\ w[2].owner = c

RowsWritten == \A i \in Ids : HasRow(i) => <<i, rows[i]>> \in written

OrderCalls == <<"customer", "vehicle", "insert">>

PlainCalls == CallNames \ {"customer", "vehicle"}

\* The calls an order still makes, and what the ones it has made have shown.
OrderPath(W, r, c) ==
  \/ c = OrderCalls
  \/ c = Tail(OrderCalls) /\ WasActive(W, r.customer)
  \/ c = Tail(Tail(OrderCalls)) /\ WasActive(W, r.customer) /\ WasOwned(W, r.vehicle, r.customer)

PathInv ==
  \A t \in Threads : ~Idle(t) =>
    IF request[t].on \in ServiceOrders
      THEN OrderPath(written, request[t].row, request[t].calls)
      ELSE request[t].calls \in Seq(PlainCalls)

OwnerPath ==
  \A t \in Threads : ~Idle(t) /\ request[t].on \in Vehicles =>
    Head(request[t].calls) \in {"owner", "load"} \/ Registered(written, request[t].row.owner)

HistoryInv == TypeInv /\ RowsWritten /\ PathInv

LEMMA WrittenGrows ==
  ASSUME TypeInv, NEW t \in Threads, Step(t)
  PROVE  written \subseteq written'
BY DEF Step, Asks, Receive, Loads, Passes, Ends, Still, Writes, Write, Removes

LEMMA RowsWrittenStep ==
  ASSUME TypeInv, RowsWritten, NEW t \in Threads, Step(t)
  PROVE  RowsWritten'
<1>1. CASE UNCHANGED <<rows, written>>
  BY <1>1 DEF RowsWritten, HasRow
<1>2. CASE Writes(t)
  BY <1>2 DEF Writes, Write, RowsWritten, HasRow, TypeInv, TablesTyped
<1>3. CASE Removes(t)
  BY <1>3 DEF Removes, RowsWritten, HasRow, TypeInv, TablesTyped
<1> QED
  BY <1>1, <1>2, <1>3 DEF Step, Asks, Receive, Loads, Passes, Ends, Still

\* What has been written stays written, so what a request has passed stays true.
LEMMA PastStays ==
  ASSUME TypeInv, NEW t \in Threads, Step(t)
  PROVE  /\ \A c : Registered(written, c) => Registered(written', c)
         /\ \A r, c : OrderPath(written, r, c) => OrderPath(written', r, c)
BY WrittenGrows DEF Registered, OrderPath, WasActive, WasOwned

LEMMA PathStep ==
  ASSUME HistoryInv, NEW t \in Threads, Step(t)
  PROVE  PathInv'
<1> USE DEF HistoryInv
<1> DEFINE on == request[t].on
           row == request[t].row
           calls == request[t].calls
           Good(i, r, c) == IF i \in ServiceOrders THEN OrderPath(written', r, c)
                                                   ELSE c \in Seq(PlainCalls)
<1>1. \A r, c : OrderPath(written, r, c) => OrderPath(written', r, c)
  BY PastStays
<1>2. ASSUME NEW i, NEW r, NEW c, Turn(t, i, r, c), c = <<>> \/ Good(i, r, c)
      PROVE  PathInv'
  <2>1. \A u \in Threads : u # t /\ request'[u].calls # <<>> =>
          Good(request'[u].on, request'[u].row, request'[u].calls)
    BY <1>1, <1>2, AfterTurn DEF PathInv, Idle
  <2>2. request'[t].calls # <<>> => Good(request'[t].on, request'[t].row, request'[t].calls)
    BY <1>2, AfterTurn
  <2> QED
    BY <2>1, <2>2 DEF PathInv, Idle
<1>3. Columns \subseteq PlainCalls /\ "owner" \in PlainCalls /\ "update" \in PlainCalls
      /\ "insert" \in PlainCalls /\ "load" \in PlainCalls
  BY DEF PlainCalls, CallNames, Columns
<1>4. /\ \A s \in Seq(Columns) : s \in Seq(PlainCalls)
      /\ <<"load">> \in Seq(PlainCalls) /\ <<"owner">> \in Seq(PlainCalls)
      /\ <<"update">> \in Seq(PlainCalls) /\ <<"insert">> \in Seq(PlainCalls)
      /\ <<>> \in Seq(PlainCalls)
  BY <1>3
<1>5. CASE Asks(t)
  <2>1. PICK i \in Ids : \E r \in RowsOf(i), c \in Seq(CallNames) :
          FirstCalls(i, c) /\ Receive(t, i, r, c)
    BY <1>5 DEF Asks
  <2>2. PICK r \in RowsOf(i), c \in Seq(CallNames) : FirstCalls(i, c) /\ Receive(t, i, r, c)
    BY <2>1
  <2>3. Turn(t, i, r, c)
    BY <2>2, ReceiveTurns
  <2>4. CASE i \in ServiceOrders
    <3>1. c = OrderCalls
      BY <2>2, <2>4, TablesApart DEF FirstCalls, OrderCalls
    <3> QED
      BY <1>2, <2>3, <2>4, <3>1 DEF OrderPath
  <2>5. CASE i \notin ServiceOrders
    <3>1. \A s \in Seq(Columns) : s \o <<"insert">> \in Seq(PlainCalls)
                                  /\ <<"owner">> \o s \o <<"insert">> \in Seq(PlainCalls)
      BY <1>4
    <3>2. c \in Seq(PlainCalls)
      BY <1>4, <2>2, <2>5, <3>1, Zenon DEF FirstCalls
    <3> QED
      BY <1>2, <2>3, <2>5, <3>2
  <2> QED
    BY <2>4, <2>5
<1>6. CASE Loads(t)
  <2>1. PICK s \in Seq(Columns) : Turn(t, on, row, UpdateTail(on, s))
    BY <1>6 DEF Loads, Still
  <2>2. UpdateTail(on, s) \in Seq(PlainCalls)
    BY <1>4 DEF UpdateTail
  <2>3. on \notin ServiceOrders
    <3>1. ~Idle(t) /\ Head(calls) = "load"
      BY <1>6 DEF Loads, Calls
    <3>2. on \in ServiceOrders => Head(calls) # "load"
      BY <3>1 DEF PathInv, OrderPath, OrderCalls
    <3> QED
      BY <3>1, <3>2
  <2> QED
    BY <1>2, <2>1, <2>2, <2>3
<1>7. CASE Passes(t)
  <2>1. ~Idle(t) /\ Turn(t, on, row, Tail(calls))
    BY <1>7 DEF Passes, Still
  <2>2. CASE on \notin ServiceOrders
    <3>1. calls \in Seq(PlainCalls) /\ calls # <<>>
      BY <2>1, <2>2 DEF PathInv, Idle
    <3>2. Tail(calls) \in Seq(PlainCalls)
      BY <3>1
    <3> QED
      BY <1>2, <2>1, <2>2, <3>2
  <2>3. CASE on \in ServiceOrders
    <3>1. OrderPath(written, row, calls)
      BY <2>1, <2>3 DEF PathInv
    <3>2. \A c \in {"customer", "vehicle"} : Head(calls) = c => Calls(t, c)
      BY <2>1 DEF Calls
    <3>3. CASE calls = OrderCalls
      <4>1. HasRow(row.customer) /\ rows[row.customer].active
        BY <1>7, <3>2, <3>3 DEF Passes, OrderCalls
      <4>2. WasActive(written, row.customer)
        BY <4>1 DEF RowsWritten, HasRow, WasActive
      <4>3. OrderPath(written, row, Tail(calls))
        BY <3>3, <4>2 DEF OrderPath
      <4> QED
        BY <1>1, <1>2, <2>1, <2>3, <4>3
    <3>4. CASE calls = Tail(OrderCalls) /\ WasActive(written, row.customer)
      <4>1. HasRow(row.vehicle) /\ rows[row.vehicle].owner = row.customer
        BY <1>7, <3>2, <3>4 DEF Passes, OrderCalls
      <4>2. WasOwned(written, row.vehicle, row.customer)
        BY <4>1 DEF RowsWritten, HasRow, WasOwned
      <4>3. OrderPath(written, row, Tail(calls))
        BY <3>4, <4>2 DEF OrderPath
      <4> QED
        BY <1>1, <1>2, <2>1, <2>3, <4>3
    <3>5. CASE calls = Tail(Tail(OrderCalls))
      <4>1. Tail(calls) = <<>>
        BY <3>5 DEF OrderCalls
      <4> QED
        BY <1>2, <2>1, <4>1
    <3> QED
      BY <3>1, <3>3, <3>4, <3>5 DEF OrderPath
  <2> QED
    BY <2>2, <2>3
<1>8. CASE Writes(t) \/ \E how \in Answers : Ends(t, how)
  BY <1>2, <1>8 DEF Writes, Ends, Still
<1>9. CASE Removes(t)
  <2>1. UNCHANGED request
    BY <1>9 DEF Removes
  <2> QED
    BY <1>1, <2>1 DEF PathInv, Idle
<1> QED
  BY <1>5, <1>6, <1>7, <1>8, <1>9 DEF Step

LEMMA HistoryHolds == Spec => []HistoryInv
<1>1. Init => HistoryInv
  BY TypeStart DEF Init, HistoryInv, RowsWritten, PathInv, HasRow, Idle
<1>2. HistoryInv /\ [Next]_vars => HistoryInv'
  <2> SUFFICES ASSUME HistoryInv, [Next]_vars PROVE HistoryInv'
    OBVIOUS
  <2>1. CASE UNCHANGED vars
    <3>1. UNCHANGED <<rows, written, request>>
      BY <2>1 DEF vars
    <3>2. TypeInv' /\ RowsWritten'
      BY <2>1, <3>1, TypeNext DEF HistoryInv, RowsWritten, HasRow
    <3>3. PathInv'
      BY <3>1 DEF HistoryInv, PathInv, Idle, OrderPath, WasActive, WasOwned
    <3> QED
      BY <3>2, <3>3 DEF HistoryInv
  <2>2. ASSUME NEW t \in Threads, Step(t) PROVE HistoryInv'
    BY <2>2, TypeStep, RowsWrittenStep, PathStep DEF HistoryInv
  <2> QED
    BY <2>1, <2>2, EveryStep DEF HistoryInv
<1> QED
  BY <1>1, <1>2, PTL DEF Spec

\* Orders: a row of the orders' table is written by a request that has passed
\* both checks, and by nothing else.
LEMMA OrdersStep ==
  ASSUME HistoryInv, OrdersWereValid, NEW t \in Threads, Step(t)
  PROVE  OrdersWereValid'
<1> USE DEF HistoryInv
<1>1. CASE UNCHANGED rows
  BY <1>1, WrittenGrows DEF OrdersWereValid, HasRow
<1>2. CASE Removes(t)
  BY <1>2, WrittenGrows DEF Removes, OrdersWereValid, HasRow, TypeInv, TablesTyped
<1>3. CASE Writes(t)
  <2> DEFINE on == request[t].on
             row == request[t].row
  <2>1. rows' = [rows EXCEPT ![on] = row] /\ DOMAIN rows = Ids /\ on \in Ids
    BY <1>3 DEF Writes, Write, TypeInv, TablesTyped
  <2>2. CASE on \notin ServiceOrders
    BY <2>1, <2>2, WrittenGrows DEF OrdersWereValid, HasRow
  <2>3. CASE on \in ServiceOrders
    <3>1. ~Idle(t) /\ Head(request[t].calls) \in {"insert", "update"}
      BY <1>3 DEF Writes, Calls
    <3>2. OrderPath(written, row, request[t].calls)
      BY <2>3, <3>1 DEF PathInv
    <3>3. WasActive(written, row.customer) /\ WasOwned(written, row.vehicle, row.customer)
      BY <3>1, <3>2 DEF OrderPath, OrderCalls
    <3> QED
      BY <2>1, <3>3, WrittenGrows DEF OrdersWereValid, HasRow, WasActive, WasOwned
  <2> QED
    BY <2>2, <2>3
<1> QED
  BY <1>1, <1>2, <1>3 DEF Step, Asks, Receive, Loads, Passes, Ends, Still

\* Every order names a customer whose row was active at some moment, and a vehicle whose
\* row named that customer at some, perhaps other, moment.  That each held when the
\* request looked is not claimed, nor that either holds now.
THEOREM OrdersWereChecked == Spec => []OrdersWereValid
<1>1. Init => OrdersWereValid
  BY DEF Init, OrdersWereValid, HasRow, Ids
<1>2. HistoryInv /\ OrdersWereValid /\ [Next]_vars => OrdersWereValid'
  <2> SUFFICES ASSUME HistoryInv, OrdersWereValid, [Next]_vars PROVE OrdersWereValid'
    OBVIOUS
  <2>1. CASE UNCHANGED vars
    BY <2>1 DEF vars, OrdersWereValid, HasRow
  <2> QED
    BY <2>1, EveryStep, OrdersStep DEF HistoryInv
<1> QED
  BY <1>1, <1>2, HistoryHolds, PTL DEF Spec

-----------------------------------------------------------------------------
OwnersInv == OwnerPath /\ OwnersWereCustomers

LEMMA OwnerPathStep ==
  ASSUME HistoryInv, OwnerPath, NEW t \in Threads, Step(t)
  PROVE  OwnerPath'
<1> USE DEF HistoryInv
<1> DEFINE on == request[t].on
           row == request[t].row
           Good(i, r, c) == i \in Vehicles =>
             Head(c) \in {"owner", "load"} \/ Registered(written', r.owner)
<1>1. \A c : Registered(written, c) => Registered(written', c)
  BY PastStays
<1>2. ASSUME NEW i, NEW r, NEW c, Turn(t, i, r, c), c = <<>> \/ Good(i, r, c)
      PROVE  OwnerPath'
  <2>1. \A u \in Threads : u # t /\ request'[u].calls # <<>> =>
          Good(request'[u].on, request'[u].row, request'[u].calls)
    BY <1>1, <1>2, AfterTurn DEF OwnerPath, Idle
  <2>2. request'[t].calls # <<>> => Good(request'[t].on, request'[t].row, request'[t].calls)
    BY <1>2, AfterTurn
  <2> QED
    BY <2>1, <2>2 DEF OwnerPath, Idle
<1>3. \A s \in Seq(Columns), e \in {"insert", "update"} : Head(<<"owner">> \o s \o <<e>>) = "owner"
  OBVIOUS
<1>4. CASE Asks(t)
  <2>1. PICK i \in Ids : \E r \in RowsOf(i), c \in Seq(CallNames) :
          FirstCalls(i, c) /\ Receive(t, i, r, c)
    BY <1>4 DEF Asks
  <2>2. PICK r \in RowsOf(i), c \in Seq(CallNames) : FirstCalls(i, c) /\ Receive(t, i, r, c)
    BY <2>1
  <2>3. i \in Vehicles => Head(c) \in {"owner", "load"}
    <3> SUFFICES ASSUME i \in Vehicles PROVE Head(c) \in {"owner", "load"}
      OBVIOUS
    <3>1. i \notin ServiceOrders /\ i \notin Customers \cup Admins
      BY RegistryConstants
    <3>2. c = <<"load">> \/ \E s \in Seq(Columns) : c = <<"owner">> \o s \o <<"insert">>
      BY <2>2, <3>1 DEF FirstCalls
    <3> QED
      BY <1>3, <3>2
  <2> QED
    BY <1>2, <2>2, <2>3, ReceiveTurns
<1>5. CASE Loads(t)
  <2>1. PICK s \in Seq(Columns) : Turn(t, on, row, UpdateTail(on, s))
    BY <1>5 DEF Loads, Still
  <2>2. on \in Vehicles => Head(UpdateTail(on, s)) = "owner"
    BY <1>3 DEF UpdateTail
  <2> QED
    BY <1>2, <2>1, <2>2
<1>6. CASE Passes(t)
  <2>1. ~Idle(t) /\ Turn(t, on, row, Tail(request[t].calls)) /\ Calls(t, Head(request[t].calls))
    BY <1>6 DEF Passes, Still, Calls
  <2>2. Head(request[t].calls) # "load"
    BY <1>6 DEF Passes, Columns
  <2>3. CASE Head(request[t].calls) = "owner"
    <3>1. HasRow(row.owner)
      BY <1>6, <2>1, <2>3 DEF Passes
    <3>2. Registered(written, row.owner)
      BY <3>1 DEF RowsWritten, HasRow, Registered
    <3> QED
      BY <1>1, <1>2, <2>1, <3>2
  <2>4. CASE Head(request[t].calls) # "owner"
    <3>1. on \in Vehicles => Registered(written, row.owner)
      BY <2>1, <2>2, <2>4 DEF OwnerPath
    <3> QED
      BY <1>1, <1>2, <2>1, <3>1
  <2> QED
    BY <2>3, <2>4
<1>7. CASE Writes(t) \/ \E how \in Answers : Ends(t, how)
  BY <1>2, <1>7 DEF Writes, Ends, Still
<1>8. CASE Removes(t)
  <2>1. UNCHANGED request
    BY <1>8 DEF Removes
  <2> QED
    BY <1>1, <2>1 DEF OwnerPath, Idle
<1> QED
  BY <1>4, <1>5, <1>6, <1>7, <1>8 DEF Step

LEMMA OwnersStep ==
  ASSUME HistoryInv, OwnersInv, NEW t \in Threads, Step(t)
  PROVE  OwnersWereCustomers'
<1> USE DEF HistoryInv, OwnersInv
<1>1. CASE UNCHANGED rows
  BY <1>1, WrittenGrows DEF OwnersWereCustomers, HasRow
<1>2. CASE Removes(t)
  BY <1>2, WrittenGrows DEF Removes, OwnersWereCustomers, HasRow, TypeInv, TablesTyped
<1>3. CASE Writes(t)
  <2> DEFINE on == request[t].on
             row == request[t].row
  <2>1. rows' = [rows EXCEPT ![on] = row] /\ DOMAIN rows = Ids /\ on \in Ids
    BY <1>3 DEF Writes, Write, TypeInv, TablesTyped
  <2>2. on \in Vehicles => Registered(written, row.owner)
    BY <1>3 DEF Writes, Calls, OwnerPath
  <2> QED
    BY <2>1, <2>2, WrittenGrows DEF OwnersWereCustomers, HasRow, Registered
<1> QED
  BY <1>1, <1>2, <1>3 DEF Step, Asks, Receive, Loads, Passes, Ends, Still

\* Every vehicle names a customer that was registered at some moment, whether or not it
\* still was when the owner was looked up or written: no foreign key ties the tables.
THEOREM OwnersWereLookedUp == Spec => []OwnersWereCustomers
<1>1. Init => OwnersInv
  BY DEF Init, OwnersInv, OwnerPath, OwnersWereCustomers, HasRow, Ids, Idle
<1>2. HistoryInv /\ OwnersInv /\ [Next]_vars => OwnersInv'
  <2> SUFFICES ASSUME HistoryInv, OwnersInv, [Next]_vars PROVE OwnersInv'
    OBVIOUS
  <2>1. CASE UNCHANGED vars
    BY <2>1 DEF vars, OwnersInv, OwnerPath, OwnersWereCustomers, HasRow, Idle, Registered
  <2> QED
    BY <2>1, EveryStep, OwnerPathStep, OwnersStep DEF HistoryInv, OwnersInv
<1>3. OwnersInv => OwnersWereCustomers
  BY DEF OwnersInv
<1> QED
  BY <1>1, <1>2, <1>3, HistoryHolds, PTL DEF Spec

-----------------------------------------------------------------------------
\* Another row that was written at some time had one of these values.
Rival(W, i, r) ==
  \E w \in W : w[1] # i /\ UniqueColumns(w[1], w[2]) \cap UniqueColumns(i, r) # {}

Justified(W, q, a) ==
  a \in {"refused", "error"} /\ q.on \notin ServiceOrders => Rival(W, q.on, q.row)

LEMMA ConflictStep ==
  ASSUME HistoryInv, ConflictsAreReal, NEW t \in Threads, Step(t)
  PROVE  ConflictsAreReal'
<1> USE DEF HistoryInv
<1> DEFINE on == request[t].on
           row == request[t].row
<1>1. \A u \in Threads : Justified(written, request[u], answer[u])
  BY DEF ConflictsAreReal, Justified, Rival
<1>2. \A q, a : Justified(written, q, a) => Justified(written', q, a)
  BY WrittenGrows DEF Justified, Rival
<1>3. SUFFICES ASSUME NEW u \in Threads
               PROVE  Justified(written', request'[u], answer'[u])
  BY Zenon DEF ConflictsAreReal, Justified, Rival, UniqueColumns
<1>4. DOMAIN answer = Threads
  BY DEF TypeInv, CountersTyped
<1>5. CASE Asks(t)
  <2>1. PICK i, r, c : Receive(t, i, r, c)
    BY <1>5 DEF Asks
  <2>2. CASE u = t
    BY <2>1, <2>2, ReceiveTurns DEF Justified
  <2>3. CASE u # t
    BY <1>1, <1>2, <2>1, <2>3, ReceiveTurns, AfterTurn
  <2> QED
    BY <2>2, <2>3
<1>6. ASSUME NEW c, Still(t, c), UNCHANGED answer
      PROVE  Justified(written', request'[u], answer'[u])
  <2>1. request'[u].on = request[u].on /\ request'[u].row = request[u].row
    BY <1>6, AfterTurn DEF Still
  <2> QED
    BY <1>1, <1>2, <1>6, <2>1 DEF Justified
<1>7. CASE Loads(t) \/ Passes(t)
  BY <1>6, <1>7 DEF Loads, Passes
<1>8. ASSUME NEW how \in Answers, Ends(t, how)
      PROVE  Justified(written', request'[u], answer'[u])
  <2>1. request'[u].on = request[u].on /\ request'[u].row = request[u].row
    BY <1>8, AfterTurn DEF Ends, Still
  <2>2. CASE u # t
    BY <1>1, <1>2, <1>4, <1>8, <2>1, <2>2 DEF Justified, Ends
  <2>3. CASE u = t
    <3>1. answer'[t] = how /\ ~Idle(t)
      BY <1>4, <1>8 DEF Ends, Still
    <3>2. (Calls(t, "customer") \/ Calls(t, "vehicle")) => on \in ServiceOrders
      <4>1. request[t].calls \in Seq(PlainCalls) /\ request[t].calls # <<>>
              => Head(request[t].calls) \in PlainCalls
        OBVIOUS
      <4> QED
        BY <3>1, <4>1 DEF PathInv, PlainCalls, Calls, Idle
    <3>3. Taken(on, UniqueColumns(on, row)) => Rival(written, on, row)
      <4> SUFFICES ASSUME NEW j \in Ids \ {on}, HasRow(j),
                          UniqueColumns(j, rows[j]) \cap UniqueColumns(on, row) # {}
                   PROVE  Rival(written, on, row)
        BY Zenon DEF Taken
      <4>1. <<j, rows[j]>> \in written
        BY DEF RowsWritten
      <4> QED
        BY <4>1 DEF Rival
    <3>4. Justified(written, request[t], how)
      BY <1>8, <3>2, <3>3 DEF Ends, Reason, Justified
    <3> QED
      BY <1>2, <2>1, <2>3, <3>1, <3>4 DEF Justified
  <2> QED
    BY <2>2, <2>3
<1>9. CASE Writes(t)
  <2>1. answer' = [answer EXCEPT ![t] = "done"] /\ Turn(t, on, row, <<>>)
    BY <1>9 DEF Writes
  <2>2. request'[u].on = request[u].on /\ request'[u].row = request[u].row
    BY <2>1, AfterTurn
  <2> QED
    BY <1>1, <1>2, <1>4, <2>1, <2>2 DEF Justified
<1>10. CASE Removes(t)
  <2>1. PICK how \in Answers \ {"refused", "error"} :
          answer' = [answer EXCEPT ![t] = how] /\ UNCHANGED request
    BY <1>10 DEF Removes
  <2> QED
    BY <1>1, <1>2, <1>4, <2>1 DEF Justified
<1> QED
  BY <1>5, <1>7, <1>8, <1>9, <1>10 DEF Step

\* A request about a customer, a vehicle or an account that is refused, by a
\* look-up or by the table, met another row with its value.
THEOREM RefusalsAreReal == Spec => []ConflictsAreReal
<1>1. Init => ConflictsAreReal
  BY DEF Init, ConflictsAreReal
<1>2. HistoryInv /\ ConflictsAreReal /\ [Next]_vars => ConflictsAreReal'
  <2> SUFFICES ASSUME HistoryInv, ConflictsAreReal, [Next]_vars PROVE ConflictsAreReal'
    OBVIOUS
  <2>1. CASE UNCHANGED vars
    BY <2>1 DEF vars, ConflictsAreReal, UniqueColumns
  <2> QED
    BY <2>1, EveryStep, ConflictStep DEF HistoryInv
<1> QED
  BY <1>1, <1>2, HistoryHolds, PTL DEF Spec

-----------------------------------------------------------------------------
\* A request that will insert is about an id that no table and no other request
\* has seen.
Creating(c) == \E n \in 1..Len(c) : c[n] = "insert"

OtherCalls == CallNames \ {"insert"}

FreshInv ==
  \A t \in Threads : ~Idle(t) /\ Creating(request[t].calls) =>
    /\ ~Known(request[t].on)
    /\ \A u \in Threads \ {t} : Idle(u) \/ request[u].on # request[t].on

LEMMA FreshStep ==
  ASSUME HistoryInv, FreshInv, NEW t \in Threads, Step(t)
  PROVE  FreshInv'
<1> USE DEF HistoryInv
<1> DEFINE on == request[t].on
           row == request[t].row
<1>1. CASE Asks(t)
  <2>1. PICK i \in Ids : \E r \in RowsOf(i), c \in Seq(CallNames) :
          FirstCalls(i, c) /\ Receive(t, i, r, c)
    BY <1>1 DEF Asks
  <2>2. PICK r \in RowsOf(i), c \in Seq(CallNames) : FirstCalls(i, c) /\ Receive(t, i, r, c)
    BY <2>1
  <2>3. Turn(t, i, r, c) /\ UNCHANGED written
    BY <2>2, ReceiveTurns DEF Receive
  <2>4. /\ request'[t].on = i /\ request'[t].calls = c
        /\ \A u \in Threads \ {t} : request'[u] = request[u]
    BY <2>3, AfterTurn
  <2>5. Creating(c) => Fresh(i)
    <3>1. c = <<"load">> => ~Creating(c)
      BY DEF Creating
    <3> QED
      BY <2>2, <3>1 DEF FirstCalls
  <2>6. Known(i) \/ Fresh(i)
    BY <2>2 DEF FirstCalls
  <2>7. ASSUME NEW u \in Threads \ {t}, ~Idle(u), Creating(request[u].calls)
        PROVE  request[u].on # i
    BY <2>6, <2>7 DEF FreshInv, Fresh
  <2>8. Fresh(i) => ~Known(i) /\ \A u \in Threads \ {t} : Idle(u) \/ request[u].on # i
    BY DEF Fresh, Known
  <2> QED
    BY <2>3, <2>4, <2>5, <2>7, <2>8 DEF FreshInv, Idle, Known
<1>2. ASSUME NEW c, Turn(t, on, row, c), UNCHANGED written, ~Idle(t),
             c # <<>> /\ Creating(c) => Creating(request[t].calls)
      PROVE  FreshInv'
  BY <1>2, AfterTurn DEF FreshInv, Idle, Known
<1>3. CASE Loads(t)
  <2>1. PICK s \in Seq(Columns) : Still(t, UpdateTail(on, s))
    BY <1>3 DEF Loads
  <2>2. UpdateTail(on, s) \in Seq(OtherCalls)
    <3>1. s \in Seq(OtherCalls) /\ <<"owner">> \in Seq(OtherCalls)
          /\ <<>> \in Seq(OtherCalls) /\ <<"update">> \in Seq(OtherCalls)
      BY DEF Columns, CallNames, OtherCalls
    <3> QED
      BY <3>1 DEF UpdateTail
  <2>3. ~Creating(UpdateTail(on, s))
    BY <2>2 DEF Creating, OtherCalls
  <2> QED
    BY <1>2, <2>1, <2>3 DEF Still
<1>4. CASE Passes(t)
  <2>1. Still(t, Tail(request[t].calls))
    BY <1>4 DEF Passes
  <2>2. request[t].calls \in Seq(CallNames) /\ request[t].calls # <<>>
    BY <2>1, NextCall DEF Still
  <2>3. Creating(Tail(request[t].calls)) => Creating(request[t].calls)
    BY <2>2 DEF Creating
  <2> QED
    BY <1>2, <2>1, <2>3 DEF Still
<1>5. CASE \E how \in Answers : Ends(t, how)
  BY <1>2, <1>5 DEF Ends, Still
<1>6. CASE Writes(t)
  <2>1. Turn(t, on, row, <<>>) /\ written' = written \cup {<<on, row>>} /\ ~Idle(t)
    BY <1>6 DEF Writes, Write, Calls
  <2>2. ASSUME NEW u \in Threads \ {t}, ~Idle(u), Creating(request[u].calls)
        PROVE  request[u].on # on /\ ~Known(request[u].on)
    BY <2>1, <2>2 DEF FreshInv
  <2> QED
    BY <2>1, <2>2, AfterTurn DEF FreshInv, Idle, Known
<1>7. CASE Removes(t)
  BY <1>7 DEF Removes, FreshInv, Idle, Known
<1> QED
  BY <1>1, <1>3, <1>4, <1>5, <1>6, <1>7 DEF Step

\* No row that was deleted comes back: an insert is about an id never written,
\* and an update that finds no row writes none.
THEOREM DeletesAreFinal == Spec => DeletedStaysDeleted
<1>1. Init => FreshInv
  BY DEF Init, FreshInv, Idle
<1>2. HistoryInv /\ FreshInv /\ [Next]_vars => FreshInv'
  <2> SUFFICES ASSUME HistoryInv, FreshInv, [Next]_vars PROVE FreshInv'
    OBVIOUS
  <2>1. CASE UNCHANGED vars
    BY <2>1 DEF vars, FreshInv, Idle, Known
  <2> QED
    BY <2>1, EveryStep, FreshStep DEF HistoryInv
<1>3. HistoryInv /\ FreshInv /\ [Next]_vars =>
        [\A i \in Ids : Known(i) /\ ~HasRow(i) => rows'[i] = NoRow]_vars
  <2> SUFFICES ASSUME HistoryInv, FreshInv, [Next]_vars, vars' # vars,
                      NEW i \in Ids, Known(i), ~HasRow(i)
               PROVE  rows'[i] = NoRow
    OBVIOUS
  <2>1. rows[i] = NoRow /\ DOMAIN rows = Ids
    BY DEF HasRow, HistoryInv, TypeInv, TablesTyped
  <2>2. PICK t \in Threads : Step(t)
    BY EveryStep DEF HistoryInv
  <2>3. CASE UNCHANGED rows
    BY <2>1, <2>3
  <2>4. CASE Removes(t)
    BY <2>1, <2>4 DEF Removes
  <2>5. CASE Writes(t)
    <3>1. rows' = [rows EXCEPT ![request[t].on] = request[t].row]
      BY <2>5 DEF Writes, Write
    <3>2. CASE Calls(t, "update") /\ HasRow(request[t].on)
      BY <2>1, <3>1, <3>2
    <3>3. CASE Calls(t, "insert")
      <4>1. ~Idle(t) /\ Head(request[t].calls) = "insert"
        BY <3>3 DEF Calls
      <4>2. Creating(request[t].calls)
        BY <4>1, NextCall DEF Creating, HistoryInv
      <4> QED
        BY <2>1, <3>1, <4>1, <4>2 DEF FreshInv
    <3> QED
      BY <2>5, <3>2, <3>3 DEF Writes
  <2> QED
    BY <2>2, <2>3, <2>4, <2>5 DEF Step, Asks, Receive, Loads, Passes, Ends, Still
<1> QED
  BY <1>1, <1>2, <1>3, HistoryHolds, PTL DEF Spec, DeletedStaysDeleted

-----------------------------------------------------------------------------
(***************************************************************************)
(* The registry implements Directory: the step that ends a request is the  *)
(* one at which it takes effect.                                           *)
(***************************************************************************)

\* What is left of a request: it ends with the call that decides it, only an entry
\* that was given is loaded or updated, only a vehicle has an owner to look up.
Shape(W, i, c) ==
  /\ c[Len(c)] \in {"load", "insert", "update"}
  /\ \A n \in 1..Len(c) :
       /\ c[n] \in {"load", "update"} => Registered(W, i)
       /\ c[n] = "owner" => i \in Vehicles

ShapeInv == \A t \in Threads : ~Idle(t) => Shape(written, request[t].on, request[t].calls)

LEMMA FirstCallsShape ==
  ASSUME NEW i \in Ids, NEW c \in Seq(CallNames), FirstCalls(i, c)
  PROVE  Shape(written, i, c)
<1>1. ASSUME NEW s \in Seq(Columns), c = s \o <<"insert">>
      PROVE  Shape(written, i, c)
  <2>1. Len(c) = Len(s) + 1 /\ c[Len(c)] = "insert"
    BY <1>1
  <2>2. \A n \in 1..Len(c) : c[n] \in Columns \cup {"insert"}
    BY <1>1
  <2> QED
    BY <2>1, <2>2 DEF Shape, Columns
<1>2. ASSUME NEW s \in Seq(Columns), c = <<"owner">> \o s \o <<"insert">>, i \in Vehicles
      PROVE  Shape(written, i, c)
  <2>1. Len(c) = Len(s) + 2 /\ c[Len(c)] = "insert"
    BY <1>2
  <2>2. \A n \in 1..Len(c) : c[n] \in Columns \cup {"owner", "insert"}
    BY <1>2
  <2> QED
    BY <1>2, <2>1, <2>2 DEF Shape, Columns
<1>3. CASE c = <<"load">> /\ Known(i)
  BY <1>3 DEF Shape, Known, Registered
<1>4. CASE c = <<"customer", "vehicle", "insert">>
  BY <1>4 DEF Shape
<1> QED
  BY <1>1, <1>2, <1>3, <1>4 DEF FirstCalls

LEMMA UpdateTailShape ==
  ASSUME NEW i \in Ids, NEW s \in Seq(Columns), Known(i)
  PROVE  UpdateTail(i, s) # <<>> /\ Shape(written, i, UpdateTail(i, s))
<1>0. PICK c : c = UpdateTail(i, s)
  OBVIOUS
<1>1. CASE i \in Vehicles
  <2>1. c = <<"owner">> \o s \o <<"update">>
    BY <1>0, <1>1 DEF UpdateTail
  <2>2. Len(c) = Len(s) + 2 /\ c[Len(c)] = "update"
    BY <2>1
  <2> QED
    BY <1>0, <1>1, <2>1, <2>2 DEF Shape, Known, Registered
<1>2. CASE i \notin Vehicles
  <2>1. c = s \o <<"update">>
    BY <1>0, <1>2 DEF UpdateTail
  <2>2. Len(c) = Len(s) + 1 /\ c[Len(c)] = "update"
    BY <2>1
  <2>3. \A n \in 1..Len(c) : c[n] \in Columns \cup {"update"}
    BY <2>1
  <2> QED
    BY <1>0, <2>1, <2>2, <2>3 DEF Shape, Columns, Known, Registered
<1> QED
  BY <1>1, <1>2

LEMMA TailShape ==
  ASSUME NEW i, NEW c \in Seq(CallNames), c # <<>>, Shape(written, i, c),
         Head(c) \in Columns \cup {"owner", "customer", "vehicle"}
  PROVE  Tail(c) # <<>> /\ Shape(written, i, Tail(c))
<1>1. Head(c) = c[1] /\ Len(c) \in Nat /\ Len(c) # 0
  <2>1. Len(c) \in Nat /\ (Len(c) = 0 => c = <<>>)
    OBVIOUS
  <2>2. Head(c) = c[1]
    OBVIOUS
  <2> QED
    BY <2>1, <2>2
<1>2. Len(c) # 1
  BY <1>1 DEF Shape, Columns
<1>3. PICK d \in Seq(CallNames) : d = Tail(c)
  <2>1. Tail(c) \in Seq(CallNames)
    OBVIOUS
  <2> QED
    BY <2>1, Zenon
<1>4. Len(d) = Len(c) - 1 /\ \A n \in 1..Len(d) : d[n] = c[n + 1]
  BY <1>3
<1>5. Len(d) \in 1..Len(d) /\ d[Len(d)] = c[Len(c)]
  BY <1>1, <1>2, <1>4
<1>6. \A n \in 1..Len(d) : n + 1 \in 1..Len(c)
  BY <1>1, <1>4
<1>7. d # <<>>
  BY <1>5
<1>8. \A n \in 1..Len(d) : (d[n] \in {"load", "update"} => Registered(written, i)) /\ (d[n] = "owner" => i \in Vehicles)
  BY <1>4, <1>6 DEF Shape
<1>9. d[Len(d)] \in {"load", "insert", "update"}
  BY <1>5 DEF Shape
<1> QED
  BY <1>3, <1>7, <1>8, <1>9 DEF Shape

LEMMA ShapeStep ==
  ASSUME HistoryInv, ShapeInv, NEW t \in Threads, Step(t)
  PROVE  ShapeInv'
<1> USE DEF HistoryInv
<1> DEFINE on == request[t].on
           row == request[t].row
<1>1. \A i, c : Shape(written, i, c) => Shape(written', i, c)
  BY WrittenGrows DEF Shape, Registered
<1>2. ASSUME NEW i, NEW r, NEW c, Turn(t, i, r, c), c = <<>> \/ Shape(written', i, c)
      PROVE  ShapeInv'
  <2>1. \A u \in Threads : u # t /\ request'[u].calls # <<>> =>
          Shape(written', request'[u].on, request'[u].calls)
    BY <1>1, <1>2, AfterTurn DEF ShapeInv, Idle
  <2>2. request'[t].calls # <<>> => Shape(written', request'[t].on, request'[t].calls)
    BY <1>2, AfterTurn
  <2> QED
    BY <2>1, <2>2 DEF ShapeInv, Idle
<1>3. CASE Asks(t)
  <2>1. PICK i \in Ids : \E r \in RowsOf(i), c \in Seq(CallNames) :
          FirstCalls(i, c) /\ Receive(t, i, r, c)
    BY <1>3 DEF Asks
  <2>2. PICK r \in RowsOf(i), c \in Seq(CallNames) : FirstCalls(i, c) /\ Receive(t, i, r, c)
    BY <2>1
  <2> QED
    BY <1>1, <1>2, <2>2, FirstCallsShape, ReceiveTurns
<1>4. CASE Loads(t)
  <2>1. PICK s \in Seq(Columns) : Turn(t, on, row, UpdateTail(on, s))
    BY <1>4 DEF Loads, Still
  <2>2. on \in Ids /\ Known(on)
    <3>1. ~Idle(t) /\ Head(request[t].calls) = "load"
      BY <1>4 DEF Loads, Calls
    <3> QED
      BY <3>1, NextCall DEF ShapeInv, Shape, Known, Registered
  <2> QED
    BY <1>1, <1>2, <2>1, <2>2, UpdateTailShape
<1>5. CASE Passes(t)
  <2>1. ~Idle(t) /\ Turn(t, on, row, Tail(request[t].calls))
    BY <1>5 DEF Passes, Still
  <2>2. Shape(written, on, Tail(request[t].calls))
    BY <1>5, <2>1, NextCall, TailShape DEF ShapeInv, Passes
  <2> QED
    BY <1>1, <1>2, <2>1, <2>2
<1>6. CASE Writes(t) \/ \E how \in Answers : Ends(t, how)
  BY <1>2, <1>6 DEF Writes, Ends, Still
<1>7. CASE Removes(t)
  <2>1. UNCHANGED request
    BY <1>7 DEF Removes
  <2> QED
    BY <1>1, <2>1 DEF ShapeInv, Idle
<1> QED
  BY <1>3, <1>4, <1>5, <1>6, <1>7 DEF Step

\* What an entry holds and what a thread asks, after a step.
LEMMA HeldNext ==
  /\ \A i \in Entries : Held[i] = IF HasRow(i) THEN UniqueColumns(i, rows[i]) ELSE {}
  /\ \A i \in Entries : Held'[i] = IF i \in There' THEN UniqueColumns(i, rows'[i]) ELSE {}
  /\ Held = [i \in Entries |-> Held[i]] /\ Held' = [i \in Entries |-> Held'[i]]
<1>1. \A i \in Entries : Held[i] = IF HasRow(i) THEN UniqueColumns(i, rows[i]) ELSE {}
  BY DEF Held
<1>2. \A i \in Entries : Held'[i] = IF HasRow(i)' THEN UniqueColumns(i, rows'[i]) ELSE {}
  BY Zenon DEF Held, UniqueColumns
<1>3. Held = [i \in Entries |-> Held[i]] /\ Held' = [i \in Entries |-> Held'[i]]
  BY Zenon DEF Held
<1> QED
  BY <1>1, <1>2, <1>3 DEF There

Wished(on, row, c) == IF c # <<>> /\ on \in Entries THEN {Wish(on, row)} ELSE {}

LEMMA AskedIs ==
  /\ \A u \in Threads : Asked[u] = Wished(request[u].on, request[u].row, request[u].calls)
  /\ \A u \in Threads : Asked'[u] = Wished(request'[u].on, request'[u].row, request'[u].calls)
  /\ Asked = [u \in Threads |-> Asked[u]] /\ Asked' = [u \in Threads |-> Asked'[u]]
<1>1. \A u \in Threads : Asked[u] = Wished(request[u].on, request[u].row, request[u].calls)
  BY DEF Asked, Asking, Idle, Wished
<1>2. \A u \in Threads : Asked'[u] = Wished(request'[u].on, request'[u].row, request'[u].calls)
  BY Zenon DEF Asked, Asking, Idle, Wished, Wish, UniqueColumns
<1>3. Asked = [u \in Threads |-> Asked[u]] /\ Asked' = [u \in Threads |-> Asked'[u]]
  BY Zenon DEF Asked
<1> QED
  BY <1>1, <1>2, <1>3

LEMMA AskedAfter ==
  ASSUME TypeInv, NEW t \in Threads, NEW i, NEW r, NEW c, Turn(t, i, r, c)
  PROVE  Asked' = [Asked EXCEPT ![t] = Wished(i, r, c)]
<1>1. Asked'[t] = Wished(i, r, c)
  BY AskedIs, AfterTurn
<1>2. \A u \in Threads \ {t} : Asked'[u] = Asked[u]
  BY AskedIs, AfterTurn
<1> QED
  BY <1>1, <1>2, AskedIs

\* The registry but for the requests is what its rows are.
LEMMA SameRows ==
  ASSUME UNCHANGED <<rows, written>> PROVE UNCHANGED <<There, Used, Held>>
<1>1. UNCHANGED <<There, Used>>
  BY DEF There, Used, HasRow, Known
<1>2. \A i \in Entries : Held'[i] = Held[i]
  BY <1>1, HeldNext DEF There
<1> QED
  BY <1>1, <1>2, HeldNext

LEMMA EntryIds ==
  /\ Entries \subseteq Ids /\ Entries \cap ServiceOrders = {} /\ Ids \ Entries \subseteq ServiceOrders
  /\ Customers \subseteq Entries /\ Vehicles \subseteq Entries /\ Unknown \notin Entries
BY RegistryConstants DEF Entries, Ids

DirectoryInv == HistoryInv /\ OwnerPath /\ FreshInv /\ ShapeInv

LEMMA AsksEntry ==
  ASSUME DirectoryInv, NEW t \in Threads, Asks(t)
  PROVE  [Atomic!Next]_(Atomic!vars)
<1> USE DEF DirectoryInv, HistoryInv
<1>1. PICK i \in Ids : \E r \in RowsOf(i), c \in Seq(CallNames) :
        FirstCalls(i, c) /\ Receive(t, i, r, c)
  BY DEF Asks
<1>2. PICK r \in RowsOf(i), c \in Seq(CallNames) : FirstCalls(i, c) /\ Receive(t, i, r, c)
  BY <1>1
<1>3. Turn(t, i, r, c) /\ UNCHANGED <<rows, written>> /\ Idle(t)
  BY <1>2, ReceiveTurns DEF Receive
<1>4. UNCHANGED <<There, Used, Held>>
  BY <1>3, SameRows
<1>5. c # <<>>
  BY <1>2 DEF FirstCalls
<1>6. Asked[t] = {} /\ Asked' = [Asked EXCEPT ![t] = Wished(i, r, c)]
  BY <1>3, AskedIs, AskedAfter DEF Wished, Idle
<1>7. CASE i \notin Entries
  <2>1. Asked' = Asked
    BY <1>6, <1>7, AskedIs DEF Wished
  <2> QED
    BY <1>4, <2>1 DEF Atomic!vars
<1>8. CASE i \in Entries
  <2>1. PICK q : q = Wish(i, r)
    OBVIOUS
  <2>2. q \in Wishes /\ q.on = i /\ Asked' = [Asked EXCEPT ![t] = {q}]
    <3>1. q \in {Wish(i, s) : s \in RowsOf(i)}
      BY <2>1
    <3>2. q \in Wishes
      BY <1>8, <3>1, Zenon DEF Wishes
    <3>3. q.on = i
      BY <2>1 DEF Wish
    <3>4. Asked' = [Asked EXCEPT ![t] = {q}]
      BY <1>5, <1>6, <1>8, <2>1 DEF Wished
    <3> QED
      BY <3>2, <3>3, <3>4
  <2>3. i \in Used \/ \A d \in Threads : \A p \in Asked[d] : p.on # i
    <3>1. Known(i) \/ Fresh(i)
      BY <1>2 DEF FirstCalls
    <3>2. \A d \in Threads : \A p \in Asked[d] : ~Idle(d) /\ p.on = request[d].on
      BY AskedIs DEF Wished, Wish, Idle
    <3> QED
      BY <1>8, <3>1, <3>2 DEF Fresh, Used
  <2>4. Atomic!Ask(t)
    BY <1>4, <1>6, <2>2, <2>3 DEF Atomic!Ask
  <2> QED
    BY <2>4 DEF Atomic!Next
<1> QED
  BY <1>7, <1>8

LEMMA StillAsks ==
  ASSUME DirectoryInv, NEW t \in Threads, Loads(t) \/ Passes(t)
  PROVE  UNCHANGED Atomic!vars
<1> USE DEF DirectoryInv, HistoryInv
<1>1. PICK c : Still(t, c) /\ c # <<>>
  <2>1. ~Idle(t)
    BY DEF Loads, Passes, Still
  <2>2. CASE Passes(t)
    BY <2>1, <2>2, NextCall, TailShape DEF ShapeInv, Passes
  <2>3. CASE Loads(t)
    <3>1. PICK s \in Seq(Columns) : Still(t, UpdateTail(request[t].on, s))
      BY <2>3 DEF Loads
    <3>2. Known(request[t].on)
      <4>1. Head(request[t].calls) = "load"
        BY <2>3 DEF Loads, Calls
      <4> QED
        BY <2>1, <4>1, NextCall DEF ShapeInv, Shape, Known, Registered
    <3> QED
      BY <2>1, <3>1, <3>2, NextCall, UpdateTailShape
  <2> QED
    BY <2>2, <2>3
<1>2. Turn(t, request[t].on, request[t].row, c) /\ ~Idle(t) /\ UNCHANGED <<rows, written>>
  BY <1>1 DEF Still
<1>3. Asked' = Asked
  <2>1. PICK i, r : i = request[t].on /\ r = request[t].row
    OBVIOUS
  <2>2. Turn(t, i, r, c) /\ Asked[t] = Wished(i, r, c)
    BY <1>1, <1>2, <2>1, AskedIs DEF Wished, Idle
  <2> QED
    BY <2>2, AskedIs, AskedAfter
<1> QED
  BY <1>2, <1>3, SameRows DEF Atomic!vars

LEMMA NoRowIsNone == \A i : NoRow \notin RowsOf(i)
<1>1. NoRow \notin CustomerRow /\ NoRow \notin VehicleRow /\ NoRow \notin AdminRow /\ NoRow \notin OrderRow
  BY DEF NoRow, CustomerRow, VehicleRow, AdminRow, OrderRow
<1> QED
  BY <1>1, Zenon DEF RowsOf

\* Another entry holds one of these values exactly if another row of the tables does.
LEMMA TakenIsHeld ==
  ASSUME NEW i \in Entries, NEW values
  PROVE  Taken(i, values) <=> ~Atomic!Available(i, values)
<1>1. \A j \in Ids \ Entries : UniqueColumns(j, rows[j]) = {}
  <2> SUFFICES ASSUME NEW j \in Ids \ Entries PROVE UniqueColumns(j, rows[j]) = {}
    OBVIOUS
  <2>1. j \notin Customers /\ j \notin Vehicles /\ j \notin Admins
    BY DEF Entries
  <2> QED
    BY <2>1, Zenon DEF UniqueColumns
<1>2. \A j \in Entries : Held[j] = IF HasRow(j) THEN UniqueColumns(j, rows[j]) ELSE {}
  BY HeldNext
<1>3. Atomic!Available(i, values) <=> \A j \in Entries \ {i} : Held[j] \cap values = {}
  BY DEF Atomic!Available
<1> QED
  BY <1>1, <1>2, <1>3, EntryIds DEF Taken

\* The owner of a vehicle is the only entry a request names.
LEMMA Named ==
  ASSUME NEW i, NEW r PROVE Wish(i, r).names \subseteq {r.owner}
BY DEF Wish

LEMMA EndsInVain ==
  ASSUME DirectoryInv, NEW t \in Threads, NEW how \in Answers, Ends(t, how)
  PROVE  [Atomic!Next]_(Atomic!vars)
<1> USE DEF DirectoryInv, HistoryInv
<1>1. PICK i, r : i = request[t].on /\ r = request[t].row
  OBVIOUS
<1>2. Turn(t, i, r, <<>>) /\ ~Idle(t) /\ UNCHANGED <<rows, written>>
  BY <1>1 DEF Ends, Still
<1>3. Asked' = [Asked EXCEPT ![t] = {}] /\ Asked[t] = IF i \in Entries THEN {Wish(i, r)} ELSE {}
  BY <1>1, <1>2, AskedIs, AskedAfter DEF Wished, Idle
<1>4. UNCHANGED <<There, Used, Held>>
  BY <1>2, SameRows
<1>5. CASE i \notin Entries
  BY <1>3, <1>4, <1>5, AskedIs DEF Atomic!vars
<1>6. CASE i \in Entries
  <2>1. PICK q : q = Wish(i, r)
    OBVIOUS
  <2>2. q \in Asked[t] /\ q.on = i /\ q.values = UniqueColumns(i, r)
    BY <1>3, <1>6, <2>1 DEF Wish
  <2>3. \/ ~Atomic!Available(q.on, q.values)
        \/ ~(q.names \subseteq There)
        \/ q.on \in Used \ There
    <3>1. Shape(written, i, request[t].calls) /\ request[t].calls \in Seq(CallNames)
            /\ request[t].calls # <<>>
      BY <1>1, <1>2, NextCall DEF ShapeInv
    <3>2. PICK h : h = Head(request[t].calls)
      OBVIOUS
    <3>3. (h \in {"load", "update"} => Known(i)) /\ (h = "owner" => i \in Vehicles)
      BY <3>1, <3>2 DEF Shape, Known, Registered
    <3>4. h \notin {"customer", "vehicle"}
      <4>1. request[t].calls \in Seq(PlainCalls)
        BY <1>1, <1>2, <1>6, EntryIds DEF PathInv
      <4> QED
        BY <3>1, <3>2, <4>1 DEF PlainCalls
    <3>5. CASE Taken(i, UniqueColumns(i, r))
      BY <1>6, <2>2, <3>5, TakenIsHeld
    <3>6. CASE h \in {"load", "update"} /\ ~HasRow(i)
      BY <1>6, <2>2, <3>3, <3>6 DEF Used, There
    <3>7. CASE h = "owner" /\ ~HasRow(r.owner)
      <4>1. q.names = {r.owner}
        BY <2>1, <3>3, <3>7 DEF Wish
      <4> QED
        BY <3>7, <4>1 DEF There
    <3> QED
      BY <1>1, <3>2, <3>4, <3>5, <3>6, <3>7 DEF Ends, Reason, Calls
  <2>4. Atomic!Vain(t)
    BY <1>3, <1>4, <2>2, <2>3 DEF Atomic!Vain
  <2> QED
    BY <2>4 DEF Atomic!Next
<1> QED
  BY <1>5, <1>6

LEMMA WritesTakeEffect ==
  ASSUME DirectoryInv, NEW t \in Threads, Writes(t)
  PROVE  [Atomic!Next]_(Atomic!vars)
<1> USE DEF DirectoryInv, HistoryInv
<1>1. PICK i, r : i = request[t].on /\ r = request[t].row
  OBVIOUS
<1>2. /\ Turn(t, i, r, <<>>) /\ ~Idle(t) /\ i \in Ids /\ ~Taken(i, UniqueColumns(i, r))
      /\ rows' = [rows EXCEPT ![i] = r] /\ written' = written \cup {<<i, r>>}
  BY <1>1 DEF Writes, Write, Calls
<1>3. Asked' = [Asked EXCEPT ![t] = {}] /\ Asked[t] = IF i \in Entries THEN {Wish(i, r)} ELSE {}
  BY <1>1, <1>2, AskedIs, AskedAfter DEF Wished, Idle
<1>4. DOMAIN rows = Ids /\ r # NoRow /\ r \in RowsOf(i)
  <2>1. r \in RowsOf(i)
    BY <1>1, <1>2, NextCall
  <2>2. NoRow \notin RowsOf(i)
    BY NoRowIsNone
  <2> QED
    BY <2>1, <2>2 DEF TypeInv, TablesTyped
<1>5. \A j \in Ids : j # i => rows'[j] = rows[j]
  BY <1>2, <1>4
<1>6. There' = There \cup ({i} \cap Entries) /\ Used' = Used \cup ({i} \cap Entries)
  <2>1. \A j \in Entries : HasRow(j)' <=> HasRow(j) \/ j = i
    BY <1>2, <1>4, EntryIds DEF HasRow
  <2>2. \A j : Known(j)' <=> Known(j) \/ j = i
    <3>1. PICK w : w = <<i, r>>
      OBVIOUS
    <3>2. written' = written \cup {w}
      BY <1>2, <3>1
    <3>3. w[1] = i
      BY <3>1
    <3> QED
      BY <3>2, <3>3 DEF Known
  <2> QED
    BY <2>1, <2>2 DEF There, Used
<1>7. \A j \in Entries : Held'[j] = IF j = i THEN UniqueColumns(i, r) ELSE Held[j]
  <2>1. \A j \in Entries : j # i => Held'[j] = Held[j]
    BY <1>5, <1>6, HeldNext, EntryIds DEF There
  <2>2. i \in Entries => Held'[i] = UniqueColumns(i, r)
    BY <1>2, <1>4, <1>6, HeldNext
  <2> QED
    BY <2>1, <2>2
<1>8. CASE i \notin Entries
  <2>1. UNCHANGED <<There, Used>>
    BY <1>6, <1>8
  <2>2. UNCHANGED Held
    BY <1>7, <1>8, HeldNext
  <2>3. UNCHANGED Asked
    BY <1>3, <1>8, AskedIs
  <2> QED
    BY <2>1, <2>2, <2>3 DEF Atomic!vars
<1>9. CASE i \in Entries
  <2>1. PICK q : q = Wish(i, r)
    OBVIOUS
  <2>2. q \in Asked[t] /\ q.on = i /\ q.values = UniqueColumns(i, r)
    BY <1>3, <1>9, <2>1 DEF Wish
  <2>3. Held' = [Held EXCEPT ![i] = q.values]
    BY <1>7, <1>9, <2>2, HeldNext
  <2>4. Atomic!Available(i, q.values)
    BY <1>2, <1>9, <2>2, TakenIsHeld
  <2>5. q.names \subseteq Used
    <3> SUFFICES ASSUME i \in Vehicles, q.names = {r.owner} PROVE r.owner \in Used
      BY <2>1 DEF Wish
    <3>1. Registered(written, r.owner)
      BY <1>1, <1>2 DEF OwnerPath, Writes, Calls
    <3>2. r.owner \in Customers \cup {Unknown}
      <4>1. r \in VehicleRow
        BY <1>4, TablesApart
      <4> QED
        BY <4>1 DEF VehicleRow
    <3>3. r.owner \in Ids
      BY <3>1 DEF TypeInv, TablesTyped, Registered
    <3> QED
      BY <3>1, <3>2, <3>3, EntryIds, RegistryConstants DEF Registered, Used, Known
  <2>6. i \in Used => i \in There
    <3>1. CASE Calls(t, "insert")
      <4>1. Creating(request[t].calls)
        BY <1>2, <3>1, NextCall DEF Creating, Calls
      <4> QED
        BY <1>1, <1>2, <4>1 DEF FreshInv, Used
    <3>2. CASE HasRow(i)
      BY <1>9, <3>2 DEF There
    <3> QED
      BY <1>1, <3>1, <3>2 DEF Writes
  <2>7. Atomic!Effect(t)
    BY <1>3, <1>6, <1>9, <2>2, <2>3, <2>4, <2>5, <2>6 DEF Atomic!Effect
  <2> QED
    BY <2>7 DEF Atomic!Next
<1> QED
  BY <1>8, <1>9

LEMMA RemovesEntry ==
  ASSUME DirectoryInv, NEW t \in Threads, Removes(t)
  PROVE  [Atomic!Next]_(Atomic!vars)
<1> USE DEF DirectoryInv, HistoryInv
<1>1. PICK i \in Ids : rows' = [rows EXCEPT ![i] = NoRow] /\ UNCHANGED <<written, request>>
  BY DEF Removes
<1>2. UNCHANGED <<Used, Asked>>
  <2>1. UNCHANGED Used
    BY <1>1 DEF Used, Known
  <2>2. \A u \in Threads : Asked'[u] = Asked[u]
    BY <1>1, AskedIs
  <2> QED
    BY <2>1, <2>2, AskedIs
<1>3. There' = There \ {i}
  BY <1>1, EntryIds DEF There, HasRow, TypeInv, TablesTyped
<1>4. \A j \in Entries : Held'[j] = IF j = i THEN {} ELSE Held[j]
  <2>1. \A j \in Entries : j # i => rows'[j] = rows[j] /\ (HasRow(j) <=> j \in There')
    BY <1>1, <1>3, EntryIds DEF There, TypeInv, TablesTyped
  <2> QED
    BY <1>3, <2>1, HeldNext
<1>5. CASE i \in There
  <2>1. Held' = [Held EXCEPT ![i] = {}]
    BY <1>4, HeldNext
  <2>2. Atomic!Remove(i) /\ i \in Entries
    BY <1>2, <1>3, <1>5, <2>1 DEF Atomic!Remove, There
  <2> QED
    BY <2>2 DEF Atomic!Next
<1>6. CASE i \notin There
  <2>1. \A j \in Entries : Held'[j] = Held[j]
    BY <1>4, <1>6, HeldNext DEF There
  <2>2. UNCHANGED <<There, Held>>
    BY <1>3, <1>6, <2>1, HeldNext
  <2> QED
    BY <1>2, <2>2 DEF Atomic!vars
<1> QED
  BY <1>5, <1>6

\* The requests of all threads, interrupted between any two calls, implement a directory
\* in which each takes effect at once, for any number of threads, ids and values.
THEOREM RegistryImplementsDirectory == Spec => ImplementsDirectory
<1>1. Init => Atomic!Init
  <2> SUFFICES ASSUME Init PROVE Atomic!Init
    OBVIOUS
  <2>1. There = {} /\ Used = {}
    BY EntryIds DEF Init, There, Used, HasRow, Known
  <2>2. Held = [i \in Entries |-> {}]
    BY <2>1 DEF Held, There
  <2>3. Asked = [t \in Threads |-> {}]
    BY DEF Init, Asked, Asking, Idle
  <2> QED
    BY <2>1, <2>2, <2>3 DEF Atomic!Init
<1>2. Init => OwnerPath /\ FreshInv /\ ShapeInv
  BY DEF Init, OwnerPath, FreshInv, ShapeInv, Idle
<1>3. DirectoryInv /\ [Next]_vars => OwnerPath' /\ FreshInv' /\ ShapeInv'
  <2> SUFFICES ASSUME DirectoryInv, [Next]_vars PROVE OwnerPath' /\ FreshInv' /\ ShapeInv'
    OBVIOUS
  <2>1. CASE UNCHANGED vars
    BY <2>1 DEF vars, DirectoryInv, OwnerPath, FreshInv, ShapeInv, Idle, Known
  <2> QED
    BY <2>1, EveryStep, OwnerPathStep, FreshStep, ShapeStep DEF DirectoryInv, HistoryInv
<1>4. DirectoryInv /\ [Next]_vars => [Atomic!Next]_(Atomic!vars)
  <2> SUFFICES ASSUME DirectoryInv, [Next]_vars PROVE [Atomic!Next]_(Atomic!vars)
    OBVIOUS
  <2>1. CASE UNCHANGED vars
    <3>1. UNCHANGED <<rows, written, request>>
      BY <2>1 DEF vars
    <3>2. UNCHANGED Asked
      BY <3>1, AskedIs
    <3> QED
      BY <3>1, <3>2, SameRows DEF Atomic!vars
  <2> QED
    BY <2>1, EveryStep, AsksEntry, StillAsks, EndsInVain, WritesTakeEffect, RemovesEntry
       DEF DirectoryInv, HistoryInv, Step
<1>5. HistoryInv /\ OwnerPath /\ FreshInv /\ ShapeInv => DirectoryInv
  BY DEF DirectoryInv
<1> QED
  BY <1>1, <1>2, <1>3, <1>4, <1>5, HistoryHolds, PTL DEF Spec, ImplementsDirectory, Atomic!Spec
=============================================================================
