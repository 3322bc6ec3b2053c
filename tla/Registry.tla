------------------------------ MODULE Registry ------------------------------
(***************************************************************************)
(* Customers, vehicles, administrator accounts and the opening of orders   *)
(* on the SQL tables (APP_RUNTIME_MODE=real).  A request thread runs its   *)
(* use case as a sequence of repository calls; each call is a session and  *)
(* a transaction of its own, hence a step, and the requests of all threads *)
(* interleave between calls.  The unique columns are the tables' own: an   *)
(* insert or an update that breaks one raises IntegrityError, which no     *)
(* route catches.  Names, phones, brands, passwords and times decide no    *)
(* step and are left out.                                                  *)
(***************************************************************************)
EXTENDS Naturals, Sequences

CONSTANTS
  Customers, Vehicles, Admins, ServiceOrders,  \* the ids uuid4 may give
  Unknown,                       \* an id that names nothing
  Emails, Documents, Plates,
  NoDocument,                    \* cpf_cnpj is None
  Threads,                       \* request threads of the API replicas
  MaxRequests                    \* bound: requests received

VARIABLES
  rows,      \* the row of each id in its table
  written,   \* history: every <<id, row>> a table ever held
  request,   \* per thread: the id and row it is about, the calls it still makes
  answer,    \* per thread: how its last request ended
  received   \* requests received

vars == <<rows, written, request, answer, received>>

Ids == Customers \cup Vehicles \cup Admins \cup ServiceOrders

ASSUME RegistryConstants ==
  /\ Customers \cap (Vehicles \cup Admins \cup ServiceOrders) = {}
  /\ Vehicles \cap (Admins \cup ServiceOrders) = {}
  /\ Admins \cap ServiceOrders = {}
  /\ Unknown \notin Ids
  /\ NoDocument \notin Documents
  /\ MaxRequests \in Nat

-----------------------------------------------------------------------------
(* Rows *)

NoRow == [absent |-> TRUE]

CustomerRow == [email : Emails, document : Documents \cup {NoDocument}, active : BOOLEAN]

VehicleRow == [owner : Customers \cup {Unknown}, plate : Plates]

AdminRow == [login : Emails]

OrderRow == [customer : Customers \cup {Unknown}, vehicle : Vehicles \cup {Unknown}]

HasRow(i) == i \in Ids /\ rows[i] # NoRow

\* The columns of a row that its table declares unique; NULLs do not collide.
UniqueColumns(i, r) ==
  CASE i \in Customers -> {<<"email", r.email>>}
         \cup (IF r.document = NoDocument THEN {} ELSE {<<"cpf_cnpj", r.document>>})
    [] i \in Vehicles  -> {<<"plate", r.plate>>}
    [] i \in Admins    -> {<<"login", r.login>>}
    [] OTHER           -> {}

\* Another row of the tables holds one of these values.
Taken(i, columns) ==
  \E j \in Ids \ {i} : HasRow(j) /\ UniqueColumns(j, rows[j]) \cap columns # {}

-----------------------------------------------------------------------------
(* Requests *)

\* The find_by_* calls for these columns, in the order the use cases make them.
LookUps(columns) ==
  LET ask(c) == IF \E k \in columns : k[1] = c THEN <<c>> ELSE <<>>
  IN  ask("cpf_cnpj") \o ask("email") \o ask("plate") \o ask("login")

Idle(t) == request[t].calls = <<>>

Calls(t, c) == ~Idle(t) /\ Head(request[t].calls) = c

\* A uuid4 is new: never written and not about to be.
Fresh(i) ==
  /\ \A w \in written : w[1] # i
  /\ \A t \in Threads : Idle(t) \/ request[t].on # i

\* An id a client learnt from an answer.
Known(i) == \E w \in written : w[1] = i

Receive(t, i, r, calls) ==
  /\ Idle(t)
  /\ received < MaxRequests
  /\ request' = [request EXCEPT ![t] = [on |-> i, row |-> r, calls |-> calls]]
  /\ answer' = [answer EXCEPT ![t] = "none"]
  /\ received' = received + 1
  /\ UNCHANGED <<rows, written>>

Continue(t, calls) ==
  /\ request' = [request EXCEPT ![t].calls = calls]
  /\ UNCHANGED answer

\* KeyError is "missing", ValueError "refused", any other exception "error".
Finish(t, how) ==
  /\ request' = [request EXCEPT ![t].calls = <<>>]
  /\ answer' = [answer EXCEPT ![t] = how]

Write(i, r) ==
  /\ rows' = [rows EXCEPT ![i] = r]
  /\ written' = written \cup {<<i, r>>}

Init ==
  /\ rows = [i \in Ids |-> NoRow]
  /\ written = {}
  /\ request = [t \in Threads |-> [on |-> Unknown, row |-> NoRow, calls |-> <<>>]]
  /\ answer = [t \in Threads |-> "none"]
  /\ received = 0

CreateCustomer(t) ==
  \E i \in Customers, r \in CustomerRow :
    Fresh(i) /\ Receive(t, i, r, LookUps(UniqueColumns(i, r)) \o <<"insert">>)

CreateVehicle(t) ==
  \E i \in Vehicles, r \in VehicleRow :
    /\ Fresh(i)
    /\ Known(r.owner) \/ r.owner = Unknown
    /\ Receive(t, i, r, <<"owner">> \o LookUps(UniqueColumns(i, r)) \o <<"insert">>)

RegisterAdmin(t) ==
  \E i \in Admins, r \in AdminRow :
    Fresh(i) /\ Receive(t, i, r, LookUps(UniqueColumns(i, r)) \o <<"insert">>)

OpenOrder(t) ==
  \E i \in ServiceOrders, r \in OrderRow :
    /\ Fresh(i)
    /\ Known(r.customer) \/ r.customer = Unknown
    /\ Known(r.vehicle) \/ r.vehicle = Unknown
    /\ Receive(t, i, r, <<"customer", "vehicle", "insert">>)

\* PUT replaces every column with the request's; the look-ups wait for the
\* loaded row, because only a changed value is looked up.
UpdateCustomer(t) ==
  \E i \in Customers, r \in CustomerRow : Known(i) /\ Receive(t, i, r, <<"load">>)

UpdateVehicle(t) ==
  \E i \in Vehicles, r \in VehicleRow :
    /\ Known(i)
    /\ Known(r.owner) \/ r.owner = Unknown
    /\ Receive(t, i, r, <<"load">>)

-----------------------------------------------------------------------------
(* Repository calls *)

\* get of the row to update: what is left to do depends on what it holds now.
Load(t) ==
  LET i == request[t].on
      r == request[t].row
      changed == UniqueColumns(i, r) \ UniqueColumns(i, rows[i])
  IN  /\ Calls(t, "load")
      /\ IF HasRow(i)
           THEN Continue(t, (IF i \in Vehicles THEN <<"owner">> ELSE <<>>)
                              \o LookUps(changed) \o <<"update">>)
           ELSE Finish(t, "missing")
      /\ UNCHANGED <<rows, written, received>>

\* Mutant: the customer of a vehicle is not looked up.
SkipOwner(t) ==
  /\ Calls(t, "owner")
  /\ Continue(t, Tail(request[t].calls))
  /\ UNCHANGED <<rows, written, received>>

\* The customer a vehicle is registered for must exist.
GetOwner(t) ==
  /\ Calls(t, "owner")
  /\ IF HasRow(request[t].row.owner) THEN Continue(t, Tail(request[t].calls))
                                     ELSE Finish(t, "missing")
  /\ UNCHANGED <<rows, written, received>>

\* Mutant: a value is taken whoever holds it, the request's own row included.
FindAnyone(t, column) ==
  LET mine == {k \in UniqueColumns(request[t].on, request[t].row) : k[1] = column}
  IN  /\ Calls(t, column)
      /\ IF Taken(Unknown, mine) THEN Finish(t, "refused")
                                 ELSE Continue(t, Tail(request[t].calls))
      /\ UNCHANGED <<rows, written, received>>

\* find_by_*: a value another row holds is a ValueError.
Find(t, column) ==
  LET mine == {k \in UniqueColumns(request[t].on, request[t].row) : k[1] = column}
  IN  /\ Calls(t, column)
      /\ IF Taken(request[t].on, mine) THEN Finish(t, "refused")
                                       ELSE Continue(t, Tail(request[t].calls))
      /\ UNCHANGED <<rows, written, received>>

FindCustomerByCpfCnpj(t) == Find(t, "cpf_cnpj")

FindCustomerByEmail(t) == Find(t, "email")

FindVehicleByPlate(t) == Find(t, "plate")

FindAdminByEmail(t) == Find(t, "login")

\* Mutant: a customer may open orders while inactive.
AdmitCustomer(t) ==
  /\ Calls(t, "customer")
  /\ IF HasRow(request[t].row.customer)
       THEN Continue(t, Tail(request[t].calls)) ELSE Finish(t, "missing")
  /\ UNCHANGED <<rows, written, received>>

\* The customer of a new order must exist and be active...
CheckCustomer(t) ==
  LET c == request[t].row.customer
  IN  /\ Calls(t, "customer")
      /\ CASE ~HasRow(c)     -> Finish(t, "missing")
           [] HasRow(c) /\ ~rows[c].active -> Finish(t, "refused")
           [] OTHER          -> Continue(t, Tail(request[t].calls))
      /\ UNCHANGED <<rows, written, received>>

\* ...and, one session later, the vehicle must exist and be that customer's.
CheckVehicle(t) ==
  LET v == request[t].row.vehicle
  IN  /\ Calls(t, "vehicle")
      /\ CASE ~HasRow(v)     -> Finish(t, "missing")
           [] HasRow(v) /\ rows[v].owner # request[t].row.customer -> Finish(t, "refused")
           [] OTHER          -> Continue(t, Tail(request[t].calls))
      /\ UNCHANGED <<rows, written, received>>

\* INSERT: the table's unique columns have the last word.
Insert(t, ids) ==
  LET i == request[t].on
      r == request[t].row
  IN  /\ Calls(t, "insert")
      /\ i \in ids
      /\ IF Taken(i, UniqueColumns(i, r))
           THEN Finish(t, "error") /\ UNCHANGED <<rows, written>>
           ELSE Finish(t, "done") /\ Write(i, r)
      /\ UNCHANGED received

SaveCustomer(t) == Insert(t, Customers)

SaveVehicle(t) == Insert(t, Vehicles)

SaveAdmin(t) == Insert(t, Admins)

SaveOrder(t) == Insert(t, ServiceOrders)

\* Mutant: a plate is not unique in the table.
UpdateUnchecked(t, ids) ==
  /\ Calls(t, "update")
  /\ request[t].on \in ids
  /\ Finish(t, "done")
  /\ IF HasRow(request[t].on) THEN Write(request[t].on, request[t].row)
                              ELSE UNCHANGED <<rows, written>>
  /\ UNCHANGED received

\* Mutant: an update inserts the row when it is gone.
Upsert(t, ids) ==
  LET i == request[t].on
      r == request[t].row
  IN  /\ Calls(t, "update")
      /\ i \in ids
      /\ IF Taken(i, UniqueColumns(i, r))
           THEN Finish(t, "error") /\ UNCHANGED <<rows, written>>
           ELSE Finish(t, "done") /\ Write(i, r)
      /\ UNCHANGED received

\* UPDATE ... WHERE id = :id: no row left is no error, and the answer is success.
Update(t, ids) ==
  LET i == request[t].on
      r == request[t].row
  IN  /\ Calls(t, "update")
      /\ i \in ids
      /\ CASE ~HasRow(i) -> Finish(t, "done") /\ UNCHANGED <<rows, written>>
           [] HasRow(i) /\ Taken(i, UniqueColumns(i, r)) ->
                Finish(t, "error") /\ UNCHANGED <<rows, written>>
           [] OTHER -> Finish(t, "done") /\ Write(i, r)
      /\ UNCHANGED received

UpdateCustomerRow(t) == Update(t, Customers)

UpdateVehicleRow(t) == Update(t, Vehicles)

\* Mutant: a delete leaves a marker instead of no row.
DeleteSoftly(t, ids) ==
  \E i \in ids :
    /\ Idle(t) /\ received < MaxRequests /\ Known(i)
    /\ rows' = [rows EXCEPT ![i] = [deleted |-> TRUE]]
    /\ answer' = [answer EXCEPT ![t] = "done"]
    /\ received' = received + 1
    /\ UNCHANGED <<written, request>>

\* DELETE is one call; rows of other tables that name the id are left alone.
Delete(t, ids) ==
  \E i \in ids :
    /\ Idle(t) /\ received < MaxRequests /\ Known(i)
    /\ rows' = [rows EXCEPT ![i] = NoRow]
    /\ answer' = [answer EXCEPT ![t] = IF HasRow(i) THEN "done" ELSE "missing"]
    /\ received' = received + 1
    /\ UNCHANGED <<written, request>>

DeleteCustomer(t) == Delete(t, Customers)

DeleteVehicle(t) == Delete(t, Vehicles)

-----------------------------------------------------------------------------
Requests(t) ==
  \/ CreateCustomer(t) \/ UpdateCustomer(t) \/ DeleteCustomer(t)
  \/ CreateVehicle(t) \/ UpdateVehicle(t) \/ DeleteVehicle(t)
  \/ RegisterAdmin(t) \/ OpenOrder(t)

RepositoryCalls(t) ==
  \/ Load(t) \/ GetOwner(t) \/ CheckCustomer(t) \/ CheckVehicle(t)
  \/ FindCustomerByCpfCnpj(t) \/ FindCustomerByEmail(t)
  \/ FindVehicleByPlate(t) \/ FindAdminByEmail(t)
  \/ SaveCustomer(t) \/ SaveVehicle(t) \/ SaveAdmin(t) \/ SaveOrder(t)
  \/ UpdateCustomerRow(t) \/ UpdateVehicleRow(t)

Next == \E t \in Threads : Requests(t) \/ RepositoryCalls(t)

Spec == Init /\ [][Next]_vars
=============================================================================
