------------------------- MODULE RegistryGuarantees -------------------------
(***************************************************************************)
(* What the registry guarantees although its checks and its writes are     *)
(* separate transactions, and what the documents say that it does not.     *)
(***************************************************************************)
EXTENDS Registry

RowsOf(i) ==
  CASE i \in Customers -> CustomerRow
    [] i \in Vehicles  -> VehicleRow
    [] i \in Admins    -> AdminRow
    [] OTHER           -> OrderRow

\* Types: each table holds its own rows, each thread a request it can carry out.
TypeOK ==
  /\ DOMAIN rows = Ids
  /\ \A i \in Ids : rows[i] \in RowsOf(i) \cup {NoRow}
  /\ \A w \in written : w[1] \in Ids /\ w[2] \in RowsOf(w[1])
  /\ DOMAIN request = Threads
  /\ \A t \in Threads :
       Idle(t) \/ (request[t].on \in Ids /\ request[t].row \in RowsOf(request[t].on))
  /\ answer \in [Threads -> {"none", "done", "refused", "missing", "error"}]
  /\ received \in Nat

-----------------------------------------------------------------------------
\* Two requests that both find a value free do not both get it: no e-mail,
\* CPF/CNPJ, plate or login is in two rows, after updates as after inserts.
KeysAreUnique ==
  \A i, j \in Ids : HasRow(i) /\ HasRow(j) /\ i # j =>
    UniqueColumns(i, rows[i]) \cap UniqueColumns(j, rows[j]) = {}

\* A deleted customer or vehicle stays deleted: an update that loaded it before
\* the delete does not bring it back.
DeletedStaysDeleted ==
  [][\A i \in Ids : Known(i) /\ ~HasRow(i) => rows'[i] = NoRow]_vars

\* A request refused for a duplicate really met another row with its value; it
\* is never refused because of the row it updates, even when a second PUT of the
\* same row wrote the value first ("other.customer_id != command.customer_id").
ConflictsAreReal ==
  \A t \in Threads :
    answer[t] \in {"refused", "error"} /\ request[t].on \notin ServiceOrders =>
      \E w \in written : /\ w[1] # request[t].on
                         /\ UniqueColumns(w[1], w[2])
                              \cap UniqueColumns(request[t].on, request[t].row) # {}

\* Every vehicle in the table names a customer that was once registered, if by
\* now perhaps deleted.
OwnersWereCustomers ==
  \A v \in Vehicles : HasRow(v) => \E w \in written : w[1] = rows[v].owner

\* Every order names a customer that was active at some moment and a vehicle
\* that belonged to that customer at some, perhaps other, moment.
OrdersWereValid ==
  \A o \in ServiceOrders : HasRow(o) =>
    /\ \E w \in written : w[1] = rows[o].customer /\ w[2].active
    /\ \E w \in written : w[1] = rows[o].vehicle /\ w[2].owner = rows[o].customer
-----------------------------------------------------------------------------
(* The registry as a directory whose requests take effect one at a time *)

Entries == Customers \cup Vehicles \cup Admins

\* What a request that writes row r of i asks of the directory.
Wish(i, r) ==
  [on |-> i, values |-> UniqueColumns(i, r), names |-> IF i \in Vehicles THEN {r.owner} ELSE {}]

Wishes == UNION {{Wish(i, r) : r \in RowsOf(i)} : i \in Entries}

Asking(t) == ~Idle(t) /\ request[t].on \in Entries

There == {i \in Entries : HasRow(i)}

Used == {i \in Entries : Known(i)}

Held == [i \in Entries |-> IF HasRow(i) THEN UniqueColumns(i, rows[i]) ELSE {}]

Asked == [t \in Threads |-> IF Asking(t) THEN {Wish(request[t].on, request[t].row)} ELSE {}]

\* Although a request is a sequence of look-ups and a write, which other requests
\* interrupt, what becomes of customers, vehicles and accounts is what one step per
\* request would do: it writes its row when nobody else holds its unique values, or it
\* changes nothing, and at that moment they are taken or the row, or the owner, is not
\* there.  Only the owner of a vehicle that is written may have gone since the look-up.
Atomic == INSTANCE Directory WITH
  Clients <- Threads, there <- There, used <- Used, held <- Held, asked <- Asked

ImplementsDirectory == Atomic!Spec
=============================================================================
