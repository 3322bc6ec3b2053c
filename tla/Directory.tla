------------------------------ MODULE Directory ------------------------------
(***************************************************************************)
(* What the registry promises about customers, vehicles and accounts, as   *)
(* if every request took effect in one step: an entry holds values that no *)
(* other entry holds, an id is never given twice, a removed entry stays    *)
(* away, and a request that changes nothing ends at a moment when it could *)
(* not have changed anything.                                              *)
(***************************************************************************)
CONSTANTS
  Entries,   \* the ids an entry may have
  Clients,
  Wishes     \* [on, values, names]: the entry, its values, the entries it names

VARIABLES
  there,     \* the entries there are
  used,      \* the ids that have been given
  held,      \* the values each entry holds
  asked      \* per client: its request under way, if there is one

vars == <<there, used, held, asked>>

Init ==
  /\ there = {} /\ used = {}
  /\ held = [i \in Entries |-> {}]
  /\ asked = [c \in Clients |-> {}]

\* No other entry holds any of these values.
Available(i, values) == \A j \in Entries \ {i} : held[j] \cap values = {}

\* A request is about an entry that was given, or about an id of its own.
Ask(c) ==
  \E r \in Wishes :
    /\ asked[c] = {}
    /\ r.on \in used \/ \A d \in Clients : \A q \in asked[d] : q.on # r.on
    /\ asked' = [asked EXCEPT ![c] = {r}]
    /\ UNCHANGED <<there, used, held>>

\* The request takes effect: what it names was given, and an entry that was
\* given and is gone does not come back.
Effect(c) ==
  \E r \in asked[c] :
    /\ Available(r.on, r.values)
    /\ r.names \subseteq used
    /\ r.on \in used => r.on \in there
    /\ there' = there \cup {r.on} /\ used' = used \cup {r.on}
    /\ held' = [held EXCEPT ![r.on] = r.values]
    /\ asked' = [asked EXCEPT ![c] = {}]

\* It changes nothing, because now it cannot.
Vain(c) ==
  \E r \in asked[c] :
    /\ \/ ~Available(r.on, r.values)
       \/ ~(r.names \subseteq there)
       \/ r.on \in used \ there
    /\ asked' = [asked EXCEPT ![c] = {}]
    /\ UNCHANGED <<there, used, held>>

Remove(i) ==
  /\ i \in there
  /\ there' = there \ {i}
  /\ held' = [held EXCEPT ![i] = {}]
  /\ UNCHANGED <<used, asked>>

Next ==
  \/ \E c \in Clients : Ask(c) \/ Effect(c) \/ Vain(c)
  \/ \E i \in Entries : Remove(i)

Spec == Init /\ [][Next]_vars
=============================================================================
