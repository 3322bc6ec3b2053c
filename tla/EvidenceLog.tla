----------------------------- MODULE EvidenceLog -----------------------------
(***************************************************************************)
(* What a publisher promises to those who ask it what was published: a log *)
(* to which messages are appended one at a time, each once, and which a    *)
(* drain hands over whole.  The broker has what the log has, except for    *)
(* the message of a step that fails, which either may be without.          *)
(***************************************************************************)
EXTENDS Naturals, Sequences

CONSTANT Messages

VARIABLES
  log,      \* the messages published and not handed over yet
  handed,   \* the messages the drains have handed over, in that order
  broker,   \* the messages the broker has
  failures  \* how many steps failed

vars == <<log, handed, broker, failures>>

Init == log = <<>> /\ handed = <<>> /\ broker = {} /\ failures = 0

New(m) ==
  /\ \A i \in DOMAIN log : log[i] # m
  /\ \A i \in DOMAIN handed : handed[i] # m
  /\ m \notin broker

Publish(m) ==
  /\ New(m)
  /\ log' = Append(log, m)
  /\ broker' = broker \cup {m}
  /\ UNCHANGED <<handed, failures>>

\* The failure loses the message on its way, or the answer on its way back...
FailToPublish(m) ==
  /\ New(m)
  /\ \/ log' = Append(log, m) /\ UNCHANGED broker
     \/ broker' = broker \cup {m} /\ UNCHANGED log
  /\ failures' = failures + 1
  /\ UNCHANGED handed

\* ...or harms no message.
Fail == failures' = failures + 1 /\ UNCHANGED <<log, handed, broker>>

Drain ==
  /\ log # <<>>
  /\ handed' = handed \o log
  /\ log' = <<>>
  /\ UNCHANGED <<broker, failures>>

Next == (\E m \in Messages : Publish(m) \/ FailToPublish(m)) \/ Fail \/ Drain

Spec == Init /\ [][Next]_vars
=============================================================================
