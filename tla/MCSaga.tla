------------------------------- MODULE MCSaga -------------------------------
(***************************************************************************)
(* Small instances of SagaHandling for TLC.                                *)
(***************************************************************************)
EXTENDS SagaGuarantees, TLC

CONSTANTS o1, foreign

\* The replicas of the worker are interchangeable.
WorkerSymmetry == Permutations(Workers)

Both == {"quote_id", "payment_id"}

Billing(n, type, o) == [id |-> <<"billing", n>>, type |-> type, order |-> o, keys |-> Both]

Execution(n, type, o) == [id |-> <<"execution", n>>, type |-> type, order |-> o, keys |-> Both]

\* The messages of a saga that succeeds.
HappyPath(o) ==
  { Billing(1, "QUOTE_CREATED", o), Billing(2, "QUOTE_APPROVED", o),
    Billing(3, "PAYMENT_PREFERENCE_CREATED", o), Billing(4, "PAYMENT_CONFIRMED", o),
    Execution(1, "EXECUTION_STARTED", o), Execution(2, "EXECUTION_COMPLETED", o) }

FailurePath(o) ==
  { Billing(5, "QUOTE_FAILED", o), Billing(6, "PAYMENT_FAILED", o),
    Execution(3, "EXECUTION_ENQUEUE_FAILED", o), Execution(4, "EXECUTION_FAILED", o) }

\* An event type outside the contract, an order of nobody, a missing payment_id.
Misfits(o) ==
  { Execution(5, "EXECUTION_QUEUED", o), Billing(7, "QUOTE_APPROVED", foreign),
    [Billing(8, "PAYMENT_CONFIRMED", o) EXCEPT !.keys = {}] }

\* One failure of each kind of stage, and the happy path to be late for.
WorkerInputs ==
  HappyPath(o1) \cup {m \in FailurePath(o1) : m.type \in {"PAYMENT_FAILED", "EXECUTION_FAILED"}}

HappyInputs == HappyPath(o1)

ContendedInputs ==
  {m \in HappyPath(o1) : m.type \in {"QUOTE_CREATED", "QUOTE_APPROVED"}}
  \cup Misfits(o1)

ShortInputs ==
  {m \in HappyPath(o1) \cup FailurePath(o1) : m.type \in {"QUOTE_CREATED", "QUOTE_APPROVED", "QUOTE_FAILED"}}
=============================================================================
