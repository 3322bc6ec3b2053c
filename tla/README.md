# Verification of the service order service

This directory holds TLA+ models of `os-service`, the service that orchestrates
the service-order saga, and of the scripts and the workflow that deploy it, with
TLC configurations that check them on small instances and TLAPS proofs of what
holds for every instance. Source paths below are relative to the root of the
repository; the Python package is `src/`.

## The system

| Part | State it keeps | Operations | Interacts with |
|---|---|---|---|
| Service order aggregate, `src/domain/service_order.py` | `status` and `history` of one order | `open`, `request_quote`, `mark_*`, `request_execution`, `complete`, `fail` | returns the event to publish |
| Use cases, `src/application/use_cases.py` | none between calls | open an order, handle a saga event; create, update, delete customers and vehicles; register and log in administrators | repositories, publisher |
| Saga event handler, `src/application/event_handlers.py` | none | `handle`: skip a processed event, else run the use case and record the event | `processed_events`, use case |
| Worker, `src/worker.py`, `rabbitmq_blocking_worker.py` | one delivery at a time | receive, acknowledge, discard | broker, handler |
| Publisher, `rabbitmq_blocking_publisher.py` | lock, list of published messages | `publish`, `drain` | broker: binds the queue the worker reads |
| Tables, `sqlalchemy_*_repository.py`, `processed_event_repositories.py` | `service_orders`, `processed_events`, `customers`, `vehicles`, `admin_users` | one session and one transaction per method; `create_all` at start-up | every process |
| API routes, `src/presentation/api/routes/` | none | requests, run by a pool of threads in each replica | use cases, tokens |
| In-memory adapters | dictionaries and lists in one process | as the tables and the publisher | `APP_RUNTIME_MODE=memory` |
| Security, `presentation/dependencies/auth.py`, `infrastructure/security/` | none | sign, resolve a token, hash | routes |
| Settings, readiness, URL helpers | configuration read at start-up | load, validate, probe | every process, Deployment |
| `scripts/deploy/`, `scripts/docker/entrypoint.sh` | the environment file | check and rewrite it, render ConfigMap and Secret | operator, workflow |
| `.github/workflows/ci-cd.yml`, `k8s/`, `docker-compose.yml`, `alembic/` | ConfigMap, Secret, Job, Deployments | render, apply, migrate, roll out, smoke test | cluster |

The hard behaviour is between these parts, never inside one:

- nothing holds a lock or a transaction over two repository calls, so the worker
  and the API threads read, change and write the same rows past each other;
- the database and the broker are written one after the other, and a crash or
  an error may fall between;
- the worker records an event after its effects and acknowledges it after that,
  and discards it on any exception;
- Billing and Execution send their events independently, so they arrive late,
  early, twice, or for an order that is already finished;
- what the service publishes comes back to its own queue;
- a look-up that decides a write (uniqueness, ownership, activity) is stale by
  the time of the write;
- threads of a replica share its publisher, and in memory mode its orders;
- a release changes ConfigMap, Secret, tables and containers one after the
  other, two releases may overlap, and each may stop anywhere;
- the same environment file is read by the scripts, the entrypoint, the settings,
  the probe and the repositories under different rules.

`PROJECT.json` lists each of these hazards at its line with the properties that
cover it.

## Modules

| Module | Models |
|---|---|
| `ServiceOrder` | the aggregate's methods and the table of `HandleSagaEventUseCase._apply`, as operators on `[status, history]` |
| `SagaHandling` | workers, API threads, the two tables, the queue, faults |
| `OrderLifecycle` | what the service promises about an order: an abstract specification with no queue, table or process |
| `SagaGuarantees` | the properties of `SagaHandling`, and its refinement of `OrderLifecycle` |
| `Collaboration` | `SagaHandling` composed with Billing and Execution, and the properties of the whole |
| `Registry` | customers, vehicles, administrator accounts and the checks before an order is opened |
| `Directory` | what the registry promises: an abstract specification in which a request takes effect in one step |
| `RegistryGuarantees` | the properties of `Registry`, and its refinement of `Directory` |
| `ApiReplica` | the order and event routes of one API process, in either runtime mode: threads, order repository, publisher |
| `EvidenceLog` | what a publisher promises to those who ask it what was published: an abstract log |
| `ApiGuarantees` | the properties of `ApiReplica`, and the refinement of `EvidenceLog` in real mode |
| `DeployConfig` | the environment file through `prepare_env.py`, `render_k8s_manifests.py` and `settings.py`, as operators |
| `Access` | what a login signs and which principal a token is resolved to |
| `Release`, `ReleaseGuarantees` | operator, workflow runs, migration Job, containers, tables; tokens of one release at the processes of another |
| `SagaProofs`, `OwedProofs`, `SoleWorkerProofs`, `CollaborationProofs`, `RegistryProofs`, `ApiProofs`, `ReleaseProofs`, `PassedRunProofs` | theorems |
| `MCSaga`, `MCCollaboration`, `MCRegistry`, `MCApi`, `MCRelease` | instances for TLC |

### SagaHandling

Each actor (a worker process or an API thread) is at the *phase* whose database
or broker call it makes next, and holds what the code holds in local variables:
the event, the loaded copy of the order, the next event.

| Action | Code |
|---|---|
| `Deliver` | `basic_consume` with prefetch 1, JSON and envelope validation |
| `IsProcessed` | `handle`'s first look at `processed_events` |
| `LoadAndApply` | `repository.get`, then `_apply` on the copy |
| `Save` | `repository.save`, the whole row |
| `Publish` | `publish`, and the routing back into the queue |
| `MarkProcessed`, `InsertProcessed` | the look-up and the insert of `mark_processed` |
| `Ack`, `Nack` | `basic_ack`; `basic_nack(requeue=False)` |
| `Open`, `PostEvent` | `POST /service-orders`, `POST /service-orders/{id}/events` |
| `Send` | Billing and Execution, external |
| `Crash`, `CallFails`, `ConnectionLost`, `BrokerRestart` | faults |

A method of the aggregate that raises leaves it unchanged, so `ServiceOrder`
writes a call as a record: whether it raises, the order after it, the event. A
step that raises sends a worker to `nack` and ends an API request. A call that
took effect and then failed to return (a commit whose answer is lost) needs no
action of its own: it is the call followed by a failure of the next one.

Messages are an id, a type, an order and the set of identifiers in the payload.
An event id is a producer and a number, which stands for a fresh uuid; a
message sent twice is the same record twice. Reasons, timestamps, the
customer and vehicle of an order, and all wording are left out, because no step
of the saga depends on them.

### Collaboration

`SagaHandling` lets Billing and Execution send anything at any time.
`Collaboration` adds one variable, the messages they have sent, and one
restriction: each message is sent once, after what prompts it in the flow of
`docs/architecture/fase4-final.md` (`Prompted`), and of a quote, a payment, a
queued job and an execution there is one outcome (`Alternatives`). Execution
waits for `EXECUTION_REQUESTED`, Billing for `OS_OPENED`; everything else follows
from the partner's own previous message, as the partners do not wait for this
service. `CollaborationProofs` shows that this is a restriction only: every
behaviour is one of `SagaHandling`.

### Registry

A request is a sequence of repository calls still to be made; each call is a
step. `LookUps` gives the `find_by_*` calls in the order of the use cases, and
`Load` recomputes them for an update, because only a changed value is looked
up. Inserts and updates are refused by the unique columns of the tables
(`IntegrityError`, answered 500 because no route catches it); an update of a
row that is gone changes nothing and is answered with success, as in SQL.
`written` is a history variable: it records each row a table ever held and
tells which ids were ever given out.

`Directory` knows neither look-ups nor tables: a client asks to give an entry
certain values, and its request either takes effect or ends in vain, in one step.
The values of an entry are those of its unique columns; what a vehicle names is
its owner. In vain means that at that very moment a value is somebody else's, the
entry was removed, or what it names is not there. The one thing that is not atomic
is in `Effect`: what the request names was given, but need not be there any more.
Orders are not entries: what is left of their checks is `OrdersWereValid`.

### ApiReplica

`kind` is the runtime mode. In `real` mode `get` gives a copy and `save` writes
a row; in `memory` mode `get` gives the stored object, whose method is three
steps on the shared state: it reads the status, assigns it, appends to the
history.

| Action | Code |
|---|---|
| `OpenServiceOrder`, `GetServiceOrder`, `PostEvent`, `DrainEvents` | the routes: roles, ownership, the order the event is about (`Target`) |
| `Load` | `repository.get`, and on a copy `_apply` |
| `Check`, `SetStatus`, `AppendHistory` | `ServiceOrder._transition` on the shared object |
| `Save` | `repository.save`; the answer, if there is nothing to publish |
| `Acquire`, `BasicPublish`, `AppendMessage` | `publish`: lock, send, list; the answer |
| `SendIsLost` | `basic_publish` returns and RabbitMQ never gets the message: there are no publisher confirms |
| `CopyMessages`, `ClearMessages` | the two halves of `drain` |
| `CallFails` | a database or broker call that raises; RabbitMQ may have the message nevertheless, and the list does not get it |
| `CloseFails` | closing the connection raises, after the message is listed |

`stored`, `taken`, `returned`, `drained` and `exposed` are history variables; `taken`
is what RabbitMQ has, `returned` what `basic_publish` returned for, and a fault may
make either miss what the other has. The number of a request stands for the message
it publishes. `EvidenceLog` has a log, what was handed over and what the broker has; a
step of it either fails, and then may leave log and broker apart by its own message, or
keeps them together. A message is in the log of the real publisher from the moment
`basic_publish` returns (`InFlight`).

### DeployConfig, Access and Release

An environment file is a function from keys to values; a value is what it means
and whether it is spelt the way the program compares it (`Production` means
`production` and is not spelt plainly), and `DATABASE_URL` is a record of the
parts that some check or driver reads. `Accepts` and `Prepared` are
`prepare_env.py`; `Renders`, `RenderedConfig`, `RenderedSecret` are
`render_k8s_manifests.py`; `Loads`, `FromConfig`, `FromSecret` are `settings.py`;
`RepositoryUrl` and `ProbeUrl` are the two normalisations of the URL; `Boots` is
settings and `entrypoint.sh`. Keys that are read by the same rule share it.

| Action | Code |
|---|---|
| `PrepareEnv`, `EditEnv` | the operator runs `prepare_env.py`, replaces `APP_ENV` |
| `Start` | `render_k8s_manifests.py` in a run of the workflow |
| `ClearDirectory`, `CopyManifests` | `rm -rf` and `scp` of the directory on the host, which all runs share |
| `ApplyConfig`, `ApplySecret`, `ApplyApi`, `ApplyWorker` | the `kubectl apply` lines, of what the directory holds by then |
| `DeleteJob`, `ApplyJob`, `WaitForJob` | the migration's Secret and the old Job's removal; the Job; `kubectl wait` |
| `Migrate` | an attempt of the Job: `alembic upgrade head` |
| `ApiRolledOut`, `WorkerRolledOut`, `SmokeTest`, `GiveUp` | the end of a run |
| `CreatePod`, `DeletePod` | the Deployment controller, external |
| `Boot`, `Look`, `CreateTable` | start-up: settings, entrypoint, then `create_all` of each repository, which checks and then creates |
| `Restart`, `Probe` | container restart policy, readiness probe |
| `Kill`, `Outage`, `Recover` | faults |

In the `compose` flow an API and a worker start at once on an empty database,
both through `entrypoint.sh`; in the `k3s` flow the worker's Deployment has a
command of its own and skips it. docker-compose.yml does not go through the scripts:
`Composed` is its `environment`, with the default of each line, over the file. The
workflow has no `concurrency:` group, so its runs overlap, and one may apply what
another has copied: only until it has filled the directory does a run go by what it
rendered itself.

Some sequences of commands are one step: an `scp` of all the manifests; reading the
Secret, writing the migration's and deleting the Job; patching the Job's manifest in
`/tmp` and applying it. A pod that is deleted is gone at once: what it still
answers while it terminates is left out.

## Runs

| Run | Instance | States | Shows |
|---|---|---|---|
| `one_worker` | one worker, one API thread, 6 messages, one fault | 982 k | with a single actor applying saga events the service implements `OrderLifecycle`; no stage is announced twice; what is announced is saved; its own events are refused; histories only grow |
| `contended` | two workers, an administrator, 3 messages, one fault | 2.6 M | what survives any interleaving: saved histories are paths of the saga, an acknowledged event is recorded, a recorded event was answered, a saved stage is announced or about to be unless something failed |
| `progress` | one worker, an administrator, partners, one request, one fault, fair | 230 k | undisturbed, every message of the partners is accepted, the service never comes to rest with an order no partner can move on, and every order reaches a terminal status; no execution is requested unpaid; no late failure ends an order; compensations follow failures; the service's own events die out |
| `registry` | two threads, 2 customers, 2 vehicles, one account, one order, 4 requests | 283 k | unique values, final deletes, real conflicts, owners that existed, orders whose customer was active and whose vehicle was that customer's; requests do what they would do one at a time (`Directory`) |
| `api` | two threads, 2 customers and an administrator, one order, 4 requests, one fault, both modes, fair | 429 k | drains and list are what `basic_publish` returned for, they err about what RabbitMQ has by what failed and no more, and the publisher is a log (`EvidenceLog`); only the named race loses a message in memory; shared histories grow; nobody waits for the lock in vain, and it is always given back |
| `release` | one API replica and its surge, the worker, 2 runs, one retry of the Job, one fault, every one-line variation of three files, tokens of either release, both flows, fair | 487 k | prepared files are stable and start; pods find their tables; a run that passed alone with a new image left nothing old; tokens keep their role and outlive releases; every process starts in the end |

Runs that must find a violation state what a document, a test or the code's own
error message says:

| Run | Statement | What happens |
|---|---|---|
| `terminal_overwritten` | a terminal order keeps its status (`service_order.py:148`) | an API request and the worker load the same row; the second save wins |
| `compensation_lost` | a failure publishes `OS_COMPENSATION_REQUIRED` (`fase4-final.md:112`) | a fault between save and publish; later deliveries raise |
| `dropped_for_good` | retries are implemented (`fase4-final.md:122`) | one failed call discards the event |
| `redelivered_twice` | repeated messages are ignored (`fase4-final.md:103`) | a second worker gets the delivery while the first handles it |
| `path_ignored` | a posted event applies to the order of its path (`README.md:26`) | a `service_order_id` in the payload replaces it |
| `never_ready` | the API becomes ready on the documented `?ssl=require` URL (`docs/runbooks/k3s-github-actions-deploy.md:47`) | the repositories turn `ssl` into `sslmode`, the readiness probe does not |

Behaviours the models show and no run asserts either way:

- a `QUOTE_CREATED` that is handled beside another event may save its unchanged
  copy over a newer stage, and a late `PAYMENT_FAILED` ends an order whose
  execution was requested: `fail` looks only at terminal statuses. Partners that
  keep to the flow do not bring the second about (`NoFailureIsLate`,
  `PaidBeforeExecuted`), an administrator can;
- with two workers, two messages of one partner may be handled out of order, and
  the later one is discarded although nothing failed: `OrdersEnd` and
  `PeersAreHeard` need one worker;
- two registrations of one e-mail that pass the look-up together are answered
  with success and 500, not 409;
- deleting a customer leaves its vehicles, since no foreign key ties the tables;
  an order may be stored for a customer deleted between the check and the save, and a
  vehicle for an owner deleted between look-up and write. `OrdersWereValid` and
  `OwnersWereCustomers` say what is kept: each condition held at some moment, which
  need not be one of the request's;
- a call to RabbitMQ that raised may have published all the same, and one that
  returned may not have: `GET /events` then lacks a message, or shows one too many
  (`EvidenceErrsByFaults` counts them);
- with docker compose an API that loses the race for a table stays down, because
  only the worker has `restart`; `ProcessesStart` excepts it;
- a run with the image that is already deployed changes ConfigMap and Secret and
  rolls nothing over: the running pods keep what they read at their start, and
  `PassedRunRules` asks for an image of the run's own;
- `prepare_env.py` accepts what a process then fails on (`Gaps`): an unknown
  `APP_RUNTIME_MODE`, `postgresql://` (no driver for it is installed), a
  psycopg option that does not exist, a blank `EXPECTED_*`, which it skips and
  `settings.py` replaces by its default; and secrets given only as `*_FILE`,
  which the renderer refuses. Without `APP_RUNTIME_MODE` a deployment runs in
  memory mode, and is ready.

### Why the instances are enough

The saga's properties are about one order at a time: no action reads one order
to change another, and messages of other orders only move through the queue.
One order, the types of the happy path and of its failures, an unknown order
(`foreign`), a payload without its identifier and a type outside the contract
are therefore the cases the code tells apart. Six messages are the whole happy
path, or any shorter path with duplicates; one fault reaches every step at
which a process may be interrupted. `MaxQueue` holds back the senders while messages
wait, and never the service's own messages. Two workers and one thread
are the fewest that race in pairs on a row; more of them race in pairs too. The
worker's deployment has one replica (`k8s/deployment-worker.yaml`), two appear
during a rolling update. In `progress`, 7 messages are the longest documented
flow (`EXECUTION_QUEUED` included), and the queue is long enough for all of them
with all the echoes.

In `Registry` two threads suffice for each check-then-write race, and four
requests for the longest scenario the properties distinguish (create, and two
updates or a delete beside a request). Threads, customers, vehicles, e-mails and
plates are symmetric there, workers in `contended`; both runs check safety only.

In `api` two threads are the fewest that meet in the publisher or on a shared
order, and four requests open the order, move it twice at once and drain, or
look at it. `path_ignored` needs a second order.

In `release` two runs are the fewest that overlap; one replica and the pod that surges
beside it are the smallest Deployment that is never without a ready pod; one retry
distinguishes a Job that is tried again from one that is exhausted; one fault is an
outage or a kill at any step. The operator starts from any file that differs in one line
(every kind of value of every key) from the filled `.env.prod.example`, from the
documented URL or from a file with one secret for both kinds of token; runs are started
with the first and the last of these, prepared. The operator touches the file only while
a run is still to come (`RunToCome`): afterwards nobody reads it. Logging in stores
nothing, so a token is no state: `Signers` are the settings one may have been signed
with, a ConfigMap and a Secret of the same file or of different ones, and each token is
shown to every process in every state.

No run checks deadlock: once the bounds on messages, requests and runs are spent,
an idle system is where it should end, and the fair runs show that it gets there.

### Fairness

| Specification | Assumed | Why |
|---|---|---|
| `Collaboration!FairJointSpec` | weak fairness of each worker's step and of each use-case step of a request thread | `start_consuming` loops, a restarted process consumes again; a thread runs until its request ends |
| | weak fairness, per order, of a partner's answer | a quote, a payment, a job ends one way or the other in the end; which way is open |
| `SagaHandling!FairSpec` | the first of these | as above; nothing is assumed of senders |
| `ApiReplica!FairSpec` | weak fairness of each thread's step | as above. The lock is held for a bounded time and requests are bounded, so weak fairness of a thread suffices |
| `Release!FairSpec` | weak fairness of each process's step, restart and probe included, and of `Recover` | kubelet and `restart: unless-stopped`; an outage ends. No run has to start or to get anywhere |

Nothing is assumed of administrators, operators or faults.

## Proofs

For every value of the constants (any number of orders, workers, threads,
requests, runs, replicas and faults):

| Module | Theorem | Property |
|---|---|---|
| `SagaProofs` | `TypeCorrect` | `TypeOK` |
| | `SavedHistoryIsAPath` | `RowsAreCoherent` |
| | `AcknowledgedIsRecorded` | `AckedIsProcessed` |
| | `RecordedIsAnswered` | `ProcessedIsAnswered` |
| `OwedProofs` | `SavedIsNeverForgotten` | `SavedIsOwed` |
| `SoleWorkerProofs` | `NothingIsAnnouncedTwice`, `NothingIsAnnouncedUnsaved` | `AnnouncedOnce`, `AnnouncedIsSaved` |
| (at most one worker, | `EchoesMoveNothing`, `HistoryIsKept` | `EchoesAreRefused`, `HistoryOnlyGrows` |
| nobody posts events) | `ServiceImplementsLifecycle` | `ImplementsLifecycle`: the refinement of `OrderLifecycle` |
| `CollaborationProofs` | `PartnersAreInputs` | `JointSpec => Spec` |
| | `ExecutionWasPaid` | `PaidBeforeExecuted` |
| | `FailuresAreInTime` | `NoFailureIsLate` |
| | `AmongPartners`, `PartnersSeeTheLifecycle` | the properties above except `TypeOK`, of `JointSpec` |
| (one worker, partners | `PartnersAreHeard` | `PeersAreHeard` |
| fill in their payloads) | `NobodyWaitsForEverybody` | `OrdersCanGoOn` |
| `RegistryProofs` | `NoValueTwice`, `RegistryTypes` | `KeysAreUnique`, `TypeOK` |
| | `OrdersWereChecked`, `OwnersWereLookedUp` | `OrdersWereValid`, `OwnersWereCustomers` |
| | `RefusalsAreReal`, `DeletesAreFinal` | `ConflictsAreReal`, `DeletedStaysDeleted` |
| | `RegistryImplementsDirectory` | `ImplementsDirectory`: the refinement of `Directory` |
| `ApiProofs` | `ReplicaTypes` | `TypeOK` |
| | `EvidenceIsWhatWasSent`, `RacesAloneLose` | `EvidenceIsExact`, `OnlyRacesLose` |
| | `FaultsAloneErr` | `EvidenceErrsByFaults` |
| | `PublisherImplementsLog` | `ImplementsEvidenceLog`: the refinement of `EvidenceLog` |
| | `TheLockComesBack` | `WaitersAreServed` |
| | `HistoriesGrow` | `SharedHistoryGrows` |
| | `OwnersAlone`, `ShownIsStored` | `CustomersSeeTheirOwn`, `ShownWasStored`: no run checks them |
| `ReleaseProofs` | `PrepareTwice`, `PreparedStaysPrepared` | of the scripts, for every file; `PreparedIsStable` |
| | `AcceptedStarts` | `AcceptedFilesStart` |
| | `NoTokenChangesRole`, `SessionsOutliveReleases` | `RolesAreApart`, `SessionsSurvive` |
| `PassedRunProofs` | `MigratedFirst` | `NewPodsFindTheirTables` |
| | `ReleaseTypes`, `PassingRunRules` | `TypeOK`, `PassedRunRules` |

They rest on the named assumptions of the modules alone (`SagaConstants`,
`RegistryConstants`, `ReplicaConstants`, `ReleaseConstants`, `SignerConstants`): kinds of ids and
values that do not overlap, well-formed inputs and files. The theorems of
`SoleWorkerProofs` state one more, `Sole`, as their hypothesis; the runs
`terminal_overwritten` and `redelivered_twice` show what happens without it.
`PartnersAreHeard` and `NobodyWaitsForEverybody` need `OneWorker` and
`CompletePayloads` (a message carries the identifiers the use case asks of its
type: without them it raises, and the worker discards the message). Both properties
speak of the time until the first fault or event posted by hand.

**Saga.** `SagaInv` is the type invariant with coherence of the rows *and of
every copy an actor is about to save*, without which a save could store
anything. `ApplyOutcome` and `OpeningOutcome` give what the aggregate returns
from a coherent order. `UnsettledInv` says which message a worker holds: one of
the inputs or one of the service's own. `AnswerInv` follows an input through the
phases: at `publish` the next event is the answer to the message, from `mark` on
it is published or there is none, and an id in `processed_events` has been
through all of them. `OwedInv` adds to `SavedIsOwed` the copies: each entry of
one that is to be saved is announced, owed by somebody, or added by its holder,
who then owes it; otherwise overwriting a row would forget an event.
`PaidInv` carries what Billing and Execution reported from the message through
queue, worker, row and publication: every entry a history has for a report, and
every way to `EXECUTION_REQUESTED`, goes through a message they sent. Two of the
types are published by the service too, but only as the answer to such a message,
so reading them back makes nothing up. `FailuresAreInTime` then needs only that a
stage is reported once (`OnePerStage`): the row that ends in the failure and holds
what it denies would show two reports of one stage.

**One worker.** The argument is about ranks: `Lifecycle` raises the rank of a
status, so the entries of a history rise (`RowsRise`), and each event stands for
entries of one rank only (`AnnouncedRank`). Whatever an order accepts therefore
leads to an event that is not yet out (`MoveIsNew`), and copies, redeliveries and
echoes are refused for one reason. `SoleInv` holds this together: nobody speaks of
an order that was not announced (`QueueKnown`), hence a thread that opens an order
and the worker never hold the same one (`Alone`), hence the row is at `save` still
what was loaded (`MovesOn`) and at `publish` still what was saved (`ActorOK`). The
refinement follows step by step: a save is `Advance` or `Fail`, a publish
`Announce`, an actor that dies in between `Forget`, and the rest stutters.

**Among partners.** `StageOf` numbers the stages of an order, and gives a message
the stage it is for. `PeersInv` says of an undisturbed run: partners have sent at
most one message per stage, and one for a stage only after the stages before it
(`Conversation`); the one queue and the one worker keep that order
(`QueueSorted`, `WorkerAhead`); a message of a partner is still to come exactly when
its stage is ahead of its order's row (`AwaitingIsAhead`, `ProcessedIsBehind`), so
the order accepts it when its turn comes; and what the service reads back of its own
is for a stage the order has left (`Stale`), so discarding it loses nothing. At rest
every message that was sent has been handled, so a row stands at the stage of the
last one; with `SavedIsOwed` what that stage announces is out, which is what the next
partner waits for (`Prompted`): hence `OrdersCanGoOn`, the safety half of
`OrdersEnd`. Only that partners answer and processes run is left to fairness.

**Registry.** `KeysInv` is inductive with nothing but the domain of the tables,
because the last word is the table's own and not the look-up's. The others need
what a request under way has seen. `EveryStep` reduces the actions to seven kinds
of step; `RowsWritten` says that a row in a table was written, and `written`
only grows; `PathInv` and `OwnerPath` pair the calls a request has left with what
the calls it has made have shown, which stays true of `written` when it is long
false of the tables; `FreshInv` says that a request that will insert has an id
nobody else has, so that no insert brings a deleted row back. The refinement of
`Directory` needs all of them: the step that ends a request is where it takes
effect. A write is `Effect`: the table's columns check the values, and `OwnerPath`
that the owner was written. A request that ends otherwise is `Vain`: the look-up
that refuses it (`Taken`), or the missing row, is a fact of that very step. All
look-ups that pass stutter.

**API.** `TypeInv` ties each phase to what the thread holds. `LockInv` is
`EvidenceIsExact` with mutual exclusion (the lock's holder is the one thread
between `lock` and its release) and with the fact that a drain's copy is still the
whole list. Who is inside the lock is therefore on the way out, so whoever waits is
served (`WaitersAreServed`). `LockInv` also settles when the log changes: `returned`
is what was handed over followed by the log, so a step that leaves `returned` and
`drained` alone leaves the log alone (`EvidenceStays`), whatever it does to the list
and the lock. What remains is that no message is listed or taken twice: `NumberInv` gives
the requests under way numbers of their own, none of them returned or taken before its
`append`. `ErrorInv` counts the messages that RabbitMQ has and `basic_publish` did not
return for, or the reverse: every step that adds one is a fault, and `LockInv` turns
`returned` into the evidence. `RaceInv` is its counterpart without a lock: a drain's copy misses
only what was appended since. `ClientInv` gives each thread an order of its own
customer and each answer a stored state; it needs that an order a thread works
on cannot be opened again.

**Release.** `TablesInv`: in the `k3s` flow a container, a Deployment's image, a
complete Job or a run that has waited for one each imply that all tables exist; it does
not matter whose Job it was. The theorems about tokens need no invariant: a token is its
claims and the secret it was signed with, and what tells the kinds apart is the claim.
`PreparedStarts` follows a prepared file through the ConfigMap and the Secret
(`InConfig`) into `Settings`. `RunsInv` says of the run that has an image nobody else
has (`Sole`) how far the directory and the cluster have followed it, place by place
(`Followed`): until its Deployment is applied a place does not carry that image,
afterwards what carries it has read this run's ConfigMap and Secret, and once `kubectl
rollout status` has returned for it nothing else is left; between the two Deployments
the API may be ahead of the worker. That no other run can interfere needs `Images` (an
image that is new to `render` is new to the cluster) and `Alone` (while runs do not
overlap, the one under way is the last that started).

Only model-checked: liveness (`RequestsEnd`, `OrdersEnd`, `EchoesDieOut`,
`CompensationFollows`, `ProcessesStart`), which is beyond the prover. Every invariant,
action property and refinement that a passing run checks is a theorem, some under
the hypotheses named above.

## Not modelled

- The in-memory repositories of customers, vehicles and administrators, used by
  tests and local runs: they share objects between threads as the in-memory
  orders do, and have no unique columns.
- CPF, CNPJ and plate validation (`domain/validation.py`): string functions
  without state. The tables take their outcome as a value.
- Password hashing, and the lifetime of tokens: an expired token is refused by
  every process alike, and the models' tokens are within theirs.
- Reading routes of customers and vehicles, logging, metrics, HTTP headers and
  CORS: nothing in them is read back by the program.
- `k8s/hpa.yaml`, `ingress.yaml`, `service.yaml` and `runtime-dependencies/`: they
  count pods, route to ready ones, or deploy other software.
- The workflow's `validate` and `build-publish` jobs, before `deploy`.

## Plan

1. The registry on the in-memory repositories, against the same `Directory`.
2. The safety halves of the remaining liveness properties, as `OrdersCanGoOn` is one
   of `OrdersEnd`: a process of a release that is not serving can take a step.
