------------------------------ MODULE Release ------------------------------
(***************************************************************************)
(* Deploying the service.  In the "k3s" flow the operator keeps APP_ENV,   *)
(* may run prepare_env.py on it, and runs of the CI workflow render it,    *)
(* copy the manifests to a directory of the host that all runs share,      *)
(* apply them from there, migrate the database, and roll the API and then  *)
(* the worker over.                                                        *)
(* In the "compose" flow docker-compose.yml starts an API and a worker at  *)
(* once on an empty database; only the worker is restarted when it fails.  *)
(* A process reads its environment when its container starts, creates the  *)
(* tables it misses, then serves.  kubectl, the Deployment controller, the *)
(* container runtime and the database server are external.                 *)
(*                                                                         *)
(* One step here and several in the program: one scp of all the manifests; *)
(* what a run reads to make the migration's Secret and its deleting the    *)
(* Job; patching the Job's manifest and applying it.  A pod that is        *)
(* deleted is gone: what it still answers while it terminates is left out. *)
(***************************************************************************)
EXTENDS DeployConfig, FiniteSets

CONSTANTS
  Files,        \* environment files an operator starts from
  Drafts,       \* bound: those written later
  Shipped,      \* bound: those a run is started with, as written or prepared
  MaxRuns,      \* bound: runs of the workflow's deploy job
  Replicas,     \* API replicas
  MaxRetries,   \* the Job's backoffLimit
  MaxFaults     \* bound: containers killed and database outages

Runs == 1..MaxRuns          \* in the order they start
Worker == 0
ApiPods == 1..Replicas + 1  \* places for API containers, one of them to surge
Pods == ApiPods \cup {Worker}
NoImage == 0
BadImage == MaxRuns + 1     \* --image is empty, has a space or is a placeholder

ASSUME ReleaseConstants ==
  /\ \A f \in Files \cup Drafts \cup Shipped : IsFile(f)
  /\ \A f \in Shipped : Renders(f)
  /\ MaxRuns \in Nat /\ Replicas \in Nat \ {0}
  /\ MaxRetries \in Nat /\ MaxFaults \in Nat

VARIABLES
  flow,      \* how the service is deployed
  file,      \* APP_ENV
  run,       \* per run: how far it is, its image and what it rendered
  config, secret,  \* the ConfigMap and the Secret, as the settings they give
  manifests, \* the directory on the host
  migration, \* the database URL in the migration's Secret
  job,       \* the migration Job
  deployed,  \* the image of each Deployment
  pod,       \* per place: the container in it
  tables,    \* tables of the database
  up,        \* the database answers
  built,     \* images built so far
  overlapped,  \* history: two runs were under way at once
  faults

pipeline == <<run, built, overlapped>>
cluster == <<config, secret, manifests, migration>>
database == <<tables, up>>
vars == <<flow, file, pipeline, cluster, job, deployed, pod, database, faults>>

-----------------------------------------------------------------------------
\* The tables each process creates, in the order its repositories are built.
TablesOf(p) ==
  IF p = Worker THEN <<"service_orders", "processed_events">>
                ELSE <<"service_orders", "admin_users", "customers", "vehicles">>

Tables == {"service_orders", "processed_events", "admin_users", "customers", "vehicles"}

Nothing == [mode |-> "none"]
NoTable == "none"

\* phase: gone, booting, looking (about to check for its tables), creating (the one that
\* was missing), serving or failed.
Container(phase, image) ==
  [phase |-> phase, image |-> image, settings |-> Nothing, table |-> NoTable,
   ready |-> FALSE]

Gone == Container("gone", NoImage)

Serving(p) == pod[p].phase = "serving"

NoJob == [phase |-> "none", tries |-> 0, image |-> NoImage]

Idle == [phase |-> "idle", image |-> NoImage, config |-> Nothing, secret |-> Nothing]

Failed(image) == [Idle EXCEPT !.phase = "failed", !.image = image]

\* The API's Deployment or the worker's.
Of(p) == IF p = Worker THEN "worker" ELSE "api"

Init ==
  /\ flow \in {"k3s", "compose"}
  /\ IF flow = "compose"
       THEN /\ file \in Shipped
            /\ config = FromConfig(Composed(file))
            /\ secret = FromSecret(Composed(file))
       ELSE file \in Files /\ config = Nothing /\ secret = Nothing
  /\ run = [r \in Runs |-> Idle] /\ built = NoImage
  /\ manifests = Nothing /\ migration = Absent /\ job = NoJob
  /\ deployed = [d \in {"api", "worker"} |-> NoImage]
  /\ pod = [p \in Pods |->
              IF flow = "compose" /\ p \in {Worker, 1}
                THEN Container("booting", NoImage) ELSE Gone]
  /\ tables = {} /\ up = TRUE
  /\ overlapped = FALSE /\ faults = 0

-----------------------------------------------------------------------------
(* The operator *)

\* Bound: APP_ENV matters until the last run has rendered it.
RunToCome == \E r \in Runs : run[r].phase = "idle"

\* python3 scripts/deploy/prepare_env.py
PrepareEnv ==
  /\ flow = "k3s" /\ RunToCome
  /\ Accepts(file)
  /\ file' = Prepared(file)
  /\ UNCHANGED <<flow, pipeline, cluster, job, deployed, pod, database, faults>>

\* APP_ENV is replaced.
EditEnv(f) ==
  /\ flow = "k3s" /\ RunToCome
  /\ file \in Shipped
  /\ file' = f
  /\ UNCHANGED <<flow, pipeline, cluster, job, deployed, pod, database, faults>>

-----------------------------------------------------------------------------
(* A run of the workflow.  `set -e`: what fails ends it. *)

Ended(r) == run[r].phase \in {"passed", "failed"}

UnderWay(r) == run[r].phase # "idle" /\ ~Ended(r)

Goes(r, from, to) ==
  /\ run[r].phase = from
  /\ run' = [run EXCEPT ![r].phase = to]
  /\ UNCHANGED <<built, overlapped>>

\* A push builds a new image; a manual run of the same commit has the last one's.
Image(fresh) == IF fresh THEN built + 1 ELSE built

\* render_k8s_manifests.py, which checks the image and the required secrets.
Start(r, fresh, image) ==
  /\ flow = "k3s"
  /\ run[r].phase = "idle" /\ \A q \in 1..r - 1 : run[q].phase # "idle"
  /\ file \in Shipped
  /\ image \in {Image(fresh), BadImage} /\ image # NoImage
  /\ built' = IF image = BadImage THEN built ELSE image
  /\ run' = [run EXCEPT ![r] =
       IF image # BadImage /\ Renders(file)
         THEN [phase |-> "rendered", image |-> image,
               config |-> FromConfig(RenderedConfig(file)),
               secret |-> FromSecret(RenderedSecret(file))]
         ELSE Failed(image)]
  /\ overlapped' = (overlapped \/ \E q \in Runs : UnderWay(q))
  /\ UNCHANGED <<flow, file, cluster, job, deployed, pod, database, faults>>

\* ssh ... rm -rf .rendered-k8s && mkdir
ClearDirectory(r) ==
  /\ Goes(r, "rendered", "cleared")
  /\ manifests' = Nothing
  /\ UNCHANGED <<flow, file, config, secret, migration, job, deployed, pod, database, faults>>

Manifests(x) == [image |-> x.image, config |-> x.config, secret |-> x.secret]

\* scp
CopyManifests(r) ==
  /\ Goes(r, "cleared", "copied")
  /\ manifests' = Manifests(run[r])
  /\ UNCHANGED <<flow, file, config, secret, migration, job, deployed, pod, database, faults>>

\* What is applied is what the directory holds by then, which another run may have
\* cleared or filled; kubectl fails on a manifest that is not there.
Applies(r, from, to) == manifests # Nothing /\ Goes(r, from, to)

ApplyConfig(r) ==
  /\ Applies(r, "copied", "configured")
  /\ config' = manifests.config
  /\ UNCHANGED <<flow, file, secret, manifests, migration, job, deployed, pod, database, faults>>

ApplySecret(r) ==
  /\ Applies(r, "configured", "secured")
  /\ secret' = manifests.secret
  /\ UNCHANGED <<flow, file, config, manifests, migration, job, deployed, pod, database, faults>>

\* sed 's/?ssl=require/?sslmode=require/g'
MigrationUrl(u) == [u EXCEPT !.options = IF @ = "ssl" THEN "sslmode" ELSE @]

\* The migration's Secret is made of the Secret as it is now; the old Job is deleted.
DeleteJob(r) ==
  /\ Goes(r, "secured", "deleted")
  /\ migration' = MigrationUrl(secret.url)
  /\ job' = NoJob
  /\ UNCHANGED <<flow, file, config, secret, manifests, deployed, pod, database, faults>>

\* A Job that another run has made since stays as it is; its image cannot be changed.
ApplyJob(r) ==
  /\ Applies(r, "deleted", "migrating")
  /\ job.phase = "none" \/ job.image = manifests.image
  /\ job' = IF job.phase = "none"
              THEN [phase |-> "running", tries |-> 0, image |-> manifests.image] ELSE job
  /\ UNCHANGED <<flow, file, cluster, deployed, pod, database, faults>>

\* Mutant: the Job is tried again without a limit.
MigrateForEver ==
  /\ job.phase = "running"
  /\ IF up /\ Connects(RepositoryUrl(migration))
       THEN job' = [job EXCEPT !.tries = 0, !.phase = "complete"] /\ tables' = Tables
       ELSE job' = [job EXCEPT !.tries = @ + 1] /\ UNCHANGED tables
  /\ UNCHANGED <<flow, file, pipeline, cluster, deployed, pod, up, faults>>

\* alembic upgrade head: the tables that are missing, in one transaction.
Migrate ==
  /\ job.phase = "running"
  /\ IF up /\ Connects(RepositoryUrl(migration))
       THEN job' = [job EXCEPT !.tries = 0, !.phase = "complete"] /\ tables' = Tables
       ELSE /\ job' = [job EXCEPT !.tries = @ + 1,
                                  !.phase = IF job.tries < MaxRetries THEN @ ELSE "failed"]
            /\ UNCHANGED tables
  /\ UNCHANGED <<flow, file, pipeline, cluster, deployed, pod, up, faults>>

\* Mutant: the workflow goes on without waiting for the Job.
GoOn(r) ==
  /\ Goes(r, "migrating", "migrated")
  /\ UNCHANGED <<flow, file, cluster, job, deployed, pod, database, faults>>

\* kubectl wait --for=condition=complete
WaitForJob(r) ==
  /\ job.phase = "complete"
  /\ Goes(r, "migrating", "migrated")
  /\ UNCHANGED <<flow, file, cluster, job, deployed, pod, database, faults>>

\* deployment.yaml
ApplyApi(r) ==
  /\ Applies(r, "migrated", "halfway")
  /\ deployed' = [deployed EXCEPT !["api"] = manifests.image]
  /\ UNCHANGED <<flow, file, cluster, job, pod, database, faults>>

\* deployment-worker.yaml
ApplyWorker(r) ==
  /\ Applies(r, "halfway", "rolling")
  /\ deployed' = [deployed EXCEPT !["worker"] = manifests.image]
  /\ UNCHANGED <<flow, file, cluster, job, pod, database, faults>>

Current(p) == pod[p].phase # "gone" /\ pod[p].image = deployed[Of(p)]

Old(p) == pod[p].phase # "gone" /\ pod[p].image # deployed[Of(p)]

ReadyPods == {p \in ApiPods : pod[p].ready}

\* Mutant: any ready pod will do, an old one too.
ApiIsReady(r) ==
  /\ ReadyPods # {}
  /\ Goes(r, "rolling", "rolled")
  /\ UNCHANGED <<flow, file, cluster, job, deployed, pod, database, faults>>

\* kubectl rollout status, of the API
ApiRolledOut(r) ==
  /\ \A p \in ApiPods : ~Old(p)
  /\ Cardinality({p \in ReadyPods : Current(p)}) = Replicas
  /\ Goes(r, "rolling", "rolled")
  /\ UNCHANGED <<flow, file, cluster, job, deployed, pod, database, faults>>

\* and of the worker, whose container has no probe: it counts once it runs.
WorkerRolledOut(r) ==
  /\ Current(Worker) /\ pod[Worker].phase # "failed"
  /\ Goes(r, "rolled", "smoking")
  /\ UNCHANGED <<flow, file, cluster, job, deployed, pod, database, faults>>

\* curl /health and /health/ready
SmokeTest(r) ==
  /\ \E p \in ReadyPods : Serving(p) /\ AnswersReady(pod[p].settings, up)
  /\ Goes(r, "smoking", "passed")
  /\ UNCHANGED <<flow, file, cluster, job, deployed, pod, database, faults>>

\* A wait of 300 s, or the twelve attempts of the smoke test, are over; a connection
\* of the run failed; or kubectl refused what it was given.
GiveUp(r) ==
  /\ UnderWay(r)
  /\ run' = [run EXCEPT ![r] = Failed(@.image)]
  /\ UNCHANGED <<flow, file, built, overlapped, cluster, job, deployed, pod, database, faults>>

-----------------------------------------------------------------------------
(* The controller: a pod is added before an old one that serves is removed *)

CreatePod(p) ==
  /\ deployed[Of(p)] # NoImage
  /\ pod[p].phase = "gone"
  /\ p # Worker => /\ Cardinality({a \in ApiPods : Current(a)}) < Replicas
                   /\ \A a \in 1..p - 1 : pod[a].phase # "gone"
  /\ pod' = [pod EXCEPT ![p] = Container("booting", deployed[Of(p)])]
  /\ UNCHANGED <<flow, file, pipeline, cluster, job, deployed, database, faults>>

\* The worker has one replica and no probe: its old pod goes when the new one runs,
\* which is one step here.
DeletePod(p) ==
  /\ Old(p)
  /\ p # Worker => Cardinality(ReadyPods \ {p}) >= Replicas \/ ~pod[p].ready
  /\ pod' = [pod EXCEPT ![p] =
                IF p = Worker THEN Container("booting", deployed["worker"]) ELSE Gone]
  /\ UNCHANGED <<flow, file, pipeline, cluster, job, deployed, database, faults>>

-----------------------------------------------------------------------------
(* A process *)

Steps(p, to) ==
  /\ pod' = [pod EXCEPT ![p] = to]
  /\ UNCHANGED <<flow, file, pipeline, cluster, job, deployed, up>>

Fails(p) ==
  /\ Steps(p, Container("failed", pod[p].image))
  /\ UNCHANGED <<tables, faults>>

\* The container starts with the ConfigMap and the Secret as they are now.
Boot(p) ==
  /\ pod[p].phase = "booting"
  /\ LET s == Settings(config, secret)
     IN  IF Boots(s, p # Worker \/ flow = "compose")
           THEN /\ Steps(p, [pod[p] EXCEPT
                       !.settings = s,
                       !.phase = IF s.mode = "real" THEN "looking" ELSE "serving"])
                /\ UNCHANGED <<tables, faults>>
           ELSE Fails(p)

\* Mutant: create_all(checkfirst=False)
Unchecked(p) == TablesOf(p)[1]

\* create_all of one repository after the other, up to the first table that is not
\* there.  Tables are never dropped: those that are there take no step of their own.
Missing(p) ==
  LET missing == {i \in DOMAIN TablesOf(p) : TablesOf(p)[i] \notin tables}
  IN  IF missing = {} THEN NoTable
      ELSE TablesOf(p)[CHOOSE i \in missing : \A j \in missing : i <= j]

Look(p) ==
  /\ pod[p].phase = "looking"
  /\ IF up /\ Reaches(pod[p].settings)
       THEN /\ Steps(p, [pod[p] EXCEPT
                   !.phase = IF Missing(p) = NoTable THEN "serving" ELSE "creating",
                   !.table = Missing(p)])
            /\ UNCHANGED <<tables, faults>>
       ELSE Fails(p)

\* It is created, which fails if somebody else has done so by now.
CreateTable(p) ==
  /\ pod[p].phase = "creating"
  /\ IF up /\ pod[p].table \notin tables
       THEN /\ Steps(p, [pod[p] EXCEPT !.phase = "looking", !.table = NoTable])
            /\ tables' = tables \cup {pod[p].table}
            /\ UNCHANGED faults
       ELSE Fails(p)

\* The container is started again; docker-compose.yml says so of the worker only.
Restart(p) ==
  /\ pod[p].phase = "failed"
  /\ flow = "k3s" \/ p = Worker
  /\ Steps(p, Container("booting", pod[p].image))
  /\ UNCHANGED <<tables, faults>>

\* The readiness probe: GET /health/ready
Probe(p) ==
  /\ Serving(p) /\ p # Worker
  /\ pod[p].ready # AnswersReady(pod[p].settings, up)
  /\ Steps(p, [pod[p] EXCEPT !.ready = ~@])
  /\ UNCHANGED <<tables, faults>>

-----------------------------------------------------------------------------
(* Faults *)

Kill(p) ==
  /\ faults < MaxFaults
  /\ Serving(p)
  /\ Steps(p, Container("failed", pod[p].image))
  /\ faults' = faults + 1
  /\ UNCHANGED tables

Outage ==
  /\ up /\ faults < MaxFaults
  /\ up' = FALSE /\ faults' = faults + 1
  /\ UNCHANGED <<flow, file, pipeline, cluster, job, deployed, pod, tables>>

Recover ==
  /\ ~up
  /\ up' = TRUE
  /\ UNCHANGED <<flow, file, pipeline, cluster, job, deployed, pod, tables, faults>>

-----------------------------------------------------------------------------
RunStep(r) ==
  \/ \E fresh \in BOOLEAN, image \in 1..BadImage :
       Start(r, fresh, image)
  \/ ClearDirectory(r) \/ CopyManifests(r) \/ ApplyConfig(r) \/ ApplySecret(r)
  \/ DeleteJob(r) \/ ApplyJob(r) \/ WaitForJob(r) \/ ApplyApi(r) \/ ApplyWorker(r)
  \/ ApiRolledOut(r) \/ WorkerRolledOut(r) \/ SmokeTest(r) \/ GiveUp(r)

ProcessStep(p) ==
  Boot(p) \/ Look(p) \/ CreateTable(p) \/ Restart(p) \/ Probe(p)

PodStep(p) ==
  CreatePod(p) \/ DeletePod(p) \/ ProcessStep(p) \/ Kill(p)

Next ==
  \/ PrepareEnv \/ (\E f \in Drafts : EditEnv(f))
  \/ (\E r \in Runs : RunStep(r)) \/ Migrate
  \/ (\E p \in Pods : PodStep(p))
  \/ Outage \/ Recover

Spec == Init /\ [][Next]_vars

\* Every process takes its steps, containers are restarted and an outage ends.  Nobody
\* has to start a run or to fail, and no run has to get anywhere.
Fairness == WF_up(Recover) /\ \A p \in Pods : WF_pod(ProcessStep(p))

FairSpec == Spec /\ Fairness
=============================================================================
