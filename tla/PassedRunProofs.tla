-------------------------- MODULE PassedRunProofs --------------------------
(***************************************************************************)
(* Theorems about the runs of the workflow: the types of the state, that a *)
(* run that passed left nothing of an earlier release behind, and that     *)
(* nothing starts before the migration, for any files, runs, replicas,     *)
(* retries, restarts and outages.                                          *)
(***************************************************************************)
EXTENDS ReleaseGuarantees, FiniteSetTheorems, TLAPS

-----------------------------------------------------------------------------
(* The invariant *)

Before ==
  {"rendered", "cleared", "copied", "configured", "secured", "deleted", "migrating", "migrated"}

After == {"rolling", "rolled", "smoking", "passed"}

Started == Before \cup {"halfway"} \cup After

\* The phases in which a run still reads its directory, and those after it has applied
\* the ConfigMap and the Secret.
Reading == {"copied", "configured", "secured", "deleted", "migrating", "migrated", "halfway"}

Configured == (Reading \ {"copied"}) \cup After

Secured == Configured \ {"configured"}

\* The phases of a container that has read its environment.
Loaded == {"looking", "creating", "serving"}

Shapes ==
  /\ DOMAIN run = Runs
  /\ \A r \in Runs : DOMAIN run[r] = {"phase", "image", "config", "secret"}
  /\ DOMAIN pod = Pods
  /\ \A p \in Pods : DOMAIN pod[p] = {"phase", "image", "settings", "table", "ready"}

\* A run has an image once it started: one that was built, or a bad one it failed for.
HasImage(x, n) ==
  /\ x.phase = "idle" => x.image = NoImage
  /\ x.phase # "idle" => x.image \in 1..n \/ (x.image = BadImage /\ x.phase = "failed")

\* Nothing carries an image that was not built, a run that has one was started, and
\* the last image built is that of some run.
Images ==
  /\ built \in 0..MaxRuns
  /\ DOMAIN deployed = {"api", "worker"} /\ \A d \in DOMAIN deployed : deployed[d] \in 0..built
  /\ manifests # Nothing => manifests.image \in 1..built
  /\ \A p \in Pods : pod[p].image \in 0..built
  /\ \A r \in Runs : HasImage(run[r], built)
  /\ built # NoImage => \E r \in Runs : run[r].image = built

\* While runs do not overlap, the one that is under way started last.
Alone == ~overlapped => \A r \in Runs : UnderWay(r) => run[r].image = built

Sole(r) ==
  /\ run[r].phase \notin {"idle", "failed"} /\ run[r].image = built /\ ~overlapped
  /\ \A q \in Runs \ {r} : run[q].image # run[r].image

\* The run has applied the Deployment of the place, or seen it rolled out.
Applied(r, p) == run[r].phase \in After \/ (run[r].phase = "halfway" /\ p # Worker)

RolledOut(r, p) ==
  run[r].phase \in {"smoking", "passed"} \/ (run[r].phase = "rolled" /\ p # Worker)

\* How far a place has followed the run.
Followed(r, p) ==
  /\ ~Applied(r, p) => deployed[Of(p)] # built /\ pod[p].image # built
  /\ Applied(r, p) =>
       /\ deployed[Of(p)] = built
       /\ pod[p].image = built /\ pod[p].phase \in Loaded =>
            pod[p].settings = Settings(run[r].config, run[r].secret)
  /\ RolledOut(r, p) /\ pod[p].phase # "gone" => pod[p].image = built

\* How far the cluster has followed a run that has an image of its own.
Reached(r) ==
  /\ run[r].phase \in Started
  /\ run[r].phase \in Reading => manifests = Manifests(run[r])
  /\ run[r].phase \in Configured => config = run[r].config
  /\ run[r].phase \in Secured => secret = run[r].secret
  /\ \A p \in Pods : Followed(r, p)

RunsInv ==
  /\ Shapes /\ Images /\ Alone
  /\ \A r \in Runs : Sole(r) => Reached(r)

-----------------------------------------------------------------------------
(* Its first state and what leaves it alone *)

LEMMA ContainerShape ==
  ASSUME NEW phase, NEW image
  PROVE  /\ DOMAIN Container(phase, image) = {"phase", "image", "settings", "table", "ready"}
         /\ Container(phase, image).phase = phase /\ Container(phase, image).image = image
         /\ Container(phase, image).table = NoTable /\ Container(phase, image).ready = FALSE
BY DEF Container

LEMMA RunShape ==
  ASSUME NEW image
  PROVE  /\ DOMAIN Idle = {"phase", "image", "config", "secret"}
         /\ Idle.phase = "idle" /\ Idle.image = NoImage
         /\ DOMAIN Failed(image) = {"phase", "image", "config", "secret"}
         /\ Failed(image).phase = "failed" /\ Failed(image).image = image
<1>1. DOMAIN Idle = {"phase", "image", "config", "secret"} /\ Idle.phase = "idle" /\ Idle.image = NoImage
  BY DEF Idle
<1>2. PICK i : i = [Idle EXCEPT !.phase = "failed"]
  OBVIOUS
<1>3. DOMAIN i = DOMAIN Idle /\ i.phase = "failed"
  BY <1>1, <1>2
<1>4. PICK j : j = [i EXCEPT !.image = image]
  OBVIOUS
<1>5. DOMAIN j = DOMAIN i /\ j.phase = i.phase /\ j.image = image
  BY <1>1, <1>3, <1>4
<1>6. j = Failed(image)
  BY <1>2, <1>4, Zenon DEF Failed
<1>7. QED BY <1>1, <1>3, <1>5, <1>6

LEMMA Beginning == Init => RunsInv
<1> SUFFICES ASSUME Init PROVE RunsInv
  OBVIOUS
<1>1. /\ run = [r \in Runs |-> Idle] /\ built = 0 /\ manifests = Nothing
      /\ DOMAIN deployed = {"api", "worker"} /\ \A d \in DOMAIN deployed : deployed[d] = 0
  BY DEF Init, NoImage
<1>2. DOMAIN pod = Pods
  BY DEF Init
<1>3. ASSUME NEW p \in Pods PROVE DOMAIN pod[p] = {"phase", "image", "settings", "table", "ready"} /\ pod[p].image = 0
  <2>1. pod[p] = Container("booting", NoImage) \/ pod[p] = Container("gone", NoImage)
    BY DEF Init, Gone
  <2>2. PICK c : c = pod[p]
    OBVIOUS
  <2>3. DOMAIN c = {"phase", "image", "settings", "table", "ready"} /\ c.image = NoImage
    BY <2>1, <2>2 DEF Container, NoImage
  <2>4. QED BY <2>2, <2>3 DEF NoImage
<1>4. \A r \in Runs : run[r] = Idle
  BY <1>1
<1>5. \A r \in Runs : DOMAIN run[r] = {"phase", "image", "config", "secret"} /\ run[r].phase = "idle" /\ run[r].image = 0
  BY <1>4, RunShape DEF NoImage
<1>6. Shapes
  BY <1>1, <1>2, <1>3, <1>5 DEF Shapes
<1>7. Images
  BY <1>1, <1>3, <1>5, ReleaseConstants DEF Images, HasImage, NoImage
<1>8. Alone /\ \A r \in Runs : ~Sole(r)
  BY <1>5 DEF Alone, UnderWay, Sole
<1>9. QED BY <1>6, <1>7, <1>8 DEF RunsInv

LEMMA RunsStay ==
  ASSUME RunsInv, UNCHANGED <<pipeline, cluster, deployed, pod>>
  PROVE  RunsInv'
<1>1. UNCHANGED <<run, built, overlapped, config, secret, manifests, deployed, pod>>
  BY DEF pipeline, cluster
<1>2. Shapes' /\ Images' /\ Alone'
  BY <1>1 DEF RunsInv, Shapes, Images, Alone, UnderWay, Ended
<1>3. \A r \in Runs : Sole(r)' => Reached(r)'
  BY <1>1 DEF RunsInv, Sole, Reached, Followed, Applied, RolledOut
<1>4. QED BY <1>2, <1>3 DEF RunsInv

-----------------------------------------------------------------------------
(* A container *)

\* What any step of a container or the controller makes of a place: empty, a new
\* container of the deployed image, or one that goes on, with the settings it has read
\* or with those it reads now.
Successor(p, c) ==
  /\ DOMAIN c = {"phase", "image", "settings", "table", "ready"}
  /\ \/ c.image = NoImage /\ c.phase = "gone"
     \/ c.image = deployed[Of(p)] /\ c.phase = "booting"
     \/ /\ c.image = pod[p].image /\ pod[p].phase # "gone"
        /\ c.phase \in Loaded =>
             \/ c.settings = Settings(config, secret)
             \/ pod[p].phase \in Loaded /\ c.settings = pod[p].settings

LEMMA PodChanges ==
  ASSUME RunsInv, NEW p \in Pods, NEW c, Successor(p, c), pod' = [pod EXCEPT ![p] = c],
         UNCHANGED <<pipeline, cluster, deployed>>
  PROVE  RunsInv'
<1>0. UNCHANGED <<run, built, overlapped, config, secret, manifests, deployed>>
  BY DEF pipeline, cluster
<1>1. DOMAIN pod' = Pods /\ pod'[p] = c /\ \A q \in Pods \ {p} : pod'[q] = pod[q]
  BY DEF RunsInv, Shapes
<1>2. Shapes'
  BY <1>0, <1>1 DEF RunsInv, Shapes, Successor
<1>3. c.image \in 0..built
  <2>1. Of(p) \in DOMAIN deployed
    BY DEF RunsInv, Images, Of
  <2>2. built \in Nat
    BY DEF RunsInv, Images
  <2>3. QED BY <2>1, <2>2 DEF RunsInv, Images, Successor, NoImage
<1>4. Images'
  BY <1>0, <1>1, <1>3 DEF RunsInv, Images
<1>5. Alone'
  BY <1>0 DEF RunsInv, Alone, UnderWay, Ended
<1>6. ASSUME NEW r \in Runs, Sole(r)' PROVE Reached(r)'
  <2>1. Sole(r)
    BY <1>0, <1>6 DEF Sole
  <2>2. Reached(r)
    BY <2>1 DEF RunsInv
  <2>3. built \in Nat /\ built # 0
    BY <2>1, ReleaseConstants DEF Sole, RunsInv, Images, HasImage, BadImage
  <2>4. ASSUME NEW q \in Pods, q # p PROVE Followed(r, q)'
    BY <1>0, <1>1, <2>2, <2>4 DEF Reached, Followed, Applied, RolledOut
  <2>5. Followed(r, p)'
    <3>1. Followed(r, p)
      BY <2>2 DEF Reached
    <3>2. ASSUME ~Applied(r, p) PROVE c.image # built
      BY <2>3, <3>1, <3>2 DEF Followed, Successor, NoImage
    <3>3. ASSUME Applied(r, p), c.image = built, c.phase \in Loaded
          PROVE  c.settings = Settings(run[r].config, run[r].secret)
      <4>1. config = run[r].config /\ secret = run[r].secret
        BY <2>2, <3>3 DEF Reached, Applied, Secured, Configured, Reading, After
      <4>2. /\ c.image = pod[p].image
            /\ \/ c.settings = Settings(config, secret)
               \/ pod[p].phase \in Loaded /\ c.settings = pod[p].settings
        BY <3>3 DEF Successor, Loaded
      <4>3. QED BY <3>1, <3>3, <4>1, <4>2 DEF Followed
    <3>4. ASSUME RolledOut(r, p), c.phase # "gone" PROVE c.image = built
      <4>1. Applied(r, p)
        BY <3>4 DEF Applied, RolledOut, After
      <4>2. QED BY <3>1, <3>4, <4>1 DEF Followed, Successor
    <3>5. QED BY <1>0, <1>1, <3>1, <3>2, <3>3, <3>4 DEF Followed, Applied, RolledOut
  <2>6. \A q \in Pods : Followed(r, q)'
    BY <2>4, <2>5
  <2>7. QED BY <1>0, <2>2, <2>6 DEF Reached
<1>7. QED BY <1>2, <1>4, <1>5, <1>6 DEF RunsInv

LEMMA PodKeepsRuns ==
  ASSUME RunsInv, NEW p \in Pods, PodStep(p) PROVE RunsInv'
<1>0. DOMAIN pod[p] = {"phase", "image", "settings", "table", "ready"}
  BY DEF RunsInv, Shapes
<1>1. ASSUME NEW c, Successor(p, c), Steps(p, c) PROVE RunsInv'
  BY <1>1, PodChanges DEF Steps
<1>2. ASSUME NEW phase \in {"failed", "booting"}, pod[p].phase # "gone", Steps(p, Container(phase, pod[p].image))
      PROVE  RunsInv'
  <2>1. PICK c : c = Container(phase, pod[p].image)
    OBVIOUS
  <2>2. Successor(p, c)
    <3>0. PICK i : i = pod[p].image
      OBVIOUS
    <3>1. DOMAIN c = {"phase", "image", "settings", "table", "ready"} /\ c.phase = phase /\ c.image = i
      BY <2>1, <3>0 DEF Container
    <3>2. QED BY <1>2, <3>0, <3>1 DEF Successor, Loaded
  <2>3. QED BY <1>1, <1>2, <2>1, <2>2
<1>3. CASE CreatePod(p)
  <2>1. PICK c : c = Container("booting", deployed[Of(p)])
    OBVIOUS
  <2>2. /\ DOMAIN c = {"phase", "image", "settings", "table", "ready"} /\ c.phase = "booting"
        /\ c.image = deployed[Of(p)]
    <3>1. PICK i : i = deployed[Of(p)]
      OBVIOUS
    <3>2. c = Container("booting", i)
      BY <2>1, <3>1
    <3>3. DOMAIN c = {"phase", "image", "settings", "table", "ready"} /\ c.phase = "booting" /\ c.image = i
      BY <3>2, ContainerShape, Zenon
    <3>4. QED BY <3>1, <3>3
  <2>3. QED BY <1>3, <2>1, <2>2, PodChanges DEF CreatePod, Successor
<1>4. CASE DeletePod(p)
  <2>1. PICK c : c = IF p = Worker THEN Container("booting", deployed["worker"]) ELSE Gone
    OBVIOUS
  <2>2. Successor(p, c)
    <3>1. CASE p = Worker
      <4>1. /\ DOMAIN c = {"phase", "image", "settings", "table", "ready"} /\ c.phase = "booting"
            /\ c.image = deployed[Of(p)]
        <5>1. PICK i : i = deployed["worker"]
          OBVIOUS
        <5>2. c = Container("booting", i)
          BY <2>1, <3>1, <5>1
        <5>3. DOMAIN c = {"phase", "image", "settings", "table", "ready"} /\ c.phase = "booting" /\ c.image = i
          BY <5>2, ContainerShape, Zenon
        <5>4. QED BY <3>1, <5>1, <5>3 DEF Of
      <4>2. QED BY <4>1 DEF Successor
    <3>2. CASE p # Worker
      <4>1. DOMAIN c = {"phase", "image", "settings", "table", "ready"} /\ c.phase = "gone" /\ c.image = NoImage
        BY <2>1, <3>2, ContainerShape, Zenon DEF Gone
      <4>2. QED BY <4>1 DEF Successor
    <3>3. QED BY <3>1, <3>2
  <2>3. QED BY <1>4, <2>1, <2>2, PodChanges DEF DeletePod
<1>5. CASE Boot(p)
  <2>1. CASE Fails(p)
    BY <1>2, <1>5, <2>1 DEF Boot, Fails
  <2>2. CASE ~Fails(p)
    <3>1. PICK s : s = Settings(config, secret)
      OBVIOUS
    <3>2. PICK c : c = [pod[p] EXCEPT !.settings = s, !.phase = IF s.mode = "real" THEN "looking" ELSE "serving"]
      OBVIOUS
    <3>3. Steps(p, c) /\ pod[p].phase # "gone"
      BY <1>5, <2>2, <3>1, <3>2 DEF Boot
    <3>4. DOMAIN c = DOMAIN pod[p] /\ c.image = pod[p].image /\ c.settings = s
      BY <1>0, <3>2
    <3>5. QED BY <1>0, <1>1, <3>1, <3>3, <3>4 DEF Successor
  <2>3. QED BY <2>1, <2>2
<1>6. CASE Look(p)
  <2>1. CASE Fails(p)
    BY <1>2, <1>6, <2>1 DEF Look, Fails
  <2>2. CASE ~Fails(p)
    <3>1. PICK c : c = [pod[p] EXCEPT !.phase = IF Missing(p) = NoTable THEN "serving" ELSE "creating",
                                      !.table = Missing(p)]
      OBVIOUS
    <3>2. Steps(p, c) /\ pod[p].phase = "looking"
      BY <1>6, <2>2, <3>1 DEF Look
    <3>3. DOMAIN c = DOMAIN pod[p] /\ c.image = pod[p].image /\ c.settings = pod[p].settings
      BY <1>0, <3>1
    <3>4. QED BY <1>0, <1>1, <3>2, <3>3 DEF Successor, Loaded
  <2>3. QED BY <2>1, <2>2
<1>7. CASE CreateTable(p)
  <2>1. CASE Fails(p)
    BY <1>2, <1>7, <2>1 DEF CreateTable, Fails
  <2>2. CASE ~Fails(p)
    <3>1. PICK c : c = [pod[p] EXCEPT !.phase = "looking", !.table = NoTable]
      OBVIOUS
    <3>2. Steps(p, c) /\ pod[p].phase = "creating"
      BY <1>7, <2>2, <3>1 DEF CreateTable
    <3>3. DOMAIN c = DOMAIN pod[p] /\ c.image = pod[p].image /\ c.settings = pod[p].settings
      BY <1>0, <3>1
    <3>4. QED BY <1>0, <1>1, <3>2, <3>3 DEF Successor, Loaded
  <2>3. QED BY <2>1, <2>2
<1>8. CASE Restart(p)
  BY <1>2, <1>8 DEF Restart
<1>9. CASE Probe(p)
  <2>1. PICK c : c = [pod[p] EXCEPT !.ready = ~@]
    OBVIOUS
  <2>2. Steps(p, c) /\ pod[p].phase = "serving"
    BY <1>9, <2>1 DEF Probe, Serving
  <2>3. DOMAIN c = DOMAIN pod[p] /\ c.image = pod[p].image /\ c.settings = pod[p].settings
    BY <1>0, <2>1
  <2>4. QED BY <1>0, <1>1, <2>2, <2>3 DEF Successor, Loaded
<1>10. CASE Kill(p)
  BY <1>2, <1>10 DEF Kill, Serving
<1>11. QED BY <1>3, <1>4, <1>5, <1>6, <1>7, <1>8, <1>9, <1>10 DEF PodStep, ProcessStep

-----------------------------------------------------------------------------
(* A run *)

\* A run that has an image of its own is the only one under way.
LEMMA SoleIsAlone ==
  ASSUME RunsInv, NEW r \in Runs, NEW q \in Runs, Sole(q), UnderWay(r) PROVE q = r
<1>1. run[r].image = built
  BY DEF RunsInv, Alone, Sole
<1>2. QED BY <1>1 DEF Sole

\* What a run that goes from one phase to another leaves to prove: what it has reached
\* itself, if its image is its own.
LEMMA GoesOn ==
  ASSUME RunsInv, NEW r \in Runs, NEW from \in Started \ {"passed"}, NEW to \in Started,
         Goes(r, from, to), UNCHANGED pod,
         DOMAIN deployed' = {"api", "worker"}, \A d \in DOMAIN deployed' : deployed'[d] \in 0..built,
         manifests' # Nothing => manifests'.image \in 1..built,
         Sole(r) /\ Reached(r) => Reached(r)'
  PROVE  RunsInv'
<1>0. /\ run[r].phase = from /\ UNCHANGED <<built, overlapped, pod>>
      /\ run' = [run EXCEPT ![r].phase = to]
  BY DEF Goes
<1>1. /\ DOMAIN run' = Runs /\ DOMAIN run'[r] = DOMAIN run[r]
      /\ run'[r].phase = to /\ run'[r].image = run[r].image
      /\ \A q \in Runs \ {r} : run'[q] = run[q]
  BY <1>0 DEF RunsInv, Shapes
<1>2. UnderWay(r)
  BY <1>0 DEF UnderWay, Ended, Started, Before, After
<1>3. \A q \in Runs : run'[q].image = run[q].image
  BY <1>1
<1>4. run[r].image \in 1..built
  BY <1>0 DEF RunsInv, Images, HasImage, Started, Before, After
<1>5. built \in Nat /\ 1..built \subseteq 0..built
  BY DEF RunsInv, Images
<1>6. Shapes'
  BY <1>0, <1>1 DEF RunsInv, Shapes
<1>7. Images'
  <2>1. ASSUME NEW q \in Runs PROVE HasImage(run'[q], built)
    <3>1. CASE q = r
      BY <1>1, <1>4, <3>1 DEF HasImage, Started, Before, After
    <3>2. CASE q # r
      BY <1>1, <3>2 DEF RunsInv, Images
    <3>3. QED BY <3>1, <3>2
  <2>2. QED BY <1>0, <1>3, <2>1 DEF RunsInv, Images
<1>8. Alone'
  BY <1>0, <1>1, <1>2, <1>3 DEF RunsInv, Alone, UnderWay, Ended
<1>9. ASSUME NEW q \in Runs, Sole(q)' PROVE Reached(q)'
  <2>1. Sole(q)
    <3>1. run[q].phase \notin {"idle", "failed"}
      BY <1>0, <1>1, <1>9 DEF Sole, Started, Before, After
    <3>2. QED BY <1>0, <1>3, <1>9, <3>1 DEF Sole
  <2>2. q = r /\ Reached(r)
    BY <1>2, <2>1, SoleIsAlone DEF RunsInv
  <2>3. QED BY <2>1, <2>2
<1>10. QED BY <1>6, <1>7, <1>8, <1>9 DEF RunsInv

LEMMA StartKeepsRuns ==
  ASSUME RunsInv, NEW r \in Runs, NEW fresh \in BOOLEAN, NEW image \in 1..BadImage, Start(r, fresh, image)
  PROVE  RunsInv'
<1>1. PICK s : s = IF image # BadImage /\ Renders(file)
                     THEN [phase |-> "rendered", image |-> image,
                           config |-> FromConfig(RenderedConfig(file)), secret |-> FromSecret(RenderedSecret(file))]
                     ELSE Failed(image)
  OBVIOUS
<1>2. /\ DOMAIN s = {"phase", "image", "config", "secret"} /\ s.image = image
      /\ s.phase \in {"rendered", "failed"} /\ (s.phase = "rendered" => image # BadImage)
  <2>1. CASE image # BadImage /\ Renders(file)
    BY <1>1, <2>1
  <2>2. CASE ~(image # BadImage /\ Renders(file))
    BY <1>1, <2>2, RunShape
  <2>3. QED BY <2>1, <2>2
<1>3. /\ run[r].phase = "idle" /\ run' = [run EXCEPT ![r] = s]
      /\ image \in {Image(fresh), BadImage} /\ image # NoImage
      /\ built' = (IF image = BadImage THEN built ELSE image)
      /\ overlapped' = (overlapped \/ \E q \in Runs : UnderWay(q))
      /\ UNCHANGED <<config, secret, manifests, deployed, pod>>
  BY <1>1 DEF Start, cluster
<1>4. /\ DOMAIN run' = Runs /\ run'[r] = s /\ \A q \in Runs \ {r} : run'[q] = run[q]
  BY <1>3 DEF RunsInv, Shapes
<1>5. /\ MaxRuns \in Nat /\ BadImage = MaxRuns + 1 /\ built \in 0..MaxRuns /\ image \in 1..MaxRuns + 1
      /\ image # BadImage => image \in {built, built + 1} /\ image \in 1..MaxRuns
  BY <1>3, ReleaseConstants DEF BadImage, RunsInv, Images, Image
<1>6. built' \in 0..MaxRuns /\ built <= built' /\ (image # BadImage => built' = image)
  BY <1>3, <1>5
<1>7. run[r].image = NoImage
  BY <1>3 DEF RunsInv, Images, HasImage
<1>8. Shapes'
  BY <1>2, <1>3, <1>4 DEF RunsInv, Shapes
<1>9. Images'
  <2>1. \A n \in 0..built : n \in 0..built'
    BY <1>5, <1>6
  <2>2. \A n \in 1..built : n \in 1..built'
    BY <1>5, <1>6
  <2>3. /\ DOMAIN deployed' = {"api", "worker"} /\ \A d \in DOMAIN deployed' : deployed'[d] \in 0..built'
        /\ \A p \in Pods : pod'[p].image \in 0..built'
        /\ manifests' # Nothing => manifests'.image \in 1..built'
    BY <1>3, <2>1, <2>2 DEF RunsInv, Images
  <2>4. HasImage(s, built')
    BY <1>2, <1>5, <1>6 DEF HasImage
  <2>5. ASSUME NEW q \in Runs \ {r} PROVE HasImage(run'[q], built')
    BY <1>4, <2>2 DEF RunsInv, Images, HasImage
  <2>6. built' # NoImage => \E q \in Runs : run'[q].image = built'
    <3>1. CASE image # BadImage
      BY <1>2, <1>4, <1>6, <3>1
    <3>2. CASE image = BadImage
      BY <1>3, <1>4, <1>7, <3>2 DEF RunsInv, Images
    <3>3. QED BY <3>1, <3>2
  <2>7. QED BY <1>4, <1>6, <2>3, <2>4, <2>5, <2>6 DEF Images
<1>10. Alone'
  <2> SUFFICES ASSUME ~overlapped', NEW q \in Runs, UnderWay(q)' PROVE run'[q].image = built'
    BY DEF Alone
  <2>1. ~UnderWay(q)
    BY <1>3
  <2>2. q = r
    BY <1>4, <2>1 DEF UnderWay, Ended
  <2>3. s.phase = "rendered"
    BY <1>2, <1>4, <2>2 DEF UnderWay, Ended
  <2>4. QED BY <1>2, <1>4, <1>6, <2>2, <2>3
<1>11. ASSUME NEW q \in Runs, Sole(q)' PROVE Reached(q)'
  <2>1. /\ run'[q].phase \notin {"idle", "failed"} /\ run'[q].image = built' /\ ~overlapped'
        /\ \A o \in Runs \ {q} : run'[o].image # run'[q].image
    BY <1>11 DEF Sole
  <2>2. CASE q = r
    <3>1. s.phase = "rendered" /\ image # BadImage /\ built' = image
      BY <1>2, <1>4, <1>6, <2>1, <2>2
    <3>2. image # built
      <4> SUFFICES ASSUME image = built PROVE FALSE
        OBVIOUS
      <4>1. PICK o \in Runs : run[o].image = built
        BY <1>3 DEF RunsInv, Images
      <4>2. o # r
        BY <1>3, <1>7, <4>1
      <4>3. QED BY <1>2, <1>4, <2>1, <2>2, <4>1, <4>2
    <3>3. image = built + 1 /\ built \in Nat
      BY <1>5, <3>1, <3>2
    <3>4. \A p \in Pods : deployed[Of(p)] # image /\ pod[p].image # image
      BY <3>3 DEF RunsInv, Images, Of
    <3>5. \A p \in Pods : Followed(r, p)'
      BY <1>3, <1>4, <3>1, <3>4 DEF Followed, Applied, RolledOut, After
    <3>6. QED BY <1>4, <2>2, <3>1, <3>5 DEF Reached, Started, Before, Reading, Configured, Secured, After
  <2>3. CASE q # r
    <3>1. run'[q] = run[q] /\ run'[r].image = image
      BY <1>2, <1>4, <2>3
    <3>2. image = BadImage
      BY <1>6, <2>1, <2>3, <3>1
    <3>3. built' = built /\ ~overlapped
      BY <1>3, <2>1, <3>2
    <3>4. run[q].image # NoImage
      BY <2>1, <3>1, ReleaseConstants DEF RunsInv, Images, HasImage, NoImage, BadImage
    <3>5. Sole(q)
      BY <1>4, <1>7, <2>1, <3>1, <3>3, <3>4 DEF Sole
    <3>6. Reached(q)
      BY <3>5 DEF RunsInv
    <3>7. QED BY <1>3, <3>1, <3>3, <3>6 DEF Reached, Followed, Applied, RolledOut
  <2>4. QED BY <2>2, <2>3
<1>12. QED BY <1>8, <1>9, <1>10, <1>11 DEF RunsInv

LEMMA GoesRun ==
  ASSUME Shapes, NEW r \in Runs, NEW from, NEW to, Goes(r, from, to)
  PROVE  /\ DOMAIN run' = Runs /\ DOMAIN run'[r] = DOMAIN run[r]
         /\ run[r].phase = from /\ run'[r].phase = to
         /\ run'[r].image = run[r].image /\ run'[r].config = run[r].config /\ run'[r].secret = run[r].secret
         /\ \A q \in Runs \ {r} : run'[q] = run[q]
         /\ UNCHANGED <<built, overlapped>>
BY DEF Goes, Shapes

LEMMA GivesUpRun ==
  ASSUME Shapes, NEW r \in Runs, GiveUp(r)
  PROVE  /\ DOMAIN run' = Runs /\ DOMAIN run'[r] = DOMAIN run[r]
         /\ run'[r].phase = "failed" /\ run'[r].image = run[r].image
         /\ \A q \in Runs \ {r} : run'[q] = run[q]
         /\ UNCHANGED <<built, overlapped, config, secret, manifests, deployed, pod>>
<1>1. PICK s : s = Failed(run[r].image)
  OBVIOUS
<1>2. PICK i : i = run[r].image
  OBVIOUS
<1>3. DOMAIN s = {"phase", "image", "config", "secret"} /\ s.phase = "failed" /\ s.image = i
  <2>1. s = Failed(i)
    BY <1>1, <1>2
  <2>2. QED BY <2>1, RunShape
<1>4. run' = [run EXCEPT ![r] = s] /\ UNCHANGED <<built, overlapped, config, secret, manifests, deployed, pod>>
  BY <1>1 DEF GiveUp, cluster
<1>5. QED BY <1>2, <1>3, <1>4 DEF Shapes

\* A step that applies no Deployment and waits for none leaves the places as far as
\* they were.
LEMMA FollowsOn ==
  ASSUME Shapes, NEW r \in Runs, NEW from \in Started, NEW to \in Started, Goes(r, from, to),
         from \in {"halfway", "rolling", "rolled"} => FALSE, to \in {"halfway", "rolling", "rolled"} => FALSE,
         from \in Before <=> to \in Before,
         UNCHANGED <<deployed, pod>>, Reached(r)
  PROVE  \A p \in Pods : Followed(r, p)'
<1> SUFFICES ASSUME NEW p \in Pods PROVE Followed(r, p)'
  OBVIOUS
<1>1. /\ run[r].phase = from /\ run'[r].phase = to /\ UNCHANGED built
      /\ run'[r].config = run[r].config /\ run'[r].secret = run[r].secret
  BY GoesRun
<1>2. (Applied(r, p)' <=> Applied(r, p)) /\ (RolledOut(r, p)' <=> RolledOut(r, p))
  BY <1>1 DEF Applied, RolledOut, Started, Before, After
<1>3. Followed(r, p)
  BY DEF Reached
<1>4. QED BY <1>1, <1>2, <1>3 DEF Followed

LEMMA RunKeepsRuns ==
  ASSUME RunsInv, NEW r \in Runs, RunStep(r) PROVE RunsInv'
<1>0. /\ Shapes /\ built \in Nat
      /\ DOMAIN deployed = {"api", "worker"} /\ \A d \in DOMAIN deployed : deployed[d] \in 0..built
      /\ manifests # Nothing => manifests.image \in 1..built
  BY DEF RunsInv, Images
<1>1. CASE \E fresh \in BOOLEAN, image \in 1..BadImage : Start(r, fresh, image)
  BY <1>1, StartKeepsRuns
<1>2. CASE ClearDirectory(r)
  <2>1. Goes(r, "rendered", "cleared") /\ manifests' = Nothing /\ UNCHANGED <<config, secret, deployed, pod>>
    BY <1>2 DEF ClearDirectory
  <2>2. ASSUME Reached(r) PROVE Reached(r)'
    <3>1. \A p \in Pods : Followed(r, p)'
      BY <1>0, <2>1, <2>2, FollowsOn DEF Started, Before, After
    <3>2. QED BY <1>0, <2>1, <3>1, GoesRun DEF Reached, Started, Before, Reading, Configured, Secured, After
  <2>3. QED BY <1>0, <2>1, <2>2, GoesOn DEF Started, Before
<1>3. CASE CopyManifests(r)
  <2>1. /\ Goes(r, "cleared", "copied") /\ manifests' = Manifests(run[r])
        /\ UNCHANGED <<config, secret, deployed, pod>>
    BY <1>3 DEF CopyManifests
  <2>2. ASSUME Reached(r) PROVE Reached(r)'
    <3>1. \A p \in Pods : Followed(r, p)'
      BY <1>0, <2>1, <2>2, FollowsOn DEF Started, Before, After
    <3>2. manifests' = Manifests(run'[r])
      BY <1>0, <2>1, GoesRun DEF Manifests
    <3>3. QED BY <1>0, <2>1, <3>1, <3>2, GoesRun
               DEF Reached, Started, Before, Reading, Configured, Secured, After
  <2>3. manifests'.image = run[r].image
    BY <2>1 DEF Manifests
  <2>4. run[r].image \in 1..built
    BY <2>1 DEF Goes, RunsInv, Images, HasImage
  <2>5. QED BY <1>0, <2>1, <2>2, <2>3, <2>4, GoesOn DEF Started, Before
<1>4. CASE ApplyConfig(r)
  <2>1. /\ Goes(r, "copied", "configured") /\ config' = manifests.config
        /\ UNCHANGED <<secret, manifests, deployed, pod>>
    BY <1>4 DEF ApplyConfig, Applies
  <2>2. ASSUME Reached(r) PROVE Reached(r)'
    <3>1. \A p \in Pods : Followed(r, p)'
      BY <1>0, <2>1, <2>2, FollowsOn DEF Started, Before, After
    <3>2. manifests = Manifests(run[r]) /\ manifests = Manifests(run'[r])
      BY <1>0, <2>1, <2>2, GoesRun DEF Reached, Reading, Manifests
    <3>3. config' = run'[r].config
      BY <2>1, <3>2 DEF Manifests
    <3>4. QED BY <1>0, <2>1, <3>1, <3>2, <3>3, GoesRun
               DEF Reached, Started, Before, Reading, Configured, Secured, After
  <2>3. QED BY <1>0, <2>1, <2>2, GoesOn DEF Started, Before
<1>5. CASE ApplySecret(r)
  <2>1. /\ Goes(r, "configured", "secured") /\ secret' = manifests.secret
        /\ UNCHANGED <<config, manifests, deployed, pod>>
    BY <1>5 DEF ApplySecret, Applies
  <2>2. ASSUME Reached(r) PROVE Reached(r)'
    <3>1. \A p \in Pods : Followed(r, p)'
      BY <1>0, <2>1, <2>2, FollowsOn DEF Started, Before, After
    <3>2. manifests = Manifests(run[r]) /\ manifests = Manifests(run'[r])
      BY <1>0, <2>1, <2>2, GoesRun DEF Reached, Reading, Manifests
    <3>3. secret' = run'[r].secret /\ config' = run'[r].config
      BY <1>0, <2>1, <2>2, <3>2, GoesRun DEF Manifests, Reached, Configured, Reading
    <3>4. QED BY <1>0, <2>1, <3>1, <3>2, <3>3, GoesRun
               DEF Reached, Started, Before, Reading, Configured, Secured, After
  <2>3. QED BY <1>0, <2>1, <2>2, GoesOn DEF Started, Before
<1>6. ASSUME NEW from, NEW to,
             <<from, to>> \in {<<"secured", "deleted">>, <<"deleted", "migrating">>,
                              <<"migrating", "migrated">>, <<"smoking", "passed">>},
             Goes(r, from, to), UNCHANGED <<config, secret, manifests, deployed, pod>>
      PROVE  RunsInv'
  <2>1. from \in Started \ {"passed"} /\ to \in Started
    BY <1>6 DEF Started, Before, After
  <2>2. ASSUME Reached(r) PROVE Reached(r)'
    <3>1. \A p \in Pods : Followed(r, p)'
      BY <1>0, <1>6, <2>1, <2>2, FollowsOn DEF Before
    <3>2. Manifests(run'[r]) = Manifests(run[r])
      BY <1>0, <1>6, GoesRun DEF Manifests
    <3>3. /\ to \in Reading => from \in Reading
          /\ to \in Configured => from \in Configured
          /\ to \in Secured => from \in Secured
      BY <1>6 DEF Reading, Configured, Secured, After
    <3>4. QED BY <1>0, <1>6, <2>1, <2>2, <3>1, <3>2, <3>3, GoesRun DEF Reached
  <2>3. QED BY <1>0, <1>6, <2>1, <2>2, GoesOn
<1>7. CASE DeleteJob(r)
  BY <1>6, <1>7 DEF DeleteJob
<1>8. CASE ApplyJob(r) \/ WaitForJob(r) \/ SmokeTest(r)
  BY <1>6, <1>8 DEF ApplyJob, Applies, WaitForJob, SmokeTest, cluster
<1>9. CASE ApplyApi(r)
  <2>1. /\ Goes(r, "migrated", "halfway") /\ deployed' = [deployed EXCEPT !["api"] = manifests.image]
        /\ manifests # Nothing /\ UNCHANGED <<config, secret, manifests, pod>>
    BY <1>9 DEF ApplyApi, Applies, cluster
  <2>2. DOMAIN deployed' = {"api", "worker"} /\ deployed'["api"] = manifests.image
        /\ deployed'["worker"] = deployed["worker"] /\ manifests.image \in 0..built
    BY <1>0, <2>1
  <2>3. ASSUME Sole(r), Reached(r) PROVE Reached(r)'
    <3>1. manifests = Manifests(run[r]) /\ manifests = Manifests(run'[r])
      BY <1>0, <2>1, <2>3, GoesRun DEF Reached, Reading, Manifests
    <3>2. manifests.image = built
      BY <2>3, <3>1 DEF Manifests, Sole
    <3>3. ASSUME NEW p \in Pods PROVE Followed(r, p)'
      <4>1. Followed(r, p) /\ ~Applied(r, p)
        BY <1>0, <2>1, <2>3, GoesRun DEF Reached, Applied, After
      <4>2. (Applied(r, p)' <=> p # Worker) /\ ~RolledOut(r, p)'
        BY <1>0, <2>1, GoesRun DEF Applied, RolledOut, After
      <4>3. QED BY <1>0, <2>1, <2>2, <3>2, <4>1, <4>2, GoesRun DEF Followed, Of
    <3>4. QED BY <1>0, <2>1, <2>3, <3>1, <3>3, GoesRun
               DEF Reached, Started, Before, Reading, Configured, Secured, After
  <2>4. QED BY <1>0, <2>1, <2>2, <2>3, GoesOn DEF Started, Before
<1>10. CASE ApplyWorker(r)
  <2>1. /\ Goes(r, "halfway", "rolling") /\ deployed' = [deployed EXCEPT !["worker"] = manifests.image]
        /\ manifests # Nothing /\ UNCHANGED <<config, secret, manifests, pod>>
    BY <1>10 DEF ApplyWorker, Applies, cluster
  <2>2. DOMAIN deployed' = {"api", "worker"} /\ deployed'["worker"] = manifests.image
        /\ deployed'["api"] = deployed["api"] /\ manifests.image \in 0..built
    BY <1>0, <2>1
  <2>3. ASSUME Sole(r), Reached(r) PROVE Reached(r)'
    <3>1. manifests = Manifests(run[r])
      BY <1>0, <2>1, <2>3, GoesRun DEF Reached, Reading
    <3>2. manifests.image = built
      BY <2>3, <3>1 DEF Manifests, Sole
    <3>3. ASSUME NEW p \in Pods PROVE Followed(r, p)'
      <4>1. Followed(r, p) /\ (Applied(r, p) <=> p # Worker)
        BY <1>0, <2>1, <2>3, GoesRun DEF Reached, Applied, After
      <4>2. Applied(r, p)' /\ ~RolledOut(r, p)'
        BY <1>0, <2>1, GoesRun DEF Applied, RolledOut, After
      <4>3. QED BY <1>0, <2>1, <2>2, <3>2, <4>1, <4>2, GoesRun DEF Followed, Of
    <3>4. QED BY <1>0, <2>1, <2>3, <3>3, GoesRun
               DEF Reached, Started, Before, Reading, Configured, Secured, After
  <2>4. QED BY <1>0, <2>1, <2>2, <2>3, GoesOn DEF Started, After
<1>11. CASE ApiRolledOut(r)
  <2>1. Goes(r, "rolling", "rolled") /\ UNCHANGED <<config, secret, manifests, deployed, pod>>
    BY <1>11 DEF ApiRolledOut, cluster
  <2>2. \A p \in Pods : p # Worker /\ pod[p].phase # "gone" => pod[p].image = deployed[Of(p)]
    BY <1>11 DEF ApiRolledOut, Old, Pods
  <2>3. ASSUME Sole(r), Reached(r) PROVE Reached(r)'
    <3>1. ASSUME NEW p \in Pods PROVE Followed(r, p)'
      <4>1. Followed(r, p) /\ Applied(r, p)
        BY <1>0, <2>1, <2>3, GoesRun DEF Reached, Applied, After
      <4>2. Applied(r, p)' /\ (RolledOut(r, p)' <=> p # Worker)
        BY <1>0, <2>1, GoesRun DEF Applied, RolledOut, After
      <4>3. QED BY <1>0, <2>1, <2>2, <4>1, <4>2, GoesRun DEF Followed
    <3>2. QED BY <1>0, <2>1, <2>3, <3>1, GoesRun
               DEF Reached, Started, Before, Reading, Configured, Secured, After
  <2>4. QED BY <1>0, <2>1, <2>3, GoesOn DEF Started, After
<1>12. CASE WorkerRolledOut(r)
  <2>1. Goes(r, "rolled", "smoking") /\ UNCHANGED <<config, secret, manifests, deployed, pod>>
    BY <1>12 DEF WorkerRolledOut, cluster
  <2>2. pod[Worker].image = deployed[Of(Worker)]
    BY <1>12 DEF WorkerRolledOut, Current
  <2>3. ASSUME Sole(r), Reached(r) PROVE Reached(r)'
    <3>1. ASSUME NEW p \in Pods PROVE Followed(r, p)'
      <4>1. Followed(r, p) /\ Applied(r, p) /\ (RolledOut(r, p) <=> p # Worker)
        BY <1>0, <2>1, <2>3, GoesRun DEF Reached, Applied, RolledOut, After
      <4>2. Applied(r, p)' /\ RolledOut(r, p)'
        BY <1>0, <2>1, GoesRun DEF Applied, RolledOut, After
      <4>3. QED BY <1>0, <2>1, <2>2, <4>1, <4>2, GoesRun DEF Followed
    <3>2. QED BY <1>0, <2>1, <2>3, <3>1, GoesRun
               DEF Reached, Started, Before, Reading, Configured, Secured, After
  <2>4. QED BY <1>0, <2>1, <2>3, GoesOn DEF Started, After
<1>13. CASE GiveUp(r)
  <2>1. /\ DOMAIN run' = Runs /\ DOMAIN run'[r] = DOMAIN run[r]
        /\ run'[r].phase = "failed" /\ run'[r].image = run[r].image
        /\ \A q \in Runs \ {r} : run'[q] = run[q]
        /\ UNCHANGED <<built, overlapped, config, secret, manifests, deployed, pod>>
    BY <1>0, <1>13, GivesUpRun
  <2>2. \A q \in Runs : run'[q].image = run[q].image
    BY <2>1
  <2>3. Shapes'
    BY <1>0, <2>1 DEF Shapes
  <2>4. HasImage(run'[r], built)
    BY <1>13, <2>1 DEF RunsInv, Images, HasImage, GiveUp, UnderWay
  <2>5. Images'
    BY <2>1, <2>2, <2>4 DEF RunsInv, Images
  <2>6. Alone'
    BY <2>1 DEF RunsInv, Alone, UnderWay, Ended
  <2>7. ASSUME NEW q \in Runs, Sole(q)' PROVE Reached(q)'
    <3>1. q # r /\ run'[q] = run[q]
      BY <2>1, <2>7 DEF Sole
    <3>2. Sole(q)
      BY <2>1, <2>2, <2>7, <3>1 DEF Sole
    <3>3. QED BY <2>1, <3>1, <3>2 DEF RunsInv, Reached, Followed, Applied, RolledOut
  <2>8. QED BY <2>3, <2>5, <2>6, <2>7 DEF RunsInv
<1>14. QED BY <1>1, <1>2, <1>3, <1>4, <1>5, <1>7, <1>8, <1>9, <1>10, <1>11, <1>12, <1>13 DEF RunStep

LEMMA RunsInvHolds == Spec => []RunsInv
<1>1. RunsInv /\ [Next]_vars => RunsInv'
  <2> SUFFICES ASSUME RunsInv, [Next]_vars PROVE RunsInv'
    OBVIOUS
  <2>1. CASE UNCHANGED vars
    BY <2>1, RunsStay DEF vars
  <2>2. CASE PrepareEnv \/ (\E f \in Drafts : EditEnv(f)) \/ Migrate \/ Outage \/ Recover
    BY <2>2, RunsStay DEF PrepareEnv, EditEnv, Migrate, Outage, Recover
  <2>3. ASSUME NEW r \in Runs, RunStep(r) PROVE RunsInv'
    BY <2>3, RunKeepsRuns
  <2>4. ASSUME NEW p \in Pods, PodStep(p) PROVE RunsInv'
    BY <2>4, PodKeepsRuns
  <2>5. QED BY <2>1, <2>2, <2>3, <2>4 DEF Next
<1>2. QED BY <1>1, Beginning, PTL DEF Spec

\* However many releases failed before it, whatever was restarted while it ran and
\* whatever the ConfigMap and the Secret said in between, a run that ran alone and
\* passed with a new image has every serving process on that image and its file.
THEOREM PassingRunRules == Spec => []PassedRunRules
<1>1. RunsInv => PassedRunRules
  <2> SUFFICES ASSUME RunsInv, NEW r \in Runs, HadTheLastWord(r), NEW p \in Pods, Serving(p)
               PROVE  /\ pod[p].image = run[r].image
                      /\ pod[p].settings = Settings(run[r].config, run[r].secret)
    BY DEF PassedRunRules
  <2>1. Sole(r) /\ run[r].phase = "passed"
    BY DEF HadTheLastWord, Sole
  <2>2. Reached(r)
    BY <2>1 DEF RunsInv
  <2>3. Followed(r, p) /\ Applied(r, p) /\ RolledOut(r, p)
    BY <2>1, <2>2 DEF Reached, Applied, RolledOut, After
  <2>4. QED BY <2>1, <2>3 DEF Followed, Serving, Sole, Loaded
<1>2. QED BY <1>1, RunsInvHolds, PTL

-----------------------------------------------------------------------------
(* Tables *)

\* The run has seen a Job complete.
Migrated(r) == run[r].phase \in {"migrated", "halfway"}

\* In the cluster nothing runs before the migration has made every table, and tables
\* stay: what NewPodsFindTheirTables needs to be inductive.
TablesInv ==
  flow = "k3s" =>
    /\ \/ job.phase = "complete" \/ (\E p \in Pods : pod[p].phase # "gone")
       \/ \E r \in Runs : Migrated(r)
       \/ \E d \in DOMAIN deployed : deployed[d] # NoImage
       => tables = Tables
    /\ \A p \in Pods : pod[p].phase # "creating"

\* The containers are those there were.
LEMMA TablesStay ==
  ASSUME TablesInv, UNCHANGED <<flow, pod, deployed>>,
         tables' = tables \/ tables' = Tables,
         job'.phase = "complete" => job.phase = "complete" \/ tables' = Tables,
         \A r \in Runs : Migrated(r)' => Migrated(r) \/ job.phase = "complete"
  PROVE  TablesInv'
BY DEF TablesInv

\* One container changes, and not to create a table.
LEMMA ContainerChanges ==
  ASSUME TablesInv, Shapes, flow = "k3s", UNCHANGED <<flow, tables>>, NEW p \in Pods, NEW c,
         pod' = [pod EXCEPT ![p] = c], c.phase # "creating",
         (\E d \in DOMAIN deployed : deployed[d] # NoImage) \/ pod[p].phase # "gone"
  PROVE  TablesInv'
<1>1. tables = Tables
  BY DEF TablesInv
<1>2. \A q \in Pods : pod'[q].phase # "creating"
  BY DEF TablesInv, Shapes
<1>3. QED BY <1>1, <1>2 DEF TablesInv

\* With every table there, a process finds none missing.
LEMMA NoneMissing ==
  ASSUME tables = Tables, NEW p PROVE Missing(p) = NoTable
<1>1. \A i \in DOMAIN TablesOf(p) : TablesOf(p)[i] \in Tables
  BY DEF TablesOf, Tables
<1>2. {i \in DOMAIN TablesOf(p) : TablesOf(p)[i] \notin tables} = {}
  BY <1>1
<1>3. QED BY <1>2 DEF Missing

LEMMA FlowStays ==
  ASSUME Next PROVE flow' = flow
<1>1. ASSUME NEW r \in Runs, RunStep(r) PROVE UNCHANGED flow
  BY <1>1 DEF RunStep, Start, ClearDirectory, CopyManifests, ApplyConfig, ApplySecret, DeleteJob, ApplyJob,
              WaitForJob, ApplyApi, ApplyWorker, ApiRolledOut, WorkerRolledOut, SmokeTest, GiveUp
<1>2. ASSUME NEW p \in Pods, PodStep(p) PROVE UNCHANGED flow
  BY <1>2 DEF PodStep, CreatePod, DeletePod, ProcessStep, Boot, Look, CreateTable, Restart, Probe, Kill,
              Steps, Fails
<1>3. PrepareEnv \/ (\E f \in Drafts : EditEnv(f)) \/ Migrate \/ Outage \/ Recover => UNCHANGED flow
  BY DEF PrepareEnv, EditEnv, Migrate, Outage, Recover
<1>4. QED BY <1>1, <1>2, <1>3 DEF Next

LEMMA TablesPod ==
  ASSUME TablesInv, RunsInv, flow = "k3s", NEW p \in Pods, PodStep(p) PROVE TablesInv'
<1>0. /\ pod[p].phase # "creating" /\ Shapes /\ DOMAIN pod[p] = {"phase", "image", "settings", "table", "ready"}
      /\ Of(p) \in DOMAIN deployed
  BY DEF TablesInv, RunsInv, Shapes, Images, Of
<1>1. CASE CreatePod(p)
  <2>1. PICK i : i = deployed[Of(p)]
    OBVIOUS
  <2>2. PICK c : c = Container("booting", i)
    OBVIOUS
  <2>3. c.phase # "creating"
    BY <2>2 DEF Container
  <2>4. QED BY <1>0, <1>1, <2>1, <2>2, <2>3, ContainerChanges DEF CreatePod, database
<1>2. CASE DeletePod(p)
  <2>1. PICK i : i = deployed["worker"]
    OBVIOUS
  <2>2. PICK c : c = IF p = Worker THEN Container("booting", i) ELSE Container("gone", NoImage)
    OBVIOUS
  <2>3. c.phase # "creating"
    BY <2>2 DEF Container
  <2>4. pod' = [pod EXCEPT ![p] = c]
    BY <1>2, <2>1, <2>2 DEF DeletePod, Gone
  <2>5. pod[p].phase # "gone" /\ UNCHANGED <<flow, tables>>
    BY <1>2 DEF DeletePod, Old, database
  <2>6. QED BY <1>0, <2>3, <2>4, <2>5, ContainerChanges
<1>3. ASSUME NEW c, Steps(p, c), UNCHANGED tables, c.phase # "creating", pod[p].phase # "gone"
      PROVE  TablesInv'
  BY <1>0, <1>3, ContainerChanges DEF Steps
<1>4. ASSUME NEW phase \in {"failed", "booting"}, Steps(p, Container(phase, pod[p].image)), UNCHANGED tables,
             pod[p].phase # "gone"
      PROVE  TablesInv'
  <2>1. PICK i : i = pod[p].image
    OBVIOUS
  <2>2. PICK c : c = Container(phase, i)
    OBVIOUS
  <2>3. c.phase # "creating"
    BY <2>2 DEF Container
  <2>4. QED BY <1>3, <1>4, <2>1, <2>2, <2>3
<1>5. CASE Boot(p)
  <2>1. CASE Fails(p)
    BY <1>4, <1>5, <2>1 DEF Fails, Boot
  <2>2. CASE ~Fails(p)
    <3>1. PICK s : s = Settings(config, secret)
      OBVIOUS
    <3>2. PICK c : c = [pod[p] EXCEPT !.settings = s, !.phase = IF s.mode = "real" THEN "looking" ELSE "serving"]
      OBVIOUS
    <3>3. Steps(p, c) /\ UNCHANGED tables
      BY <1>5, <2>2, <3>1, <3>2 DEF Boot
    <3>4. c.phase # "creating"
      BY <1>0, <3>2
    <3>5. QED BY <1>3, <1>5, <3>3, <3>4 DEF Boot
  <2>3. QED BY <2>1, <2>2
<1>6. CASE Look(p)
  <2>1. CASE Fails(p)
    BY <1>4, <1>6, <2>1 DEF Fails, Look
  <2>2. CASE ~Fails(p)
    <3>1. Missing(p) = NoTable
      BY <1>6, NoneMissing DEF TablesInv, Look
    <3>2. PICK c : c = [pod[p] EXCEPT !.phase = IF Missing(p) = NoTable THEN "serving" ELSE "creating",
                                      !.table = Missing(p)]
      OBVIOUS
    <3>3. Steps(p, c) /\ UNCHANGED tables
      BY <1>6, <2>2, <3>2 DEF Look
    <3>4. c.phase # "creating"
      BY <1>0, <3>1, <3>2
    <3>5. QED BY <1>3, <1>6, <3>3, <3>4 DEF Look
  <2>3. QED BY <2>1, <2>2
<1>7. ~CreateTable(p)
  BY <1>0 DEF CreateTable
<1>8. CASE Restart(p)
  BY <1>4, <1>8 DEF Restart
<1>9. CASE Probe(p)
  <2>1. PICK c : c = [pod[p] EXCEPT !.ready = ~@]
    OBVIOUS
  <2>2. c.phase = pod[p].phase
    BY <1>0, <2>1
  <2>3. QED BY <1>0, <1>3, <1>9, <2>1, <2>2 DEF Probe, Serving
<1>10. CASE Kill(p)
  BY <1>4, <1>10 DEF Kill, Serving
<1>11. QED BY <1>1, <1>2, <1>5, <1>6, <1>7, <1>8, <1>9, <1>10 DEF PodStep, ProcessStep

\* Only a run that saw a Job complete applies the Deployments.
LEMMA TablesRun ==
  ASSUME TablesInv, RunsInv, flow = "k3s", NEW r \in Runs, RunStep(r) PROVE TablesInv'
<1>0. Shapes
  BY DEF RunsInv
<1>1. ASSUME \A q \in Runs \ {r} : run'[q] = run[q], ~Migrated(r)', UNCHANGED <<flow, pod, deployed, tables>>,
             job'.phase = "complete" => job.phase = "complete"
      PROVE  TablesInv'
  <2>1. \A q \in Runs : Migrated(q)' => Migrated(q)
    BY <1>1 DEF Migrated
  <2>2. QED BY <1>1, <2>1, TablesStay
<1>2. ASSUME NEW from, NEW to, to \notin {"migrated", "halfway"}, Goes(r, from, to),
             UNCHANGED <<flow, pod, deployed, tables>>, job'.phase = "complete" => job.phase = "complete"
      PROVE  TablesInv'
  <2>1. ~Migrated(r)' /\ \A q \in Runs \ {r} : run'[q] = run[q]
    BY <1>0, <1>2, GoesRun DEF Migrated
  <2>2. QED BY <1>1, <1>2, <2>1
<1>3. CASE \E fresh \in BOOLEAN, image \in 1..BadImage : Start(r, fresh, image)
  <2>1. PICK image \in 1..BadImage : \E fresh \in BOOLEAN : Start(r, fresh, image)
    BY <1>3
  <2>2. PICK s : s = IF image # BadImage /\ Renders(file)
                       THEN [phase |-> "rendered", image |-> image,
                             config |-> FromConfig(RenderedConfig(file)), secret |-> FromSecret(RenderedSecret(file))]
                       ELSE Failed(image)
    OBVIOUS
  <2>3. run' = [run EXCEPT ![r] = s] /\ UNCHANGED <<flow, job, pod, deployed, tables>>
    BY <2>1, <2>2 DEF Start, database
  <2>4. s.phase \in {"rendered", "failed"}
    BY <2>2, RunShape
  <2>5. run'[r] = s /\ \A q \in Runs \ {r} : run'[q] = run[q]
    BY <1>0, <2>3 DEF Shapes
  <2>6. QED BY <1>1, <2>3, <2>4, <2>5 DEF Migrated
<1>4. CASE ClearDirectory(r) \/ CopyManifests(r) \/ ApplyConfig(r) \/ ApplySecret(r)
  BY <1>2, <1>4 DEF ClearDirectory, CopyManifests, ApplyConfig, ApplySecret, Applies, database
<1>5. CASE DeleteJob(r)
  <2>1. job'.phase = "none"
    BY <1>5 DEF DeleteJob, NoJob
  <2>2. QED BY <1>2, <1>5, <2>1 DEF DeleteJob, database
<1>6. CASE ApplyJob(r)
  <2>1. PICK i : i = manifests.image
    OBVIOUS
  <2>2. job' = job \/ job' = [phase |-> "running", tries |-> 0, image |-> i]
    BY <1>6, <2>1 DEF ApplyJob
  <2>3. job'.phase = "complete" => job.phase = "complete"
    BY <2>2
  <2>4. QED BY <1>2, <1>6, <2>3 DEF ApplyJob, Applies, database
<1>7. CASE WaitForJob(r)
  <2>1. job.phase = "complete" /\ UNCHANGED <<flow, job, pod, deployed, tables>>
    BY <1>7 DEF WaitForJob, database
  <2>2. QED BY <2>1, TablesStay
<1>8. CASE ApplyApi(r) \/ ApplyWorker(r)
  <2>1. Migrated(r) /\ UNCHANGED <<flow, job, pod, tables>>
    BY <1>8 DEF ApplyApi, ApplyWorker, Applies, Goes, Migrated, database
  <2>2. QED BY <2>1 DEF TablesInv
<1>9. CASE ApiRolledOut(r) \/ WorkerRolledOut(r) \/ SmokeTest(r)
  BY <1>2, <1>9 DEF ApiRolledOut, WorkerRolledOut, SmokeTest, database
<1>10. CASE GiveUp(r)
  <2>1. run'[r].phase = "failed" /\ (\A q \in Runs \ {r} : run'[q] = run[q])
    BY <1>0, <1>10, GivesUpRun
  <2>2. QED BY <1>1, <1>10, <2>1 DEF GiveUp, Migrated, database
<1>11. QED BY <1>3, <1>4, <1>5, <1>6, <1>7, <1>8, <1>9, <1>10 DEF RunStep

\* However many runs overlap, fail or are tried again, no process of the cluster creates
\* a table, and so none loses the race for one.
THEOREM MigratedFirst == Spec => []NewPodsFindTheirTables
<1>1. Init => TablesInv
  <2> SUFFICES ASSUME Init, flow = "k3s" PROVE TablesInv
    BY DEF TablesInv
  <2>1. \A p \in Pods : pod[p].phase = "gone"
    <3>1. \A p \in Pods : pod[p] = Container("gone", NoImage)
      BY DEF Init, Gone
    <3>2. QED BY <3>1 DEF Container
  <2>2. \A r \in Runs : ~Migrated(r)
    <3>1. \A r \in Runs : run[r] = Idle
      BY DEF Init
    <3>2. QED BY <3>1, RunShape DEF Migrated
  <2>3. job.phase = "none" /\ \A d \in DOMAIN deployed : deployed[d] = NoImage
    BY DEF Init, NoJob
  <2>4. QED BY <2>1, <2>2, <2>3 DEF TablesInv
<1>2. TablesInv /\ RunsInv /\ [Next]_vars => TablesInv'
  <2> SUFFICES ASSUME TablesInv, RunsInv, [Next]_vars PROVE TablesInv'
    OBVIOUS
  <2>1. CASE UNCHANGED vars
    BY <2>1, TablesStay DEF vars, pipeline, database, Migrated
  <2>2. CASE Next /\ flow # "k3s"
    <3>1. flow' = flow
      BY <2>2, FlowStays
    <3>2. QED BY <2>2, <3>1 DEF TablesInv
  <2>3. CASE PrepareEnv \/ (\E f \in Drafts : EditEnv(f)) \/ Outage \/ Recover
    BY <2>3, TablesStay DEF PrepareEnv, EditEnv, Outage, Recover, pipeline, database, Migrated
  <2>4. CASE Migrate
    <3>0. UNCHANGED <<flow, run, pod, deployed>>
      BY <2>4 DEF Migrate, pipeline
    <3>1. CASE tables' = Tables
      BY <3>0, <3>1, TablesStay DEF Migrated
    <3>2. CASE /\ job' = [job EXCEPT !.tries = @ + 1, !.phase = IF job.tries < MaxRetries THEN @ ELSE "failed"]
               /\ UNCHANGED tables
      <4>1. job'.phase = "complete" => job.phase = "complete"
        BY <3>2
      <4>2. QED BY <3>0, <3>2, <4>1, TablesStay DEF Migrated
    <3>3. QED BY <2>4, <3>1, <3>2 DEF Migrate
  <2>5. ASSUME flow = "k3s", NEW r \in Runs, RunStep(r) PROVE TablesInv'
    BY <2>5, TablesRun
  <2>6. ASSUME flow = "k3s", NEW p \in Pods, PodStep(p) PROVE TablesInv'
    BY <2>6, TablesPod
  <2>7. QED BY <2>1, <2>2, <2>3, <2>4, <2>5, <2>6 DEF Next
<1>3. TablesInv => NewPodsFindTheirTables
  BY DEF TablesInv, NewPodsFindTheirTables
<1>4. QED BY <1>1, <1>2, <1>3, RunsInvHolds, PTL DEF Spec

-----------------------------------------------------------------------------
(* Types *)

\* A container's phase, and what it has in hand and in the probe's eyes.
PodOK(p, c) ==
  /\ c.phase \in {"gone", "booting", "looking", "creating", "serving", "failed"}
  /\ c.phase = "creating" <=> c.table \in Tables
  /\ c.ready \in BOOLEAN /\ (c.ready => c.phase = "serving" /\ p # Worker)

JobOK ==
  /\ DOMAIN job = {"phase", "tries", "image"}
  /\ job.phase \in {"none", "running", "complete", "failed"}
  /\ job.tries \in 0..MaxRetries + 1
  /\ job.phase = "running" => job.tries <= MaxRetries

\* A run that renders has something to apply, and one that applied it left it there.
RunOK(r) ==
  /\ run[r].phase \in {"idle", "failed"} \cup Started
  /\ run[r].phase \in Started => run[r].config # Nothing
  /\ run[r].phase \in Configured => config # Nothing

ManifestsOK == manifests # Nothing => manifests.config # Nothing

TypeInv ==
  /\ flow \in {"k3s", "compose"} /\ up \in BOOLEAN
  /\ config = Nothing => secret = Nothing
  /\ \A r \in Runs : RunOK(r)
  /\ ManifestsOK /\ JobOK /\ tables \subseteq Tables
  /\ \A p \in Pods : PodOK(p, pod[p])
  /\ faults \in 0..MaxFaults

LEMMA TypesImplied == TypeInv => TypeOK
BY DEF TypeInv, TypeOK, RunOK, JobOK, PodOK, Serving, Started, Before, After

LEMMA NothingIsNoConfig == \A c : FromConfig(c) # Nothing
<1> SUFFICES ASSUME NEW c, FromConfig(c) = Nothing PROVE FALSE
  OBVIOUS
<1>1. PICK s : s = FromConfig(c)
  OBVIOUS
<1>2. "loads" \in DOMAIN s
  BY <1>1 DEF FromConfig
<1>3. "loads" \notin DOMAIN s
  BY <1>1 DEF Nothing
<1>4. QED BY <1>2, <1>3

LEMMA MissingIsATable ==
  ASSUME NEW p \in Pods PROVE Missing(p) = NoTable \/ Missing(p) \in Tables
<1> DEFINE m == {i \in DOMAIN TablesOf(p) : TablesOf(p)[i] \notin tables}
           first == CHOOSE i \in m : \A j \in m : i <= j
<1>1. DOMAIN TablesOf(p) \subseteq 1..4 /\ \A i \in DOMAIN TablesOf(p) : TablesOf(p)[i] \in Tables
  BY DEF TablesOf, Tables
<1>2. ASSUME m # {} PROVE first \in m
  <2>1. m \subseteq {1, 2, 3, 4}
    BY <1>1
  <2>2. \E i \in m : \A j \in m : i <= j
    <3> HIDE DEF m
    <3>1. CASE 1 \in m
      BY <2>1, <3>1
    <3>2. CASE 1 \notin m /\ 2 \in m
      BY <2>1, <3>2
    <3>3. CASE 1 \notin m /\ 2 \notin m /\ 3 \in m
      BY <2>1, <3>3
    <3>4. CASE 1 \notin m /\ 2 \notin m /\ 3 \notin m
      <4>1. PICK i : i \in m
        BY <1>2
      <4>2. i = 4 /\ \A j \in m : j = 4
        BY <2>1, <3>4, <4>1
      <4>3. QED BY <4>1, <4>2
    <3>5. QED BY <3>1, <3>2, <3>3, <3>4
  <2> HIDE DEF m
  <2>3. QED BY <2>2
<1>3. Missing(p) = IF m = {} THEN NoTable ELSE TablesOf(p)[first]
  BY DEF Missing
<1>4. m \subseteq DOMAIN TablesOf(p)
  OBVIOUS
<1> HIDE DEF m, first
<1>5. QED BY <1>1, <1>2, <1>3, <1>4

LEMMA TypesBegin == Init => TypeInv
<1> SUFFICES ASSUME Init PROVE TypeInv
  OBVIOUS
<1>1. \A r \in Runs : RunOK(r)
  <2>1. \A r \in Runs : run[r] = Idle
    BY DEF Init
  <2>2. \A r \in Runs : run[r].phase = "idle"
    BY <2>1, RunShape
  <2>3. QED BY <2>2 DEF RunOK, Started, Before, Configured, Reading, After
<1>2. config = Nothing => secret = Nothing
  BY NothingIsNoConfig DEF Init
<1>3. JobOK
  BY ReleaseConstants DEF Init, NoJob, JobOK
<1>4. ASSUME NEW p \in Pods PROVE PodOK(p, pod[p])
  <2>1. PICK c : c = pod[p]
    OBVIOUS
  <2>2. c = Container("booting", NoImage) \/ c = Container("gone", NoImage)
    BY <2>1 DEF Init, Gone
  <2>3. c.phase \in {"booting", "gone"} /\ c.table = "none" /\ c.ready = FALSE
    BY <2>2 DEF Container, NoTable
  <2>4. QED BY <2>1, <2>3 DEF PodOK, Tables
<1>5. /\ flow \in {"k3s", "compose"} /\ up \in BOOLEAN /\ tables \subseteq Tables
      /\ faults \in 0..MaxFaults /\ ManifestsOK
  BY ReleaseConstants DEF Init, ManifestsOK
<1>6. QED BY <1>1, <1>2, <1>3, <1>4, <1>5 DEF TypeInv

LEMMA PodTypes ==
  ASSUME TypeInv, Shapes, NEW p \in Pods, NEW c, PodOK(p, c), pod' = [pod EXCEPT ![p] = c],
         tables' \subseteq Tables, faults' \in 0..MaxFaults,
         UNCHANGED <<flow, run, config, secret, manifests, job, up>>
  PROVE  TypeInv'
<1>1. \A q \in Pods : PodOK(q, pod'[q])
  BY DEF Shapes, TypeInv
<1>2. JobOK' /\ ManifestsOK' /\ \A r \in Runs : RunOK(r)'
  BY DEF TypeInv, JobOK, RunOK, ManifestsOK
<1>3. \A q \in Pods : PodOK(q, pod[q])'
  BY <1>1 DEF PodOK
<1>4. QED BY <1>2, <1>3 DEF TypeInv

LEMMA PodKeepsTypes ==
  ASSUME TypeInv, Shapes, NEW p \in Pods, PodStep(p) PROVE TypeInv'
<1>0. /\ DOMAIN pod[p] = {"phase", "image", "settings", "table", "ready"}
      /\ PodOK(p, pod[p]) /\ tables \subseteq Tables /\ faults \in 0..MaxFaults
  BY DEF Shapes, TypeInv
<1>1. ASSUME NEW c, PodOK(p, c), Steps(p, c), tables' \subseteq Tables, faults' \in 0..MaxFaults PROVE TypeInv'
  <2>1. UNCHANGED <<flow, run, config, secret, manifests, job, up>> /\ pod' = [pod EXCEPT ![p] = c]
    BY <1>1 DEF Steps, pipeline, cluster
  <2>2. QED BY <1>1, <2>1, PodTypes
<1>2. ASSUME NEW phase \in {"gone", "booting", "failed"}, NEW image, NEW c, c = Container(phase, image)
      PROVE  PodOK(p, c)
  <2>1. c.phase = phase /\ c.table = "none" /\ c.ready = FALSE
    BY <1>2 DEF Container, NoTable
  <2>2. QED BY <2>1 DEF PodOK, Tables
<1>3. ASSUME NEW phase \in {"failed", "booting"}, NEW image, Steps(p, Container(phase, image)),
             UNCHANGED tables, faults' \in 0..MaxFaults
      PROVE  TypeInv'
  <2>1. PICK c : c = Container(phase, image)
    OBVIOUS
  <2>2. PodOK(p, c)
    BY <1>2, <2>1
  <2>3. QED BY <1>0, <1>1, <1>3, <2>1, <2>2
<1>4. CASE Fails(p)
  <2>1. PICK image : image = pod[p].image
    OBVIOUS
  <2>2. Steps(p, Container("failed", image)) /\ UNCHANGED <<tables, faults>>
    BY <1>4, <2>1 DEF Fails
  <2>3. QED BY <1>0, <1>3, <2>2
<1>5. CASE CreatePod(p) \/ DeletePod(p)
  <2>1. PICK c : pod' = [pod EXCEPT ![p] = c] /\ (c = Container("booting", deployed[Of(p)]) \/ c = Container("gone", NoImage))
    BY <1>5 DEF CreatePod, DeletePod, Gone, Of
  <2>2. PodOK(p, c)
    <3>1. PICK i : i = deployed[Of(p)]
      OBVIOUS
    <3>2. c = Container("booting", i) \/ c = Container("gone", NoImage)
      BY <2>1, <3>1
    <3>3. QED BY <1>2, <3>2
  <2>3. UNCHANGED <<flow, run, config, secret, manifests, job, up, tables, faults>>
    BY <1>5 DEF CreatePod, DeletePod, pipeline, cluster, database
  <2>4. QED BY <1>0, <2>1, <2>2, <2>3, PodTypes
<1>6. CASE Boot(p) /\ ~Fails(p)
  <2>1. PICK s : s = Settings(config, secret)
    OBVIOUS
  <2>2. PICK c : c = [pod[p] EXCEPT !.settings = s, !.phase = IF s.mode = "real" THEN "looking" ELSE "serving"]
    OBVIOUS
  <2>3. Steps(p, c) /\ pod[p].phase = "booting" /\ UNCHANGED <<tables, faults>>
    BY <1>6, <2>1, <2>2 DEF Boot
  <2>4. c.phase \in {"looking", "serving"} /\ c.table = pod[p].table /\ c.ready = pod[p].ready
    BY <1>0, <2>2
  <2>5. PodOK(p, c)
    BY <1>0, <2>3, <2>4 DEF PodOK
  <2>6. QED BY <1>0, <1>1, <2>3, <2>5
<1>7. CASE Look(p) /\ ~Fails(p)
  <2>1. PICK t : t = Missing(p)
    OBVIOUS
  <2>2. PICK c : c = [pod[p] EXCEPT !.phase = IF t = NoTable THEN "serving" ELSE "creating", !.table = t]
    OBVIOUS
  <2>3. Steps(p, c) /\ pod[p].phase = "looking" /\ UNCHANGED <<tables, faults>>
    BY <1>7, <2>1, <2>2 DEF Look
  <2>4. c.phase = (IF t = NoTable THEN "serving" ELSE "creating") /\ c.table = t /\ c.ready = pod[p].ready
    BY <1>0, <2>2
  <2>5. NoTable \notin Tables /\ (t = NoTable \/ t \in Tables)
    BY <2>1, MissingIsATable DEF NoTable, Tables
  <2>6. PodOK(p, c)
    BY <1>0, <2>3, <2>4, <2>5 DEF PodOK
  <2>7. QED BY <1>0, <1>1, <2>3, <2>6
<1>8. CASE CreateTable(p) /\ ~Fails(p)
  <2>1. PICK c : c = [pod[p] EXCEPT !.phase = "looking", !.table = NoTable]
    OBVIOUS
  <2>2. Steps(p, c) /\ pod[p].phase = "creating" /\ tables' = tables \cup {pod[p].table} /\ UNCHANGED faults
    BY <1>8, <2>1 DEF CreateTable
  <2>3. c.phase = "looking" /\ c.table = "none" /\ c.ready = pod[p].ready
    BY <1>0, <2>1 DEF NoTable
  <2>4. PodOK(p, c)
    BY <1>0, <2>2, <2>3 DEF PodOK, Tables
  <2>5. tables' \subseteq Tables
    BY <1>0, <2>2 DEF PodOK
  <2>6. QED BY <1>0, <1>1, <2>2, <2>4, <2>5
<1>9. CASE Restart(p) \/ Kill(p)
  <2>1. PICK image : image = pod[p].image
    OBVIOUS
  <2>2. PICK phase \in {"failed", "booting"} : Steps(p, Container(phase, image)) /\ UNCHANGED tables
    BY <1>9, <2>1 DEF Restart, Kill
  <2>3. faults' \in 0..MaxFaults
    BY <1>0, <1>9, ReleaseConstants DEF Restart, Kill
  <2>4. QED BY <1>3, <2>2, <2>3
<1>10. CASE Probe(p)
  <2>1. PICK c : c = [pod[p] EXCEPT !.ready = ~@]
    OBVIOUS
  <2>2. Steps(p, c) /\ pod[p].phase = "serving" /\ p # Worker /\ UNCHANGED <<tables, faults>>
    BY <1>10, <2>1 DEF Probe, Serving
  <2>3. c.phase = "serving" /\ c.table = pod[p].table
    BY <1>0, <2>1, <2>2
  <2>4. c.ready = ~pod[p].ready
    BY <1>0, <2>1, Zenon
  <2>5. c.ready \in BOOLEAN
    BY <2>4, Zenon
  <2>6. PodOK(p, c)
    BY <1>0, <2>2, <2>3, <2>5 DEF PodOK
  <2>7. QED BY <1>0, <1>1, <2>2, <2>6
<1>11. QED BY <1>4, <1>5, <1>6, <1>7, <1>8, <1>9, <1>10 DEF PodStep, ProcessStep

\* A run's step leaves to prove what it makes of the run itself, of the Job and of the
\* ConfigMap and the Secret.
LEMMA RunTypes ==
  ASSUME TypeInv, NEW r \in Runs, \A q \in Runs \ {r} : run'[q] = run[q], RunOK(r)', JobOK', ManifestsOK',
         config' = config \/ config' # Nothing, config' = Nothing => secret' = Nothing,
         UNCHANGED <<flow, pod, tables, up, faults>>
  PROVE  TypeInv'
<1>1. \A q \in Runs : RunOK(q)'
  BY DEF TypeInv, RunOK
<1>2. \A p \in Pods : PodOK(p, pod[p])'
  BY DEF TypeInv, PodOK
<1>3. QED BY <1>1, <1>2 DEF TypeInv

LEMMA RunKeepsTypes ==
  ASSUME TypeInv, Shapes, NEW r \in Runs, RunStep(r) PROVE TypeInv'
<1>0. RunOK(r) /\ JobOK /\ ManifestsOK
  BY DEF TypeInv
<1>1. UNCHANGED <<flow, pod, tables, up, faults>>
  BY DEF RunStep, Start, ClearDirectory, CopyManifests, ApplyConfig, ApplySecret, DeleteJob, ApplyJob, WaitForJob,
         ApplyApi, ApplyWorker, ApiRolledOut, WorkerRolledOut, SmokeTest, GiveUp, database
<1>2. UNCHANGED job => JobOK'
  BY <1>0 DEF JobOK
<1>3. UNCHANGED manifests => ManifestsOK'
  BY <1>0 DEF ManifestsOK
<1>4. CASE \E fresh \in BOOLEAN, image \in 1..BadImage : Start(r, fresh, image)
  <2>1. PICK fresh \in BOOLEAN, image \in 1..BadImage : Start(r, fresh, image)
    BY <1>4
  <2>2. PICK s : s = IF image # BadImage /\ Renders(file)
                       THEN [phase |-> "rendered", image |-> image,
                             config |-> FromConfig(RenderedConfig(file)), secret |-> FromSecret(RenderedSecret(file))]
                       ELSE Failed(image)
    OBVIOUS
  <2>3. run' = [run EXCEPT ![r] = s] /\ UNCHANGED <<config, secret, manifests, job>>
    BY <2>1, <2>2 DEF Start, cluster
  <2>4. s.phase = "failed" \/ (s.phase = "rendered" /\ s.config # Nothing)
    <3>1. CASE image # BadImage /\ Renders(file)
      <4>1. s.phase = "rendered" /\ s.config = FromConfig(RenderedConfig(file))
        BY <2>2, <3>1
      <4>2. PICK f : f = RenderedConfig(file)
        OBVIOUS
      <4>3. QED BY <4>1, <4>2, NothingIsNoConfig
    <3>2. CASE ~(image # BadImage /\ Renders(file))
      BY <2>2, <3>2, RunShape
    <3>3. QED BY <3>1, <3>2
  <2>5. run'[r] = s /\ \A q \in Runs \ {r} : run'[q] = run[q]
    BY <2>3 DEF Shapes
  <2>6. RunOK(r)'
    BY <2>4, <2>5 DEF RunOK, Started, Before, Configured, Reading, After
  <2>7. config' = Nothing => secret' = Nothing
    BY <2>3 DEF TypeInv
  <2>8. QED BY <1>1, <1>2, <1>3, <2>3, <2>5, <2>6, <2>7, RunTypes
<1>5. ASSUME NEW from \in Started, NEW to \in Started, Goes(r, from, to), JobOK', ManifestsOK',
             from \in Configured => to \in Configured, to \in Configured => from \in Configured \/ config' # Nothing,
             config' = config \/ config' # Nothing, secret' = secret \/ from \in Configured
      PROVE  TypeInv'
  <2>1. /\ run[r].phase = from /\ run'[r].phase = to /\ run'[r].config = run[r].config
        /\ \A q \in Runs \ {r} : run'[q] = run[q]
    BY <1>5, GoesRun
  <2>2. from \in Configured => config # Nothing /\ config' # Nothing
    BY <1>0, <1>5, <2>1 DEF RunOK
  <2>3. RunOK(r)'
    BY <1>0, <1>5, <2>1, <2>2 DEF RunOK
  <2>4. config' = Nothing => secret' = Nothing
    BY <1>5, <2>2 DEF TypeInv
  <2>5. QED BY <1>1, <1>5, <2>1, <2>3, <2>4, RunTypes
<1>6. CASE ClearDirectory(r)
  <2>1. Goes(r, "rendered", "cleared") /\ manifests' = Nothing /\ UNCHANGED <<config, secret, job>>
    BY <1>6 DEF ClearDirectory
  <2>2. ManifestsOK'
    BY <2>1 DEF ManifestsOK
  <2>3. QED BY <1>2, <1>5, <2>1, <2>2 DEF Started, Before, Configured, Reading, After
<1>7. CASE CopyManifests(r)
  <2>1. Goes(r, "cleared", "copied") /\ manifests' = Manifests(run[r]) /\ UNCHANGED <<config, secret, job>>
    BY <1>7 DEF CopyManifests
  <2>2. run[r].config # Nothing
    BY <1>0, <2>1 DEF RunOK, Goes, Started, Before
  <2>3. ManifestsOK'
    BY <2>1, <2>2 DEF ManifestsOK, Manifests
  <2>4. QED BY <1>2, <1>5, <2>1, <2>3 DEF Started, Before, Configured, Reading, After
<1>8. CASE ApplyConfig(r)
  <2>1. Goes(r, "copied", "configured") /\ config' = manifests.config /\ UNCHANGED <<secret, manifests, job>>
    BY <1>8 DEF ApplyConfig, Applies
  <2>2. config' # Nothing
    BY <1>0, <1>8, <2>1 DEF ApplyConfig, Applies, ManifestsOK
  <2>3. QED BY <1>2, <1>3, <1>5, <2>1, <2>2 DEF Started, Before, Configured, Reading, After
<1>9. CASE ApplySecret(r)
  <2>1. Goes(r, "configured", "secured") /\ UNCHANGED <<config, manifests, job>>
    BY <1>9 DEF ApplySecret, Applies
  <2>2. QED BY <1>2, <1>3, <1>5, <2>1 DEF Started, Before, Configured, Reading, After
<1>10. ASSUME NEW from, NEW to,
              <<from, to>> \in {<<"secured", "deleted">>, <<"deleted", "migrating">>, <<"migrating", "migrated">>,
                               <<"migrated", "halfway">>, <<"halfway", "rolling">>, <<"rolling", "rolled">>,
                               <<"rolled", "smoking">>, <<"smoking", "passed">>},
              Goes(r, from, to), UNCHANGED <<config, secret, manifests>>, JobOK'
       PROVE  TypeInv'
  <2>1. from \in Started /\ to \in Started /\ from \in Configured /\ to \in Configured
    BY <1>10 DEF Started, Before, Configured, Reading, After
  <2>2. QED BY <1>3, <1>5, <1>10, <2>1
<1>11. CASE DeleteJob(r)
  <2>1. Goes(r, "secured", "deleted") /\ job' = NoJob /\ UNCHANGED <<config, secret, manifests>>
    BY <1>11 DEF DeleteJob
  <2>2. JobOK'
    BY <2>1, ReleaseConstants DEF JobOK, NoJob
  <2>3. QED BY <1>10, <2>1, <2>2
<1>12. CASE ApplyJob(r)
  <2>1. Goes(r, "deleted", "migrating") /\ UNCHANGED <<config, secret, manifests>>
    BY <1>12 DEF ApplyJob, Applies, cluster
  <2>2. PICK i : i = manifests.image
    OBVIOUS
  <2>3. UNCHANGED job \/ job' = [phase |-> "running", tries |-> 0, image |-> i]
    BY <1>12, <2>2 DEF ApplyJob
  <2>4. JobOK'
    BY <1>2, <2>3, ReleaseConstants DEF JobOK
  <2>5. QED BY <1>10, <2>1, <2>4
<1>13. CASE WaitForJob(r) \/ ApplyApi(r) \/ ApplyWorker(r) \/ ApiRolledOut(r) \/ WorkerRolledOut(r) \/ SmokeTest(r)
  <2>1. UNCHANGED <<config, secret, manifests, job>>
    BY <1>13 DEF WaitForJob, ApplyApi, ApplyWorker, ApiRolledOut, WorkerRolledOut, SmokeTest, cluster
  <2>2. QED BY <1>2, <1>10, <1>13, <2>1
            DEF WaitForJob, ApplyApi, ApplyWorker, Applies, ApiRolledOut, WorkerRolledOut, SmokeTest
<1>14. CASE GiveUp(r)
  <2>1. /\ run'[r].phase = "failed" /\ (\A q \in Runs \ {r} : run'[q] = run[q])
        /\ UNCHANGED <<config, secret, manifests>>
    BY <1>14, GivesUpRun
  <2>2. UNCHANGED job
    BY <1>14 DEF GiveUp
  <2>3. RunOK(r)'
    BY <2>1 DEF RunOK, Started, Before, Configured, Reading, After
  <2>4. config' = Nothing => secret' = Nothing
    BY <2>1 DEF TypeInv
  <2>5. QED BY <1>1, <1>2, <1>3, <2>1, <2>2, <2>3, <2>4, RunTypes
<1>15. QED BY <1>4, <1>6, <1>7, <1>8, <1>9, <1>11, <1>12, <1>13, <1>14 DEF RunStep

\* The rest of the state keeps its type when the runs and the containers do not step.
LEMMA OthersKeepTypes ==
  ASSUME TypeInv, Next, UNCHANGED <<run, config, secret, manifests, pod>>,
         PrepareEnv \/ (\E f \in Drafts : EditEnv(f)) \/ Migrate \/ Outage \/ Recover
  PROVE  TypeInv'
<1>1. UNCHANGED flow
  BY DEF PrepareEnv, EditEnv, Migrate, Outage, Recover
<1>2. up' \in BOOLEAN /\ faults' \in 0..MaxFaults
  <2>1. Migrate => UNCHANGED <<up, faults>>
    BY DEF Migrate
  <2>2. PrepareEnv \/ (\E f \in Drafts : EditEnv(f)) => UNCHANGED <<up, faults>>
    BY DEF PrepareEnv, EditEnv, database
  <2>3. Outage => up' = FALSE /\ faults' = faults + 1 /\ faults < MaxFaults
    BY DEF Outage
  <2>4. Recover => up' = TRUE /\ faults' = faults
    BY DEF Recover
  <2>5. faults \in 0..MaxFaults /\ up \in BOOLEAN /\ MaxFaults \in Nat
    BY ReleaseConstants DEF TypeInv
  <2>6. faults' = faults \/ (faults' = faults + 1 /\ faults < MaxFaults)
    BY <2>1, <2>2, <2>3, <2>4
  <2>7. faults' \in 0..MaxFaults
    BY <2>5, <2>6
  <2>8. up' = up \/ up' = FALSE \/ up' = TRUE
    BY <2>1, <2>2, <2>3, <2>4
  <2>9. QED BY <2>5, <2>7, <2>8
<1>3. (\A r \in Runs : RunOK(r)') /\ ManifestsOK' /\ \A p \in Pods : PodOK(p, pod[p])'
  BY DEF TypeInv, RunOK, ManifestsOK, PodOK
<1>4. JobOK' /\ tables' \subseteq Tables
  <2>0. JobOK /\ tables \subseteq Tables
    BY DEF TypeInv
  <2>1. CASE UNCHANGED <<job, tables>>
    BY <2>0, <2>1 DEF JobOK
  <2>2. CASE Migrate /\ job' = [job EXCEPT !.tries = 0, !.phase = "complete"] /\ tables' = Tables
    <3>1. DOMAIN job' = {"phase", "tries", "image"} /\ job'.phase = "complete" /\ job'.tries = 0
      BY <2>0, <2>2 DEF JobOK
    <3>2. QED BY <2>2, <3>1, ReleaseConstants DEF JobOK
  <2>3. CASE /\ Migrate /\ UNCHANGED tables
             /\ job' = [job EXCEPT !.tries = @ + 1, !.phase = IF job.tries < MaxRetries THEN @ ELSE "failed"]
    <3>1. job.phase = "running" /\ job.tries \in 0..MaxRetries
      BY <2>0, <2>3, ReleaseConstants DEF Migrate, JobOK
    <3>2. /\ DOMAIN job' = {"phase", "tries", "image"} /\ job'.tries = job.tries + 1
          /\ job'.phase = IF job.tries < MaxRetries THEN job.phase ELSE "failed"
      BY <2>0, <2>3 DEF JobOK
    <3>3. job'.tries \in 0..MaxRetries + 1 /\ (job.tries < MaxRetries => job'.tries <= MaxRetries)
      BY <3>1, <3>2, ReleaseConstants
    <3>4. QED BY <2>0, <2>3, <3>1, <3>2, <3>3 DEF JobOK
  <2>4. CASE Migrate
    <3>1. CASE up /\ Connects(RepositoryUrl(migration))
      BY <2>2, <2>4, <3>1, Zenon DEF Migrate
    <3>2. CASE ~(up /\ Connects(RepositoryUrl(migration)))
      BY <2>3, <2>4, <3>2, Zenon DEF Migrate
    <3>3. QED BY <3>1, <3>2
  <2>5. PrepareEnv \/ (\E f \in Drafts : EditEnv(f)) \/ Outage \/ Recover => UNCHANGED <<job, tables>>
    BY DEF PrepareEnv, EditEnv, Outage, Recover, database
  <2>6. QED BY <2>1, <2>4, <2>5
<1>5. QED BY <1>1, <1>2, <1>3, <1>4 DEF TypeInv

\* Runs, Jobs, containers and faults keep to their types and bounds.
THEOREM ReleaseTypes == Spec => []TypeOK
<1>1. TypeInv /\ RunsInv /\ [Next]_vars => TypeInv'
  <2> SUFFICES ASSUME TypeInv, RunsInv, [Next]_vars PROVE TypeInv'
    OBVIOUS
  <2>1. Shapes
    BY DEF RunsInv
  <2>2. CASE UNCHANGED vars
    BY <2>2 DEF vars, pipeline, cluster, database, TypeInv, RunOK, ManifestsOK, JobOK, PodOK
  <2>3. CASE Next /\ (PrepareEnv \/ (\E f \in Drafts : EditEnv(f)) \/ Migrate \/ Outage \/ Recover)
    <3>1. UNCHANGED <<run, config, secret, manifests, pod>>
      BY <2>3 DEF PrepareEnv, EditEnv, Migrate, Outage, Recover, pipeline, cluster
    <3>2. QED BY <2>3, <3>1, OthersKeepTypes
  <2>4. ASSUME NEW r \in Runs, RunStep(r) PROVE TypeInv'
    BY <2>1, <2>4, RunKeepsTypes
  <2>5. ASSUME NEW p \in Pods, PodStep(p) PROVE TypeInv'
    BY <2>1, <2>5, PodKeepsTypes
  <2>6. QED BY <2>2, <2>3, <2>4, <2>5 DEF Next
<1>2. QED BY <1>1, TypesBegin, TypesImplied, RunsInvHolds, PTL DEF Spec
=============================================================================
