------------------------- MODULE ReleaseGuarantees -------------------------
(***************************************************************************)
(* What deploying promises.                                                *)
(***************************************************************************)
EXTENDS Release, Access

CONSTANT Signers  \* bound: settings that tokens were signed with

\* ConfigMap and Secret are applied one after the other, so a process may have signed
\* with those of two files.
SettingsOnce ==
  {Settings(FromConfig(RenderedConfig(f)), FromSecret(RenderedSecret(g))) : f, g \in Shipped}
  \cup {Settings(FromConfig(Composed(f)), FromSecret(Composed(f))) : f \in Shipped}

ASSUME SignerConstants == Signers \subseteq SettingsOnce

\* The types of the state: a run and a job are at one of their phases, a container
\* has a table in hand exactly while it creates it, and only the API's are probed.
TypeOK ==
  /\ flow \in {"k3s", "compose"} /\ up \in BOOLEAN
  /\ config = Nothing => secret = Nothing
  /\ \A r \in Runs :
       run[r].phase \in {"idle", "rendered", "cleared", "copied", "configured", "secured",
                         "deleted", "migrating", "migrated", "halfway", "rolling",
                         "rolled", "smoking", "passed", "failed"}
  /\ job.phase \in {"none", "running", "complete", "failed"}
  /\ job.tries \in 0..MaxRetries + 1
  /\ tables \subseteq Tables
  /\ \A p \in Pods :
       /\ pod[p].phase \in {"gone", "booting", "looking", "creating", "serving", "failed"}
       /\ pod[p].phase = "creating" <=> pod[p].table \in Tables
       /\ pod[p].ready => Serving(p) /\ p # Worker
  /\ faults \in 0..MaxFaults

-----------------------------------------------------------------------------
(* The environment file *)

\* prepare_env.py accepts what it has written and writes it again unchanged: the
\* runbook may be followed twice, and a rendered file came from a prepared one.
PreparedIsStable ==
  [][file' # file /\ file' = Prepared(file) =>
       Accepts(file') /\ Prepared(file') = file']_file

\* What prepare_env.py does not look at, and a process then fails on: settings it does
\* not name, the scheme without a driver, options that are no psycopg's, and a blank
\* expectation, which it skips and Settings replaces by the default.
Gaps(f) ==
  \/ f["APP_RUNTIME_MODE"] \notin {Absent, Blank, Plain("memory"), Plain("real")}
  \/ \E k \in RuntimeFlags : Given(f, k) /\ f[k].is \notin Booleans
  \/ f["RABBITMQ_CONSUME_ROUTING_KEYS"].is = "nonsense"
  \/ f["DATABASE_URL"].scheme = "postgresql"
  \/ f["DATABASE_URL"].options \notin {"none", "ssl", "sslmode"}
  \/ Blank \in {f["EXPECTED_DATABASE_NAME"], f["EXPECTED_DATABASE_USERNAME"]}

\* The files prepare_env.py accepts and the renderer renders start the API, those with
\* a gap apart: the two scripts and settings.py agree on everything else.
AcceptedFilesStart ==
  [][file' # file /\ file' = Prepared(file) /\ Renders(file') /\ ~Gaps(file') =>
       Boots(SettingsOf(file'), TRUE) /\ Reaches(SettingsOf(file'))]_file

-----------------------------------------------------------------------------
(* Releases *)

\* The pods of a release find every table: whatever runs overlap, fail or are tried
\* again, no process of the cluster is left to create one and lose the race for it.
NewPodsFindTheirTables ==
  flow = "k3s" => \A p \in Pods : pod[p].phase # "creating"

\* The run r was the last to change the cluster, by itself, with an image of its own.
HadTheLastWord(r) ==
  /\ run[r].phase = "passed" /\ run[r].image = built /\ ~overlapped
  /\ \A q \in Runs \ {r} : run[q].image # run[r].image

\* A run that passed with a new image left nothing of an earlier release behind: every
\* process that serves has its image and what its file says, though ConfigMap and Secret
\* change before the pods do and a pod that is restarted in between reads a mixture.
PassedRunRules ==
  \A r \in Runs : HadTheLastWord(r) =>
    \A p \in {q \in Pods : Serving(q)} :
      /\ pod[p].image = run[r].image
      /\ pod[p].settings = Settings(run[r].config, run[r].secret)

-----------------------------------------------------------------------------
(* Tokens across releases *)

Checkers == {p \in ApiPods : Serving(p)}

\* No process remembers a token, and a token outlives the process that signed it: those
\* about may have been signed by any process there was or will be, or by the lambda of
\* such a release.
AdminTokens == {AdminToken(s) : s \in Signers}

LambdaTokens == {CustomerToken(s) : s \in Signers}

\* Whatever process a token is shown to, before or after a release, and even when both
\* kinds are signed with one secret for one issuer: an administrator's token never makes
\* a customer, and a customer's only that customer.
RolesAreApart ==
  \A token \in AdminTokens \cup LambdaTokens, p \in Checkers :
    LET principal == Resolve(token, pod[p].settings)
    IN  \/ principal = Nobody
        \/ principal.role = "admin" /\ token.role = "admin"
        \/ token.role = "customer" /\ principal = Customer(token)

\* An administrator stays logged in until the token expires: at every process that has
\* the secret and issuer it was signed with, not only the one that signed it.
SessionsSurvive ==
  \A token \in AdminTokens, p \in Checkers :
    token.signed = pod[p].settings.secret /\ token.issuer = pod[p].settings.issuer =>
      Resolve(token, pod[p].settings) = Administrator

-----------------------------------------------------------------------------
(* Progress *)

\* Whatever a container finds, it is able to start and its probe to pass.
FilesAreUsable ==
  \A f, g \in Shipped :
    LET s == Settings(FromConfig(RenderedConfig(f)), FromSecret(RenderedSecret(g)))
    IN  Boots(s, TRUE) /\ Reaches(s) /\ AnswersReady(s, TRUE)

Works(p) == Serving(p) /\ (p # Worker => pod[p].ready)

\* If the files are usable, then once releases and faults are over (the bounds see to
\* that) every process there is works and goes on working, one that docker-compose.yml
\* does not restart apart: neither lost races for a table nor an outage nor a release
\* that reached it half-way keep a process from starting for ever.
ProcessesStart ==
  FilesAreUsable =>
    <>[](\A p \in Pods :
           pod[p].phase = "gone" \/ Works(p) \/ (flow = "compose" /\ p # Worker))

\* The API becomes ready when it runs on the database URL .env.prod.example and the
\* deployment runbook give, `?ssl=require`.
DocumentedUrlIsReady ==
  \A p \in ApiPods :
    pod[p].phase = "booting" /\ flow = "k3s" ~> pod[p].phase = "gone" \/ Works(p)
=============================================================================
