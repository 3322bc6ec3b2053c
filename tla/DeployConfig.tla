---------------------------- MODULE DeployConfig ----------------------------
(***************************************************************************)
(* The environment file of a deployment, from the operator's desk to the   *)
(* Settings object of a process: prepare_env.py checks and rewrites it,    *)
(* render_k8s_manifests.py splits it into a ConfigMap and a Secret, and    *)
(* settings.py loads what the container finds in its environment.          *)
(*                                                                         *)
(* A value is what it means and whether it is spelt the way the program    *)
(* compares it: "Production" means "production" and is not spelt plainly.  *)
(***************************************************************************)
EXTENDS Naturals

Value(meaning, plainly) == [is |-> meaning, plain |-> plainly]

Plain(meaning) == Value(meaning, TRUE)

Absent == Plain("absent")   \* the file has no such line
Blank == Plain("blank")     \* the line has no value

\* DATABASE_URL, by the parts that some check or driver reads.
Url(scheme, host, username, database, options) ==
  [is |-> "url", plain |-> TRUE, scheme |-> scheme, host |-> host,
   username |-> username, database |-> database, options |-> options]

Given(f, k) == f[k].is \notin {"absent", "blank"}

Means(f, k, default) == IF Given(f, k) THEN f[k].is ELSE default

-----------------------------------------------------------------------------
(* The keys, by the rule that reads them *)

Environments == {"development", "test", "staging", "production"}

Booleans == {"true", "false"}

RequiredText ==
  {"APP_NAME", "APP_VERSION", "ENVIRONMENT", "LOG_LEVEL", "LOG_JSON", "DATABASE_URL",
   "APP_BASE_URL", "CORS_ALLOWED_ORIGINS", "TRUSTED_HOSTS", "JWT_ALGORITHM"}

OptionalFlags == {"SMTP_USE_TLS", "SMTP_USE_AUTH"}

OptionalNumbers == {"SMTP_PORT", "SMTP_TIMEOUT_SECONDS"}

Numbers ==
  OptionalNumbers \cup
  {"HEALTHCHECK_TIMEOUT_SECONDS", "APPROVAL_TOKEN_TTL_MINUTES", "JWT_EXPIRATION_MINUTES"}

Lists == {"CORS_ALLOWED_ORIGINS", "TRUSTED_HOSTS"}

\* A secret and the line that may name a file holding it.
SecretFile ==
  [APPROVAL_TOKEN_SECRET |-> "APPROVAL_TOKEN_SECRET_FILE",
   JWT_SECRET |-> "JWT_SECRET_FILE", CUSTOMER_JWT_SECRET |-> "CUSTOMER_JWT_SECRET_FILE"]

RequiredSecrets == DOMAIN SecretFile \cup {"DATABASE_URL"}

SensitiveKeys ==
  RequiredSecrets \cup {SecretFile[k] : k \in DOMAIN SecretFile} \cup {"RABBITMQ_URL"}

\* Read by Settings alone.
RuntimeFlags == {"CORS_ALLOW_CREDENTIALS", "DD_TRACE_ENABLED", "OTEL_ENABLED"}

RuntimeKeys ==
  RuntimeFlags \cup
  {"APP_RUNTIME_MODE", "EXPECTED_DATABASE_NAME", "EXPECTED_DATABASE_USERNAME",
   "RABBITMQ_CONSUME_ROUTING_KEYS", "JWT_ISSUER", "CUSTOMER_JWT_ISSUER"}

Keys ==
  RequiredText \cup OptionalFlags \cup Numbers \cup SensitiveKeys \cup RuntimeKeys
  \cup {"EMAIL_PROVIDER"}

\* An environment file as load_env_file leaves it: nothing can only be spelt one way.
IsValue(v) ==
  /\ v = Value(v.is, v.plain) /\ v.plain \in BOOLEAN
  /\ v.is \in {"absent", "blank"} => v.plain

IsUrl(v) ==
  v \in {Absent, Blank} \/ v = Url(v.scheme, v.host, v.username, v.database, v.options)

IsFile(f) ==
  (\A k \in Keys \ {"DATABASE_URL"} : IsValue(f[k])) /\ IsUrl(f["DATABASE_URL"])

-----------------------------------------------------------------------------
(* The database URL *)

\* validate_runtime_database_url; a blank expectation is not checked.
ValidUrl(u, database, username) ==
  /\ u.host \notin {"none", "placeholder"}
  /\ u.username # "none" /\ u.database # "none"
  /\ database \in {"blank", u.database}
  /\ username \in {"blank", u.username}

\* normalize_sync_database_url, which the repositories and Alembic's env.py use.
RepositoryUrl(u) ==
  [u EXCEPT !.scheme = IF @ = "postgresql+asyncpg" THEN "postgresql+psycopg" ELSE @,
            !.options = IF @ = "ssl" THEN "sslmode" ELSE @]

\* normalize_postgresql_url_for_sync, which the readiness probe uses.
ProbeUrl(u) ==
  [u EXCEPT !.scheme = IF @ \in {"postgresql+asyncpg", "postgresql"}
                         THEN "postgresql+psycopg" ELSE @]

\* External: psycopg 3 is the only driver of the image, and refuses the option ssl.
Connects(u) == u.scheme = "postgresql+psycopg" /\ u.options \in {"none", "sslmode"}

-----------------------------------------------------------------------------
(* prepare_env.py: every check comes before the file is written *)

Expected(f, k, default) == IF f[k] = Absent THEN default ELSE f[k].is

Accepts(f) ==
  /\ \A k \in RequiredText : Given(f, k)
  /\ f["ENVIRONMENT"].is \in Environments
  /\ Given(f, "EMAIL_PROVIDER") => f["EMAIL_PROVIDER"].is \in {"SMTP", "NOOP"}
  /\ f["LOG_JSON"].is \in Booleans
  /\ \A k \in OptionalFlags : Given(f, k) => f[k].is \in Booleans
  /\ \A k \in Numbers : Given(f, k) => f[k].is = "positive"
  /\ f["DATABASE_URL"].scheme \in {"postgresql", "postgresql+asyncpg"}
  /\ ValidUrl(f["DATABASE_URL"],
              Expected(f, "EXPECTED_DATABASE_NAME", "os_service_db"),
              Expected(f, "EXPECTED_DATABASE_USERNAME", "os_service_user"))
  /\ f["APP_BASE_URL"].is = "absolute"
  /\ \A k \in Lists : f[k].is = "items"
  /\ \A k \in DOMAIN SecretFile : Given(f, k) \/ Given(f, SecretFile[k])

\* Written in place of a line that is there and blank.
DefaultOf(k) ==
  CASE k \in OptionalFlags    -> Plain("false")
    [] k \in OptionalNumbers  -> Plain("positive")
    [] k = "EMAIL_PROVIDER"   -> Plain("SMTP")
    [] OTHER                  -> Blank

\* Spelt again the way the program compares it.
Respelt ==
  {"ENVIRONMENT", "EMAIL_PROVIDER", "LOG_LEVEL", "LOG_JSON"}
  \cup OptionalFlags \cup Numbers \cup Lists

\* Mutant: the lists are written as Python prints them.
NormalWithRepr(k, v) ==
  CASE v = Blank                       -> DefaultOf(k)
    [] k \in Lists /\ v # Blank        -> Value("nonsense", TRUE)
    [] v # Blank /\ k \in Respelt      -> [v EXCEPT !.plain = TRUE]
    [] OTHER                           -> v

\* Mutant: ENVIRONMENT is checked in lower case and written as it was.
NormalButEnvironment(k, v) ==
  CASE v = Blank                                       -> DefaultOf(k)
    [] v # Blank /\ k \in Respelt \ {"ENVIRONMENT"}    -> [v EXCEPT !.plain = TRUE]
    [] OTHER                                           -> v

Normal(k, v) ==
  CASE v = Blank                     -> DefaultOf(k)
    [] v # Blank /\ k \in Respelt    -> [v EXCEPT !.plain = TRUE]
    [] OTHER                         -> v

Prepared(f) == IF Accepts(f) THEN [k \in Keys |-> Normal(k, f[k])] ELSE f

-----------------------------------------------------------------------------
(* render_k8s_manifests.py *)

Renders(f) == \A k \in RequiredSecrets : Given(f, k)

\* The ConfigMap or the Secret: blank lines are left out.
Rendered(f, keys) == [k \in Keys |-> IF k \in keys /\ Given(f, k) THEN f[k] ELSE Absent]

RenderedConfig(f) ==
  LET config == Rendered(f, Keys \ SensitiveKeys)
  IN  [config EXCEPT !["EMAIL_PROVIDER"] =
         IF f["EMAIL_PROVIDER"] = Absent THEN Plain("NOOP") ELSE @]

RenderedSecret(f) == Rendered(f, SensitiveKeys)

-----------------------------------------------------------------------------
(* docker-compose.yml, which renders nothing *)

\* Passed on from the file as they are: a flag with nothing in it is no boolean.
PassedOn == RuntimeFlags \cup {"JWT_ISSUER"}

ComposeDefault(k) ==
  CASE k = "DATABASE_URL" ->
         Url("postgresql+asyncpg", "postgres", "os_service_user", "os_service_db", "none")
    [] k = "EXPECTED_DATABASE_NAME"          -> Plain("os_service_db")
    [] k = "EXPECTED_DATABASE_USERNAME"      -> Plain("os_service_user")
    [] k = "ENVIRONMENT"                     -> Plain("development")
    [] k \in {"LOG_JSON"} \cup OptionalFlags -> Plain("false")
    [] k \in Numbers                         -> Plain("positive")
    [] k \in Lists \cup {"RABBITMQ_CONSUME_ROUTING_KEYS"} -> Plain("items")
    [] k = "JWT_SECRET"                      -> Plain("dev")
    [] k = "CUSTOMER_JWT_SECRET"             -> Plain("customer-dev")
    [] k = "CUSTOMER_JWT_ISSUER"             -> Plain("lambda/development")
    [] OTHER                                 -> Plain("text")

\* ${KEY:-default} of the lines of `environment`, then the lines of the file.
Composed(f) ==
  [k \in Keys |->
     CASE k = "APP_RUNTIME_MODE" -> Plain("real")
       [] k \in PassedOn -> IF k \in RuntimeFlags /\ f[k] = Blank THEN Plain("nonsense") ELSE f[k]
       [] OTHER -> IF Given(f, k) THEN f[k] ELSE ComposeDefault(k)]

-----------------------------------------------------------------------------
(* settings.py: what the container finds, from the ConfigMap and from the Secret *)

Loads(config) ==
  /\ Given(config, "ENVIRONMENT") =>
       config["ENVIRONMENT"].is \in Environments /\ config["ENVIRONMENT"].plain
  /\ Given(config, "APP_RUNTIME_MODE") =>
       config["APP_RUNTIME_MODE"].is \in {"memory", "real"}
         /\ config["APP_RUNTIME_MODE"].plain
  /\ \A k \in RuntimeFlags \cup {"LOG_JSON"} : Given(config, k) => config[k].is \in Booleans
  /\ \A k \in {"HEALTHCHECK_TIMEOUT_SECONDS", "JWT_EXPIRATION_MINUTES"} :
       config[k].is # "nonsense"
  /\ \A k \in Lists \cup {"RABBITMQ_CONSUME_ROUTING_KEYS"} : config[k].is # "nonsense"

\* JWT_ISSUER defaults to the environment's name.
FromConfig(config) ==
  [loads |-> Loads(config),
   mode |-> Means(config, "APP_RUNTIME_MODE", "memory"),
   database |-> Means(config, "EXPECTED_DATABASE_NAME", "os_service_db"),
   username |-> Means(config, "EXPECTED_DATABASE_USERNAME", "os_service_user"),
   issuer |-> Means(config, "JWT_ISSUER", Means(config, "ENVIRONMENT", "development")),
   customer_issuer |-> Means(config, "CUSTOMER_JWT_ISSUER", "lambda/development")]

\* The Secret always has the secrets, so resolve_secret never opens their files.
FromSecret(secret) ==
  [url |-> secret["DATABASE_URL"], secret |-> secret["JWT_SECRET"].is,
   customer_secret |-> secret["CUSTOMER_JWT_SECRET"].is]

\* envFrom: the two have no key in common.
Settings(c, s) ==
  [loads |-> c.loads, mode |-> c.mode, database |-> c.database, username |-> c.username,
   issuer |-> c.issuer, customer_issuer |-> c.customer_issuer,
   url |-> s.url, secret |-> s.secret, customer_secret |-> s.customer_secret]

SettingsOf(f) == Settings(FromConfig(RenderedConfig(f)), FromSecret(RenderedSecret(f)))

\* A process gets past Settings, and past entrypoint.sh (and the engine of create_app)
\* if it goes through it: the worker's Deployment names a command of its own.
Boots(s, entrypoint) ==
  s.loads /\ (entrypoint => ValidUrl(s.url, s.database, s.username))

\* The repositories of "real" reach their database.
Reaches(s) == s.mode = "real" => Connects(RepositoryUrl(s.url))

\* /health/ready answers 200, the database being up or not.
AnswersReady(s, up) == s.mode = "real" => up /\ Connects(ProbeUrl(s.url))
=============================================================================
