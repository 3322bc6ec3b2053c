----------------------------- MODULE MCRelease -----------------------------
\* The instances of Release that TLC checks.
EXTENDS ReleaseGuarantees

OsUrl(scheme, options) ==
  Url(scheme, "rds", "os_service_user", "os_service_db", options)

\* .env.prod.example with its secrets filled in and the URL's option left out.
Filled ==
  [k \in Keys |->
     CASE k \in {"APP_NAME", "APP_VERSION", "RABBITMQ_URL", "JWT_ALGORITHM"} -> Plain("text")
       [] k = "ENVIRONMENT"       -> Plain("production")
       [] k = "APP_RUNTIME_MODE"  -> Plain("real")
       [] k = "LOG_LEVEL"         -> Value("info", FALSE)
       [] k = "LOG_JSON"          -> Plain("true")
       [] k = "EMAIL_PROVIDER"    -> Plain("NOOP")
       [] k = "APP_BASE_URL"      -> Plain("absolute")
       [] k \in Lists \cup {"RABBITMQ_CONSUME_ROUTING_KEYS"} -> Plain("items")
       [] k \in Numbers           -> Plain("positive")
       [] k \in OptionalFlags \cup {"DD_TRACE_ENABLED", "OTEL_ENABLED"} -> Plain("false")
       [] k = "DATABASE_URL"      -> OsUrl("postgresql+asyncpg", "none")
       [] k = "EXPECTED_DATABASE_NAME"      -> Plain("os_service_db")
       [] k = "EXPECTED_DATABASE_USERNAME"  -> Plain("os_service_user")
       [] k \in DOMAIN SecretFile  -> Plain(k)
       [] k = "CUSTOMER_JWT_ISSUER" -> Plain("lambda/production")
       [] OTHER                   -> Absent]

Documented == [Filled EXCEPT !["DATABASE_URL"] = OsUrl("postgresql+asyncpg", "ssl")]

\* One secret and one issuer for both kinds of token.
OneSecret ==
  [Filled EXCEPT !["CUSTOMER_JWT_SECRET"] = Plain("JWT_SECRET"),
                 !["JWT_ISSUER"] = Plain("shared"), !["CUSTOMER_JWT_ISSUER"] = Plain("shared")]

\* What may stand in one line.
Lines(k) ==
  {Absent, Blank} \cup
  CASE k = "DATABASE_URL" ->
         {OsUrl(s, o) : s \in {"postgresql", "postgresql+asyncpg", "sqlite"},
                        o \in {"none", "ssl", "sslmode", "other"}}
         \cup {Url("postgresql", h, u, d, "none") :
                 h \in {"none", "placeholder", "rds"}, u \in {"none", "root"},
                 d \in {"none", "other_db"}}
    [] k = "EXPECTED_DATABASE_NAME" -> {Plain("os_service_db"), Plain("other_db")}
    [] k = "ENVIRONMENT" -> {Value(m, b) : m \in {"production", "nonsense"}, b \in BOOLEAN}
    [] k = "APP_RUNTIME_MODE" ->
         {Value(m, b) : m \in {"memory", "real", "nonsense"}, b \in BOOLEAN}
    [] k \in {"LOG_JSON"} \cup OptionalFlags \cup RuntimeFlags ->
         {Value(m, b) : m \in Booleans, b \in BOOLEAN} \cup {Plain("nonsense")}
    [] k \in Numbers ->
         {Value("positive", FALSE), Plain("positive"), Plain("zero"), Plain("nonsense")}
    [] k \in Lists \cup {"RABBITMQ_CONSUME_ROUTING_KEYS"} ->
         {Value("items", FALSE), Plain("items"), Plain("empty"), Plain("nonsense")}
    [] k = "EMAIL_PROVIDER" -> {Value("SMTP", FALSE), Plain("NOOP"), Plain("nonsense")}
    [] k = "APP_BASE_URL" -> {Plain("absolute"), Plain("relative")}
    [] OTHER -> {Plain("text")}

\* OneSecret before it is prepared.
Unprepared == [OneSecret EXCEPT !["ENVIRONMENT"] = Value("production", FALSE)]

Candidates ==
  {Unprepared} \cup UNION {{[f EXCEPT ![k] = v] : v \in Lines(k)} :
                             f \in {Filled, Documented, OneSecret}, k \in Keys}

Later == {Unprepared}
Sent == {Filled, Prepared(Unprepared)}
OnlyDocumented == {Documented}

\* ConfigMap and Secret of either file that is sent.
Anybody ==
  {Settings(FromConfig(RenderedConfig(f)), FromSecret(RenderedSecret(g))) : f, g \in Sent}
=============================================================================
