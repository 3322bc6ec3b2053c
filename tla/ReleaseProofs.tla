--------------------------- MODULE ReleaseProofs ---------------------------
(***************************************************************************)
(* Theorems about preparing an environment file and about tokens across    *)
(* releases, for any files, any number of runs, replicas and faults.       *)
(***************************************************************************)
EXTENDS ReleaseGuarantees, TLAPS

-----------------------------------------------------------------------------
(* prepare_env.py, twice *)

LEMMA KeyFacts ==
  /\ RequiredText \subseteq Keys /\ OptionalFlags \subseteq Keys /\ Numbers \subseteq Keys
  /\ Lists \subseteq Keys /\ DOMAIN SecretFile \subseteq Keys
  /\ \A k \in DOMAIN SecretFile : SecretFile[k] \in Keys \ Respelt
  /\ {"ENVIRONMENT", "EMAIL_PROVIDER", "LOG_JSON", "DATABASE_URL", "APP_BASE_URL",
      "EXPECTED_DATABASE_NAME", "EXPECTED_DATABASE_USERNAME"} \subseteq Keys
  /\ "DATABASE_URL" \notin Respelt
  /\ {"EXPECTED_DATABASE_NAME", "EXPECTED_DATABASE_USERNAME"} \cap Respelt = {}
  /\ OptionalFlags \subseteq Respelt /\ OptionalNumbers \subseteq Respelt /\ "EMAIL_PROVIDER" \in Respelt
BY DEF Keys, RequiredText, OptionalFlags, Numbers, OptionalNumbers, Lists, SecretFile, Respelt,
       SensitiveKeys, RequiredSecrets, RuntimeKeys, RuntimeFlags

LEMMA Respell ==
  ASSUME NEW m, NEW b \in BOOLEAN
  PROVE  [Value(m, b) EXCEPT !.plain = TRUE] = Value(m, TRUE)
<1> DEFINE r == [is |-> m, plain |-> b]
<1>1. [r EXCEPT !.plain = TRUE] = [is |-> m, plain |-> TRUE]
  <2>1. DOMAIN r = {"is", "plain"}
    OBVIOUS
  <2>2. [r EXCEPT !.plain = TRUE] = [x \in DOMAIN r |-> IF x = "plain" THEN TRUE ELSE r[x]]
    OBVIOUS
  <2> DEFINE q == [r EXCEPT !.plain = TRUE]
             n == [is |-> m, plain |-> TRUE]
  <2>3. DOMAIN q = {"is", "plain"} /\ q["is"] = m /\ q["plain"] = TRUE
    BY <2>1, <2>2
  <2>4. DOMAIN n = {"is", "plain"} /\ n["is"] = m /\ n["plain"] = TRUE
    OBVIOUS
  <2>5. q = [x \in DOMAIN q |-> q[x]] /\ n = [x \in DOMAIN n |-> n[x]]
    OBVIOUS
  <2> HIDE DEF q, n
  <2>6. q = n
    BY <2>3, <2>4, <2>5
  <2>7. QED BY <2>6 DEF q, n
<1>2. QED BY <1>1 DEF Value

LEMMA NormalTwice ==
  ASSUME NEW k \in Keys, NEW v, IsValue(v)
  PROVE  /\ IsValue(Normal(k, v))
         /\ Normal(k, Normal(k, v)) = Normal(k, v)
         /\ v.is # "blank" => Normal(k, v).is = v.is
         /\ v.is = "blank" => Normal(k, v) = DefaultOf(k)
<1>1. v = Blank <=> v.is = "blank"
  BY DEF IsValue, Blank, Plain, Value
<1>2. CASE v = Blank
  <2>1. Normal(k, v) = DefaultOf(k)
    BY <1>2, Zenon DEF Normal
  <2>2. DefaultOf(k) = Blank \/ (k \in Respelt /\ DefaultOf(k) \in {Plain("false"), Plain("positive"), Plain("SMTP")})
    BY KeyFacts DEF DefaultOf
  <2>3. CASE DefaultOf(k) = Blank
    BY <1>1, <1>2, <2>1, <2>3
  <2>4. CASE k \in Respelt /\ DefaultOf(k) \in {Plain("false"), Plain("positive"), Plain("SMTP")}
    <3>1. PICK m : m \in {"false", "positive", "SMTP"} /\ DefaultOf(k) = Plain(m)
      BY <2>4, Zenon
    <3>2. Plain(m) = [is |-> m, plain |-> TRUE]
      BY DEF Plain, Value
    <3>3. Plain(m) # Blank
      BY <3>1 DEF Plain, Value, Blank
    <3>4. Normal(k, Plain(m)) = [Plain(m) EXCEPT !.plain = TRUE]
      BY <2>4, <3>3, Zenon DEF Normal
    <3>5. [Plain(m) EXCEPT !.plain = TRUE] = Plain(m)
      BY Respell DEF Plain
    <3>6. IsValue(Plain(m))
      BY <3>1 DEF IsValue, Plain, Value
    <3>7. QED BY <1>1, <1>2, <2>1, <3>1, <3>4, <3>5, <3>6
  <2>5. QED BY <2>2, <2>3, <2>4
<1>3. CASE v # Blank
  <2>1. CASE k \in Respelt
    <3> DEFINE n == [v EXCEPT !.plain = TRUE]
    <3>1. Normal(k, v) = n
      BY <1>3, <2>1, Zenon DEF Normal
    <3>2. n = Value(v.is, TRUE)
      BY Respell DEF IsValue
    <3>3. n.is = v.is /\ IsValue(n)
      BY <3>2 DEF IsValue, Value
    <3>4. n # Blank
      BY <1>1, <1>3, <3>3 DEF Blank, Plain, Value
    <3> HIDE DEF n
    <3>5. Normal(k, n) = [n EXCEPT !.plain = TRUE]
      BY <2>1, <3>4, Zenon DEF Normal
    <3>6. [n EXCEPT !.plain = TRUE] = n
      BY <3>2, Respell
    <3>7. QED BY <1>1, <1>3, <3>1, <3>3, <3>5, <3>6
  <2>2. CASE k \notin Respelt
    <3>1. Normal(k, v) = v
      BY <1>3, <2>2, Zenon DEF Normal
    <3>2. QED BY <1>1, <1>3, <3>1
  <2>3. QED BY <2>1, <2>2
<1>4. QED BY <1>2, <1>3

\* prepare_env.py accepts any file it has written and writes it again as it is.
THEOREM PrepareTwice ==
  ASSUME NEW f, IsFile(f), Accepts(f)
  PROVE  Accepts(Prepared(f)) /\ Prepared(Prepared(f)) = Prepared(f) /\ IsFile(Prepared(f))
<1> DEFINE g == [k \in Keys |-> Normal(k, f[k])]
<1>0. Prepared(f) = g
  BY DEF Prepared
<1>1. ASSUME NEW k \in Keys \ {"DATABASE_URL"}
      PROVE  /\ IsValue(g[k])
             /\ Normal(k, g[k]) = g[k]
             /\ f[k].is # "blank" => g[k].is = f[k].is
             /\ f[k].is = "blank" => g[k] = DefaultOf(k)
  <2>1. g[k] = Normal(k, f[k])
    OBVIOUS
  <2>2. PICK v : v = f[k]
    OBVIOUS
  <2>3. IsValue(v)
    BY <2>2 DEF IsFile
  <2> HIDE DEF g
  <2>4. QED BY <2>1, <2>2, <2>3, NormalTwice
<1>2. g["DATABASE_URL"] = f["DATABASE_URL"] /\ Normal("DATABASE_URL", f["DATABASE_URL"]) = f["DATABASE_URL"]
  <2>1. f["DATABASE_URL"] # Blank
    BY DEF Accepts, Given, RequiredText, Blank, Plain, Value
  <2>2. Normal("DATABASE_URL", f["DATABASE_URL"]) = f["DATABASE_URL"]
    BY <2>1, KeyFacts, Zenon DEF Normal
  <2>3. QED BY <2>2, KeyFacts
<1>3. \A k \in Keys \ {"DATABASE_URL"} : f[k].is # "blank" => g[k].is = f[k].is
  BY <1>1
<1>4. \A k \in Keys : f[k].is \notin {"absent", "blank"} => g[k].is = f[k].is
  BY <1>1, <1>2
<1>5. \A k \in Keys : Normal(k, g[k]) = g[k]
  BY <1>1, <1>2
<1> HIDE DEF g
<1>6. Accepts(g)
  <2>1. \A k \in RequiredText : Given(g, k) /\ g[k].is = f[k].is
    BY <1>4, KeyFacts DEF Accepts, Given
  <2>2. g["ENVIRONMENT"].is \in Environments /\ g["LOG_JSON"].is \in Booleans
        /\ g["APP_BASE_URL"].is = "absolute"
    BY <2>1 DEF Accepts, RequiredText
  <2>3. Given(g, "EMAIL_PROVIDER") => g["EMAIL_PROVIDER"].is \in {"SMTP", "NOOP"}
    <3>1. CASE f["EMAIL_PROVIDER"].is = "blank"
      <4>1. g["EMAIL_PROVIDER"] = DefaultOf("EMAIL_PROVIDER")
        BY <1>1, <3>1, KeyFacts
      <4>2. DefaultOf("EMAIL_PROVIDER") = Plain("SMTP")
        BY Zenon DEF DefaultOf, OptionalFlags, OptionalNumbers
      <4>3. QED BY <4>1, <4>2 DEF Plain, Value
    <3>2. CASE f["EMAIL_PROVIDER"].is # "blank"
      <4>1. g["EMAIL_PROVIDER"].is = f["EMAIL_PROVIDER"].is
        BY <1>3, <3>2, KeyFacts
      <4>2. QED BY <4>1 DEF Accepts, Given
    <3>3. QED BY <3>1, <3>2
  <2>4. ASSUME NEW k \in OptionalFlags, Given(g, k) PROVE g[k].is \in Booleans
    <3>1. k \in Keys \ {"DATABASE_URL"}
      BY KeyFacts DEF OptionalFlags
    <3>2. CASE f[k].is = "blank"
      <4>1. g[k] = DefaultOf(k)
        BY <1>1, <3>1, <3>2
      <4>2. DefaultOf(k) = Plain("false")
        <5>1. k \notin OptionalNumbers /\ k # "EMAIL_PROVIDER"
          BY DEF OptionalNumbers, OptionalFlags
        <5>2. QED BY <5>1, Zenon DEF DefaultOf
      <4>3. QED BY <4>1, <4>2 DEF Plain, Value, Booleans
    <3>3. CASE f[k].is # "blank"
      BY <1>3, <2>4, <3>1, <3>3 DEF Accepts, Given
    <3>4. QED BY <3>2, <3>3
  <2>5. ASSUME NEW k \in Numbers, Given(g, k) PROVE g[k].is = "positive"
    <3>1. k \in Keys \ {"DATABASE_URL"}
      BY KeyFacts DEF Numbers, OptionalNumbers
    <3>2. CASE f[k].is = "blank"
      <4>1. g[k] = DefaultOf(k)
        BY <1>1, <3>1, <3>2
      <4>2. DefaultOf(k) = Plain("positive") \/ DefaultOf(k) = Blank
        <5>1. k \notin OptionalFlags /\ k # "EMAIL_PROVIDER"
          BY DEF Numbers, OptionalNumbers, OptionalFlags
        <5>2. CASE k \in OptionalNumbers
          BY <5>1, <5>2, Zenon DEF DefaultOf
        <5>3. CASE k \notin OptionalNumbers
          BY <5>1, <5>3, Zenon DEF DefaultOf
        <5>4. QED BY <5>2, <5>3
      <4>3. QED BY <2>5, <4>1, <4>2 DEF Plain, Value, Blank, Given
    <3>3. CASE f[k].is # "blank"
      BY <1>3, <2>5, <3>1, <3>3 DEF Accepts, Given
    <3>4. QED BY <3>2, <3>3
  <2>6. g["DATABASE_URL"].scheme \in {"postgresql", "postgresql+asyncpg"}
        /\ ValidUrl(g["DATABASE_URL"], Expected(g, "EXPECTED_DATABASE_NAME", "os_service_db"),
                    Expected(g, "EXPECTED_DATABASE_USERNAME", "os_service_user"))
    <3>1. ASSUME NEW k \in {"EXPECTED_DATABASE_NAME", "EXPECTED_DATABASE_USERNAME"} PROVE g[k] = f[k]
      <4>1. k \in Keys /\ k \notin Respelt /\ k \notin OptionalFlags /\ k \notin OptionalNumbers /\ k # "EMAIL_PROVIDER"
        BY KeyFacts
      <4>2. DefaultOf(k) = Blank
        BY <4>1, Zenon DEF DefaultOf
      <4>3. Normal(k, f[k]) = f[k]
        BY <4>1, <4>2, Zenon DEF Normal
      <4>4. QED BY <4>1, <4>3 DEF g
    <3>2. QED BY <1>2, <3>1 DEF Accepts, Expected
  <2>7. \A k \in Lists : g[k].is = "items"
    BY <2>1 DEF Accepts, Lists, RequiredText
  <2>8. \A k \in DOMAIN SecretFile : Given(g, k) \/ Given(g, SecretFile[k])
    BY <1>4, KeyFacts DEF Accepts, Given
  <2>9. QED BY <2>1, <2>2, <2>3, <2>4, <2>5, <2>6, <2>7, <2>8 DEF Accepts
<1>7. Prepared(g) = [k \in Keys |-> Normal(k, g[k])]
  BY <1>6 DEF Prepared
<1>8. Prepared(g) = g
  BY <1>5, <1>7 DEF g
<1>9. IsFile(g)
  BY <1>1, <1>2 DEF IsFile
<1>10. QED BY <1>0, <1>6, <1>8, <1>9

\* Of the actions only these two write APP_ENV.
LEMMA FileChanges ==
  ASSUME [Next]_vars, file' # file
  PROVE  PrepareEnv \/ \E f \in Drafts : EditEnv(f)
<1>1. Next
  BY DEF vars
<1>2. ASSUME NEW r \in Runs, RunStep(r) PROVE UNCHANGED file
  BY <1>2 DEF RunStep, Start, ClearDirectory, CopyManifests, ApplyConfig, ApplySecret, DeleteJob, ApplyJob,
              WaitForJob, ApplyApi, ApplyWorker, ApiRolledOut, WorkerRolledOut, SmokeTest, GiveUp
<1>3. ASSUME NEW p \in Pods, PodStep(p) PROVE UNCHANGED file
  BY <1>3 DEF PodStep, CreatePod, DeletePod, ProcessStep, Boot, Look, CreateTable, Restart, Probe, Kill,
              Steps, Fails
<1>4. Migrate \/ Outage \/ Recover => UNCHANGED file
  BY DEF Migrate, Outage, Recover
<1>5. QED BY <1>1, <1>2, <1>3, <1>4 DEF Next

LEMMA FilesStayFiles == Spec => []IsFile(file)
<1>1. Init => IsFile(file)
  BY ReleaseConstants DEF Init
<1>2. IsFile(file) /\ [Next]_vars => IsFile(file)'
  <2> SUFFICES ASSUME IsFile(file), [Next]_vars, file' # file PROVE IsFile(file)'
    BY DEF IsFile
  <2>1. PICK g : g = file'
    OBVIOUS
  <2>2. IsFile(g)
    <3>1. CASE PrepareEnv
      <4>1. PICK f : f = file
        OBVIOUS
      <4>2. IsFile(f) /\ Accepts(f) /\ g = Prepared(f)
        BY <2>1, <3>1, <4>1 DEF PrepareEnv
      <4>3. QED BY <4>2, PrepareTwice
    <3>2. CASE \E f \in Drafts : EditEnv(f)
      BY <2>1, <3>2, ReleaseConstants DEF EditEnv
    <3>3. QED BY <3>1, <3>2, FileChanges
  <2>3. QED BY <2>1, <2>2 DEF IsFile
<1>3. QED BY <1>1, <1>2, PTL DEF Spec

\* What prepare_env.py has written can be prepared again.
LEMMA PreparedIsAccepted ==
  ASSUME IsFile(file), file' # file, file' = Prepared(file)
  PROVE  IsFile(file)' /\ Accepts(file') /\ Prepared(file') = file'
<1>1. PICK f : f = file
  OBVIOUS
<1>2. PICK g : g = file'
  OBVIOUS
<1>3. IsFile(f) /\ g # f /\ g = Prepared(f)
  BY <1>1, <1>2
<1>4. Accepts(f)
  BY <1>3 DEF Prepared
<1>5. IsFile(g) /\ Accepts(g) /\ Prepared(g) = g
  BY <1>3, <1>4, PrepareTwice
<1>6. IsFile(file)' <=> IsFile(g)
  BY <1>2 DEF IsFile
<1>7. QED BY <1>2, <1>5, <1>6

\* The runbook may be followed twice, whatever file the operator starts from and edits.
THEOREM PreparedStaysPrepared == Spec => PreparedIsStable
<1>1. IsFile(file) /\ [Next]_vars =>
        [file' # file /\ file' = Prepared(file) => Accepts(file') /\ Prepared(file') = file']_file
  BY PreparedIsAccepted
<1>2. QED BY <1>1, FilesStayFiles, PTL DEF Spec, PreparedIsStable

\* What a line of a plain setting is in the ConfigMap.
LEMMA InConfig ==
  ASSUME NEW f, NEW k \in Keys \ SensitiveKeys, k # "EMAIL_PROVIDER"
  PROVE  RenderedConfig(f)[k] = IF Given(f, k) THEN f[k] ELSE Absent
<1> DEFINE c == Rendered(f, Keys \ SensitiveKeys)
<1>1. c = [j \in Keys |-> IF j \in Keys \ SensitiveKeys /\ Given(f, j) THEN f[j] ELSE Absent]
  BY DEF Rendered
<1>2. c[k] = IF Given(f, k) THEN f[k] ELSE Absent
  BY <1>1
<1>3. \E v : RenderedConfig(f) = [c EXCEPT !["EMAIL_PROVIDER"] = v]
  BY DEF RenderedConfig
<1>4. RenderedConfig(f)[k] = c[k]
  <2>1. PICK v : RenderedConfig(f) = [c EXCEPT !["EMAIL_PROVIDER"] = v]
    BY <1>3
  <2>2. k \in DOMAIN c
    BY <1>1
  <2> HIDE DEF c
  <2>3. QED BY <2>1, <2>2
<1>5. QED BY <1>2, <1>4

\* settings.py loads the ConfigMap of a file that was prepared and has no gaps.
LEMMA PreparedLoads ==
  ASSUME NEW f, IsFile(f), Accepts(f), Prepared(f) = f, ~Gaps(f)
  PROVE  Loads(RenderedConfig(f))
<1>1. PICK c : c = RenderedConfig(f)
  OBVIOUS
<1>2. \A k \in Keys \ SensitiveKeys : k # "EMAIL_PROVIDER" => c[k] = IF Given(f, k) THEN f[k] ELSE Absent
  BY <1>1, InConfig
<1>3. ~Given([k \in Keys |-> Absent], "ENVIRONMENT") /\ Absent.is = "absent"
  BY KeyFacts DEF Given, Absent, Plain, Value
<1>4. ASSUME NEW k \in Keys \ SensitiveKeys, k # "EMAIL_PROVIDER", Given(c, k) PROVE Given(f, k) /\ c[k] = f[k]
  BY <1>2, <1>3, <1>4 DEF Given
<1>5. ASSUME NEW k \in Keys \ SensitiveKeys, k # "EMAIL_PROVIDER", f[k].is # "nonsense" PROVE c[k].is # "nonsense"
  BY <1>2, <1>3, <1>5
<1>6. /\ {"ENVIRONMENT", "APP_RUNTIME_MODE", "LOG_JSON", "HEALTHCHECK_TIMEOUT_SECONDS", "JWT_EXPIRATION_MINUTES",
          "RABBITMQ_CONSUME_ROUTING_KEYS"} \subseteq Keys \ SensitiveKeys
      /\ RuntimeFlags \subseteq Keys \ SensitiveKeys /\ Lists \subseteq Keys \ SensitiveKeys
      /\ "EMAIL_PROVIDER" \notin RuntimeFlags \cup Lists
  BY DEF Keys, SensitiveKeys, RequiredSecrets, SecretFile, RequiredText, RuntimeKeys, RuntimeFlags, Lists, Numbers
<1>7. Given(c, "ENVIRONMENT") => c["ENVIRONMENT"].is \in Environments /\ c["ENVIRONMENT"].plain
  <2>1. PICK v : v = f["ENVIRONMENT"]
    OBVIOUS
  <2>2. v.is \in Environments /\ v # Blank
    BY <2>1 DEF Accepts, Given, RequiredText, Blank, Plain, Value
  <2>3. f = [k \in Keys |-> Normal(k, f[k])]
    BY DEF Prepared
  <2>4. v = Normal("ENVIRONMENT", v)
    BY <2>1, <2>3, KeyFacts
  <2>5. Normal("ENVIRONMENT", v) = [v EXCEPT !.plain = TRUE]
    BY <2>2, Zenon DEF Normal, Respelt
  <2>6. v = Value(v.is, v.plain) /\ v.plain \in BOOLEAN
    BY <2>1, KeyFacts DEF IsFile, IsValue
  <2>7. [v EXCEPT !.plain = TRUE] = Value(v.is, TRUE)
    BY <2>6, Respell
  <2>8. v.plain
    BY <2>4, <2>5, <2>7 DEF Value
  <2>9. QED BY <1>4, <1>6, <2>1, <2>2, <2>8
<1>8. Given(c, "APP_RUNTIME_MODE") =>
        c["APP_RUNTIME_MODE"].is \in {"memory", "real"} /\ c["APP_RUNTIME_MODE"].plain
  BY <1>4, <1>6 DEF Gaps, Given, Absent, Blank, Plain, Value
<1>9. ASSUME NEW k \in RuntimeFlags \cup {"LOG_JSON"}, Given(c, k) PROVE c[k].is \in Booleans
  BY <1>4, <1>6, <1>9 DEF Gaps, Accepts
<1>10. ASSUME NEW k \in {"HEALTHCHECK_TIMEOUT_SECONDS", "JWT_EXPIRATION_MINUTES"} PROVE c[k].is # "nonsense"
  <2>1. f[k].is # "nonsense"
    BY DEF Accepts, Numbers, Given
  <2>2. QED BY <1>5, <1>6, <2>1
<1>11. ASSUME NEW k \in Lists \cup {"RABBITMQ_CONSUME_ROUTING_KEYS"} PROVE c[k].is # "nonsense"
  <2>1. f[k].is # "nonsense"
    BY DEF Accepts, Gaps
  <2>2. QED BY <1>5, <1>6, <2>1
<1>12. QED BY <1>1, <1>7, <1>8, <1>9, <1>10, <1>11 DEF Loads

\* The API gets past entrypoint.sh and reaches its database on the URL of such a file,
\* and on what it expects of it.
LEMMA PreparedStarts ==
  ASSUME NEW f, IsFile(f), Accepts(f), Prepared(f) = f, ~Gaps(f)
  PROVE  Boots(SettingsOf(f), TRUE) /\ Reaches(SettingsOf(f))
<1>1. PICK u : u = f["DATABASE_URL"]
  OBVIOUS
<1>2. Given(f, "DATABASE_URL")
  BY DEF Accepts, RequiredText
<1>3. u = Url(u.scheme, u.host, u.username, u.database, u.options)
  BY <1>1, <1>2 DEF IsFile, IsUrl, Given, Absent, Blank, Plain, Value
<1>4. RenderedSecret(f)["DATABASE_URL"] = u
  BY <1>1, <1>2, KeyFacts DEF RenderedSecret, Rendered, SensitiveKeys, RequiredSecrets
<1>5. PICK s : s = SettingsOf(f)
  OBVIOUS
<1>6. PICK c : c = RenderedConfig(f)
  OBVIOUS
<1>7. /\ s.url = u /\ s.loads = Loads(c)
      /\ s.database = Means(c, "EXPECTED_DATABASE_NAME", "os_service_db")
      /\ s.username = Means(c, "EXPECTED_DATABASE_USERNAME", "os_service_user")
  BY <1>4, <1>5, <1>6 DEF SettingsOf, Settings, FromConfig, FromSecret
<1>8. ASSUME NEW k \in {"EXPECTED_DATABASE_NAME", "EXPECTED_DATABASE_USERNAME"}, NEW default
      PROVE  Means(c, k, default) = Expected(f, k, default)
  <2>1. k \in Keys \ SensitiveKeys /\ k # "EMAIL_PROVIDER" /\ k # "DATABASE_URL"
    BY DEF Keys, RuntimeKeys, SensitiveKeys, RequiredSecrets, SecretFile
  <2>2. c[k] = IF Given(f, k) THEN f[k] ELSE Absent
    BY <1>6, <2>1, InConfig
  <2>3. PICK v : v = f[k]
    OBVIOUS
  <2>4. v = Value(v.is, v.plain) /\ (v.is \in {"absent", "blank"} => v = Value(v.is, TRUE))
    BY <2>1, <2>3 DEF IsFile, IsValue
  <2>5. v # Blank
    BY <2>3 DEF Gaps
  <2>6. v.is = "absent" <=> v = Absent
    BY <2>4 DEF Absent, Plain, Value
  <2>7. v.is # "blank"
    BY <2>4, <2>5 DEF Blank, Plain
  <2>8. Absent.is = "absent"
    BY DEF Absent, Plain, Value
  <2>9. QED BY <2>2, <2>3, <2>6, <2>7, <2>8 DEF Means, Expected, Given
<1>9. ValidUrl(s.url, s.database, s.username)
  BY <1>1, <1>7, <1>8 DEF Accepts
<1>10. Loads(c)
  BY <1>6, PreparedLoads
<1>11. Connects(RepositoryUrl(u))
  <2>1. u.scheme = "postgresql+asyncpg" /\ u.options \in {"none", "ssl", "sslmode"}
    BY <1>1 DEF Accepts, Gaps
  <2>2. PICK r : r = RepositoryUrl(u)
    OBVIOUS
  <2>3. "scheme" \in DOMAIN u /\ "options" \in DOMAIN u
    BY <1>3 DEF Url
  <2>4. r.scheme = "postgresql+psycopg" /\ r.options = IF u.options = "ssl" THEN "sslmode" ELSE u.options
    BY <2>1, <2>2, <2>3 DEF RepositoryUrl
  <2>5. QED BY <2>1, <2>2, <2>4 DEF Connects
<1>12. QED BY <1>5, <1>7, <1>9, <1>10, <1>11 DEF Boots, Reaches

\* prepare_env.py and settings.py agree on every file but those with one of the gaps
\* named: what the script wrote, rendered, starts the API.
THEOREM AcceptedStarts == Spec => AcceptedFilesStart
<1>1. ASSUME IsFile(file), file' # file, file' = Prepared(file), ~Gaps(file')
      PROVE  Boots(SettingsOf(file'), TRUE) /\ Reaches(SettingsOf(file'))
  <2>1. PICK g : g = file'
    OBVIOUS
  <2>2. IsFile(g) <=> IsFile(file)'
    BY <2>1 DEF IsFile
  <2>3. IsFile(g) /\ Accepts(g) /\ Prepared(g) = g /\ ~Gaps(g)
    BY <1>1, <2>1, <2>2, PreparedIsAccepted
  <2>4. QED BY <2>1, <2>3, PreparedStarts
<1>2. IsFile(file) /\ [Next]_vars =>
        [file' # file /\ file' = Prepared(file) /\ Renders(file') /\ ~Gaps(file') =>
           Boots(SettingsOf(file'), TRUE) /\ Reaches(SettingsOf(file'))]_file
  BY <1>1
<1>3. QED BY <1>2, FilesStayFiles, PTL DEF Spec, AcceptedFilesStart

-----------------------------------------------------------------------------
(* Tokens *)

\* What the customers' key opens is a customer or nothing, and what makes an
\* administrator says so itself.
LEMMA ResolveByRole ==
  ASSUME NEW token, NEW s
  PROVE  /\ \/ Resolve(token, s) = Nobody
            \/ Resolve(token, s) = Administrator /\ token.role = "admin"
            \/ Resolve(token, s) = Customer(token) /\ token.role = "customer"
         /\ token.role = "admin" /\ Decodes(token, s.secret, s.issuer) => Resolve(token, s) = Administrator
<1>1. CASE IsCustomer(token, s)
  <2>1. Resolve(token, s) = Customer(token)
    BY <1>1, Zenon DEF Resolve
  <2>2. token.role = "customer"
    BY <1>1 DEF IsCustomer
  <2>3. QED BY <2>1, <2>2
<1>2. CASE ~IsCustomer(token, s) /\ IsAdmin(token, s)
  <2>1. Resolve(token, s) = Administrator
    BY <1>2, Zenon DEF Resolve
  <2>2. QED BY <1>2, <2>1 DEF IsAdmin
<1>3. CASE ~IsCustomer(token, s) /\ ~IsAdmin(token, s)
  <2>1. Resolve(token, s) = Nobody
    BY <1>3, Zenon DEF Resolve
  <2>2. QED BY <1>3, <2>1 DEF IsAdmin
<1>4. QED BY <1>1, <1>2, <1>3

\* No release, secret or issuer, shared or not, turns one kind of token into the other.
THEOREM NoTokenChangesRole == Spec => []RolesAreApart
<1>1. RolesAreApart
  <2> SUFFICES ASSUME NEW token \in AdminTokens \cup LambdaTokens, NEW p \in Checkers
               PROVE  LET principal == Resolve(token, pod[p].settings)
                      IN  \/ principal = Nobody
                          \/ principal.role = "admin" /\ token.role = "admin"
                          \/ token.role = "customer" /\ principal = Customer(token)
    BY DEF RolesAreApart
  <2>1. PICK s : s = pod[p].settings
    OBVIOUS
  <2>2. Administrator.role = "admin"
    BY DEF Administrator
  <2>3. QED BY <2>1, <2>2, ResolveByRole
<1>2. QED BY <1>1, PTL

\* An administrator is logged in at every process that shares the signing secret and
\* issuer, whichever signed the token and whatever its customers' settings are.
THEOREM SessionsOutliveReleases == Spec => []SessionsSurvive
<1>1. SessionsSurvive
  <2> SUFFICES ASSUME NEW token \in AdminTokens, NEW p \in Checkers,
                      token.signed = pod[p].settings.secret, token.issuer = pod[p].settings.issuer
               PROVE  Resolve(token, pod[p].settings) = Administrator
    BY DEF SessionsSurvive
  <2>1. PICK s : s = pod[p].settings
    OBVIOUS
  <2>2. token.role = "admin" /\ Decodes(token, s.secret, s.issuer)
    BY <2>1 DEF AdminTokens, AdminToken, Decodes
  <2>3. QED BY <2>1, <2>2, ResolveByRole
<1>2. QED BY <1>1, PTL
=============================================================================
