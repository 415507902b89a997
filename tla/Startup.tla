------------------------------ MODULE Startup -------------------------------
(***************************************************************************)
(* From the environment to a process that serves: run of the engine and of *)
(* the dashboard API, with internal/config, the constructors' defaults,    *)
(* the signature file and, in between, the migrations (Migrate).           *)
(*                                                                         *)
(* A variable of the environment is unset, an integer, or text of which    *)
(* the model keeps what the code asks of it.  A process that ends is       *)
(* started again in the same environment (docker-compose.yml).             *)
(***************************************************************************)
EXTENDS Migrate

CONSTANTS
    Dashboards,    \* The dashboard processes.
    Deployments,   \* The environments the processes may be given.
    Default,       \* The fallbacks of LoadEngine and LoadDashboard.
    Second,        \* Nanoseconds of a second.
    MaxDuration,   \* The greatest time.Duration; durations wrap around.
    MaxFailures    \* Bound on the failures that are not the environment's.

(* The variables that are numbers.                                         *)
Quantities == {"requests", "window", "body", "buffer", "ttl"}

Processes == Engines \cup Dashboards

ASSUME StartupAssumption ==
    /\ Dashboards \cap Engines = {}
    /\ Second \in Nat \ {0} /\ {MaxDuration, MaxFailures} \subseteq Nat
    /\ \A k \in Quantities : Default[k] \in 1..(MaxDuration \div Second)
    /\ \A d \in Deployments, e \in Processes, k \in Quantities :
          /\ d[e][k].kind \in {"unset", "integer", "malformed"}
          /\ d[e][k].kind = "integer" => d[e][k].n \in Int

VARIABLES
    env,       \* The environment of each process.
    phase,     \* How far run has come.
    config,    \* What the parts of the process were constructed with.
    failures   \* The number of failures so far.

startupVars == <<vars, env, phase, config, failures>>

(* A dashboard is "waiting" until an engine is healthy; "ended" until it   *)
(* is started again.                                                       *)
Phases == {"waiting", "off", "configured", "open", "connected", "resumed", "serving", "ended"}

-----------------------------------------------------------------------------
(***************************************************************************)
(* config.go: str, required, integer, seconds, boolean, prefixes.          *)
(***************************************************************************)
Is(raw, kinds) == raw.kind \in kinds

integer(raw, fallback) == IF Is(raw, {"integer"}) THEN raw.n ELSE fallback

(* int64 arithmetic.                                                       *)
Wrapped(n) ==
    ((n + MaxDuration + 1) % (2 * (MaxDuration + 1))) - (MaxDuration + 1)
seconds(raw, fallback) == Wrapped(integer(raw, fallback) * Second)

(* What a constructor makes of a value it takes for "not given": NewWriter,*)
(* NewPatternRule, auth.New.                                               *)
OrDefault(n, default) == IF n <= 0 THEN default ELSE n

(* What each process parses; the DSN and the signatures come later.        *)
Parsed(e) ==
    IF e \in Engines THEN {"db", "requests", "window", "body", "buffer"}
                     ELSE {"db", "ttl", "secure", "proxies"}

(* Mutant: a malformed value falls back without an error.                  *)
NoParseErrors(e) == {}
ParseErrors(e) == {k \in Parsed(e) : Is(env[e][k], {"malformed"})}

EngineErrors(e) ==
    ParseErrors(e)
        \cup {k \in {"dsn"} : Is(env[e][k], {"unset"})}
        \cup {k \in {"requests"} : integer(env[e][k], Default[k]) <= 0}
        \cup {k \in {"window"} : seconds(env[e][k], Default[k]) <= 0}
        \cup {k \in {"body"} : integer(env[e][k], Default[k]) < 0}

(* A hash that only looks like one passes here, and fails in auth.New.     *)
DashboardErrors(e) ==
    ParseErrors(e)
        \cup {k \in {"dsn", "hash", "secret"} : Is(env[e][k], {"unset"})}
        \cup {k \in {"secret"} : Is(env[e][k], {"short"})}
        \cup {k \in {"hash"} : Is(env[e][k], {"plaintext"})}

NewErrors(e) == {k \in {"hash"} : Is(env[e][k], {"truncated"})}

EngineConfig(e) ==
    [requests |-> integer(env[e].requests, Default.requests),
     window   |-> seconds(env[e].window, Default.window),
     maxScan  |-> OrDefault(integer(env[e].body, Default.body), Default.body),
     buffer   |-> OrDefault(integer(env[e].buffer, Default.buffer), Default.buffer)]

DashboardConfig(e) ==
    [ttl |-> OrDefault(seconds(env[e].ttl, Default.ttl), Default.ttl * Second)]

(* LoadSignatures, compileAll: the embedded copy is good; a file may be    *)
(* missing or not JSON, hold no pattern, one without an id, or one that    *)
(* does not compile.                                                       *)
SignaturesFail(e) == ~Is(env[e].patterns, {"unset", "usable"})

-----------------------------------------------------------------------------
StartupInit ==
    /\ Init
    /\ env \in Deployments
    /\ phase = [e \in Processes |-> IF e \in Engines THEN "off" ELSE "waiting"]
    /\ config = [e \in Processes |-> <<>>]
    /\ failures = 0

GoOn(e, to) ==
    /\ phase' = [phase EXCEPT ![e] = to]
    /\ UNCHANGED <<vars, env, config, failures>>

(* run returns an error, or the process is killed.                         *)
End(e) ==
    /\ Leave(e)
    /\ phase' = [phase EXCEPT ![e] = "ended"]
    /\ config' = [config EXCEPT ![e] = <<>>]
    /\ UNCHANGED env

(* depends_on: service_healthy, for the first start only.                  *)
Depend(e) ==
    /\ phase[e] = "waiting" /\ \E f \in Engines : phase[f] = "serving"
    /\ GoOn(e, "off")

Restart(e) == phase[e] = "ended" /\ GoOn(e, "off")

(* LoadEngine; LoadDashboard and auth.New.                                 *)
Errors(e) == IF e \in Engines THEN EngineErrors(e) ELSE DashboardErrors(e) \cup NewErrors(e)

Configure(e) ==
    /\ phase[e] = "off" /\ Errors(e) = {}
    /\ phase' = [phase EXCEPT ![e] = "configured"]
    /\ config' = [config EXCEPT ![e] =
                     IF e \in Engines THEN EngineConfig(e) ELSE DashboardConfig(e)]
    /\ UNCHANGED <<vars, env, failures>>

(* NewPostgres: the DSN is parsed, the server is reached.                  *)
Open(e) ==
    /\ phase[e] = "configured" /\ ~Is(env[e].dsn, {"malformed"})
    /\ GoOn(e, "open")

(* migrate.Apply, which only the engine calls.                             *)
MigrateStep(e) ==
    /\ e \in Engines /\ phase[e] = "open"
    /\ Apply(e)
    /\ UNCHANGED <<env, phase, config, failures>>

(* events.NewClient.                                                       *)
Connect(e) ==
    /\ phase[e] = "open" /\ (e \in Engines => at[e] = "done")
    /\ GoOn(e, "connected")

(* NewWriter reads the head of the log.                                    *)
Resume(e) ==
    /\ e \in Engines /\ phase[e] = "connected"
    /\ GoOn(e, "resumed")

(* The rest of run, up to ListenAndServe.                                  *)
Serve(e) ==
    /\ \/ e \in Engines /\ phase[e] = "resumed" /\ ~SignaturesFail(e)
       \/ e \in Dashboards /\ phase[e] = "connected"
    /\ GoOn(e, "serving")

(* What the environment makes fail.                                        *)
Refuse(e) ==
    /\ \/ phase[e] = "off" /\ Errors(e) # {}
       \/ phase[e] = "configured" /\ Is(env[e].dsn, {"malformed"})
       \/ e \in Engines /\ phase[e] = "resumed" /\ SignaturesFail(e)
    /\ End(e)
    /\ UNCHANGED failures

(* A server is not reached, a statement fails, the process is killed.      *)
Fail(e) ==
    /\ phase[e] \notin {"waiting", "off", "ended"} /\ failures < MaxFailures
    /\ failures' = failures + 1
    /\ End(e)

Run(e) ==
    \/ Depend(e) \/ Restart(e) \/ Configure(e) \/ Open(e) \/ MigrateStep(e)
    \/ Connect(e) \/ Resume(e) \/ Serve(e) \/ Refuse(e)

StartupNext == \E e \in Processes : Run(e) \/ Fail(e)

StartupSpec == StartupInit /\ [][StartupNext]_startupVars

(* Every process goes on: its statements end and it is started again.      *)
(* PostgreSQL gives the lock in the order in which it was asked for, so a  *)
(* waiting engine gets it although others come and go.                     *)
FairStartup == StartupSpec /\ \A e \in Processes :
    /\ WF_startupVars(Run(e))
    /\ SF_startupVars(e \in Engines /\ Lock(e) /\ MigrateStep(e))

-----------------------------------------------------------------------------
StartupTypeOK ==
    /\ TypeOK
    /\ env \in Deployments
    /\ phase \in [Processes -> Phases]
    /\ \A e \in Processes : config[e] \in {<<>>, EngineConfig(e), DashboardConfig(e)}
    /\ failures \in 0..MaxFailures

(* What an operator who set the variable asked for, in its own unit, and   *)
(* whether time.Duration can say it.                                       *)
Asked(e, k) == IF env[e][k].kind = "unset" THEN Default[k] ELSE env[e][k].n
Durations == {"window", "ttl"}
Representable(e, k) == env[e][k].kind = "integer" /\ k \in Durations =>
    Asked(e, k) \in -(MaxDuration \div Second)..(MaxDuration \div Second)

(* "A missing or malformed value fails at startup": a process that serves  *)
(* runs with what its environment asks for, or with the default where that *)
(* is no positive number, never with the fallback of a value it could not  *)
(* read; every setting is positive, which the limiter, the queue, the scan *)
(* and the sessions rely on.  It finds its schema: an engine all it was    *)
(* built with, a dashboard that of an engine ("engine: service_healthy").  *)
ServesAsConfigured == \A e \in Processes : phase[e] = "serving" =>
    /\ \A k \in Parsed(e) : env[e][k].kind # "malformed"
    /\ \A s \in DOMAIN config[e] :
          LET k == IF s = "maxScan" THEN "body" ELSE s
              unit == IF k \in Durations THEN Second ELSE 1
              wanted == IF Asked(e, k) > 0 THEN Asked(e, k) ELSE Default[k]
          IN  config[e][s] > 0 /\ (Representable(e, k) => config[e][s] = wanted * unit)
    /\ \E f \in Engines : (e \in Engines => f = e) /\ Release[f] <= Len(schema)

(* An environment nothing is wrong with, as its variables are documented.  *)
Usable(e) ==
    /\ \A k \in Parsed(e) \cup {"dsn"} : env[e][k].kind # "malformed"
    /\ env[e].dsn.kind # "unset"
    /\ e \in Engines =>
          /\ Asked(e, "requests") > 0 /\ Asked(e, "window") > 0 /\ Asked(e, "body") >= 0
          /\ env[e].patterns.kind \in {"unset", "usable"}
    /\ e \in Dashboards => env[e].secret.kind = "usable" /\ env[e].hash.kind = "usable"

InRange(e) == \A k \in Durations : Representable(e, k)

(* A process comes to serve, and goes on, exactly if its environment is    *)
(* usable (a dashboard, if an engine's is): no failure, no lock left       *)
(* behind and no engine that is started over and over keeps another one    *)
(* from its migrations.                                                    *)
StartupEnds == \A e \in Processes :
    /\ [](phase[e] = "serving" /\ InRange(e) => Usable(e))
    /\ <>[](Usable(e) /\ InRange(e)
              /\ (\E f \in Engines : Usable(f) /\ InRange(f)) => phase[e] = "serving")
=============================================================================
